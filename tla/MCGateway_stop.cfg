SPECIFICATION FairGatewaySpec
CONSTANTS
    Nil = Nil
    r1 = r1
    r2 = r2
    w1 = w1
    w2 = w2
    Rows = {r1, r2}
    Workers = {w1, w2}
    QueueSize <- ConfiguredQueueSize
    BatchSize <- ConfiguredBatchSize
    MaxRetries <- ConfiguredMaxRetries
    Async <- ConfiguredAsync
    BadRows = {r1}
    Faults = {"refused", "lostAck"}
INVARIANTS
    GTypeOK
    CleanStop
    HandlersOffDatabase
PROPERTY
    SignalEnds
