SPECIFICATION Spec
CONSTANTS
    r1 = r1
    r2 = r2
    r3 = r3
    w1 = w1
    w2 = w2
    Rows = {r1, r2, r3}
    Workers = {w1, w2}
    QueueSize = 2
    BatchSize = 2
    MaxRetries = 1
    Async = TRUE
    BadRows = {r1}
    Faults = {"refused", "lostAck"}
SYMMETRY Interchangeable
INVARIANTS
    TypeOK
    OneFate
    NoRowForgotten
    GracefulFlush
PROPERTY
    ImplementsSink
