--------------------------- MODULE RequestLogger ---------------------------
(***************************************************************************)
(* The asynchronous request logger, internal/service/request_logger.go,    *)
(* from NewRequestLogger to the end of the process that owns it.           *)
(*                                                                         *)
(* Request goroutines call Enqueue, once per log row, so a row names its   *)
(* call.  A row goes through the bounded channel `queue` to one of the     *)
(* worker goroutines, which gathers a batch and writes it to the database; *)
(* a caller that finds the logger stopped, or a logger configured to be    *)
(* synchronous, writes its row itself.  main calls Shutdown once, after    *)
(* http.Server.Shutdown: that call gives up after ten seconds, so request  *)
(* goroutines may still call Enqueue during and after Shutdown.            *)
(***************************************************************************)
EXTENDS Integers, Sequences, FiniteSets, Functions

CONSTANTS
    Rows,        \* the log rows, one Enqueue call each
    Workers,     \* the goroutines NewRequestLogger starts
    QueueSize,   \* logging.queue_size
    BatchSize,   \* logging.batch_size
    MaxRetries,  \* logging.max_retries
    Async,       \* logging.async_request_log
    BadRows,     \* rows the table refuses, e.g. a request id of over 64 chars
    Faults       \* the transient database faults that can happen

\* applyDefaults leaves the sizes at least 1 (a max_retries of 0 becomes 3).
ASSUME LoggerAssumption ==
    /\ Workers # {} /\ Rows \cap Workers = {}
    /\ QueueSize \in Nat \ {0}
    /\ BatchSize \in Nat \ {0}
    /\ MaxRetries \in Nat \ {0}
    /\ Async \in BOOLEAN
    /\ BadRows \subseteq Rows
    /\ Faults \subseteq {"refused", "lostAck"}

Writers == Rows \cup Workers    \* the goroutines that run writeWithRetry

VARIABLES
    queue,     \* l.queue, a buffered channel
    stopped,   \* l.stopped
    closed,    \* is l.stopCh closed?
    call,      \* where each Enqueue call is
    mode,      \* where each worker is
    batch,     \* each worker's `batch`
    job,       \* the rows of the writeWithRetry in progress; {} when there is none
    attempt,   \* its loop counter
    shutdown,  \* where main is, from serving to the exit of the process
    stored,    \* how many copies of each row the table holds
    dropped,   \* rows given up by the enqueue timer
    failed,    \* rows given up by writeWithRetry
    accepted   \* history: rows sent to the queue before stopCh was closed

vars == <<queue, stopped, closed, call, mode, batch, job, attempt, shutdown,
          stored, dropped, failed, accepted>>

workerVars == <<mode, batch>>
tableVars  == <<stored, failed>>
stopVars   == <<stopped, closed, shutdown>>

TypeOK ==
    /\ queue \in Seq(Rows)
    /\ Len(queue) <= QueueSize
    /\ stopped \in BOOLEAN
    /\ closed \in BOOLEAN
    /\ call \in [Rows -> {"idle", "select", "write", "returned"}]
    /\ mode \in [Workers -> {"loop", "drain", "final", "exited"}]
    /\ batch \in [Workers -> SUBSET Rows]
    /\ job \in [Writers -> SUBSET Rows]
    /\ attempt \in [Writers -> 0..MaxRetries]
    /\ shutdown \in {"serving", "marked", "waiting", "flushed", "timedout",
                     "exited"}
    /\ stored \in [Rows -> Nat]
    /\ dropped \in SUBSET Rows
    /\ failed \in SUBSET Rows
    /\ accepted \in SUBSET Rows

\* A synchronous logger starts no worker: its worker goroutines never run.
Init ==
    /\ queue = <<>>
    /\ stopped = FALSE
    /\ closed = FALSE
    /\ call = [r \in Rows |-> "idle"]
    /\ mode = [w \in Workers |-> IF Async THEN "loop" ELSE "exited"]
    /\ batch = [w \in Workers |-> {}]
    /\ job = [x \in Writers |-> {}]
    /\ attempt = [x \in Writers |-> 0]
    /\ shutdown = "serving"
    /\ stored = [r \in Rows |-> 0]
    /\ dropped = {}
    /\ failed = {}
    /\ accepted = {}

----------------------------------------------------------------------------
(* Enqueue, on the goroutine of a request *)

\* The call enters writeWithRetry with its one row.
WriteOwnRow(r) ==
    /\ call' = [call EXCEPT ![r] = "write"]
    /\ job' = [job EXCEPT ![r] = {r}]

\* A synchronous logger, or one already stopped: write here.
EnqueueDirect(r) ==
    /\ call[r] = "idle"
    /\ ~Async \/ stopped
    /\ WriteOwnRow(r)
    /\ UNCHANGED <<queue, stopVars, workerVars, attempt, tableVars, dropped,
                   accepted>>

\* `stopped` was read FALSE: start the timer and enter the select.
EnqueueSelect(r) ==
    /\ call[r] = "idle"
    /\ Async /\ ~stopped
    /\ call' = [call EXCEPT ![r] = "select"]
    /\ UNCHANGED <<queue, stopVars, workerVars, job, attempt, tableVars,
                   dropped, accepted>>

SelectSendUnbounded(r) ==    \* mutant: the channel has no capacity
    /\ call[r] = "select"
    /\ queue' = Append(queue, r)
    /\ call' = [call EXCEPT ![r] = "returned"]
    /\ accepted' = IF closed THEN accepted ELSE accepted \cup {r}
    /\ UNCHANGED <<stopVars, workerVars, job, attempt, tableVars, dropped>>

\* The three cases of the select.  Go picks any case that is ready, so room in
\* the queue does not keep the other two from being taken.
SelectSend(r) ==
    /\ call[r] = "select"
    /\ Len(queue) < QueueSize
    /\ queue' = Append(queue, r)
    /\ call' = [call EXCEPT ![r] = "returned"]
    /\ accepted' = IF closed THEN accepted ELSE accepted \cup {r}
    /\ UNCHANGED <<stopVars, workerVars, job, attempt, tableVars, dropped>>

SelectTimer(r) ==
    /\ call[r] = "select"
    /\ call' = [call EXCEPT ![r] = "returned"]
    /\ dropped' = dropped \cup {r}
    /\ UNCHANGED <<queue, stopVars, workerVars, job, attempt, tableVars,
                   accepted>>

SelectStop(r) ==
    /\ call[r] = "select"
    /\ closed
    /\ WriteOwnRow(r)
    /\ UNCHANGED <<queue, stopVars, workerVars, attempt, tableVars, dropped,
                   accepted>>

----------------------------------------------------------------------------
(* worker *)

FlushKeepingBatch(w, rows) ==    \* mutant: `batch = batch[:0]` is missing
    /\ batch' = [batch EXCEPT ![w] = rows]
    /\ job' = [job EXCEPT ![w] = rows]

FlushForgettingRows(w, rows) ==    \* mutant: truncated before it is copied
    /\ batch' = [batch EXCEPT ![w] = {}]
    /\ UNCHANGED job

\* The closure `flush`: hand the rows gathered so far to writeWithRetry and
\* keep an empty batch; no rows, nothing to write.
Flush(w, rows) ==
    /\ batch' = [batch EXCEPT ![w] = {}]
    /\ job' = [job EXCEPT ![w] = rows]

\* A worker is back in one of its selects, not inside flush.
Selecting(w, m) == mode[w] = m /\ job[w] = {}

ReceiveFlushingLate(w) ==    \* mutant: > for >= in the batch test
    /\ Selecting(w, "loop") \/ Selecting(w, "drain")
    /\ queue # <<>>
    /\ queue' = Tail(queue)
    /\ LET rows == batch[w] \cup {Head(queue)} IN
         IF Cardinality(rows) > BatchSize
           THEN Flush(w, rows)
           ELSE batch' = [batch EXCEPT ![w] = rows] /\ UNCHANGED job
    /\ UNCHANGED <<stopVars, call, mode, attempt, tableVars, dropped, accepted>>

\* Both selects receive alike: append, and flush a full batch.
Receive(w) ==
    /\ Selecting(w, "loop") \/ Selecting(w, "drain")
    /\ queue # <<>>
    /\ queue' = Tail(queue)
    /\ LET rows == batch[w] \cup {Head(queue)} IN
         IF Cardinality(rows) >= BatchSize
           THEN Flush(w, rows)
           ELSE batch' = [batch EXCEPT ![w] = rows] /\ UNCHANGED job
    /\ UNCHANGED <<stopVars, call, mode, attempt, tableVars, dropped, accepted>>

TickFullOnly(w) ==    \* mutant: the ticker flushes full batches only
    /\ Selecting(w, "loop")
    /\ Cardinality(batch[w]) >= BatchSize
    /\ Flush(w, batch[w])
    /\ UNCHANGED <<queue, stopVars, call, mode, attempt, tableVars, dropped,
                   accepted>>

Tick(w) ==
    /\ Selecting(w, "loop")
    /\ batch[w] # {}
    /\ Flush(w, batch[w])
    /\ UNCHANGED <<queue, stopVars, call, mode, attempt, tableVars, dropped,
                   accepted>>

SeeStopWithoutDrain(w) ==    \* mutant: flush and return, no draining loop
    /\ Selecting(w, "loop")
    /\ closed
    /\ mode' = [mode EXCEPT ![w] = "final"]
    /\ Flush(w, batch[w])
    /\ UNCHANGED <<queue, stopVars, call, attempt, tableVars, dropped, accepted>>

SeeStop(w) ==
    /\ Selecting(w, "loop")
    /\ closed
    /\ mode' = [mode EXCEPT ![w] = "drain"]
    /\ Flush(w, batch[w])
    /\ UNCHANGED <<queue, stopVars, call, attempt, tableVars, dropped, accepted>>

\* The default case of the draining select: the last flush.
DrainDone(w) ==
    /\ Selecting(w, "drain")
    /\ queue = <<>>
    /\ mode' = [mode EXCEPT ![w] = "final"]
    /\ Flush(w, batch[w])
    /\ UNCHANGED <<queue, stopVars, call, attempt, tableVars, dropped, accepted>>

WorkerReturnWithoutDone(w) ==    \* mutant: `defer l.wg.Done()` is missing
    /\ Selecting(w, "final")
    /\ UNCHANGED vars

\* return, and the deferred wg.Done.
WorkerReturn(w) ==
    /\ Selecting(w, "final")
    /\ mode' = [mode EXCEPT ![w] = "exited"]
    /\ UNCHANGED <<queue, stopVars, call, batch, job, attempt, tableVars,
                   dropped, accepted>>

----------------------------------------------------------------------------
(* writeWithRetry, on a worker or on the goroutine of a request *)

\* The insert commits: every row of the job, in one transaction.
StoreJob(x) ==
    stored' = [r \in Rows |-> IF r \in job[x] THEN stored[r] + 1 ELSE stored[r]]

\* writeWithRetry returns; a caller that wrote its own row returns with it.
WriteReturns(x) ==
    /\ job' = [job EXCEPT ![x] = {}]
    /\ attempt' = [attempt EXCEPT ![x] = 0]
    /\ call' = [r \in Rows |-> IF r = x THEN "returned" ELSE call[r]]

WriteOK(x) ==
    /\ job[x] # {}
    /\ job[x] \cap BadRows = {}
    /\ StoreJob(x)
    /\ WriteReturns(x)
    /\ UNCHANGED <<queue, stopVars, workerVars, failed, dropped, accepted>>

\* What an attempt that returns an error leaves in the table: nothing when a
\* row is refused or the database is away, the rows when only the
\* acknowledgement of the commit was lost.
AttemptFails(x) ==
    \/ job[x] \cap BadRows # {} /\ UNCHANGED stored
    \/ "refused" \in Faults /\ UNCHANGED stored
    \/ "lostAck" \in Faults /\ job[x] \cap BadRows = {} /\ StoreJob(x)

WriteRetryForever(x) ==    \* mutant: the attempt counter does not advance
    /\ job[x] # {}
    /\ attempt[x] < MaxRetries
    /\ AttemptFails(x)
    /\ UNCHANGED vars

WriteRetry(x) ==
    /\ job[x] # {}
    /\ attempt[x] < MaxRetries
    /\ AttemptFails(x)
    /\ attempt' = [attempt EXCEPT ![x] = @ + 1]
    /\ UNCHANGED <<queue, stopVars, call, workerVars, job, failed, dropped,
                   accepted>>

WriteGiveUp(x) ==
    /\ job[x] # {}
    /\ attempt[x] = MaxRetries
    /\ AttemptFails(x)
    /\ failed' = failed \cup job[x]
    /\ WriteReturns(x)
    /\ UNCHANGED <<queue, stopVars, workerVars, dropped, accepted>>

----------------------------------------------------------------------------
(* Shutdown, called by main when the HTTP server is down or its ten seconds
   are over, and the end of the process *)

\* A synchronous logger has no worker to stop.
ShutdownMark ==
    /\ shutdown = "serving"
    /\ IF Async THEN stopped' = TRUE /\ shutdown' = "marked"
                ELSE shutdown' = "flushed" /\ UNCHANGED stopped
    /\ UNCHANGED <<queue, closed, call, workerVars, job, attempt, tableVars,
                   dropped, accepted>>

ShutdownClose ==
    /\ shutdown = "marked"
    /\ closed' = TRUE
    /\ shutdown' = "waiting"
    /\ UNCHANGED <<queue, stopped, call, workerVars, job, attempt, tableVars,
                   dropped, accepted>>

ShutdownDone ==
    /\ shutdown = "waiting"
    /\ \A w \in Workers : mode[w] = "exited"
    /\ shutdown' = "flushed"
    /\ UNCHANGED <<queue, stopped, closed, call, workerVars, job, attempt,
                   tableVars, dropped, accepted>>

ShutdownTimeout ==
    /\ shutdown = "waiting"
    /\ shutdown' = "timedout"
    /\ UNCHANGED <<queue, stopped, closed, call, workerVars, job, attempt,
                   tableVars, dropped, accepted>>

\* The process ends, whatever its goroutines are doing: main returns, the server
\* fails and log.Fatalf exits without a Shutdown, or the process is killed.
ProcessExit ==
    /\ shutdown # "exited"
    /\ shutdown' = "exited"
    /\ UNCHANGED <<queue, stopped, closed, call, workerVars, job, attempt,
                   tableVars, dropped, accepted>>

Gone == shutdown = "exited" /\ UNCHANGED vars

----------------------------------------------------------------------------

EnqueueStep(r) ==
    \/ EnqueueDirect(r) \/ EnqueueSelect(r)
    \/ SelectSend(r) \/ SelectTimer(r) \/ SelectStop(r)

WorkerStep(w) ==
    Receive(w) \/ Tick(w) \/ SeeStop(w) \/ DrainDone(w) \/ WorkerReturn(w)

WriteStep(x) == WriteOK(x) \/ WriteRetry(x) \/ WriteGiveUp(x)

ShutdownStep ==
    \/ ShutdownMark \/ ShutdownClose \/ ShutdownDone \/ ShutdownTimeout
    \/ ProcessExit

Alive == shutdown # "exited"

Next ==
    \/ Alive /\ \E r \in Rows : EnqueueStep(r)
    \/ Alive /\ \E w \in Workers : WorkerStep(w)
    \/ Alive /\ \E x \in Writers : WriteStep(x)
    \/ ShutdownStep
    \/ Gone

Spec == Init /\ [][Next]_vars

\* The Go scheduler runs every goroutine that can run; a call that waits in its
\* select is woken by its timer at the latest, a worker by its ticker.  That a
\* request arrives, that a signal stops the server, or that the shutdown
\* deadline passes is not assumed.
FairSpec ==
    /\ Spec
    /\ \A r \in Rows :
         WF_vars(Alive /\ (SelectSend(r) \/ SelectTimer(r) \/ SelectStop(r)))
    /\ \A w \in Workers : WF_vars(Alive /\ WorkerStep(w))
    /\ \A x \in Writers : WF_vars(Alive /\ WriteStep(x))
    /\ WF_vars(ShutdownClose) /\ WF_vars(ShutdownDone)

----------------------------------------------------------------------------
(* Safety *)

\* A row that the channel or some goroutine holds.
Held(r) ==
    \/ r \in Range(queue)
    \/ \E w \in Workers : r \in batch[w]
    \/ \E x \in Writers : r \in job[x]

\* A row that is held, in the table, or counted as given up.
Known(r) == Held(r) \/ stored[r] > 0 \/ r \in dropped \cup failed

\* A row whose call is past its select is never forgotten, while it is handed
\* on by appending, copying and truncating slices (request_logger.go:42-132).
NoRowForgotten ==
    \A r \in Rows : call[r] \in {"write", "returned"} => Known(r)

\* A row that the enqueue timer gave up never appears in the table or among the
\* failures; and a row is inserted at most once, and not both inserted and
\* given up, except that each lost acknowledgement of a commit may add a copy
\* when writeWithRetry tries again (request_logger.go:140-149).
OneFate ==
    \A r \in Rows :
        /\ r \in dropped => stored[r] = 0 /\ r \notin failed
        /\ stored[r] <= MaxRetries + 1
        /\ "lostAck" \notin Faults =>
             stored[r] <= 1 /\ (r \in failed => stored[r] = 0)

\* When Shutdown returns because its workers are done, every row that was
\* queued before stopCh was closed is in the table or was given up by
\* writeWithRetry, however the two workers shared the queue while draining
\* (request_logger.go:116-129).
GracefulFlush ==
    shutdown = "flushed" => \A r \in accepted : stored[r] > 0 \/ r \in failed

(* Liveness *)

\* Enqueue always returns: the timer bounds the select and max_retries bounds
\* the write, also while the logger shuts down.
EnqueueReturns ==
    \A r \in Rows : call[r] \in {"select", "write"} ~>
                        (call[r] = "returned" \/ ~Alive)

\* A row queued before the shutdown is settled without any further traffic:
\* a partial batch is flushed by the ticker or by the drain.
AcceptedSettle ==
    \A r \in Rows : r \in accepted ~> (stored[r] > 0 \/ r \in failed \/ ~Alive)

\* Once stopCh is closed the wait in Shutdown ends even without its deadline:
\* no worker waits for another one or for a caller.
ShutdownReturns == closed ~> shutdown \in {"flushed", "timedout", "exited"}

(* What the callers were promised *)

\* A row in the table is stored, also when its acknowledgement was lost and
\* writeWithRetry gave it up.  One the process held when it ended is gone.
FateOf(r) ==
    IF stored[r] > 0 THEN "stored"
    ELSE IF r \in failed THEN "failed"
    ELSE IF r \in dropped THEN "dropped"
    ELSE IF ~Held(r) THEN "new"
    ELSE IF Alive THEN "held" ELSE "gone"

Sink == INSTANCE LogSink WITH fate <- [r \in Rows |-> FateOf(r)], up <- Alive

\* The logger implements the sink: no step loses a row, changes the fate of a
\* settled one, or settles more than one batch at a time.
ImplementsSink == Sink!Spec

============================================================================
