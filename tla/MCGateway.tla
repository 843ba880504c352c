----------------------------- MODULE MCGateway -----------------------------
(***************************************************************************)
(* Bounds for Gateway.  Two requests, so that one can be in its handler    *)
(* while the row of the other is queued or written; a queue of one and two *)
(* workers, so that both a full queue and a shared drain happen.  The      *)
(* sizes are those of a configuration file that gives a queue and a batch  *)
(* and no more: workers and retries are the defaults.                      *)
(***************************************************************************)
EXTENDS Gateway, Config

CONSTANTS r1, r2, w1, w2

Configured ==
    NumbersWithDefaults(
        [f \in DOMAIN DefaultNumbers |->
            IF f = "queue_size" THEN 1 ELSE IF f = "batch_size" THEN 2 ELSE 0])

ConfiguredQueueSize  == Configured.queue_size
ConfiguredBatchSize  == Configured.batch_size
ConfiguredMaxRetries == Configured.max_retries
ConfiguredAsync      == IsAsyncRequestLog(Nil)

ASSUME TwoWorkers == Cardinality(Workers) = Configured.worker_count

============================================================================
