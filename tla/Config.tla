------------------------------- MODULE Config -------------------------------
(***************************************************************************)
(* What Load makes of the configuration file, internal/config/config.go.   *)
(* The decoder leaves a number that the file does not give at 0, a text at *)
(* "" and the flag async_request_log nil, which is told from FALSE.        *)
(***************************************************************************)
EXTENDS Integers

CONSTANT Nil    \* a flag that the file does not give

DefaultNumbers ==
    [upstream_timeout_seconds |-> 180,
     max_open_conns |-> 30, max_idle_conns |-> 10,
     conn_max_lifetime_seconds |-> 1800,
     queue_size |-> 2000, worker_count |-> 2, batch_size |-> 50,
     flush_interval_ms |-> 1000, max_retries |-> 3, retry_interval_ms |-> 300,
     enqueue_timeout_ms |-> 10, max_payload_bytes |-> 10 * 1024 * 1024,
     sync_on_shutdown_seconds |-> 5]

DefaultTexts ==
    [addr |-> ":8088", jwt_secret |-> "please-change-this-secret",
     driver |-> "postgres", username |-> "admin", password |-> "admin123456"]

Numbers == [DOMAIN DefaultNumbers -> Int]
Texts   == [DOMAIN DefaultTexts -> STRING]

\* A zero cannot be configured: there is no logger without retries, and no
\* enqueue that gives up at once.
NumbersWithDefaults(read) ==
    [f \in DOMAIN DefaultNumbers |->
        IF read[f] <= 0 THEN DefaultNumbers[f] ELSE read[f]]

TextsWithDefaults(read) ==
    [f \in DOMAIN DefaultTexts |->
        IF read[f] = "" THEN DefaultTexts[f] ELSE read[f]]

IsAsyncRequestLog(flag) == flag # FALSE

============================================================================
