------------------------------ MODULE Gateway ------------------------------
(***************************************************************************)
(* The life of the gateway process, cmd/server/main.go: the HTTP server,   *)
(* the handlers of forwarded requests and the request logger together.     *)
(*                                                                         *)
(* A request is named by the row it leaves, if it leaves one.  net/http is *)
(* modelled from how main uses it: a handler runs on a goroutine of its    *)
(* connection; Shutdown closes the listener and the idle connections and   *)
(* waits, at most ten seconds, for the handlers; nothing stops a handler   *)
(* that is still running then, until main returns.                         *)
(***************************************************************************)
EXTENDS RequestLogger

VARIABLES
    server,     \* where main is with the server
    request     \* where each request is

gatewayVars == <<server, request>>
gvars == <<vars, server, request>>

GTypeOK ==
    /\ TypeOK
    /\ server \in {"starting", "listening", "draining", "drained", "overdue"}
    /\ request \in [Rows -> {"none", "connected", "handling", "answered",
                             "closed"}]

GInit ==
    /\ Init
    /\ server = "starting"
    /\ request = [r \in Rows |-> "none"]

----------------------------------------------------------------------------
(* Requests *)

Move(r, from, to) ==
    /\ Alive
    /\ request[r] = from
    /\ request' = [request EXCEPT ![r] = to]
    /\ UNCHANGED <<vars, server>>

\* A connection is accepted, or kept alive for one more request.
Connect(r) == server = "listening" /\ Move(r, "none", "connected")

\* The request line comes in; Shutdown does not forbid it.
Handle(r) == server # "drained" /\ Move(r, "connected", "handling")

\* No request comes: the client leaves, or Shutdown finds the connection idle.
CloseIdle(r) == Move(r, "connected", "closed")

\* The handler logs one row, after the upstream has answered or failed ...
Log(r) ==
    /\ request[r] = "handling"
    /\ Alive /\ EnqueueStep(r)
    /\ UNCHANGED gatewayVars

\* ... and answers when Enqueue is back; a request refused before it is routed
\* leaves no row.
AnswerRequest(r) == call[r] \in {"idle", "returned"} /\ Move(r, "handling", "answered")

\* The goroutines behind Enqueue.
LoggerStep ==
    /\ Alive
    /\ (\E w \in Workers : WorkerStep(w)) \/ (\E x \in Writers : WriteStep(x))
    /\ UNCHANGED gatewayVars

----------------------------------------------------------------------------
(* main *)

Advance(from, to) ==
    /\ Alive
    /\ server = from
    /\ server' = to
    /\ UNCHANGED <<vars, request>>

\* Load, Open, AutoMigrate, Seed and Refresh have succeeded.
Listen == Advance("starting", "listening")

\* SIGINT or SIGTERM; main calls server.Shutdown.
Signal == Advance("listening", "draining")

DrainedAtOnce ==    \* mutant: Close for Shutdown, nobody waits for the handlers
    Advance("draining", "drained")

Busy(r) == request[r] \in {"connected", "handling"}

\* server.Shutdown returns nil: no connection is left.
Drained == (\A r \in Rows : ~Busy(r)) /\ Advance("draining", "drained")

\* Its context is over first.
Overdue == Advance("draining", "overdue")

ShutdownLoggerFirst ==    \* mutant: the logger is stopped while the server drains
    /\ server \in {"draining", "drained", "overdue"}
    /\ Alive
    /\ ShutdownMark \/ ShutdownClose \/ ShutdownDone \/ ShutdownTimeout
    /\ UNCHANGED gatewayVars

ShutdownLoggerUnbounded ==    \* mutant: context.Background() for logCtx
    /\ server \in {"drained", "overdue"}
    /\ Alive
    /\ ShutdownMark \/ ShutdownClose \/ ShutdownDone
    /\ UNCHANGED gatewayVars

\* requestLogger.Shutdown, whatever server.Shutdown returned.
ShutdownLogger ==
    /\ server \in {"drained", "overdue"}
    /\ Alive
    /\ ShutdownMark \/ ShutdownClose \/ ShutdownDone \/ ShutdownTimeout
    /\ UNCHANGED gatewayVars

MainReturns ==
    /\ shutdown \in {"flushed", "timedout"}
    /\ ProcessExit
    /\ UNCHANGED gatewayVars

\* log.Fatalf, when a step of the start fails or ListenAndServe does; the
\* process can also be killed.
Die == ProcessExit /\ UNCHANGED gatewayVars

Stopped == Gone /\ UNCHANGED gatewayVars

----------------------------------------------------------------------------

GNext ==
    \/ \E r \in Rows :
         Connect(r) \/ Handle(r) \/ CloseIdle(r) \/ Log(r) \/ AnswerRequest(r)
    \/ LoggerStep
    \/ Listen \/ Signal \/ Drained \/ Overdue
    \/ ShutdownLogger \/ MainReturns \/ Die \/ Stopped

GatewaySpec == GInit /\ [][GNext]_gvars

\* Only main is sure to go on: an upstream or the database may hang for ever,
\* and with it every handler and worker.  The two deadlines are Go timers.
FairGatewaySpec ==
    /\ GatewaySpec
    /\ WF_gvars(Drained \/ Overdue)
    /\ WF_gvars(ShutdownLogger)
    /\ WF_gvars(MainReturns)

----------------------------------------------------------------------------

\* A stop in which neither deadline passes loses nothing: when the server is
\* drained and the logger has flushed, no handler, queue or worker holds a row,
\* and the row of every forwarded request is in the table or was given up by
\* the enqueue timer or by writeWithRetry (main.go:78-86).
CleanStop ==
    server = "drained" /\ shutdown = "flushed" =>
        \A r \in Rows :
            /\ ~Busy(r) /\ ~Held(r)
            /\ call[r] # "idle" => stored[r] > 0 \/ r \in failed \cup dropped

\* "avoids that forwarded requests are blocked by database IO", as
\* config.yaml:22 says of the asynchronous log: no handler waits for the
\* database instead of the queue, unless the server has overrun its ten seconds
\* and the logger stops under it (main.go:78-86, request_logger.go:62-66).
HandlersOffDatabase ==
    \A r \in Rows : Async /\ call[r] = "write" => server = "overdue"

\* A signal ends the process even when the upstream and the database hang for
\* ever: each wait of main has its deadline.
SignalEnds == server = "draining" ~> ~Alive

============================================================================
