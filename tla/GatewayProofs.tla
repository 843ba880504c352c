--------------------------- MODULE GatewayProofs ----------------------------
(***************************************************************************)
(* What the request logger and the process around it guarantee, for every  *)
(* number of rows, requests and workers, every size and every choice of    *)
(* faults.  First the logger by itself:                                    *)
(*                                                                         *)
(*   TypeOK        is inductive by itself.                                 *)
(*   Custody       says where rows are while a call or a worker is busy;   *)
(*                 with TypeOK it is inductive and gives NoRowForgotten.   *)
(*   DrainOrder    says what a worker has left behind when it has passed   *)
(*                 each stage of its drain; it gives GracefulFlush.        *)
(*   SoleCustody   says that a row is in one place at a time, and what can *)
(*                 have become of it there; it gives OneFate.              *)
(*   Batching      says that no batch and no job outgrows batch_size and   *)
(*                 that the rows of one job have been inserted equally     *)
(*                 often, so that a step of writeWithRetry settles its     *)
(*                 whole job or none of it: the logger implements LogSink. *)
(*                                                                         *)
(* GatewaySpec implies the specification of the logger, so all of this     *)
(* holds inside the process; with Quiet, which says what a drained server  *)
(* means for the logger, a clean stop loses no row.                        *)
(***************************************************************************)
EXTENDS Gateway, Config, SequenceTheorems, FiniteSetTheorems, TLAPS

\* A row being written by its caller is in the job of that caller, no caller
\* writes anything else, and the history `accepted` holds returned calls only.
Custody ==
    /\ \A r \in Rows : call[r] = "write" => r \in job[r]
    /\ \A r \in Rows : job[r] # {} => call[r] = "write"
    /\ \A r \in accepted : call[r] = "returned"
    /\ NoRowForgotten

\* Where an accepted row can be: with the channel, with a worker, or settled.
InGoodHands(r) ==
    \/ r \in Range(queue)
    \/ \E w \in Workers : r \in batch[w] \/ r \in job[w]
    \/ stored[r] > 0
    \/ r \in failed

Draining(w) == mode[w] \in {"final", "exited"}

\* No worker leaves its loop before stopCh is closed; the first worker to find
\* the channel empty finds it empty of accepted rows, and none comes later; a
\* worker past its drain holds no batch and one that returned no job.
DrainOrder ==
    /\ ~closed => \A w \in Workers : mode[w] = "loop" \/ ~Async
    /\ ~Async => accepted = {}
    /\ \A r \in Rows : call[r] = "select" => Async
    /\ Async => \A w \in Workers : Draining(w) => Range(queue) \cap accepted = {}
    /\ \A w \in Workers : Draining(w) => batch[w] = {}
    /\ \A w \in Workers : mode[w] = "exited" => job[w] = {}
    /\ \A r \in accepted : InGoodHands(r)
    /\ shutdown = "flushed" => ~Async \/ \A w \in Workers : mode[w] = "exited"

IInv == TypeOK /\ Custody /\ DrainOrder

------------------------------------------------------------------------------
(* The channel as a sequence *)

\* Appending to the channel adds one element to it.
LEMMA RangeAppend ==
    ASSUME NEW S, NEW q \in Seq(S), NEW e \in S
    PROVE  Range(Append(q, e)) = Range(q) \cup {e}
<1>1. /\ Append(q, e) \in Seq(S)
      /\ Len(Append(q, e)) = Len(q) + 1
      /\ \A i \in 1..Len(q) : Append(q, e)[i] = q[i]
      /\ Append(q, e)[Len(q) + 1] = e
  BY AppendProperties
<1>2. Range(q) = {q[i] : i \in 1..Len(q)}
  BY RangeEquality
<1>3. Range(Append(q, e)) = {Append(q, e)[i] : i \in 1..Len(q) + 1}
  BY <1>1, RangeEquality
<1>4. Len(q) \in Nat
  BY LenProperties
<1>5. ASSUME NEW x PROVE x \in Range(Append(q, e)) <=> x \in Range(q) \/ x = e
  BY <1>1, <1>2, <1>3, <1>4
<1> QED BY <1>5

\* Receiving takes the head from the channel and nothing else.
LEMMA RangeTail ==
    ASSUME NEW S, NEW q \in Seq(S), q # <<>>
    PROVE  /\ Head(q) \in S
           /\ Tail(q) \in Seq(S)
           /\ Len(Tail(q)) = Len(q) - 1
           /\ Range(q) = Range(Tail(q)) \cup {Head(q)}
<1>1. /\ Head(q) \in S
      /\ Tail(q) \in Seq(S)
      /\ Len(Tail(q)) = Len(q) - 1
      /\ \A i \in 1..Len(Tail(q)) : Tail(q)[i] = q[i + 1]
  BY HeadTailProperties
<1>2. Len(q) \in Nat /\ Len(q) # 0
  BY LenProperties, EmptySeq
<1>3. Head(q) = q[1]
  BY HeadTailProperties
<1>4. Range(q) = {q[i] : i \in 1..Len(q)}
  BY RangeEquality
<1>5. Range(Tail(q)) = {Tail(q)[i] : i \in 1..Len(Tail(q))}
  BY <1>1, RangeEquality
<1>6. ASSUME NEW x \in Range(q) PROVE x \in Range(Tail(q)) \cup {Head(q)}
  <2>1. PICK i \in 1..Len(q) : x = q[i]
    BY <1>4
  <2>2. CASE i = 1
    BY <2>1, <2>2, <1>3
  <2>3. CASE i # 1
    <3>1. i - 1 \in 1..Len(Tail(q)) /\ (i - 1) + 1 = i
      BY <2>1, <2>3, <1>1, <1>2
    <3>2. Tail(q)[i - 1] = q[i]
      BY <3>1, <1>1
    <3> QED BY <3>1, <3>2, <2>1, <1>5
  <2> QED BY <2>2, <2>3
<1>7. ASSUME NEW x \in Range(Tail(q)) \cup {Head(q)} PROVE x \in Range(q)
  <2>1. CASE x = Head(q)
    BY <2>1, <1>2, <1>3, <1>4
  <2>2. CASE x \in Range(Tail(q))
    <3>1. PICK i \in 1..Len(Tail(q)) : x = Tail(q)[i]
      BY <2>2, <1>5
    <3>2. i + 1 \in 1..Len(q) /\ x = q[i + 1]
      BY <3>1, <1>1, <1>2
    <3> QED BY <3>2, <1>4
  <2> QED BY <1>7, <2>1, <2>2
<1> QED BY <1>1, <1>6, <1>7

------------------------------------------------------------------------------
(* Type correctness *)

LEMMA InitTypeOK == Init => TypeOK
<1> SUFFICES ASSUME Init PROVE TypeOK
  OBVIOUS
<1>1. <<>> \in Seq(Rows) /\ Len(<<>>) = 0
  BY EmptySeq
<1>2. 0 \in 0..MaxRetries /\ 0 <= QueueSize
  BY LoggerAssumption
<1>3. mode \in [Workers -> {"loop", "drain", "final", "exited"}]
  BY DEF Init
<1>4. attempt \in [Writers -> 0..MaxRetries]
  BY <1>2 DEF Init
<1> QED BY <1>1, <1>2, <1>3, <1>4 DEF Init, TypeOK

\* Every step of a call of Enqueue keeps the types.
LEMMA EnqueueTypeOK ==
    ASSUME TypeOK, NEW r \in Rows, EnqueueStep(r)
    PROVE  TypeOK'
<1> USE LoggerAssumption DEF TypeOK, stopVars, workerVars, tableVars, Writers
<1>1. CASE EnqueueDirect(r)
  BY <1>1 DEF EnqueueDirect, WriteOwnRow
<1>2. CASE EnqueueSelect(r)
  BY <1>2 DEF EnqueueSelect
<1>3. CASE SelectSend(r)
  <2>1. queue' \in Seq(Rows) /\ Len(queue') = Len(queue) + 1
    BY <1>3, AppendProperties DEF SelectSend
  <2>2. Len(queue) \in Nat /\ Len(queue) < QueueSize
    BY <1>3, LenProperties DEF SelectSend
  <2> QED BY <1>3, <2>1, <2>2 DEF SelectSend
<1>4. CASE SelectTimer(r)
  BY <1>4 DEF SelectTimer
<1>5. CASE SelectStop(r)
  BY <1>5 DEF SelectStop, WriteOwnRow
<1> QED BY <1>1, <1>2, <1>3, <1>4, <1>5 DEF EnqueueStep

\* Every step of a worker outside writeWithRetry keeps the types.
LEMMA WorkerTypeOK ==
    ASSUME TypeOK, NEW w \in Workers, WorkerStep(w)
    PROVE  TypeOK'
<1> USE LoggerAssumption DEF TypeOK, stopVars, workerVars, tableVars, Writers
<1>1. CASE Receive(w)
  <2>1. /\ Head(queue) \in Rows
        /\ queue' \in Seq(Rows)
        /\ Len(queue') = Len(queue) - 1
    BY <1>1, RangeTail DEF Receive
  <2>2. Len(queue') <= QueueSize
    BY <2>1, LenProperties
  <2>3. batch' \in [Workers -> SUBSET Rows] /\ job' \in [Writers -> SUBSET Rows]
    <3> DEFINE rows == batch[w] \cup {Head(queue)}
    <3>1. rows \in SUBSET Rows
      BY <2>1
    <3> HIDE DEF rows
    <3>2. CASE Flush(w, rows)
      BY <3>1, <3>2 DEF Flush
    <3>3. CASE batch' = [batch EXCEPT ![w] = rows] /\ UNCHANGED job
      BY <3>1, <3>3
    <3> QED BY <1>1, <3>2, <3>3 DEF Receive, rows
  <2> QED BY <1>1, <2>1, <2>2, <2>3 DEF Receive
<1>2. CASE Tick(w)
  BY <1>2 DEF Tick, Flush
<1>3. CASE SeeStop(w)
  BY <1>3 DEF SeeStop, Flush
<1>4. CASE DrainDone(w)
  BY <1>4 DEF DrainDone, Flush
<1>5. CASE WorkerReturn(w)
  BY <1>5 DEF WorkerReturn
<1> QED BY <1>1, <1>2, <1>3, <1>4, <1>5 DEF WorkerStep

\* A committed insert keeps counting copies.
LEMMA StoreJobType ==
    ASSUME TypeOK, NEW x \in Writers, StoreJob(x)
    PROVE  /\ stored' \in [Rows -> Nat]
           /\ \A r \in Rows : stored'[r] >= stored[r]
           /\ \A r \in job[x] : stored'[r] > 0
BY DEF TypeOK, StoreJob

LEMMA AttemptFailsType ==
    ASSUME TypeOK, NEW x \in Writers, AttemptFails(x)
    PROVE  /\ stored' \in [Rows -> Nat]
           /\ \A r \in Rows : stored'[r] >= stored[r]
BY StoreJobType DEF TypeOK, AttemptFails

\* Every step of writeWithRetry keeps the types.
LEMMA WriteTypeOK ==
    ASSUME TypeOK, NEW x \in Writers, WriteStep(x)
    PROVE  TypeOK'
<1> USE LoggerAssumption DEF TypeOK, stopVars, workerVars, tableVars, Writers
<1>1. CASE WriteOK(x)
  BY <1>1, StoreJobType DEF WriteOK, WriteReturns
<1>2. CASE WriteRetry(x)
  BY <1>2, AttemptFailsType DEF WriteRetry
<1>3. CASE WriteGiveUp(x)
  BY <1>3, AttemptFailsType DEF WriteGiveUp, WriteReturns
<1> QED BY <1>1, <1>2, <1>3 DEF WriteStep

LEMMA ShutdownTypeOK ==
    ASSUME TypeOK, ShutdownStep
    PROVE  TypeOK'
BY DEF TypeOK, stopVars, workerVars, tableVars, ShutdownStep, ShutdownMark,
       ShutdownClose, ShutdownDone, ShutdownTimeout, ProcessExit

LEMMA NextTypeOK == TypeOK /\ [Next]_vars => TypeOK'
<1> SUFFICES ASSUME TypeOK, [Next]_vars PROVE TypeOK'
  OBVIOUS
<1>1. CASE UNCHANGED vars
  BY <1>1 DEF TypeOK, vars
<1>2. CASE Next
  BY <1>1, <1>2, EnqueueTypeOK, WorkerTypeOK, WriteTypeOK, ShutdownTypeOK
     DEF Next, Gone
<1> QED BY <1>1, <1>2

\* The channel never holds more than queue_size rows, and every other variable
\* keeps its type, in every reachable state.
THEOREM TypeCorrect == Spec => []TypeOK
BY InitTypeOK, NextTypeOK, PTL DEF Spec

------------------------------------------------------------------------------
(* Custody of the rows *)

LEMMA InitCustody == Init => Custody
BY DEF Init, Custody, NoRowForgotten, Writers

LEMMA EnqueueCustody ==
    ASSUME TypeOK, Custody, NEW r \in Rows, EnqueueStep(r)
    PROVE  Custody'
<1> USE LoggerAssumption DEF stopVars, workerVars, tableVars, Writers, Custody,
                             NoRowForgotten, Known, Held
<1>t. /\ queue \in Seq(Rows)
      /\ call \in [Rows -> {"idle", "select", "write", "returned"}]
      /\ job \in [Writers -> SUBSET Rows]
      /\ accepted \in SUBSET Rows
  BY DEF TypeOK
<1>a. CASE /\ WriteOwnRow(r)
           /\ call[r] \in {"idle", "select"}
           /\ UNCHANGED <<queue, batch, stored, dropped, failed, accepted>>
  <2>1. \A y \in Writers : job'[y] = IF y = r THEN {r} ELSE job[y]
    BY <1>t, <1>a DEF WriteOwnRow
  <2>2. \A s \in Rows : call'[s] = IF s = r THEN "write" ELSE call[s]
    BY <1>t, <1>a DEF WriteOwnRow
  <2>3. call[r] # "write" /\ job[r] = {}
    BY <1>a
  <2>4. ASSUME NEW s \in Rows, Known(s) PROVE Known(s)'
    BY <1>a, <2>1, <2>3, <2>4
  <2> QED BY <1>a, <1>t, <2>1, <2>2, <2>4
<1>1. CASE EnqueueDirect(r)
  BY <1>a, <1>1 DEF EnqueueDirect
<1>2. CASE EnqueueSelect(r)
  BY <1>t, <1>2 DEF EnqueueSelect
<1>3. CASE SelectSend(r)
  <2>1. Range(queue') = Range(queue) \cup {r}
    BY <1>3, <1>t, RangeAppend DEF SelectSend
  <2> QED BY <1>t, <1>3, <2>1 DEF SelectSend
<1>4. CASE SelectTimer(r)
  BY <1>t, <1>4 DEF SelectTimer
<1>5. CASE SelectStop(r)
  BY <1>a, <1>5 DEF SelectStop
<1> QED BY <1>1, <1>2, <1>3, <1>4, <1>5 DEF EnqueueStep

\* What a worker's step does to custody: nothing leaves its hands except into
\* its own job, and the calls and their jobs stay as they are.
LEMMA WorkerHands ==
    ASSUME TypeOK, NEW w \in Workers, WorkerStep(w)
    PROVE  /\ UNCHANGED <<call, stored, dropped, failed, accepted>>
           /\ job[w] = {}
           /\ \A x \in Writers \ {w} : job'[x] = job[x]
           /\ \A v \in Workers \ {w} : batch'[v] = batch[v]
           /\ Range(queue') \subseteq Range(queue)
           /\ \A r \in Range(queue) \cup batch[w] :
                r \in Range(queue') \cup batch'[w] \cup job'[w]
<1> USE LoggerAssumption DEF stopVars, workerVars, tableVars, Writers, Selecting
<1>t. /\ queue \in Seq(Rows)
      /\ batch \in [Workers -> SUBSET Rows]
      /\ job \in [Writers -> SUBSET Rows]
  BY DEF TypeOK
<1>1. CASE Receive(w)
  <2> DEFINE rows == batch[w] \cup {Head(queue)}
  <2>1. Range(queue) = Range(queue') \cup {Head(queue)}
    BY <1>1, <1>t, RangeTail DEF Receive
  <2>2. \A r \in Range(queue) \cup batch[w] : r \in Range(queue') \cup rows
    BY <2>1
  <2>3. \/ Flush(w, rows)
        \/ batch' = [batch EXCEPT ![w] = rows] /\ UNCHANGED job
    BY <1>1 DEF Receive
  <2> HIDE DEF rows
  <2>4. /\ UNCHANGED <<call, stored, dropped, failed, accepted>>
        /\ job[w] = {}
    BY <1>1 DEF Receive
  <2>5. CASE Flush(w, rows)
    BY <1>t, <2>1, <2>2, <2>4, <2>5 DEF Flush
  <2>6. CASE batch' = [batch EXCEPT ![w] = rows] /\ UNCHANGED job
    BY <1>t, <2>1, <2>2, <2>4, <2>6
  <2> QED BY <2>3, <2>5, <2>6
<1>2. CASE Tick(w)
  BY <1>t, <1>2 DEF Tick, Flush
<1>3. CASE SeeStop(w)
  BY <1>t, <1>3 DEF SeeStop, Flush
<1>4. CASE DrainDone(w)
  BY <1>t, <1>4 DEF DrainDone, Flush
<1>5. CASE WorkerReturn(w)
  BY <1>t, <1>5 DEF WorkerReturn
<1> QED BY <1>1, <1>2, <1>3, <1>4, <1>5 DEF WorkerStep

LEMMA WorkerCustody ==
    ASSUME TypeOK, Custody, NEW w \in Workers, WorkerStep(w)
    PROVE  Custody'
<1>1. ASSUME NEW r \in Rows, Known(r) PROVE Known(r)'
  BY <1>1, WorkerHands DEF Known, Held, Writers
<1>2. \A r \in Rows : job'[r] = job[r]
  BY WorkerHands, LoggerAssumption DEF Writers
<1>3. NoRowForgotten'
  BY <1>1, WorkerHands DEF Custody, NoRowForgotten
<1> QED BY <1>2, <1>3, WorkerHands DEF Custody

\* What a step of writeWithRetry does to custody: it either keeps its job, or
\* returns having settled every row of it.
LEMMA WriteHands ==
    ASSUME TypeOK, NEW x \in Writers, WriteStep(x)
    PROVE  /\ UNCHANGED <<queue, batch, mode, dropped, accepted, closed, shutdown>>
           /\ job[x] # {}
           /\ \A r \in Rows : stored'[r] >= stored[r]
           /\ failed \subseteq failed'
           /\ \/ UNCHANGED <<call, job>>
              \/ /\ WriteReturns(x)
                 /\ \A r \in job[x] : stored'[r] > 0 \/ r \in failed'
<1> USE DEF stopVars, workerVars, tableVars
<1>1. CASE WriteOK(x)
  BY <1>1, StoreJobType DEF WriteOK
<1>2. CASE WriteRetry(x)
  BY <1>2, AttemptFailsType DEF WriteRetry
<1>3. CASE WriteGiveUp(x)
  BY <1>3, AttemptFailsType DEF WriteGiveUp
<1> QED BY <1>1, <1>2, <1>3 DEF WriteStep

LEMMA WriteCustody ==
    ASSUME TypeOK, Custody, NEW x \in Writers, WriteStep(x)
    PROVE  Custody'
<1>t. /\ stored \in [Rows -> Nat] /\ stored' \in [Rows -> Nat]
      /\ job \in [Writers -> SUBSET Rows]
      /\ call \in [Rows -> {"idle", "select", "write", "returned"}]
      /\ accepted \in SUBSET Rows
  BY WriteTypeOK DEF TypeOK
<1>1. CASE UNCHANGED <<call, job>>
  <2>1. ASSUME NEW r \in Rows, Known(r) PROVE Known(r)'
    BY <1>1, <1>t, <2>1, WriteHands DEF Known, Held
  <2>2. NoRowForgotten'
    BY <1>1, <2>1 DEF Custody, NoRowForgotten
  <2> QED BY <1>1, <2>2, WriteHands DEF Custody
<1>2. CASE WriteReturns(x) /\ \A r \in job[x] : stored'[r] > 0 \/ r \in failed'
  <2>1. \A y \in Writers : job'[y] = IF y = x THEN {} ELSE job[y]
    BY <1>2, <1>t DEF WriteReturns
  <2>2. \A r \in Rows : call'[r] = IF r = x THEN "returned" ELSE call[r]
    BY <1>2 DEF WriteReturns
  <2>3. ASSUME NEW r \in Rows, Known(r) PROVE Known(r)'
    BY <1>2, <1>t, <2>1, <2>3, WriteHands DEF Known, Held
  <2>4. x \in Rows => call[x] = "write"
    BY WriteHands DEF Custody
  <2>5. NoRowForgotten'
    <3>1. ASSUME NEW r \in Rows, call'[r] \in {"write", "returned"} PROVE Known(r)'
      BY <2>2, <2>3, <2>4, <3>1 DEF Custody, NoRowForgotten
    <3> QED BY <3>1 DEF NoRowForgotten
  <2>6. /\ \A r \in Rows : call'[r] = "write" => r \in job'[r]
        /\ \A r \in Rows : job'[r] # {} => call'[r] = "write"
    BY <2>1, <2>2 DEF Custody, Writers
  <2>7. \A r \in accepted' : call'[r] = "returned"
    BY <1>t, <2>2, WriteHands DEF Custody
  <2> QED BY <2>5, <2>6, <2>7 DEF Custody
<1> QED BY <1>1, <1>2, WriteHands

LEMMA NextCustody == TypeOK /\ Custody /\ [Next]_vars => Custody'
<1> SUFFICES ASSUME TypeOK, Custody, [Next]_vars PROVE Custody'
  OBVIOUS
<1>1. CASE UNCHANGED vars
  BY <1>1 DEF Custody, NoRowForgotten, Known, Held, vars
<1>2. CASE ShutdownStep
  BY <1>2 DEF Custody, NoRowForgotten, Known, Held, workerVars, tableVars,
              ShutdownStep,
              ShutdownMark, ShutdownClose, ShutdownDone,
              ShutdownTimeout, ProcessExit
<1> QED BY <1>1, <1>2, EnqueueCustody, WorkerCustody, WriteCustody DEF Next, Gone

\* A row whose call is past its select is held, in the table, or counted as
\* given up, in every reachable state.
THEOREM NothingForgotten == Spec => []NoRowForgotten
<1>1. TypeOK /\ Custody /\ [Next]_vars => (TypeOK /\ Custody)'
  BY NextTypeOK, NextCustody
<1>2. Custody => NoRowForgotten
  BY DEF Custody
<1> QED BY InitTypeOK, InitCustody, <1>1, <1>2, PTL DEF Spec

------------------------------------------------------------------------------
(* The drain *)

LEMMA InitDrainOrder == Init => DrainOrder
BY DEF Init, DrainOrder, Draining, Writers

\* A call sends a row that is not accepted once stopCh is closed, and before
\* that no worker is past its drain.
LEMMA EnqueueDrainOrder ==
    ASSUME TypeOK, Custody, DrainOrder, NEW r \in Rows, EnqueueStep(r)
    PROVE  DrainOrder'
<1> USE LoggerAssumption DEF stopVars, workerVars, tableVars, Writers
<1>t. /\ queue \in Seq(Rows)
      /\ call \in [Rows -> {"idle", "select", "write", "returned"}]
      /\ job \in [Writers -> SUBSET Rows]
      /\ mode \in [Workers -> {"loop", "drain", "final", "exited"}]
      /\ accepted \in SUBSET Rows
  BY DEF TypeOK
<1>a. CASE /\ WriteOwnRow(r)
           /\ UNCHANGED <<queue, closed, shutdown, mode, batch, stored, failed,
                          accepted>>
  <2>1. \A w \in Workers : job'[w] = job[w]
    BY <1>t, <1>a DEF WriteOwnRow
  <2>2. \A s \in Rows : call'[s] = "select" => call[s] = "select"
    BY <1>t, <1>a DEF WriteOwnRow
  <2> QED BY <1>a, <2>1, <2>2 DEF DrainOrder, Draining, InGoodHands
<1>1. CASE EnqueueDirect(r)
  BY <1>a, <1>1 DEF EnqueueDirect
<1>2. CASE EnqueueSelect(r)
  BY <1>t, <1>2 DEF EnqueueSelect, DrainOrder, Draining, InGoodHands
<1>3. CASE SelectSend(r)
  <2>1. Range(queue') = Range(queue) \cup {r}
    BY <1>3, <1>t, RangeAppend DEF SelectSend
  <2>2. Async /\ r \notin accepted
    BY <1>3 DEF SelectSend, DrainOrder, Custody
  <2>3. \A w \in Workers : Draining(w) => Range(queue') \cap accepted' = {}
    <3>1. CASE closed
      BY <1>3, <2>1, <2>2, <3>1 DEF SelectSend, DrainOrder
    <3>2. CASE ~closed
      BY <2>2, <3>2 DEF DrainOrder, Draining
    <3> QED BY <3>1, <3>2
  <2>4. \A s \in accepted' : InGoodHands(s)'
    <3>1. \A s \in accepted : InGoodHands(s)'
      BY <1>3, <2>1 DEF SelectSend, DrainOrder, InGoodHands
    <3> QED BY <1>3, <2>1, <3>1 DEF SelectSend, InGoodHands
  <2>5. \A s \in Rows : call'[s] = "select" => call[s] = "select"
    BY <1>t, <1>3 DEF SelectSend
  <2> QED BY <1>3, <2>2, <2>3, <2>4, <2>5 DEF SelectSend, DrainOrder, Draining
<1>4. CASE SelectTimer(r)
  BY <1>t, <1>4 DEF SelectTimer, DrainOrder, Draining, InGoodHands
<1>5. CASE SelectStop(r)
  BY <1>a, <1>5 DEF SelectStop
<1> QED BY <1>1, <1>2, <1>3, <1>4, <1>5 DEF EnqueueStep

\* An accepted row that the channel or a worker has is still with one of them,
\* or in the worker's job, after the step.
LEMMA WorkerKeepsHands ==
    ASSUME TypeOK, NEW w \in Workers, WorkerStep(w), NEW r, InGoodHands(r)
    PROVE  InGoodHands(r)'
BY WorkerHands DEF InGoodHands, Writers

LEMMA WorkerDrainOrder ==
    ASSUME TypeOK, DrainOrder, NEW w \in Workers, WorkerStep(w)
    PROVE  DrainOrder'
<1> USE LoggerAssumption DEF stopVars, workerVars, tableVars, Writers, Selecting
<1>t. /\ batch \in [Workers -> SUBSET Rows]
      /\ job \in [Writers -> SUBSET Rows]
      /\ mode \in [Workers -> {"loop", "drain", "final", "exited"}]
  BY DEF TypeOK
<1>1. \A r \in accepted' : InGoodHands(r)'
  BY WorkerHands, WorkerKeepsHands DEF DrainOrder
<1>2. /\ UNCHANGED <<closed, shutdown>>
      /\ \A v \in Workers \ {w} :
           mode'[v] = mode[v] /\ batch'[v] = batch[v] /\ job'[v] = job[v]
      /\ mode[w] # "exited"
  BY <1>t, WorkerHands DEF WorkerStep, Receive, Tick, SeeStop, DrainDone, WorkerReturn
<1>3. CASE Receive(w)
  <2>1. mode' = mode /\ ~Draining(w)
    BY <1>3 DEF Receive, Draining
  <2> QED BY <1>1, <1>2, <2>1, WorkerHands DEF DrainOrder, Draining
<1>4. CASE Tick(w)
  <2>1. mode' = mode /\ ~Draining(w)
    BY <1>4 DEF Tick, Draining
  <2> QED BY <1>1, <1>2, <2>1, WorkerHands DEF DrainOrder, Draining
<1>5. CASE SeeStop(w)
  <2>1. closed /\ mode'[w] = "drain"
    BY <1>5, <1>t DEF SeeStop
  <2> QED BY <1>1, <1>2, <2>1, WorkerHands DEF DrainOrder, Draining
<1>6. CASE DrainDone(w)
  <2>1. /\ mode[w] = "drain" /\ mode'[w] = "final"
        /\ batch'[w] = {}
        /\ UNCHANGED queue /\ Range(queue) = {}
    BY <1>6, <1>t DEF DrainDone, Flush, Range
  <2> QED BY <1>1, <1>2, <2>1, WorkerHands DEF DrainOrder, Draining
<1>7. CASE WorkerReturn(w)
  <2>1. /\ mode[w] = "final" /\ mode'[w] = "exited"
        /\ UNCHANGED <<batch, job, queue>> /\ job[w] = {}
    BY <1>7, <1>t DEF WorkerReturn
  <2> QED BY <1>1, <1>2, <2>1, WorkerHands DEF DrainOrder, Draining
<1> QED BY <1>3, <1>4, <1>5, <1>6, <1>7 DEF WorkerStep

LEMMA WriteDrainOrder ==
    ASSUME TypeOK, DrainOrder, NEW x \in Writers, WriteStep(x)
    PROVE  DrainOrder'
<1>t. /\ stored \in [Rows -> Nat] /\ stored' \in [Rows -> Nat]
      /\ job \in [Writers -> SUBSET Rows]
      /\ accepted \in SUBSET Rows
  BY WriteTypeOK DEF TypeOK
<1>1. \A y \in Writers : job'[y] = job[y] \/ (y = x /\ job'[y] = {})
  BY <1>t, WriteHands DEF WriteReturns
<1>2. \A r \in Rows : call'[r] = "select" => call[r] = "select"
  BY WriteHands DEF WriteReturns
<1>3. ASSUME NEW r \in accepted PROVE InGoodHands(r)'
  <2>1. InGoodHands(r)
    BY DEF DrainOrder
  <2>2. ASSUME r \in job[x] PROVE r \in job'[x] \/ stored'[r] > 0 \/ r \in failed'
    BY <2>2, WriteHands
  <2>3. stored[r] > 0 => stored'[r] > 0
    BY <1>t, WriteHands
  <2> QED BY <1>1, <2>1, <2>2, <2>3, WriteHands DEF InGoodHands, Writers
<1> QED BY <1>1, <1>2, <1>3, WriteHands DEF DrainOrder, Draining, Writers

LEMMA NextDrainOrder ==
    TypeOK /\ Custody /\ DrainOrder /\ [Next]_vars => DrainOrder'
<1> SUFFICES ASSUME TypeOK, Custody, DrainOrder, [Next]_vars PROVE DrainOrder'
  OBVIOUS
<1>1. CASE UNCHANGED vars
  BY <1>1 DEF DrainOrder, Draining, InGoodHands, vars
<1>2. CASE ShutdownStep
  BY <1>2 DEF DrainOrder, Draining, InGoodHands, workerVars, tableVars,
              ShutdownStep, ShutdownMark, ShutdownClose,
              ShutdownDone, ShutdownTimeout, ProcessExit
<1> QED BY <1>1, <1>2, EnqueueDrainOrder, WorkerDrainOrder, WriteDrainOrder
        DEF Next, Gone

LEMMA DrainOrderImplies == DrainOrder => GracefulFlush
<1> SUFFICES ASSUME DrainOrder, shutdown = "flushed", NEW r \in accepted
             PROVE  stored[r] > 0 \/ r \in failed
  BY DEF GracefulFlush
<1>1. Async /\ \A w \in Workers : mode[w] = "exited"
  BY DEF DrainOrder
<1>2. PICK w \in Workers : TRUE
  BY LoggerAssumption
<1>3. r \notin Range(queue)
  BY <1>1, <1>2 DEF DrainOrder, Draining
<1>4. \A v \in Workers : r \notin batch[v] /\ r \notin job[v]
  BY <1>1 DEF DrainOrder, Draining
<1> QED BY <1>3, <1>4 DEF DrainOrder, InGoodHands

\* When Shutdown returns because its workers are done, every row queued before
\* stopCh was closed is in the table or was given up after the last retry, for
\* any number of workers sharing the drain.
THEOREM FlushIsGraceful == Spec => []GracefulFlush
<1>1. Init => IInv
  BY InitTypeOK, InitCustody, InitDrainOrder DEF IInv
<1>2. IInv /\ [Next]_vars => IInv'
  BY NextTypeOK, NextCustody, NextDrainOrder DEF IInv
<1>3. IInv => GracefulFlush
  BY DrainOrderImplies DEF IInv
<1> QED BY <1>1, <1>2, <1>3, PTL DEF Spec

------------------------------------------------------------------------------
(* One place and one fate for each row *)

\* Nothing has become of the row yet.
Unsettled(r) == stored[r] = 0 /\ r \notin dropped /\ r \notin failed

QueueDistinct == \A i, j \in 1..Len(queue) : queue[i] = queue[j] => i = j

NewRows == \A r \in Rows :
    call[r] \in {"idle", "select"} => ~Held(r) /\ Unsettled(r)

QueuedRows == \A r \in Range(queue) :
    /\ Unsettled(r)
    /\ \A w \in Workers : r \notin batch[w]
    /\ \A x \in Writers : r \notin job[x]

BatchedRows == \A w \in Workers : \A r \in batch[w] :
    /\ Unsettled(r)
    /\ \A v \in Workers : r \in batch[v] => v = w
    /\ \A x \in Writers : r \notin job[x]

RowsInWrite == \A x \in Writers : \A r \in job[x] :
    /\ r \notin dropped /\ r \notin failed
    /\ stored[r] <= attempt[x]
    /\ "lostAck" \notin Faults => stored[r] = 0
    /\ \A y \in Writers : r \in job[y] => y = x

SoleCustody ==
    QueueDistinct /\ NewRows /\ QueuedRows /\ BatchedRows /\ RowsInWrite /\ OneFate

LEMMA InitSoleCustody == Init => SoleCustody
<1> SUFFICES ASSUME Init PROVE SoleCustody
  OBVIOUS
<1>1. Len(queue) = 0 /\ Range(queue) = {}
  BY EmptySeq DEF Init, Range
<1>2. \A r \in Rows : Unsettled(r) /\ ~Held(r)
  BY <1>1 DEF Init, Unsettled, Held
<1> QED BY <1>1, <1>2, LoggerAssumption
        DEF Init, SoleCustody, QueueDistinct, NewRows, QueuedRows, BatchedRows,
            RowsInWrite, OneFate

LEMMA EnqueueSoleCustody ==
    ASSUME TypeOK, Custody, SoleCustody, NEW r \in Rows, EnqueueStep(r)
    PROVE  SoleCustody'
<1> USE LoggerAssumption DEF stopVars, workerVars, tableVars, Writers
<1>t. /\ queue \in Seq(Rows)
      /\ call \in [Rows -> {"idle", "select", "write", "returned"}]
      /\ job \in [Writers -> SUBSET Rows]
      /\ attempt \in [Writers -> 0..MaxRetries]
      /\ stored \in [Rows -> Nat]
  BY DEF TypeOK
<1>p. /\ QueueDistinct /\ NewRows /\ QueuedRows /\ BatchedRows /\ RowsInWrite
      /\ OneFate
  BY DEF SoleCustody
<1>a. CASE /\ WriteOwnRow(r)
           /\ call[r] \in {"idle", "select"}
           /\ UNCHANGED <<queue, batch, attempt, stored, dropped, failed>>
  <2>1. \A y \in Writers : job'[y] = IF y = r THEN {r} ELSE job[y]
    BY <1>t, <1>a DEF WriteOwnRow
  <2>2. \A s \in Rows : call'[s] = IF s = r THEN "write" ELSE call[s]
    BY <1>t, <1>a DEF WriteOwnRow
  <2>3. ~Held(r) /\ Unsettled(r)
    BY <1>a, <1>p DEF NewRows
  <2>4. \A s : Unsettled(s)' <=> Unsettled(s)
    BY <1>a DEF Unsettled
  <2>5. NewRows'
    BY <1>a, <1>p, <2>1, <2>2, <2>4 DEF NewRows, Held
  <2>6. QueuedRows' /\ BatchedRows'
    BY <1>a, <1>p, <2>1, <2>3, <2>4 DEF QueuedRows, BatchedRows, Held
  <2>7. RowsInWrite'
    <3>1. stored[r] <= attempt[r]
      BY <1>t, <2>3 DEF Unsettled
    <3> QED BY <1>a, <1>p, <2>1, <2>3, <3>1 DEF RowsInWrite, Unsettled, Held
  <2> QED BY <1>a, <1>p, <2>5, <2>6, <2>7 DEF SoleCustody, QueueDistinct, OneFate
<1>1. CASE EnqueueDirect(r)
  BY <1>a, <1>1 DEF EnqueueDirect
<1>2. CASE EnqueueSelect(r)
  BY <1>t, <1>p, <1>2 DEF EnqueueSelect, SoleCustody, QueueDistinct, NewRows,
     QueuedRows, BatchedRows, RowsInWrite, OneFate, Held, Unsettled
<1>3. CASE SelectSend(r)
  <2>1. Range(queue') = Range(queue) \cup {r}
    BY <1>3, <1>t, RangeAppend DEF SelectSend
  <2>2. ~Held(r) /\ Unsettled(r)
    BY <1>3, <1>p DEF SelectSend, NewRows
  <2>3. /\ Len(queue') = Len(queue) + 1 /\ Len(queue) \in Nat
        /\ \A i \in 1..Len(queue) : queue'[i] = queue[i]
        /\ queue'[Len(queue) + 1] = r
    BY <1>3, <1>t, AppendProperties, LenProperties DEF SelectSend
  <2>4. \A i \in 1..Len(queue) : queue[i] # r
    BY <2>2, <1>t, RangeEquality DEF Held
  <2>5. QueueDistinct'
    BY <1>p, <2>3, <2>4 DEF QueueDistinct
  <2>6. \A s : Unsettled(s)' <=> Unsettled(s)
    BY <1>3 DEF SelectSend, Unsettled
  <2>7. NewRows'
    BY <1>3, <1>t, <1>p, <2>1, <2>6 DEF SelectSend, NewRows, Held
  <2>8. QueuedRows' /\ BatchedRows'
    BY <1>3, <1>p, <2>1, <2>2, <2>6 DEF SelectSend, QueuedRows, BatchedRows, Held
  <2> QED BY <1>3, <1>p, <2>5, <2>7, <2>8 DEF SelectSend, SoleCustody,
          RowsInWrite, OneFate
<1>4. CASE SelectTimer(r)
  <2>1. ~Held(r) /\ Unsettled(r)
    BY <1>4, <1>p DEF SelectTimer, NewRows
  <2>2. \A s : s # r => (Unsettled(s)' <=> Unsettled(s))
    BY <1>4 DEF SelectTimer, Unsettled
  <2>3. NewRows'
    BY <1>4, <1>t, <1>p, <2>2 DEF SelectTimer, NewRows, Held
  <2>4. QueuedRows' /\ BatchedRows'
    BY <1>4, <1>p, <2>1, <2>2 DEF SelectTimer, QueuedRows, BatchedRows, Held
  <2>5. RowsInWrite'
    BY <1>4, <1>p, <2>1 DEF SelectTimer, RowsInWrite, Held
  <2>6. OneFate'
    BY <1>4, <1>p, <2>1 DEF SelectTimer, OneFate, Unsettled
  <2> QED BY <1>4, <1>p, <2>3, <2>4, <2>5, <2>6 DEF SelectTimer, SoleCustody,
          QueueDistinct
<1>5. CASE SelectStop(r)
  BY <1>a, <1>5 DEF SelectStop
<1> QED BY <1>1, <1>2, <1>3, <1>4, <1>5 DEF EnqueueStep

\* A worker's step moves rows between the channel, its batch and its job, and
\* takes none up from elsewhere.
LEMMA WorkerHolds ==
    ASSUME TypeOK, NEW w \in Workers, WorkerStep(w), NEW s \in Rows
    PROVE  Held(s)' <=> Held(s)
<1> USE DEF stopVars, workerVars, tableVars, Writers
<1>t. /\ queue \in Seq(Rows)
      /\ batch \in [Workers -> SUBSET Rows]
      /\ job \in [Writers -> SUBSET Rows]
  BY DEF TypeOK
<1>a. Held(s) => Held(s)'
  BY WorkerHands DEF Held
<1> SUFFICES ASSUME Held(s)' PROVE Held(s)
  BY <1>a
<1>1. CASE Receive(w)
  <2> DEFINE rows == batch[w] \cup {Head(queue)}
  <2>1. Head(queue) \in Range(queue)
    BY <1>1, <1>t, RangeTail DEF Receive
  <2>2. \A r \in rows : Held(r)
    BY <2>1 DEF Held
  <2>3. \/ Flush(w, rows)
        \/ batch' = [batch EXCEPT ![w] = rows] /\ UNCHANGED job
    BY <1>1 DEF Receive
  <2> HIDE DEF rows
  <2>4. \A v \in Workers : batch'[v] = batch[v] \/ batch'[v] \subseteq rows
    BY <1>t, <2>3 DEF Flush
  <2>5. \A x \in Writers : job'[x] = job[x] \/ job'[x] \subseteq rows
    BY <1>t, <2>3 DEF Flush
  <2> QED BY <2>2, <2>4, <2>5, WorkerHands DEF Held
<1>2. CASE Tick(w) \/ SeeStop(w) \/ DrainDone(w)
  <2>1. Flush(w, batch[w]) /\ UNCHANGED queue
    BY <1>2 DEF Tick, SeeStop, DrainDone
  <2>2. \A v \in Workers : batch'[v] \subseteq batch[v]
    BY <1>t, <2>1 DEF Flush
  <2>3. \A x \in Writers : job'[x] = job[x] \/ job'[x] = batch[w]
    BY <1>t, <2>1 DEF Flush
  <2> QED BY <2>1, <2>2, <2>3 DEF Held
<1>3. CASE WorkerReturn(w)
  BY <1>3 DEF WorkerReturn, Held
<1> QED BY <1>1, <1>2, <1>3 DEF WorkerStep

\* The handover of rows a worker makes: from the head of the channel to its
\* batch, from its batch to its job, or both at once.
LEMMA WorkerSoleCustody ==
    ASSUME TypeOK, SoleCustody, NEW w \in Workers, WorkerStep(w)
    PROVE  SoleCustody'
<1> USE LoggerAssumption DEF stopVars, workerVars, tableVars, Writers
<1>t. /\ queue \in Seq(Rows)
      /\ batch \in [Workers -> SUBSET Rows]
      /\ job \in [Writers -> SUBSET Rows]
      /\ attempt \in [Writers -> 0..MaxRetries]
      /\ stored \in [Rows -> Nat]
  BY DEF TypeOK
<1>p. /\ QueueDistinct /\ NewRows /\ QueuedRows /\ BatchedRows /\ RowsInWrite
      /\ OneFate
  BY DEF SoleCustody
<1>u. /\ UNCHANGED <<call, stored, dropped, failed, attempt>>
      /\ \A s : Unsettled(s)' <=> Unsettled(s)
  BY WorkerHands DEF Unsettled, WorkerStep, Receive, Tick, SeeStop, DrainDone,
     WorkerReturn
<1>z. \A x \in Writers : 0 <= attempt[x]
  BY <1>t
<1>f. OneFate'
  BY <1>u, <1>p DEF OneFate
<1>h. \A s \in Rows : Held(s)' => Held(s)
  BY WorkerHolds
<1>n. NewRows'
  BY <1>u, <1>h, <1>p DEF NewRows
<1>1. CASE Receive(w)
  <2> DEFINE h == Head(queue)
             rows == batch[w] \cup {h}
  <2>1. /\ h \in Rows
        /\ Range(queue) = Range(queue') \cup {h}
        /\ h = queue[1]
        /\ Len(queue') = Len(queue) - 1 /\ Len(queue) \in Nat \ {0}
        /\ \A i \in 1..Len(queue') : queue'[i] = queue[i + 1]
    BY <1>1, <1>t, RangeTail, HeadTailProperties, LenProperties, EmptySeq DEF Receive
  <2>2. h \notin Range(queue')
    <3>1. queue' \in Seq(Rows)
      BY <1>1, <1>t, RangeTail DEF Receive
    <3>2. \A i \in 1..Len(queue') : queue'[i] # h
      BY <2>1, <1>p DEF QueueDistinct
    <3> QED BY <3>1, <3>2, RangeEquality
  <2>3. QueueDistinct'
    BY <2>1, <1>p DEF QueueDistinct
  <2>4. \/ Flush(w, rows)
        \/ batch' = [batch EXCEPT ![w] = rows] /\ UNCHANGED job
    BY <1>1 DEF Receive
  <2>5. job[w] = {}
    BY WorkerHands
  <2>6. \A s \in rows :
          /\ Unsettled(s) /\ s \notin Range(queue')
          /\ \A v \in Workers : s \in batch[v] => v = w
          /\ \A x \in Writers : s \notin job[x]
    BY <1>p, <2>1, <2>2 DEF QueuedRows, BatchedRows
  <2> HIDE DEF rows, h
  <2>7. CASE Flush(w, rows)
    <3>1. \A v \in Workers : batch'[v] = IF v = w THEN {} ELSE batch[v]
      BY <1>t, <2>7 DEF Flush
    <3>2. \A x \in Writers : job'[x] = IF x = w THEN rows ELSE job[x]
      BY <1>t, <2>7 DEF Flush
    <3>3. QueuedRows'
      BY <1>p, <1>u, <2>1, <2>6, <3>1, <3>2 DEF QueuedRows
    <3>4. BatchedRows'
      BY <1>p, <1>u, <2>6, <3>1, <3>2 DEF BatchedRows
    <3>5. RowsInWrite'
      BY <1>p, <1>z, <1>u, <2>6, <3>2 DEF RowsInWrite, Unsettled
    <3> QED BY <1>f, <1>n, <2>3, <3>3, <3>4, <3>5 DEF SoleCustody
  <2>8. CASE batch' = [batch EXCEPT ![w] = rows] /\ UNCHANGED job
    <3>1. \A v \in Workers : batch'[v] = IF v = w THEN rows ELSE batch[v]
      BY <1>t, <2>8
    <3>2. QueuedRows'
      BY <1>p, <1>u, <2>1, <2>6, <2>8, <3>1 DEF QueuedRows
    <3>3. BatchedRows'
      BY <1>p, <1>u, <2>6, <2>8, <3>1 DEF BatchedRows
    <3>4. RowsInWrite'
      BY <1>p, <1>u, <2>8 DEF RowsInWrite
    <3> QED BY <1>f, <1>n, <2>3, <3>2, <3>3, <3>4 DEF SoleCustody
  <2> QED BY <2>4, <2>7, <2>8
<1>2. CASE Tick(w) \/ SeeStop(w) \/ DrainDone(w)
  <2>1. Flush(w, batch[w]) /\ UNCHANGED queue
    BY <1>2 DEF Tick, SeeStop, DrainDone
  <2>2. \A v \in Workers : batch'[v] = IF v = w THEN {} ELSE batch[v]
    BY <1>t, <2>1 DEF Flush
  <2>3. \A x \in Writers : job'[x] = IF x = w THEN batch[w] ELSE job[x]
    BY <1>t, <2>1 DEF Flush
  <2>4. QueuedRows' /\ QueueDistinct'
    BY <1>p, <1>u, <2>1, <2>2, <2>3 DEF QueuedRows, QueueDistinct
  <2>5. BatchedRows'
    BY <1>p, <1>u, <2>2, <2>3 DEF BatchedRows
  <2>6. RowsInWrite'
    BY <1>p, <1>z, <1>u, <2>3 DEF RowsInWrite, BatchedRows, Unsettled
  <2> QED BY <1>f, <1>n, <2>4, <2>5, <2>6 DEF SoleCustody
<1>3. CASE WorkerReturn(w)
  BY <1>p, <1>u, <1>f, <1>n, <1>3 DEF WorkerReturn, SoleCustody, QueueDistinct,
     QueuedRows, BatchedRows, RowsInWrite
<1> QED BY <1>1, <1>2, <1>3 DEF WorkerStep

LEMMA WriteSoleCustody ==
    ASSUME TypeOK, Custody, SoleCustody, NEW x \in Writers, WriteStep(x)
    PROVE  SoleCustody'
<1> USE LoggerAssumption DEF stopVars, workerVars, tableVars
<1>t. /\ job \in [Writers -> SUBSET Rows]
      /\ attempt \in [Writers -> 0..MaxRetries]
      /\ stored \in [Rows -> Nat]
      /\ call \in [Rows -> {"idle", "select", "write", "returned"}]
  BY DEF TypeOK
<1>p. /\ QueueDistinct /\ NewRows /\ QueuedRows /\ BatchedRows /\ RowsInWrite
      /\ OneFate
  BY DEF SoleCustody
<1>1. /\ UNCHANGED <<queue, batch, dropped>>
      /\ job[x] # {}
      /\ \A r \in Rows : r \notin job[x] => stored'[r] = stored[r]
      /\ \A r \in Rows : r \in job[x] =>
           stored'[r] = stored[r] \/ stored'[r] = stored[r] + 1
    <2>1. CASE UNCHANGED stored
      BY <2>1, WriteHands
    <2>2. CASE StoreJob(x)
      BY <2>2, WriteHands DEF StoreJob
    <2> QED BY <2>1, <2>2 DEF WriteStep, WriteOK, WriteRetry, WriteGiveUp, AttemptFails
<1>2. failed' = failed \/ failed' = failed \cup job[x]
  BY DEF WriteStep, WriteOK, WriteRetry, WriteGiveUp
<1>3. ASSUME NEW r \in Rows, r \notin job[x]
      PROVE  Unsettled(r)' <=> Unsettled(r)
  BY <1>1, <1>2, <1>3 DEF Unsettled
<1>4. \A y \in Writers : job'[y] = job[y] \/ job'[y] = {}
  BY <1>t, WriteHands DEF WriteReturns
<1>5. ASSUME NEW r \in Rows, Held(r)' PROVE Held(r)
  BY <1>1, <1>4, <1>5 DEF Held
<1>6. NewRows'
  <2> SUFFICES ASSUME NEW r \in Rows, call'[r] \in {"idle", "select"}
               PROVE  (~Held(r) /\ Unsettled(r))'
    BY DEF NewRows
  <2>1. call[r] \in {"idle", "select"}
    BY WriteHands DEF WriteReturns
  <2>2. ~Held(r) /\ Unsettled(r)
    BY <2>1, <1>p DEF NewRows
  <2> QED BY <2>2, <1>3, <1>5 DEF Held
<1>7. QueuedRows'
  <2>1. Range(queue) \subseteq Rows
    BY RangeOfSeq DEF TypeOK
  <2> QED BY <2>1, <1>p, <1>1, <1>3, <1>4 DEF QueuedRows
<1>8. BatchedRows'
  <2>1. \A w \in Workers : batch[w] \subseteq Rows
    BY DEF TypeOK
  <2> QED BY <2>1, <1>p, <1>1, <1>3, <1>4 DEF BatchedRows
<1>9. RowsInWrite' /\ OneFate'
  <2>0. ASSUME NEW r \in job[x]
        PROVE  /\ r \in Rows /\ r \notin dropped /\ r \notin failed
               /\ stored[r] \in Nat /\ stored[r] <= attempt[x]
               /\ "lostAck" \notin Faults => stored[r] = 0
               /\ \A y \in Writers : r \in job[y] => y = x
    BY <1>t, <1>p DEF RowsInWrite
  <2>1. CASE WriteOK(x)
    <3>1. \A y \in Writers : job'[y] = IF y = x THEN {} ELSE job[y]
      BY <1>t, <2>1 DEF WriteOK, WriteReturns
    <3>2. \A y \in Writers : y # x => attempt'[y] = attempt[y]
      BY <1>t, <2>1 DEF WriteOK, WriteReturns
    <3>3. failed' = failed /\ \A r \in job[x] : stored'[r] = stored[r] + 1
      BY <1>t, <2>1 DEF WriteOK, StoreJob
    <3>4. RowsInWrite'
      BY <1>p, <1>t, <1>1, <2>0, <3>1, <3>2, <3>3 DEF RowsInWrite
    <3>5. ASSUME NEW r \in job[x]
          PROVE  /\ stored'[r] <= MaxRetries + 1
                 /\ "lostAck" \notin Faults => stored'[r] <= 1
      BY <1>t, <2>0, <3>3
    <3>6. OneFate'
      BY <1>p, <1>1, <2>0, <3>3, <3>5 DEF OneFate
    <3> QED BY <3>4, <3>6
  <2>2. CASE WriteRetry(x)
    <3>1. job' = job /\ failed' = failed /\ attempt'[x] = attempt[x] + 1
      BY <1>t, <2>2 DEF WriteRetry
    <3>2. \A y \in Writers : y # x => attempt'[y] = attempt[y]
      BY <1>t, <2>2 DEF WriteRetry
    <3>3. "lostAck" \notin Faults => stored' = stored
      BY <2>2 DEF WriteRetry, AttemptFails
    <3>4. ASSUME NEW r \in job[x] PROVE stored'[r] <= attempt'[x]
      BY <1>t, <1>1, <2>0, <3>1
    <3>5. RowsInWrite'
      BY <1>p, <1>t, <1>1, <2>0, <3>1, <3>2, <3>3, <3>4 DEF RowsInWrite
    <3>6. ASSUME NEW r \in job[x] PROVE stored'[r] <= MaxRetries + 1
      BY <1>t, <1>1, <2>0, <2>2 DEF WriteRetry
    <3>7. OneFate'
      BY <1>p, <1>1, <2>0, <3>1, <3>3, <3>6 DEF OneFate
    <3> QED BY <3>5, <3>7
  <2>3. CASE WriteGiveUp(x)
    <3>1. \A y \in Writers : job'[y] = IF y = x THEN {} ELSE job[y]
      BY <1>t, <2>3 DEF WriteGiveUp, WriteReturns
    <3>2. \A y \in Writers : y # x => attempt'[y] = attempt[y]
      BY <1>t, <2>3 DEF WriteGiveUp, WriteReturns
    <3>3. failed' = failed \cup job[x]
      BY <2>3 DEF WriteGiveUp
    <3>4. "lostAck" \notin Faults => stored' = stored
      BY <2>3 DEF WriteGiveUp, AttemptFails
    <3>5. RowsInWrite'
      BY <1>p, <1>t, <1>1, <2>0, <3>1, <3>2, <3>3, <3>4 DEF RowsInWrite
    <3>6. ASSUME NEW r \in job[x] PROVE stored'[r] <= MaxRetries + 1
      BY <1>t, <1>1, <2>0
    <3>7. OneFate'
      BY <1>p, <1>1, <2>0, <3>3, <3>4, <3>6 DEF OneFate
    <3> QED BY <3>5, <3>7
  <2> QED BY <2>1, <2>2, <2>3 DEF WriteStep
<1> QED BY <1>p, <1>1, <1>6, <1>7, <1>8, <1>9 DEF SoleCustody, QueueDistinct

LEMMA NextSoleCustody ==
    TypeOK /\ Custody /\ SoleCustody /\ [Next]_vars => SoleCustody'
<1> SUFFICES ASSUME TypeOK, Custody, SoleCustody, [Next]_vars PROVE SoleCustody'
  OBVIOUS
<1> USE DEF SoleCustody, QueueDistinct, NewRows, QueuedRows, BatchedRows,
            RowsInWrite, OneFate, Held, Unsettled
<1>1. CASE UNCHANGED vars
  BY <1>1 DEF vars
<1>2. CASE ShutdownStep
  BY <1>2 DEF workerVars, tableVars, ShutdownStep, ShutdownMark,
              ShutdownClose, ShutdownDone, ShutdownTimeout, ProcessExit
<1> HIDE DEF SoleCustody
<1> QED BY <1>1, <1>2, EnqueueSoleCustody, WorkerSoleCustody, WriteSoleCustody
        DEF Next, Gone

\* Every row meets one fate: a row the timer dropped is never written, and a
\* row is inserted at most once and not also given up, unless the database lost
\* an acknowledgement, when retries bound the copies.
THEOREM FateIsFinal == Spec => []OneFate
<1>1. /\ TypeOK /\ Custody /\ SoleCustody /\ [Next]_vars
         => (TypeOK /\ Custody /\ SoleCustody)'
      /\ SoleCustody => OneFate
  BY NextTypeOK, NextCustody, NextSoleCustody DEF SoleCustody
<1> QED BY InitTypeOK, InitCustody, InitSoleCustody, <1>1, PTL DEF Spec

----------------------------------------------------------------------------
(* RequestLogger implements LogSink *)

\* A worker waits for rows with less than a full batch.
BatchOpen == \A w \in Workers :
    IsFiniteSet(batch[w]) /\ Cardinality(batch[w]) < BatchSize

JobBounded == \A x \in Writers :
    IsFiniteSet(job[x]) /\ Cardinality(job[x]) <= BatchSize

\* The insert is one transaction: the rows of a job are stored together.
JobTogether == \A x \in Writers : \A r, s \in job[x] : stored[r] = stored[s]

Batching == BatchOpen /\ JobBounded /\ JobTogether

SinkInv == TypeOK /\ Custody /\ SoleCustody /\ Batching

----------------------------------------------------------------------------
(* Batches *)

LEMMA InitBatching == Init => Batching
BY FS_EmptySet, LoggerAssumption
   DEF Init, Batching, BatchOpen, JobBounded, JobTogether

LEMMA EnqueueBatching ==
    ASSUME TypeOK, Batching, NEW r \in Rows, EnqueueStep(r)
    PROVE  Batching'
<1> USE DEF Batching, stopVars, workerVars, tableVars
<1>1. UNCHANGED <<batch, stored>>
  BY DEF EnqueueStep, EnqueueDirect, EnqueueSelect, SelectSend, SelectTimer, SelectStop
<1>2. CASE job' = job
  BY <1>1, <1>2 DEF BatchOpen, JobBounded, JobTogether
<1>3. CASE WriteOwnRow(r)
  <2>1. \A x \in Writers : job'[x] = IF x = r THEN {r} ELSE job[x]
    BY <1>3 DEF WriteOwnRow, TypeOK
  <2>2. IsFiniteSet({r}) /\ Cardinality({r}) <= BatchSize
    <3>1. IsFiniteSet({r}) /\ Cardinality({r}) = 1
      BY FS_Singleton, Zenon
    <3> QED BY <3>1, LoggerAssumption
  <2> QED BY <1>1, <2>1, <2>2 DEF BatchOpen, JobBounded, JobTogether
<1> QED BY <1>2, <1>3 DEF EnqueueStep, EnqueueDirect, EnqueueSelect, SelectSend,
                          SelectTimer, SelectStop

\* A batch that a received row fills is handed on at once, so that the next one
\* starts empty; the rows handed on have never been inserted.
LEMMA WorkerBatching ==
    ASSUME TypeOK, SoleCustody, Batching, NEW w \in Workers, WorkerStep(w)
    PROVE  Batching'
<1> USE DEF Batching
<1>t. /\ queue \in Seq(Rows)
      /\ batch \in [Workers -> SUBSET Rows]
      /\ job \in [Writers -> SUBSET Rows]
      /\ Workers \subseteq Writers
  BY DEF TypeOK, Writers
<1>u. stored' = stored
  BY WorkerHands
<1>b. /\ IsFiniteSet(batch[w]) /\ Cardinality(batch[w]) \in Nat
      /\ Cardinality(batch[w]) < BatchSize /\ BatchSize \in Nat \ {0}
  BY FS_CardinalityType, LoggerAssumption DEF BatchOpen
<1>f. ASSUME NEW rows, Flush(w, rows), IsFiniteSet(rows),
             Cardinality(rows) <= BatchSize, \A r \in rows : stored[r] = 0
      PROVE  Batching'
  <2>1. \A v \in Workers : batch'[v] = IF v = w THEN {} ELSE batch[v]
    BY <1>t, <1>f DEF Flush
  <2>2. \A x \in Writers : job'[x] = IF x = w THEN rows ELSE job[x]
    BY <1>t, <1>f DEF Flush
  <2>3. BatchOpen'
    BY <1>b, <2>1, FS_EmptySet DEF BatchOpen
  <2>4. JobBounded'
    BY <1>f, <2>2 DEF JobBounded
  <2>5. JobTogether'
    BY <1>f, <1>u, <2>2 DEF JobTogether
  <2> QED BY <2>3, <2>4, <2>5
<1>1. CASE Receive(w)
  <2> DEFINE rows == batch[w] \cup {Head(queue)}
  <2>1. IsFiniteSet(rows) /\ Cardinality(rows) \in Nat /\ Cardinality(rows) <= BatchSize
    <3>1. IsFiniteSet(rows)
      BY <1>b, FS_AddElement
    <3>2. Cardinality(rows) = IF Head(queue) \in batch[w]
            THEN Cardinality(batch[w]) ELSE Cardinality(batch[w]) + 1
      BY <1>b, FS_AddElement, Zenon
    <3> QED BY <3>1, <3>2, <1>b
  <2>2. \A r \in rows : stored[r] = 0
    <3>1. Head(queue) \in Range(queue)
      BY <1>1, <1>t, RangeTail DEF Receive
    <3> QED BY <3>1 DEF SoleCustody, QueuedRows, BatchedRows, Unsettled
  <2>3. \/ Flush(w, rows)
        \/ /\ ~(Cardinality(rows) >= BatchSize)
           /\ batch' = [batch EXCEPT ![w] = rows] /\ UNCHANGED job
    BY <1>1 DEF Receive
  <2> HIDE DEF rows
  <2>4. CASE Flush(w, rows)
    BY <1>f, <2>1, <2>2, <2>4
  <2>5. CASE /\ ~(Cardinality(rows) >= BatchSize)
             /\ batch' = [batch EXCEPT ![w] = rows] /\ UNCHANGED job
    <3>1. \A v \in Workers : batch'[v] = IF v = w THEN rows ELSE batch[v]
      BY <1>t, <2>5
    <3>2. Cardinality(rows) < BatchSize
      BY <1>b, <2>1, <2>5
    <3> QED BY <1>u, <2>1, <2>5, <3>1, <3>2 DEF BatchOpen, JobBounded, JobTogether
  <2> QED BY <2>3, <2>4, <2>5
<1>2. CASE Tick(w) \/ SeeStop(w) \/ DrainDone(w)
  <2>1. Flush(w, batch[w])
    BY <1>2 DEF Tick, SeeStop, DrainDone
  <2>2. \A r \in batch[w] : stored[r] = 0
    BY DEF SoleCustody, BatchedRows, Unsettled
  <2> QED BY <1>b, <1>f, <2>1, <2>2
<1>3. CASE WorkerReturn(w)
  BY <1>u, <1>3 DEF WorkerReturn, BatchOpen, JobBounded, JobTogether
<1> QED BY <1>1, <1>2, <1>3 DEF WorkerStep

\* An insert counts one more copy of every row of the job, or of none, and a
\* row has only one job.
LEMMA WriteBatching ==
    ASSUME TypeOK, SoleCustody, Batching, NEW x \in Writers, WriteStep(x)
    PROVE  Batching'
<1> USE DEF Batching
<1>t. job \in [Writers -> SUBSET Rows]
  BY DEF TypeOK
<1>1. batch' = batch /\ \A y \in Writers : job'[y] = job[y] \/ job'[y] = {}
  BY <1>t, WriteHands DEF WriteReturns
<1>2. BatchOpen'
  BY <1>1 DEF BatchOpen
<1>3. JobBounded'
  <2>1. IsFiniteSet({}) /\ Cardinality({}) <= BatchSize
    BY FS_EmptySet, LoggerAssumption
  <2> QED BY <1>1, <2>1 DEF JobBounded
<1>4. UNCHANGED stored \/ StoreJob(x)
  BY DEF WriteStep, WriteOK, WriteRetry, WriteGiveUp, AttemptFails
<1>5. ASSUME NEW y \in Writers, NEW r \in job[y], NEW s \in job[y]
      PROVE  stored'[r] = stored'[s]
  <2>1. r \in Rows /\ s \in Rows /\ stored[r] = stored[s]
    BY <1>t DEF JobTogether
  <2>2. r \in job[x] <=> s \in job[x]
    BY DEF SoleCustody, RowsInWrite
  <2> QED BY <1>4, <2>1, <2>2 DEF StoreJob
<1>6. JobTogether'
  BY <1>1, <1>5 DEF JobTogether
<1> QED BY <1>2, <1>3, <1>6

LEMMA NextSinkInv == SinkInv /\ [Next]_vars => SinkInv'
<1> SUFFICES ASSUME SinkInv, [Next]_vars PROVE SinkInv'
  OBVIOUS
<1> USE DEF SinkInv
<1>1. (TypeOK /\ Custody /\ SoleCustody)'
  BY NextTypeOK, NextCustody, NextSoleCustody
<1>2. ASSUME UNCHANGED vars PROVE Batching'
  BY <1>2 DEF vars, Batching, BatchOpen, JobBounded, JobTogether
<1>3. ASSUME ShutdownStep PROVE Batching'
  BY <1>3 DEF workerVars, tableVars, ShutdownStep, ShutdownMark, ShutdownClose,
              ShutdownDone, ShutdownTimeout, ProcessExit,
              Batching, BatchOpen, JobBounded, JobTogether
<1>4. Batching'
  BY <1>2, <1>3, EnqueueBatching, WorkerBatching, WriteBatching DEF Next, Gone
<1> QED BY <1>1, <1>4

----------------------------------------------------------------------------
(* The fate of a row *)

Fates == [r \in Rows |-> FateOf(r)]

\* The fates depend on what is held, in the table or given up, and on Alive.
SameFate(r) ==
    /\ Held(r)' <=> Held(r)
    /\ stored'[r] = stored[r]
    /\ r \in failed' <=> r \in failed
    /\ r \in dropped' <=> r \in dropped

LEMMA SameFateSame ==
    ASSUME NEW r, SameFate(r), Alive' <=> Alive
    PROVE  FateOf(r)' = FateOf(r)
BY DEF SameFate, FateOf

\* A row on its way, and a row of a job.
LEMMA NewFate ==
    ASSUME SoleCustody, NEW r \in Rows, call[r] \in {"idle", "select"}
    PROVE  FateOf(r) = "new" /\ Unsettled(r) /\ ~Held(r)
BY DEF SoleCustody, NewRows, Unsettled, FateOf

LEMMA JobFate ==
    ASSUME TypeOK, SoleCustody, Alive, NEW x \in Writers, NEW r \in job[x]
    PROVE  /\ r \in Rows /\ stored[r] \in Nat
           /\ FateOf(r) = IF stored[r] > 0 THEN "stored" ELSE "held"
<1>1. r \in Rows /\ stored[r] \in Nat
  BY DEF TypeOK
<1>2. Held(r) /\ r \notin failed /\ r \notin dropped
  BY DEF Held, SoleCustody, RowsInWrite
<1> QED BY <1>1, <1>2 DEF FateOf

\* Enqueue takes its row or drops it, or has not decided.
LEMMA EnqueueFate ==
    ASSUME TypeOK, Custody, SoleCustody, Alive, NEW r \in Rows, EnqueueStep(r)
    PROVE  /\ Alive'
           /\ \A s \in Rows \ {r} : FateOf(s)' = FateOf(s)
           /\ \/ FateOf(r)' = FateOf(r)
              \/ FateOf(r) = "new" /\ FateOf(r)' \in {"held", "dropped"}
<1> USE DEF stopVars, workerVars, tableVars
<1>t. queue \in Seq(Rows) /\ job \in [Writers -> SUBSET Rows] /\ Rows \subseteq Writers
  BY DEF TypeOK, Writers
<1>a. Alive'
  BY DEF Alive, EnqueueStep, EnqueueDirect, EnqueueSelect, SelectSend,
         SelectTimer, SelectStop
<1>1. CASE EnqueueSelect(r)
  BY <1>1, <1>a, SameFateSame DEF EnqueueSelect, SameFate, Held
<1>2. CASE EnqueueDirect(r) \/ SelectStop(r)
  <2>1. /\ \A x \in Writers : job'[x] = IF x = r THEN {r} ELSE job[x]
        /\ job[r] = {}
        /\ UNCHANGED <<queue, batch, stored, failed, dropped>>
    BY <1>2, <1>t DEF EnqueueDirect, SelectStop, WriteOwnRow, Custody
  <2>2. FateOf(r) = "new" /\ Unsettled(r) /\ ~Held(r)
    BY <1>2, NewFate DEF EnqueueDirect, SelectStop
  <2>3. FateOf(r)' = "held"
    BY <1>a, <1>t, <2>1, <2>2 DEF FateOf, Held, Unsettled
  <2>4. ASSUME NEW s \in Rows \ {r} PROVE SameFate(s)
    BY <1>t, <2>1, <2>2 DEF SameFate, Held
  <2> QED BY <1>a, <2>2, <2>3, <2>4, SameFateSame
<1>3. CASE SelectSend(r)
  <2>1. /\ Range(queue') = Range(queue) \cup {r}
        /\ UNCHANGED <<batch, job, stored, failed, dropped>>
    BY <1>3, <1>t, RangeAppend DEF SelectSend
  <2>2. FateOf(r) = "new" /\ Unsettled(r) /\ ~Held(r)
    BY <1>3, NewFate DEF SelectSend
  <2>3. FateOf(r)' = "held"
    BY <1>a, <2>1, <2>2 DEF FateOf, Held, Unsettled
  <2>4. ASSUME NEW s \in Rows \ {r} PROVE SameFate(s)
    BY <2>1 DEF SameFate, Held
  <2> QED BY <1>a, <2>2, <2>3, <2>4, SameFateSame
<1>4. CASE SelectTimer(r)
  <2>1. UNCHANGED <<queue, batch, job, stored, failed>> /\ dropped' = dropped \cup {r}
    BY <1>4 DEF SelectTimer
  <2>2. FateOf(r) = "new" /\ Unsettled(r)
    BY <1>4, NewFate DEF SelectTimer
  <2>3. FateOf(r)' = "dropped"
    BY <2>1, <2>2 DEF FateOf, Unsettled
  <2>4. ASSUME NEW s \in Rows \ {r} PROVE SameFate(s)
    BY <2>1 DEF SameFate, Held
  <2> QED BY <1>a, <2>2, <2>3, <2>4, SameFateSame
<1> QED BY <1>1, <1>2, <1>3, <1>4 DEF EnqueueStep

\* What a worker does outside writeWithRetry changes the fate of no row.
LEMMA WorkerFate ==
    ASSUME TypeOK, NEW w \in Workers, WorkerStep(w)
    PROVE  Fates' = Fates
<1>1. Alive' <=> Alive
  BY DEF Alive, stopVars, WorkerStep, Receive, Tick, SeeStop, DrainDone, WorkerReturn
<1>2. ASSUME NEW r \in Rows PROVE FateOf(r)' = FateOf(r)
  BY <1>1, WorkerHands, WorkerHolds, SameFateSame DEF SameFate
<1> QED BY <1>2 DEF Fates

\* A step of writeWithRetry settles its job, all of it and in one way, or none.
LEMMA WriteFate ==
    ASSUME SinkInv, Alive, NEW x \in Writers, WriteStep(x)
    PROVE  /\ Alive'
           /\ \/ Fates' = Fates
              \/ /\ \A r \in job[x] : FateOf(r) = "held"
                 /\ \E f \in {"stored", "failed"} :
                      \A r \in Rows :
                        FateOf(r)' = IF r \in job[x] THEN f ELSE FateOf(r)
<1> USE DEF SinkInv
<1>t. job \in [Writers -> SUBSET Rows] /\ stored \in [Rows -> Nat]
  BY DEF TypeOK
<1>a. Alive'
  BY WriteHands DEF Alive
<1>j. \A r \in job[x] : r \in Rows /\ r \notin failed /\ r \notin dropped
  BY <1>t DEF SoleCustody, RowsInWrite
<1>o. ASSUME NEW r \in Rows, r \notin job[x]
      PROVE  FateOf(r)' = FateOf(r)
  <2>1. /\ stored'[r] = stored[r] /\ (r \in failed' <=> r \in failed)
        /\ UNCHANGED <<queue, batch, dropped>>
    BY <1>o, WriteHands DEF tableVars, WriteStep, WriteOK, WriteRetry,
       WriteGiveUp, AttemptFails, StoreJob
  <2>2. \A y \in Writers : r \in job'[y] <=> r \in job[y]
    BY <1>o, <1>t, WriteHands DEF WriteReturns
  <2> QED BY <1>a, <2>1, <2>2, SameFateSame DEF SameFate, Held
<1>1. CASE \E r \in job[x] : stored[r] > 0
  <2>1. \A r \in job[x] : stored[r] > 0
    BY <1>1 DEF Batching, JobTogether
  <2>2. \A r \in job[x] : stored'[r] > 0
    <3>1. \A r \in Rows : stored'[r] \in Nat /\ stored'[r] >= stored[r]
      BY WriteHands, WriteTypeOK DEF TypeOK
    <3> QED BY <2>1, <3>1, <1>j, <1>t
  <2>3. \A r \in job[x] : FateOf(r)' = FateOf(r)
    BY <2>1, <2>2 DEF FateOf
  <2> QED BY <1>a, <1>o, <2>3 DEF Fates
<1>2. CASE \A r \in job[x] : stored[r] = 0
  <2>1. \A r \in job[x] : FateOf(r) = "held"
    BY <1>2, JobFate
  <2>2. CASE StoreJob(x)
    <3>1. \A r \in job[x] : FateOf(r)' = "stored"
      BY <2>2, StoreJobType DEF FateOf
    <3>2. \A r \in Rows : FateOf(r)' = IF r \in job[x] THEN "stored" ELSE FateOf(r)
      BY <1>o, <1>j, <3>1
    <3> QED BY <1>a, <2>1, <3>2
  <2>3. CASE UNCHANGED stored /\ WriteGiveUp(x)
    <3>1. \A r \in job[x] : FateOf(r)' = "failed"
      BY <1>2, <2>3 DEF FateOf, WriteGiveUp
    <3>2. \A r \in Rows : FateOf(r)' = IF r \in job[x] THEN "failed" ELSE FateOf(r)
      BY <1>o, <1>j, <3>1
    <3> QED BY <1>a, <2>1, <3>2
  <2>4. CASE UNCHANGED stored /\ WriteRetry(x)
    <3>1. \A r \in Rows : SameFate(r)
      BY <2>4 DEF WriteRetry, SameFate, Held, workerVars
    <3>2. \A r \in Rows : FateOf(r)' = FateOf(r)
      BY <1>a, <3>1, SameFateSame
    <3> QED BY <1>a, <3>2 DEF Fates
  <2> QED BY <2>2, <2>3, <2>4 DEF WriteStep, WriteOK, WriteRetry, WriteGiveUp,
                                  AttemptFails
<1> QED BY <1>t, <1>j, <1>1, <1>2

\* Shutdown changes the fate of no row, but the end of the process does: what
\* it still held is gone.
LEMMA ShutdownFate ==
    ASSUME ShutdownStep
    PROVE  /\ Alive
           /\ \/ Alive' /\ Fates' = Fates
              \/ /\ ~Alive'
                 /\ \A r \in Rows :
                      FateOf(r)' = IF FateOf(r) = "held" THEN "gone" ELSE FateOf(r)
<1>1. /\ Alive
      /\ \A r \in Rows : SameFate(r)
  BY DEF Alive, SameFate, Held, ShutdownStep, ShutdownMark, ShutdownClose,
         ShutdownDone, ShutdownTimeout, ProcessExit, workerVars, tableVars
<1>2. CASE Alive'
  <2>1. \A r \in Rows : FateOf(r)' = FateOf(r)
    BY <1>1, <1>2, SameFateSame
  <2> QED BY <1>1, <1>2, <2>1 DEF Fates
<1>3. CASE ~Alive'
  BY <1>1, <1>3 DEF SameFate, FateOf
<1> QED BY <1>2, <1>3

----------------------------------------------------------------------------
(* The refinement *)

LEMMA InitSink == Init => Sink!Init
<1> SUFFICES ASSUME Init PROVE Sink!Init
  OBVIOUS
<1>1. \A r \in Rows : FateOf(r) = "new"
  BY NewFate, InitSoleCustody DEF Init
<1> QED BY <1>1 DEF Sink!Init, Init, Alive

\* The fates of this step, as Meet says it.
LEMMA MeetFates ==
    ASSUME NEW S, NEW f,
           \A r \in Rows : FateOf(r)' = IF r \in S THEN f ELSE FateOf(r)
    PROVE  Sink!Meet(S, f)
BY DEF Sink!Meet

\* Both modules mean the same Cardinality.
LEMMA SinkCardinality == \A S : Sink!Cardinality(S) = Cardinality(S)
BY DEF Sink!Cardinality, Cardinality

LEMMA StepSink == SinkInv /\ [Next]_vars => [Sink!Next]_Sink!vars
<1> SUFFICES ASSUME SinkInv, [Next]_vars PROVE [Sink!Next]_Sink!vars
  OBVIOUS
<1> USE DEF SinkInv
<1>s. ASSUME Fates' = Fates, Alive' <=> Alive PROVE UNCHANGED Sink!vars
  BY <1>s DEF Fates, Sink!vars, Alive
<1>1. CASE UNCHANGED vars
  BY <1>1, <1>s DEF vars, Fates, FateOf, Held, Alive
<1>2. ASSUME Alive, NEW r \in Rows, EnqueueStep(r)
      PROVE  [Sink!Next]_Sink!vars
  <2>1. CASE FateOf(r)' = FateOf(r)
    BY <1>2, <1>s, <2>1, EnqueueFate DEF Fates
  <2>2. CASE FateOf(r) = "new" /\ FateOf(r)' = "held"
    <3>1. Sink!Meet({r}, "held")
      BY <1>2, <2>2, EnqueueFate, MeetFates
    <3> QED BY <1>2, <2>2, <3>1, EnqueueFate DEF Sink!Next, Sink!Take
  <2>3. CASE FateOf(r) = "new" /\ FateOf(r)' = "dropped"
    <3>1. Sink!Meet({r}, "dropped")
      BY <1>2, <2>3, EnqueueFate, MeetFates
    <3> QED BY <1>2, <2>3, <3>1, EnqueueFate DEF Sink!Next, Sink!Drop
  <2> QED BY <1>2, <2>1, <2>2, <2>3, EnqueueFate
<1>3. ASSUME NEW w \in Workers, WorkerStep(w)
      PROVE  [Sink!Next]_Sink!vars
  <2>1. Alive' <=> Alive
    BY <1>3 DEF Alive, stopVars, WorkerStep, Receive, Tick, SeeStop, DrainDone,
                WorkerReturn
  <2> QED BY <1>3, <1>s, <2>1, WorkerFate
<1>4. ASSUME Alive, NEW x \in Writers, WriteStep(x)
      PROVE  [Sink!Next]_Sink!vars
  <2>1. CASE Fates' = Fates
    BY <1>4, <1>s, <2>1, WriteFate
  <2>2. CASE /\ \A r \in job[x] : FateOf(r) = "held"
             /\ \E f \in {"stored", "failed"} : \A r \in Rows :
                  FateOf(r)' = IF r \in job[x] THEN f ELSE FateOf(r)
    <3>1. Sink!Meet(job[x], "stored") \/ Sink!Meet(job[x], "failed")
      BY <2>2, MeetFates
    <3>2. job[x] \in SUBSET Sink!Held
      BY <2>2 DEF Sink!Held, TypeOK
    <3>3. job[x] # {} /\ Cardinality(job[x]) <= BatchSize
      BY <1>4, WriteHands DEF Batching, JobBounded
    <3>4. Sink!Settle(job[x])
      BY <3>1, <3>3, SinkCardinality DEF Sink!Settle
    <3> QED BY <1>4, <3>2, <3>4, WriteFate DEF Sink!Next
  <2> QED BY <1>4, <2>1, <2>2, WriteFate
<1>5. ASSUME ShutdownStep PROVE [Sink!Next]_Sink!vars
  <2>1. CASE Alive' /\ Fates' = Fates
    BY <1>5, <1>s, <2>1, ShutdownFate
  <2>2. CASE /\ ~Alive'
             /\ \A r \in Rows :
                  FateOf(r)' = IF FateOf(r) = "held" THEN "gone" ELSE FateOf(r)
    <3>1. \A r \in Rows : r \in Sink!Held <=> FateOf(r) = "held"
      BY DEF Sink!Held
    <3>2. Sink!Meet(Sink!Held, "gone")
      BY <2>2, <3>1, MeetFates
    <3> QED BY <1>5, <2>2, <3>2, ShutdownFate DEF Sink!Next, Sink!Stop, Alive
  <2> QED BY <1>5, <2>1, <2>2, ShutdownFate
<1> QED BY <1>1, <1>2, <1>3, <1>4, <1>5 DEF Next, Gone

\* The logger implements the sink: with bounded queue, workers, retries and
\* shutdown it does to the fates of the rows what LogSink allows and no more.
\* A row is taken or dropped once; rows are settled in batches of at most
\* batch_size, a batch as a whole; nothing that was taken is forgotten while
\* the process runs, and no fate ever changes again.
THEOREM LoggerIsSink == Spec => ImplementsSink
<1>1. Init => SinkInv
  BY InitTypeOK, InitCustody, InitSoleCustody, InitBatching DEF SinkInv
<1> QED BY <1>1, InitSink, NextSinkInv, StepSink, PTL DEF Spec, ImplementsSink, Sink!Spec

----------------------------------------------------------------------------
(* The process around the logger *)

ServerDown == server \in {"drained", "overdue"}

\* Settled, or sent while some worker was still sure to drain the queue.
InTime(r) == r \in accepted \/ stored[r] > 0 \/ r \in failed \cup dropped

\* The logger is stopped after the server; calls happen in handlers; and as long
\* as the ten seconds are kept, every call finds the logger running.
Quiet ==
    /\ closed \/ stopped \/ shutdown \notin {"serving", "exited"} => ServerDown
    /\ server = "drained" => \A r \in Rows : ~Busy(r)
    /\ \A r \in Rows : request[r] # "handling" => call[r] \in {"idle", "returned"}
    /\ server # "overdue" =>
         /\ Range(queue) \subseteq accepted
         /\ \A r \in Rows : /\ call[r] = "returned" => InTime(r)
                            /\ call[r] = "write" => ~Async
    /\ ~Async => \A w \in Workers : mode[w] = "exited"

GInv == GTypeOK /\ Custody /\ DrainOrder /\ Quiet

----------------------------------------------------------------------------
(* The logger inside the process *)

LEMMA GatewayStep == [GNext]_gvars => [Next]_vars
<1> SUFFICES ASSUME [GNext]_gvars PROVE [Next]_vars
  OBVIOUS
<1>1. CASE \E r \in Rows :
             Connect(r) \/ Handle(r) \/ CloseIdle(r) \/ AnswerRequest(r)
  BY <1>1 DEF Connect, Handle, CloseIdle, AnswerRequest, Move
<1>2. CASE \E r \in Rows : Log(r)
  BY <1>2 DEF Log, Next
<1>3. CASE LoggerStep
  BY <1>3 DEF LoggerStep, Next
<1>4. CASE Listen \/ Signal \/ Drained \/ Overdue
  BY <1>4 DEF Listen, Signal, Drained, Overdue, Advance
<1>5. CASE ShutdownLogger \/ MainReturns \/ Die \/ Stopped
  BY <1>5 DEF ShutdownLogger, MainReturns, Die, Stopped, Next, ShutdownStep
<1>6. CASE UNCHANGED gvars
  BY <1>6 DEF gvars
<1> QED BY <1>1, <1>2, <1>3, <1>4, <1>5, <1>6 DEF GNext

\* Inside the gateway process the logger behaves as RequestLogger says: every
\* theorem about it holds of the gateway.
THEOREM LoggerInside == GatewaySpec => Spec
BY GatewayStep, PTL DEF GatewaySpec, Spec, GInit

\* So the whole process, with its signals, deadlines and crashes, keeps what
\* LogSink promises: a row is settled once, by being stored or being lost.
THEOREM GatewayIsSink == GatewaySpec => ImplementsSink
BY LoggerInside, LoggerIsSink

----------------------------------------------------------------------------
(* The inductive invariant *)

LEMMA InitGInv == GInit => GInv
<1> SUFFICES ASSUME GInit PROVE GInv
  OBVIOUS
<1>1. TypeOK /\ Custody /\ DrainOrder
  BY InitTypeOK, InitCustody, InitDrainOrder DEF GInit
<1>2. Range(queue) = {}
  BY DEF GInit, Init, Range
<1>3. Quiet
  BY <1>2 DEF GInit, Init, Quiet, ServerDown, Busy
<1> QED BY <1>1, <1>3 DEF GInv, GTypeOK, GInit

LEMMA NextGTypeOK == GTypeOK /\ [GNext]_gvars => GTypeOK'
<1> SUFFICES ASSUME GTypeOK, [GNext]_gvars PROVE GTypeOK'
  OBVIOUS
<1>1. TypeOK'
  BY GatewayStep, NextTypeOK DEF GTypeOK
<1> QED BY <1>1 DEF GTypeOK, GNext, gvars, gatewayVars, Connect, Handle,
        CloseIdle, AnswerRequest, Move, Log, LoggerStep, Listen, Signal,
        Drained, Overdue, Advance, ShutdownLogger, MainReturns, Die, Stopped

\* A handler logs: it runs, so the server is not drained, and unless the server
\* is overdue the logger is not stopped.
LEMMA LogQuiet ==
    ASSUME GInv, NEW r \in Rows, Log(r)
    PROVE  Quiet'
<1> USE DEF GInv, GTypeOK
<1>1. /\ request[r] = "handling" /\ server # "drained"
      /\ UNCHANGED <<server, request, stopped, closed, shutdown, mode, stored, failed>>
  BY DEF Log, Quiet, Busy, gatewayVars, stopVars, workerVars, tableVars, EnqueueStep,
         EnqueueDirect, EnqueueSelect, SelectSend, SelectTimer, SelectStop
<1>2. server # "overdue" => ~stopped /\ ~closed
  BY <1>1 DEF Quiet, ServerDown
<1>3. CASE EnqueueDirect(r) \/ EnqueueSelect(r) \/ SelectStop(r)
  <2>1. UNCHANGED <<queue, accepted, dropped>>
    BY <1>3 DEF EnqueueDirect, EnqueueSelect, SelectStop
  <2>2. \A q \in Rows : q # r => call'[q] = call[q]
    BY <1>3 DEF EnqueueDirect, EnqueueSelect, SelectStop, WriteOwnRow, TypeOK
  <2>3. call'[r] \in {"write", "select"}
    BY <1>3 DEF EnqueueDirect, EnqueueSelect, SelectStop, WriteOwnRow, TypeOK
  <2>4. server # "overdue" /\ call'[r] = "write" => ~Async
    BY <1>2, <1>3 DEF EnqueueDirect, EnqueueSelect, SelectStop, TypeOK
  <2> QED BY <1>1, <2>1, <2>2, <2>3, <2>4
          DEF Quiet, ServerDown, Busy, InTime
<1>4. CASE SelectTimer(r)
  <2>1. /\ dropped' = dropped \cup {r} /\ UNCHANGED <<queue, accepted>>
        /\ call' = [call EXCEPT ![r] = "returned"]
    BY <1>4 DEF SelectTimer
  <2> QED BY <1>1, <2>1 DEF Quiet, ServerDown, Busy, InTime, TypeOK
<1>5. CASE SelectSend(r)
  <2>1. call' = [call EXCEPT ![r] = "returned"] /\ UNCHANGED dropped
    BY <1>5 DEF SelectSend
  <2>2. Range(queue') = Range(queue) \cup {r}
    BY <1>5, RangeAppend DEF SelectSend, TypeOK
  <2>3. /\ accepted \subseteq accepted'
        /\ server # "overdue" => accepted' = accepted \cup {r}
    BY <1>2, <1>5 DEF SelectSend
  <2> QED BY <1>1, <2>1, <2>2, <2>3 DEF Quiet, ServerDown, Busy, InTime, TypeOK
<1> QED BY <1>3, <1>4, <1>5 DEF Log, EnqueueStep

LEMMA WorkerQuiet ==
    ASSUME GInv, NEW w \in Workers, WorkerStep(w), UNCHANGED gatewayVars
    PROVE  Quiet'
<1> USE DEF GInv, GTypeOK
<1>1. UNCHANGED <<call, stored, dropped, failed, accepted, server, request>>
  BY WorkerHands DEF gatewayVars
<1>2. UNCHANGED <<stopped, closed, shutdown>>
  BY DEF WorkerStep, Receive, Tick, SeeStop, DrainDone, WorkerReturn, stopVars
<1>3. Range(queue') \subseteq Range(queue)
  BY RangeTail DEF WorkerStep, Receive, Tick, SeeStop, DrainDone, WorkerReturn,
                   TypeOK
<1>4. ~Async => \A v \in Workers : mode'[v] = "exited"
  BY DEF Quiet, WorkerStep, Receive, Tick, SeeStop, DrainDone, WorkerReturn,
         Selecting, TypeOK
<1> QED BY <1>1, <1>2, <1>3, <1>4 DEF Quiet, ServerDown, Busy, InTime

\* A write that returns has settled the row of its caller.
LEMMA WriteQuiet ==
    ASSUME GInv, NEW x \in Writers, WriteStep(x), UNCHANGED gatewayVars
    PROVE  Quiet'
<1> USE DEF GInv, GTypeOK
<1>1. UNCHANGED <<queue, mode, dropped, accepted, closed, shutdown, stopped,
                  server, request>>
  BY WriteHands DEF gatewayVars, WriteStep, WriteOK, WriteRetry, WriteGiveUp, stopVars
<1>2. \A r \in Rows : (stored[r] > 0 => stored'[r] > 0) /\ (r \in failed => r \in failed')
  <2>1. \A r \in Rows : stored[r] \in Nat /\ stored'[r] \in Nat /\ stored'[r] >= stored[r]
    BY WriteHands, WriteTypeOK DEF TypeOK
  <2> QED BY <2>1, WriteHands
<1>3. ASSUME NEW r \in Rows, call'[r] # call[r]
      PROVE  /\ call[r] = "write" /\ call'[r] = "returned"
             /\ stored'[r] > 0 \/ r \in failed'
  <2>1. WriteReturns(x) /\ \A q \in job[x] : stored'[q] > 0 \/ q \in failed'
    BY <1>3, WriteHands
  <2>2. x = r /\ call'[r] = "returned" /\ job[r] # {}
    BY <1>3, <2>1, WriteHands DEF WriteReturns
  <2> QED BY <2>1, <2>2 DEF Custody
<1> QED BY <1>1, <1>2, <1>3 DEF Quiet, ServerDown, Busy, InTime

LEMMA NextQuiet == GInv /\ [GNext]_gvars => Quiet'
<1> SUFFICES ASSUME GInv, [GNext]_gvars PROVE Quiet'
  OBVIOUS
<1> USE DEF GInv, GTypeOK, Quiet, ServerDown, Busy, InTime
<1>1. CASE \E r \in Rows :
             Connect(r) \/ Handle(r) \/ CloseIdle(r) \/ AnswerRequest(r)
  BY <1>1 DEF Connect, Handle, CloseIdle, AnswerRequest, Move, vars
<1>2. CASE Listen \/ Signal \/ Drained \/ Overdue
  BY <1>2 DEF Listen, Signal, Drained, Overdue, Advance, vars
<1>3. CASE ShutdownLogger
  BY <1>3 DEF ShutdownLogger, ShutdownMark, ShutdownClose, ShutdownDone,
              ShutdownTimeout, gatewayVars, workerVars, tableVars
<1>4. CASE MainReturns \/ Die
  BY <1>4 DEF MainReturns, Die, ProcessExit, gatewayVars, workerVars, tableVars
<1>5. CASE Stopped \/ UNCHANGED gvars
  BY <1>5 DEF Stopped, Gone, gvars, gatewayVars, vars
<1>6. CASE LoggerStep
  BY <1>6, WorkerQuiet, WriteQuiet DEF LoggerStep
<1> QED BY <1>1, <1>2, <1>3, <1>4, <1>5, <1>6, LogQuiet DEF GNext

LEMMA NextGInv == GInv /\ [GNext]_gvars => GInv'
BY NextGTypeOK, GatewayStep, NextCustody, NextDrainOrder, NextQuiet
   DEF GInv, GTypeOK

----------------------------------------------------------------------------

LEMMA GInvImplies == GInv => CleanStop /\ HandlersOffDatabase
<1> SUFFICES ASSUME GInv PROVE CleanStop /\ HandlersOffDatabase
  OBVIOUS
<1> USE DEF GInv, GTypeOK
<1>1. HandlersOffDatabase
  BY DEF HandlersOffDatabase, Quiet, TypeOK
<1>2. ASSUME server = "drained", shutdown = "flushed", NEW r \in Rows
      PROVE  /\ ~Busy(r) /\ ~Held(r)
             /\ call[r] # "idle" => stored[r] > 0 \/ r \in failed \cup dropped
  <2>1. \A w \in Workers : mode[w] = "exited"
    BY <1>2 DEF Quiet, DrainOrder
  <2>2. \A w \in Workers : batch[w] = {} /\ job[w] = {}
    BY <2>1 DEF DrainOrder, Draining
  <2>3. \A q \in Rows : ~Busy(q) /\ call[q] \in {"idle", "returned"}
    BY <1>2 DEF Quiet, Busy
  <2>4. \A q \in Rows : job[q] = {}
    BY <2>3 DEF Custody
  <2>5. Range(queue) = {}
    <3>1. Range(queue) \subseteq accepted
      BY <1>2 DEF Quiet
    <3>2. ~Async => accepted = {}
      BY DEF DrainOrder
    <3>3. Async => Range(queue) \cap accepted = {}
      <4>1. PICK w \in Workers : TRUE
        BY LoggerAssumption
      <4> QED BY <2>1, <4>1 DEF DrainOrder, Draining
    <3> QED BY <3>1, <3>2, <3>3
  <2>6. ~Held(r)
    BY <2>2, <2>4, <2>5 DEF Held, Writers
  <2>7. r \in accepted => stored[r] > 0 \/ r \in failed
    BY <1>2, DrainOrderImplies DEF GracefulFlush
  <2> QED BY <1>2, <2>3, <2>6, <2>7 DEF Quiet, InTime
<1> QED BY <1>1, <1>2 DEF CleanStop

\* Whatever numbers the file gives, or none, NewRequestLogger gets sizes that
\* LoggerAssumption asks for, and the timers of logger and proxy run for a
\* positive time (config.go:76-130).
THEOREM DefaultsSuffice ==
    ASSUME NEW read \in Numbers, NEW f \in DOMAIN DefaultNumbers
    PROVE  NumbersWithDefaults(read)[f] \in Nat \ {0}
<1>1. DefaultNumbers[f] \in Nat \ {0}
  BY DEF DefaultNumbers
<1> QED BY <1>1 DEF NumbersWithDefaults, Numbers

\* Types of the whole process.
THEOREM GatewayTypes == GatewaySpec => []GTypeOK
<1>1. GInv => GTypeOK
  BY DEF GInv
<1> QED BY InitGInv, NextGInv, <1>1, PTL DEF GatewaySpec

\* For any number of requests, workers and faults: when the server was drained
\* within its ten seconds and the logger within its own, no row is left in the
\* process and that of every forwarded request has met its fate.
THEOREM NothingLostInCleanStop == GatewaySpec => []CleanStop
BY InitGInv, NextGInv, GInvImplies, PTL DEF GatewaySpec

\* With asynchronous logging no handler writes to the log table itself before
\* the server has overrun its ten seconds.
THEOREM NoHandlerWaitsForDatabase == GatewaySpec => []HandlersOffDatabase
BY InitGInv, NextGInv, GInvImplies, PTL DEF GatewaySpec

=============================================================================
