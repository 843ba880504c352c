----------------------------- MODULE ProxyProofs ----------------------------
(***************************************************************************)
(* Proofs about Proxy, for any number of requests and any statuses and     *)
(* error codes.  Trace says at every stage of a request whether its row    *)
(* has been written; Tells carries what will become of the row's status    *)
(* and body until the client has them.                                     *)
(***************************************************************************)
EXTENDS Proxy, TLAPS

Out == [status : 200..599, body : Body, usage : Usages \cup {NoBody}]

\* The stages between Do and logRequest.
Underway == {"waiting", "reading", "mapping", "normalizing", "logging"}

Trace(r) ==
    /\ pc[r] \in {"parsing", "building"} => ~contacted[r] /\ rows[r] = 0 /\ row[r] = NoRow
    /\ pc[r] \in Underway => contacted[r] /\ rows[r] = 0 /\ row[r] = NoRow
    /\ pc[r] = "answering" => contacted[r] /\ rows[r] = 1 /\ row[r] \in Row
    /\ pc[r] = "done" => \/ ~contacted[r] /\ rows[r] = 0 /\ row[r] = NoRow
                         \/ contacted[r] /\ rows[r] = 1 /\ row[r] \in Row

\* Each stage has what it goes on with.
Stage(r) ==
    /\ pc[r] \in Underway \cup {"building"} => rule[r] \in Rule
    /\ pc[r] \in Underway \ {"waiting"} => reply[r] \in Reply
    /\ pc[r] \in {"normalizing", "logging", "answering"} => out[r] \in Out
    /\ pc[r] = "done" => answer[r] \in Answer

\* The status and the body are an honest verdict on the reply.
Honest(r, status, body) ==
    IF Succeeded(status)
    THEN Succeeded(reply[r].status) /\ reply[r].body.code = 0
    ELSE status = 304 \/ body.error

\* The row agrees with the status and the body.
Agrees(r, status, body) ==
    IF row[r].failed
    THEN /\ status = 502 /\ body = ErrorBody
         /\ row[r].official # NoBody =>
              rule[r].normalize /\ row[r].official.usage = "overflowing"
    ELSE /\ status = row[r].status
         /\ ~Bodiless(status) => /\ body = row[r].official
                                 /\ row[r].usage \in {NoBody, body.usage}

Tells(r) ==
    /\ pc[r] \in {"normalizing", "logging"} =>
         /\ Honest(r, out[r].status, out[r].body)
         /\ out[r].usage \in {NoBody, out[r].body.usage}
    /\ pc[r] = "answering" =>
         /\ Honest(r, out[r].status, out[r].body)
         /\ Agrees(r, out[r].status, out[r].body)
    /\ pc[r] = "done" =>
         /\ Honest(r, answer[r].status, answer[r].body)
         /\ row[r] # NoRow => Agrees(r, answer[r].status, answer[r].body)

Inv == TypeOK /\ \A r \in Requests : Trace(r) /\ Stage(r) /\ Tells(r)

----------------------------------------------------------------------------
(* The transformations *)

LEMMA ErrorBodyType == ErrorBody \in Body /\ ErrorBody.error
  BY DEF ErrorBody, Body, Usages

\* A logical error is always answered with an error status.
LEMMA StatusType ==
    ASSUME NEW rep \in Reply
    PROVE  /\ ResponseStatus(rep) \in 200..599
           /\ Succeeded(ResponseStatus(rep)) =>
                Succeeded(rep.status) /\ rep.body.code = 0
  <1>1. ASSUME NEW c PROVE LogicalErrorStatus(c) \in 400..599
    BY DEF LogicalErrorStatus
  <1>2. rep.status \in 200..599
    BY ProxyAssumption DEF Reply
  <1>3. \A c : LogicalErrorStatus(c) \in 200..599 /\ ~Succeeded(LogicalErrorStatus(c))
    BY <1>1 DEF Succeeded
  <1> QED BY <1>2, <1>3 DEF ResponseStatus

LEMMA MapType ==
    ASSUME NEW body \in Body, NEW configured \in BOOLEAN,
           NEW m \in MapResponse(body, configured)
    PROVE  /\ m.body \in Body
           /\ m.usage \in {NoBody, m.body.usage}
           /\ configured => m.body.json = "object"
  BY DEF MapResponse

LEMMA MapErrorType ==
    ASSUME NEW body \in Body, NEW configured \in BOOLEAN,
           NEW b \in MapErrorResponse(body, configured)
    PROVE  b \in Body /\ b.error
  <1>1. CASE ~configured
    BY <1>1, ErrorBodyType DEF MapErrorResponse
  <1>2. CASE configured
    <2>1. PICK m \in MapResponse(body, configured) : b = [m.body EXCEPT !.error = TRUE]
      BY <1>2 DEF MapErrorResponse
    <2>2. m.body \in Body /\ m.body.json = "object"
      BY <1>2, MapType
    <2> QED BY <2>1, <2>2 DEF Body
  <1> QED BY <1>1, <1>2

LEMMA NormalizedType ==
    ASSUME NEW o \in Out
    PROVE  /\ Normalized(o) \in Out
           /\ Normalized(o).status = o.status
           /\ Normalized(o).body.error = o.body.error
           /\ Normalized(o).usage \in {NoBody, Normalized(o).body.usage}
  <1>1. o.body \in Body /\ o.body.usage \in Usages /\ o.status \in 200..599
    BY DEF Out, Body
  <1>2. Filled(o.body.usage) \in Usages
    BY <1>1 DEF Filled, Usages
  <1>4. CASE o.body.json = "object" /\ o.body.usage \notin {"absent", "other"}
    <2>0. [o.body EXCEPT !.usage = Filled(@)] \in Body
      BY <1>1, <1>2, <1>4 DEF Body
    <2>1. Normalized(o) = [status |-> o.status,
                           body |-> [o.body EXCEPT !.usage = Filled(@)],
                           usage |-> Filled(o.body.usage)]
      BY <1>4 DEF Normalized, Out
    <2>2. [o.body EXCEPT !.usage = Filled(@)].error = o.body.error
      BY <1>1 DEF Body
    <2>3. [o.body EXCEPT !.usage = Filled(@)].usage = Filled(o.body.usage)
      BY <1>1 DEF Body
    <2> DEFINE b == [o.body EXCEPT !.usage = Filled(@)]
    <2>4. b \in Body /\ b.error = o.body.error /\ b.usage = Filled(o.body.usage)
      BY <2>0, <2>2, <2>3
    <2>5. Normalized(o) = [status |-> o.status, body |-> b, usage |-> b.usage]
      BY <2>1, <2>4
    <2>6. b.usage \in Usages
      BY <1>2, <2>4
    <2> HIDE DEF b
    <2> QED BY <2>4, <2>5, <2>6, <1>1 DEF Out
  <1>5. CASE ~(o.body.json = "object" /\ o.body.usage \notin {"absent", "other"})
    <2>1. Normalized(o) = [status |-> o.status, body |-> o.body, usage |-> NoBody]
      BY <1>5 DEF Normalized, Out
    <2> QED BY <2>1, <1>1 DEF Out
  <1> QED BY <1>4, <1>5

----------------------------------------------------------------------------
(* The steps *)

\* Only the request that takes a step is changed by it.
Others(r) ==
    \A s \in Requests \ {r} :
        UNCHANGED <<pc[s], rule[s], contacted[s], reply[s], out[s], row[s],
                    rows[s], answer[s]>>

LEMMA OthersKeep ==
    ASSUME Inv, NEW r \in Requests, Others(r), TypeOK',
           (Trace(r) /\ Stage(r) /\ Tells(r))'
    PROVE  Inv'
  <1>1. ASSUME NEW s \in Requests \ {r} PROVE (Trace(s) /\ Stage(s) /\ Tells(s))'
    BY <1>1 DEF Inv, Others, Trace, Stage, Tells, Honest, Agrees
  <1> QED BY <1>1 DEF Inv

LEMMA FailKeeps ==
    ASSUME Inv, NEW r \in Requests, NEW status \in 0..599,
           NEW official \in Body \cup {NoBody}, pc[r] \in Underway,
           Fail(r, status, official),
           official # NoBody => rule[r].normalize /\ official.usage = "overflowing"
    PROVE  Inv'
  <1> USE DEF Inv
  <1> DEFINE newRow == [status |-> status, failed |-> TRUE,
                        official |-> official, usage |-> NoBody]
             newOut == [status |-> 502, body |-> ErrorBody, usage |-> NoBody]
  <1>1. newRow \in Row /\ newRow.failed /\ newRow.official = official
    BY DEF Row
  <1>2. newOut \in Out /\ newOut.status = 502 /\ newOut.body = ErrorBody
    BY ErrorBodyType DEF Out
  <1>3. rows[r] = 0 /\ contacted[r]
    BY DEF Trace
  <1>4. /\ row' = [row EXCEPT ![r] = newRow] /\ rows' = [rows EXCEPT ![r] = rows[r] + 1]
        /\ out' = [out EXCEPT ![r] = newOut] /\ pc' = [pc EXCEPT ![r] = "answering"]
        /\ UNCHANGED <<rule, contacted, expired, reply, answer>>
    BY DEF Fail, LogRequest
  <1> HIDE DEF newRow, newOut
  <1>5. TypeOK'
    BY <1>1, <1>2, <1>3, <1>4 DEF TypeOK, Out
  <1>6. Trace(r)'
    BY <1>1, <1>3, <1>4 DEF TypeOK, Trace, Underway
  <1>7. Stage(r)'
    BY <1>2, <1>4 DEF TypeOK, Stage, Underway
  <1>8. Tells(r)'
    BY <1>1, <1>2, <1>4, ErrorBodyType DEF TypeOK, Tells, Honest, Agrees, Succeeded
  <1>9. Others(r)
    BY <1>4 DEF TypeOK, Others
  <1> QED BY <1>5, <1>6, <1>7, <1>8, <1>9, OthersKeep

LEMMA RefuseKeeps ==
    ASSUME Inv, NEW r \in Requests, pc[r] \in {"parsing", "building"},
           NEW status \in {400, 500}, Write(r, status, ErrorBody),
           UNCHANGED <<rule, contacted, expired, reply, out, row, rows>>
    PROVE  Inv'
  <1> USE DEF Inv
  <1> DEFINE new == [status |-> status, body |-> ErrorBody]
  <1>1. new \in Answer /\ new.status = status /\ new.body = ErrorBody
    BY ErrorBodyType DEF Answer
  <1>2. answer' = [answer EXCEPT ![r] = new] /\ pc' = [pc EXCEPT ![r] = "done"]
    BY DEF Write
  <1> HIDE DEF new
  <1>3. TypeOK'
    BY <1>1, <1>2 DEF TypeOK
  <1>4. Trace(r)'
    BY <1>2 DEF TypeOK, Trace, Underway
  <1>5. Stage(r)'
    BY <1>1, <1>2 DEF TypeOK, Stage, Underway
  <1>6. row[r] = NoRow /\ ~Succeeded(status)
    BY DEF Trace, Succeeded
  <1>7. Tells(r)'
    BY <1>1, <1>2, <1>6, ErrorBodyType DEF TypeOK, Tells, Honest
  <1>8. Others(r)
    BY <1>2 DEF TypeOK, Others
  <1> QED BY <1>3, <1>4, <1>5, <1>7, <1>8, OthersKeep

LEMMA MapsKeeps ==
    ASSUME Inv, NEW r \in Requests, Maps(r)
    PROVE  Inv'
  <1> USE DEF Inv
  <1> DEFINE status == ResponseStatus(reply[r])
  <1>1. pc[r] = "mapping" /\ reply[r] \in Reply /\ rule[r] \in Rule
    BY DEF Maps, Stage, Underway
  <1>2. reply[r].body \in Body /\ rule[r].mapsResponse \in BOOLEAN
        /\ rule[r].mapsError \in BOOLEAN
    BY <1>1 DEF Reply, Rule
  <1>3. PICK m \in IF Succeeded(status)
                   THEN MapResponse(reply[r].body, rule[r].mapsResponse)
                   ELSE {[body |-> b, usage |-> NoBody] :
                           b \in MapErrorResponse(reply[r].body, rule[r].mapsError)} :
              out' = [out EXCEPT ![r] = [status |-> status, body |-> m.body,
                                         usage |-> m.usage]]
    BY DEF Maps
  <1>4. m.body \in Body /\ m.usage \in {NoBody, m.body.usage}
        /\ (~Succeeded(status) => m.body.error)
    <2>1. CASE Succeeded(status)
      BY <1>2, <1>3, <2>1, MapType
    <2>2. CASE ~Succeeded(status)
      <3>1. PICK b \in MapErrorResponse(reply[r].body, rule[r].mapsError) :
                   m = [body |-> b, usage |-> NoBody]
        BY <1>3, <2>2
      <3>2. b \in Body /\ b.error
        BY <1>2, MapErrorType
      <3> QED BY <3>1, <3>2
    <2> QED BY <2>1, <2>2
  <1> DEFINE new == [status |-> status, body |-> m.body, usage |-> m.usage]
  <1>5. new \in Out /\ new.status = status /\ new.body = m.body /\ new.usage = m.usage
    BY <1>1, <1>4, StatusType DEF Out, Body
  <1>6. Honest(r, new.status, new.body)
    BY <1>1, <1>4, <1>5, StatusType DEF Honest
  <1>7. /\ out' = [out EXCEPT ![r] = new] /\ pc' = [pc EXCEPT ![r] = "normalizing"]
        /\ UNCHANGED <<rule, contacted, expired, reply, row, rows, answer>>
    BY <1>3 DEF Maps
  <1> HIDE DEF new, status
  <1>8. TypeOK'
    BY <1>5, <1>7 DEF TypeOK, Out
  <1>9. Trace(r)'
    BY <1>1, <1>7 DEF TypeOK, Trace, Underway
  <1>10. Stage(r)'
    BY <1>1, <1>5, <1>7 DEF TypeOK, Stage, Underway
  <1>11. Tells(r)'
    BY <1>4, <1>5, <1>6, <1>7 DEF TypeOK, Tells, Honest
  <1>12. Others(r)
    BY <1>7 DEF TypeOK, Others
  <1> QED BY <1>8, <1>9, <1>10, <1>11, <1>12, OthersKeep

LEMMA NormalizeKeeps ==
    ASSUME Inv, NEW r \in Requests, Normalize(r)
    PROVE  Inv'
  <1> USE DEF Inv
  <1> DEFINE new == IF rule[r].normalize THEN Normalized(out[r]) ELSE out[r]
  <1>1. pc[r] = "normalizing" /\ out[r] \in Out /\ reply[r] \in Reply /\ rule[r] \in Rule
    BY DEF Normalize, Stage, Underway
  <1>2. /\ new \in Out /\ new.status = out[r].status
        /\ new.body.error = out[r].body.error
        /\ new.usage \in {NoBody, new.body.usage}
    BY <1>1, NormalizedType DEF Tells
  <1>3. /\ out' = [out EXCEPT ![r] = new] /\ pc' = [pc EXCEPT ![r] = "logging"]
        /\ UNCHANGED <<rule, contacted, expired, reply, row, rows, answer>>
    BY DEF Normalize
  <1> HIDE DEF new
  <1>4. TypeOK'
    BY <1>2, <1>3 DEF TypeOK, Out
  <1>5. Trace(r)'
    BY <1>1, <1>3 DEF TypeOK, Trace, Underway
  <1>6. Stage(r)'
    BY <1>1, <1>2, <1>3 DEF TypeOK, Stage, Underway
  <1>7. Tells(r)'
    BY <1>1, <1>2, <1>3 DEF TypeOK, Tells, Honest
  <1>8. Others(r)
    BY <1>3 DEF TypeOK, Others
  <1> QED BY <1>4, <1>5, <1>6, <1>7, <1>8, OthersKeep

LEMMA LogKeeps ==
    ASSUME Inv, NEW r \in Requests, Log(r)
    PROVE  Inv'
  <1> USE DEF Inv
  <1> DEFINE new == [status |-> out[r].status, failed |-> FALSE,
                     official |-> out[r].body, usage |-> out[r].usage]
  <1>1. pc[r] = "logging" /\ out[r] \in Out /\ rows[r] = 0 /\ contacted[r]
    BY DEF Log, Stage, Trace, Underway
  <1>2. /\ new \in Row /\ ~new.failed /\ new.status = out[r].status
        /\ new.official = out[r].body /\ new.usage = out[r].usage
    BY <1>1 DEF Out, Row
  <1>3. /\ row' = [row EXCEPT ![r] = new] /\ rows' = [rows EXCEPT ![r] = rows[r] + 1]
        /\ pc' = [pc EXCEPT ![r] = "answering"]
        /\ UNCHANGED <<rule, contacted, expired, reply, out, answer>>
    BY DEF Log, LogRequest
  <1> HIDE DEF new
  <1>4. TypeOK'
    BY <1>1, <1>2, <1>3 DEF TypeOK
  <1>5. Trace(r)'
    BY <1>1, <1>2, <1>3 DEF TypeOK, Trace, Underway
  <1>6. Stage(r)'
    BY <1>1, <1>3 DEF TypeOK, Stage, Underway
  <1>7. Tells(r)'
    BY <1>1, <1>2, <1>3 DEF TypeOK, Tells, Honest, Agrees
  <1>8. Others(r)
    BY <1>3 DEF TypeOK, Others
  <1> QED BY <1>4, <1>5, <1>6, <1>7, <1>8, OthersKeep

LEMMA WriteAnswerKeeps ==
    ASSUME Inv, NEW r \in Requests, WriteAnswer(r)
    PROVE  Inv'
  <1> USE DEF Inv
  <1> DEFINE new == [status |-> out[r].status,
                     body |-> IF Bodiless(out[r].status) THEN NoBody ELSE out[r].body]
  <1>1. pc[r] = "answering" /\ out[r] \in Out
    BY DEF WriteAnswer, Stage
  <1>2. /\ new \in Answer /\ new.status = out[r].status
        /\ ~Bodiless(new.status) => new.body = out[r].body
    BY <1>1 DEF Out, Answer
  <1>3. /\ answer' = [answer EXCEPT ![r] = new] /\ pc' = [pc EXCEPT ![r] = "done"]
        /\ UNCHANGED <<rule, contacted, expired, reply, out, row, rows>>
    BY DEF WriteAnswer, Write
  <1> HIDE DEF new
  <1>4. TypeOK'
    BY <1>2, <1>3 DEF TypeOK
  <1>5. Trace(r)'
    BY <1>1, <1>3 DEF TypeOK, Trace, Underway
  <1>6. Stage(r)'
    BY <1>2, <1>3 DEF TypeOK, Stage, Underway
  <1>7. Tells(r)'
    <2>1. /\ answer'[r] = new /\ pc'[r] = "done"
          /\ reply'[r] = reply[r] /\ row'[r] = row[r] /\ rule'[r] = rule[r]
      BY <1>3 DEF TypeOK
    <2>2. Honest(r, out[r].status, out[r].body) /\ Agrees(r, out[r].status, out[r].body)
      BY <1>1 DEF Tells
    <2>3. (new.status # 304 => new.body = out[r].body) \/ Succeeded(new.status)
      BY <1>2 DEF Bodiless, Succeeded
    <2>4. Honest(r, new.status, new.body)
      BY <1>2, <2>2, <2>3 DEF Honest
    <2>5. Agrees(r, new.status, new.body)
      BY <1>2, <2>2 DEF Agrees, Bodiless
    <2> QED BY <2>1, <2>4, <2>5 DEF Tells, Honest, Agrees
  <1>8. Others(r)
    BY <1>3 DEF TypeOK, Others
  <1> QED BY <1>4, <1>5, <1>6, <1>7, <1>8, OthersKeep

\* The steps that hand over nothing but the stage.
LEMMA AdvanceKeeps ==
    ASSUME Inv, NEW r \in Requests,
           \/ \E found \in Rule : Route(r, found)
           \/ Send(r)
           \/ \E rep \in Reply : UpstreamReplies(r, rep)
           \/ ReadBody(r)
           \/ Expire(r)
    PROVE  Inv'
  <1> USE DEF Inv
  <1>1. CASE \E found \in Rule : Route(r, found)
    <2>1. TypeOK' /\ Trace(r)' /\ Stage(r)' /\ Others(r)
      BY <1>1 DEF Route, TypeOK, Trace, Stage, Underway, Others
    <2>2. Tells(r)'
      BY <1>1 DEF Route, TypeOK, Tells
    <2> QED BY <2>1, <2>2, OthersKeep
  <1>2. CASE Send(r)
    <2>1. TypeOK' /\ Trace(r)' /\ Others(r)
      BY <1>2 DEF Send, TypeOK, Trace, Underway, Others
    <2>2. Tells(r)'
      BY <1>2 DEF Send, TypeOK, Tells
    <2>3. Stage(r)'
      BY <1>2 DEF Send, TypeOK, Stage, Underway
    <2> QED BY <2>1, <2>2, <2>3, OthersKeep
  <1>3. CASE \E rep \in Reply : UpstreamReplies(r, rep)
    <2>1. TypeOK' /\ Trace(r)' /\ Stage(r)' /\ Others(r)
      BY <1>3 DEF UpstreamReplies, TypeOK, Trace, Stage, Underway, Others
    <2>2. Tells(r)'
      BY <1>3 DEF UpstreamReplies, TypeOK, Tells
    <2> QED BY <2>1, <2>2, OthersKeep
  <1>4. CASE ReadBody(r)
    <2>1. TypeOK' /\ Trace(r)' /\ Stage(r)' /\ Others(r)
      BY <1>4 DEF ReadBody, TypeOK, Trace, Stage, Underway, Others
    <2>2. Tells(r)'
      BY <1>4 DEF ReadBody, TypeOK, Tells
    <2> QED BY <2>1, <2>2, OthersKeep
  <1>5. CASE Expire(r)
    <2>1. TypeOK' /\ Trace(r)' /\ Stage(r)' /\ Others(r)
      BY <1>5 DEF Expire, TypeOK, Trace, Stage, Underway, Others
    <2>2. Tells(r)'
      BY <1>5 DEF Expire, TypeOK, Tells
    <2> QED BY <2>1, <2>2, OthersKeep
  <1> QED BY <1>1, <1>2, <1>3, <1>4, <1>5

LEMMA InitInv == Init => Inv
  BY DEF Init, Inv, TypeOK, Trace, Stage, Tells, Underway

LEMMA NextInv == Inv /\ [Next]_vars => Inv'
  <1> SUFFICES ASSUME Inv, [Next]_vars PROVE Inv'
    OBVIOUS
  <1>1. ASSUME NEW r \in Requests, Handle(r) PROVE Inv'
    <2>1. CASE Refuse(r)
      BY <2>1, RefuseKeeps DEF Refuse
    <2>2. CASE \E status \in {400, 500} : BuildFails(r, status)
      BY <2>2, RefuseKeeps DEF BuildFails
    <2>3. CASE MappingFails(r)
      <3>1. reply[r] \in Reply /\ pc[r] \in Underway
        BY <2>3 DEF MappingFails, Inv, Stage, Underway
      <3>2. ResponseStatus(reply[r]) \in 0..599
        BY <3>1, StatusType
      <3> QED BY <2>3, <3>1, <3>2, FailKeeps DEF MappingFails
    <2>4. CASE NormalizeFails(r)
      <3>1. reply[r] \in Reply /\ out[r] \in Out /\ pc[r] \in Underway
        BY <2>4 DEF NormalizeFails, Inv, Stage, Underway
      <3>2. reply[r].status \in 200..599 /\ out[r].body \in Body
        BY <3>1, ProxyAssumption DEF Reply, Out
      <3>3. reply[r].status \in 0..599
        BY <3>2
      <3>4. /\ Fail(r, reply[r].status, out[r].body)
            /\ rule[r].normalize /\ out[r].body.usage = "overflowing"
        BY <2>4 DEF NormalizeFails, Overflows
      <3> QED BY <3>1, <3>2, <3>3, <3>4, FailKeeps
    <2> QED
      BY <1>1, <2>1, <2>2, <2>3, <2>4, MapsKeeps, NormalizeKeeps, LogKeeps,
         WriteAnswerKeeps, AdvanceKeeps DEF Handle
  <1>2. ASSUME NEW r \in Requests, Upstream(r) PROVE Inv'
    <2>1. CASE DoFails(r)
      BY <2>1, FailKeeps DEF DoFails, Underway
    <2>2. CASE ReadFails(r)
      <3>1. reply[r] \in Reply /\ pc[r] \in Underway
        BY <2>2 DEF ReadFails, Inv, Stage, Underway
      <3>2. reply[r].status \in 200..599
        BY <3>1, ProxyAssumption DEF Reply
      <3>3. reply[r].status \in 0..599
        BY <3>2
      <3> QED BY <2>2, <3>1, <3>3, FailKeeps DEF ReadFails
    <2> QED BY <1>2, <2>1, <2>2, AdvanceKeeps DEF Upstream
  <1>3. CASE UNCHANGED vars
    BY <1>3 DEF vars, Inv, TypeOK, Trace, Stage, Tells, Honest, Agrees
  <1> QED BY <1>1, <1>2, <1>3, AdvanceKeeps DEF Next

\* Every variable keeps its type; in particular every status that is written is
\* one that may be written.
THEOREM TypeCorrect == Spec => []TypeOK
  <1>1. Inv => TypeOK
    BY DEF Inv
  <1> QED BY InitInv, NextInv, <1>1, PTL DEF Spec

\* One row for a request that reached the upstream, none for another.
THEOREM TracedExactlyOnce == Spec => []TracedOnce
  <1>1. Inv => TracedOnce
    <2> SUFFICES ASSUME Inv, NEW r \in Requests
                 PROVE  /\ rows[r] <= 1
                        /\ pc[r] = "done" => rows[r] = IF contacted[r] THEN 1 ELSE 0
      BY DEF TracedOnce
    <2>1. pc[r] \in {"parsing", "building", "answering", "done"} \cup Underway
      BY DEF Inv, TypeOK, Underway
    <2>2. rows[r] = 0 \/ rows[r] = 1
      BY <2>1 DEF Inv, Trace
    <2>3. pc[r] = "done" => rows[r] = IF contacted[r] THEN 1 ELSE 0
      BY DEF Inv, Trace
    <2> QED BY <2>2, <2>3
  <1> QED BY InitInv, NextInv, <1>1, PTL DEF Spec

\* The row says what the client got.
THEOREM RowTellsAnswer == Spec => []LogTellsAnswer
  <1>1. Inv => LogTellsAnswer
    <2> SUFFICES ASSUME Inv, NEW r \in Requests, pc[r] = "done", row[r] # NoRow
                 PROVE  IF row[r].failed
                        THEN /\ answer[r] = [status |-> 502, body |-> ErrorBody]
                             /\ row[r].official # NoBody =>
                                  /\ rule[r].normalize
                                  /\ row[r].official.usage = "overflowing"
                        ELSE /\ answer[r].status = row[r].status
                             /\ ~Bodiless(answer[r].status) =>
                                  /\ answer[r].body = row[r].official
                                  /\ row[r].usage \in {NoBody, answer[r].body.usage}
      BY DEF LogTellsAnswer
    <2>1. Agrees(r, answer[r].status, answer[r].body) /\ answer[r] \in Answer
      BY DEF Inv, Tells, Stage
    <2> QED BY <2>1 DEF Agrees, Answer
  <1> QED BY InitInv, NextInv, <1>1, PTL DEF Spec

\* An answer that is no success carries an error object.
THEOREM EveryErrorIsShaped == Spec => []ErrorsAreShaped
  <1>1. Inv => ErrorsAreShaped
    BY DEF Inv, Tells, Honest, ErrorsAreShaped
  <1> QED BY InitInv, NextInv, <1>1, PTL DEF Spec

\* No failure of the upstream, in its status or in its body, becomes a success.
THEOREM NoErrorIsMasked == Spec => []SuccessOnlyFromSuccess
  <1>1. Inv => SuccessOnlyFromSuccess
    BY DEF Inv, Tells, Honest, SuccessOnlyFromSuccess
  <1> QED BY InitInv, NextInv, <1>1, PTL DEF Spec

=============================================================================
