------------------------------- MODULE Proxy --------------------------------
(***************************************************************************)
(* One forwarded request after another: the handlers and `forward` of      *)
(* internal/service/proxy.go, with the part of internal/transform that     *)
(* decides which of its paths is taken.                                    *)
(*                                                                         *)
(* A handler refuses a request or routes it, calls the upstream once under *)
(* a deadline that also covers reading the body, maps the reply, hands one *)
(* row to the request logger and answers.  Of a body the model keeps what  *)
(* these steps tell apart; what a field mapping makes of a JSON body is    *)
(* any of its outcomes.                                                    *)
(***************************************************************************)
EXTENDS Integers

CONSTANTS
    Requests,   \* goroutines of forwarded requests
    Statuses,   \* HTTP statuses an upstream answers with
    Codes,      \* tenths of base_resp.status_code; 0 for none, or no number
    NoBody,     \* nil bytes
    NoRule, NoReply, NoRow, NoAnswer

\* `usage` of a body: no such field, no object, or an object that has the total,
\* has none to fill it from, can be given one, or has parts whose sum is no
\* float64.  NoBody also stands for the usage bytes of a row being nil.
Usages == {"absent", "other", "complete", "bare", "partial", "overflowing"}

\* Only an object has the fields that matter here.
Body == {b \in [json : {"object", "other", "none"}, code : Codes \cup {0},
                usage : Usages, error : BOOLEAN] :
           b.json # "object" => b.code = 0 /\ b.usage = "absent" /\ ~b.error}

Reply == [status : Statuses, body : Body]

\* Which of its JSON columns a rule has filled in.
Rule == [mapsResponse : BOOLEAN, mapsError : BOOLEAN, normalize : BOOLEAN]

Row == [status : 0..599, failed : BOOLEAN, official : Body \cup {NoBody},
        usage : Usages \cup {NoBody}]

Answer == [status : 200..599, body : Body \cup {NoBody}]

ASSUME ProxyAssumption ==
    /\ Statuses \subseteq 200..599
    /\ Codes \subseteq Int
    /\ NoRow \notin Row /\ NoReply \notin Reply /\ NoRule \notin Rule

VARIABLES
    pc,         \* where each handler is
    rule,       \* the copy of the rule that Find returned
    contacted,  \* httpClient.Do was called
    expired,    \* the context is done: timeout, or the client went away
    reply,      \* the upstream's reply; its body counts once it is read
    out,        \* status, outBody and usage after mapping and normalisation
    row,        \* what logRequest built, the last if there are several
    rows,       \* how many rows were enqueued
    answer      \* what was written to the client

vars == <<pc, rule, contacted, expired, reply, out, row, rows, answer>>

TypeOK ==
    /\ pc \in [Requests -> {"parsing", "building", "waiting", "reading",
                            "mapping", "normalizing", "logging", "answering",
                            "done"}]
    /\ rule \in [Requests -> Rule \cup {NoRule}]
    /\ contacted \in [Requests -> BOOLEAN]
    /\ expired \in [Requests -> BOOLEAN]
    /\ reply \in [Requests -> Reply \cup {NoReply}]
    /\ out \in [Requests -> [status : 200..599, body : Body,
                             usage : Usages \cup {NoBody}] \cup {NoReply}]
    /\ row \in [Requests -> Row \cup {NoRow}]
    /\ rows \in [Requests -> 0..2]
    /\ answer \in [Requests -> Answer \cup {NoAnswer}]

Init ==
    /\ pc = [r \in Requests |-> "parsing"]
    /\ rule = [r \in Requests |-> NoRule]
    /\ contacted = [r \in Requests |-> FALSE]
    /\ expired = [r \in Requests |-> FALSE]
    /\ reply = [r \in Requests |-> NoReply]
    /\ out = [r \in Requests |-> NoReply]
    /\ row = [r \in Requests |-> NoRow]
    /\ rows = [r \in Requests |-> 0]
    /\ answer = [r \in Requests |-> NoAnswer]

----------------------------------------------------------------------------
(* The transformations *)

ErrorBody == [json |-> "object", code |-> 0, usage |-> "absent", error |-> TRUE]

Succeeded(status) == status \in 200..299

\* net/http reads no body after these statuses, and gin writes none.
Bodiless(status) == status \in {204, 304}

\* math.Round of tenths: halves go away from zero.
Rounded(tenths) == IF tenths >= 0 THEN (tenths + 5) \div 10
                                  ELSE -((5 - tenths) \div 10)

LogicalErrorStatusRaw(code) == Rounded(code)    \* mutant: no fallback to 502

\* Only asked of a code other than zero.
LogicalErrorStatus(code) ==
    IF Rounded(code) \in 400..599 THEN Rounded(code) ELSE 502

UpstreamStatus(rep) == rep.status    \* mutant: LogicalErrorStatus is not asked

\* The status `forward` goes on with: a 2xx reply can carry an error code.
ResponseStatus(rep) ==
    IF Succeeded(rep.status) /\ rep.body.code # 0
    THEN LogicalErrorStatus(rep.body.code)
    ELSE rep.status

\* What MapResponse may return without an error: the body as it came when
\* nothing is configured, else an object of the configured fields, whose usage
\* is returned separately as well.
MapResponse(body, configured) ==
    IF ~configured THEN {[body |-> body, usage |-> NoBody]}
    ELSE {[body |-> b, usage |-> b.usage] :
            b \in {b \in Body : body.json # "none" /\ b.json = "object" /\ b.code = 0}}

MapErrorResponseBare(body, configured) ==    \* mutant: ensureOpenAIErrorDefaults
    IF ~configured THEN {ErrorBody}           \* is not called
    ELSE {m.body : m \in MapResponse(body, configured)}

\* MapErrorResponse: an `error` object is made in any case.
MapErrorResponse(body, configured) ==
    IF ~configured THEN {ErrorBody}
    ELSE {[m.body EXCEPT !.error = TRUE] : m \in MapResponse(body, configured)}

Filled(usage) == IF usage = "partial" THEN "complete" ELSE usage

\* NormalizeOpenAIUsageForEndpoint for the two image endpoints, the only ones
\* with a route, when it returns no error.
Normalized(o) ==
    IF o.body.json = "object" /\ o.body.usage \notin {"absent", "other"}
    THEN [o EXCEPT !.body.usage = Filled(@), !.usage = Filled(o.body.usage)]
    ELSE [o EXCEPT !.usage = NoBody]

----------------------------------------------------------------------------
(* The handler *)

Write(r, status, body) ==
    /\ answer' = [answer EXCEPT ![r] = [status |-> status, body |-> body]]
    /\ pc' = [pc EXCEPT ![r] = "done"]

\* logRequest, and with it requestLogger.Enqueue.
LogRequest(r, status, failed, official, usage) ==
    /\ row' = [row EXCEPT ![r] = [status |-> status, failed |-> failed,
                                  official |-> official, usage |-> usage]]
    /\ rows' = [rows EXCEPT ![r] = @ + 1]

\* The body cannot be read, names no model, or no rule is found for the model.
Refuse(r) ==
    /\ pc[r] = "parsing"
    /\ Write(r, 400, ErrorBody)
    /\ UNCHANGED <<rule, contacted, expired, reply, out, row, rows>>

\* cache.Find: rule and provider are copies, taken under one read lock.
Route(r, found) ==
    /\ pc[r] = "parsing"
    /\ rule' = [rule EXCEPT ![r] = found]
    /\ pc' = [pc EXCEPT ![r] = "building"]
    /\ UNCHANGED <<contacted, expired, reply, out, row, rows, answer>>

\* BuildJSON or BuildMultipart fails (400), or the URL or method of the rule
\* makes no request (500): nothing is logged.
BuildFails(r, status) ==
    /\ pc[r] = "building"
    /\ status \in {400, 500}
    /\ Write(r, status, ErrorBody)
    /\ UNCHANGED <<rule, contacted, expired, reply, out, row, rows>>

Send(r) ==
    /\ pc[r] = "building"
    /\ contacted' = [contacted EXCEPT ![r] = TRUE]
    /\ pc' = [pc EXCEPT ![r] = "waiting"]
    /\ UNCHANGED <<rule, expired, reply, out, row, rows, answer>>

\* context.WithTimeout over the context of the request.
Expire(r) ==
    /\ pc[r] \in {"waiting", "reading"}
    /\ ~expired[r]
    /\ expired' = [expired EXCEPT ![r] = TRUE]
    /\ UNCHANGED <<pc, rule, contacted, reply, out, row, rows, answer>>

FailUnlogged(r, status, official) ==    \* mutant: the answer without the row
    /\ out' = [out EXCEPT ![r] = [status |-> 502, body |-> ErrorBody,
                                  usage |-> NoBody]]
    /\ pc' = [pc EXCEPT ![r] = "answering"]
    /\ UNCHANGED <<rule, contacted, expired, reply, row, rows, answer>>

\* The gateway's own answer, 502, after a row that names the failure.
Fail(r, status, official) ==
    /\ LogRequest(r, status, TRUE, official, NoBody)
    /\ out' = [out EXCEPT ![r] = [status |-> 502, body |-> ErrorBody,
                                  usage |-> NoBody]]
    /\ pc' = [pc EXCEPT ![r] = "answering"]
    /\ UNCHANGED <<rule, contacted, expired, reply, answer>>

\* Do returns an error: the network, the deadline, or the client left.
DoFails(r) == pc[r] = "waiting" /\ Fail(r, 0, NoBody)

\* A reply may still win against a deadline that has just passed.
UpstreamReplies(r, rep) ==
    /\ pc[r] = "waiting"
    /\ Bodiless(rep.status) => rep.body.json = "none"
    /\ reply' = [reply EXCEPT ![r] = rep]
    /\ pc' = [pc EXCEPT ![r] = "reading"]
    /\ UNCHANGED <<rule, contacted, expired, out, row, rows, answer>>

ReadFailsUnexpired(r) ==    \* mutant: the deadline does not cover the body
    pc[r] = "reading" /\ ~expired[r] /\ Fail(r, reply[r].status, NoBody)

ReadFails(r) == pc[r] = "reading" /\ Fail(r, reply[r].status, NoBody)

ReadBody(r) ==
    /\ pc[r] = "reading"
    /\ pc' = [pc EXCEPT ![r] = "mapping"]
    /\ UNCHANGED <<rule, contacted, expired, reply, out, row, rows, answer>>

Maps(r) ==
    /\ pc[r] = "mapping"
    /\ LET status == ResponseStatus(reply[r])
       IN  \E m \in IF Succeeded(status)
                    THEN MapResponse(reply[r].body, rule[r].mapsResponse)
                    ELSE {[body |-> b, usage |-> NoBody] :
                            b \in MapErrorResponse(reply[r].body, rule[r].mapsError)} :
             out' = [out EXCEPT ![r] = [status |-> status, body |-> m.body,
                                        usage |-> m.usage]]
    /\ pc' = [pc EXCEPT ![r] = "normalizing"]
    /\ UNCHANGED <<rule, contacted, expired, reply, row, rows, answer>>

\* A configured mapping fails: no JSON, a required field that is not there, or
\* a value that does not convert.
MappingFails(r) ==
    /\ pc[r] = "mapping"
    /\ IF Succeeded(ResponseStatus(reply[r])) THEN rule[r].mapsResponse
                                              ELSE rule[r].mapsError
    /\ Fail(r, ResponseStatus(reply[r]), NoBody)

\* The total cannot be encoded: 1.5e308 and 1.5e308 make +Inf.
Overflows(r) == rule[r].normalize /\ out[r].body.usage = "overflowing"

Normalize(r) ==
    /\ pc[r] = "normalizing" /\ ~Overflows(r)
    /\ out' = [out EXCEPT ![r] = IF rule[r].normalize THEN Normalized(@) ELSE @]
    /\ pc' = [pc EXCEPT ![r] = "logging"]
    /\ UNCHANGED <<rule, contacted, expired, reply, row, rows, answer>>

\* The row has the status the upstream sent, a logical error or not, and the
\* body that the client was to have.
NormalizeFails(r) ==
    pc[r] = "normalizing" /\ Overflows(r) /\ Fail(r, reply[r].status, out[r].body)

LogUpstreamStatus(r) ==    \* mutant: resp.StatusCode in place of responseStatus
    /\ pc[r] = "logging"
    /\ LogRequest(r, reply[r].status, FALSE, out[r].body, out[r].usage)
    /\ pc' = [pc EXCEPT ![r] = "answering"]
    /\ UNCHANGED <<rule, contacted, expired, reply, out, answer>>

\* The row is handed over before the first byte of the answer is written.
Log(r) ==
    /\ pc[r] = "logging"
    /\ LogRequest(r, out[r].status, FALSE, out[r].body, out[r].usage)
    /\ pc' = [pc EXCEPT ![r] = "answering"]
    /\ UNCHANGED <<rule, contacted, expired, reply, out, answer>>

\* c.Data and c.JSON.
WriteAnswer(r) ==
    /\ pc[r] = "answering"
    /\ Write(r, out[r].status, IF Bodiless(out[r].status) THEN NoBody ELSE out[r].body)
    /\ UNCHANGED <<rule, contacted, expired, reply, out, row, rows>>

Handle(r) ==
    \/ Refuse(r)
    \/ \E found \in Rule : Route(r, found)
    \/ \E status \in {400, 500} : BuildFails(r, status)
    \/ Send(r)
    \/ Maps(r) \/ MappingFails(r)
    \/ Normalize(r) \/ NormalizeFails(r)
    \/ Log(r)
    \/ WriteAnswer(r)

\* What the upstream and the network do; nothing makes them do it.
Upstream(r) ==
    \/ \E rep \in Reply : UpstreamReplies(r, rep)
    \/ ReadBody(r)
    \/ DoFails(r)
    \/ ReadFails(r)

Next ==
    \/ \E r \in Requests : Handle(r) \/ Expire(r) \/ Upstream(r)
    \/ (\A r \in Requests : pc[r] = "done") /\ UNCHANGED vars

Spec == Init /\ [][Next]_vars

\* The handler runs on, the deadline comes, and once it has come the call or the
\* read that it covers returns.
FairSpec ==
    /\ Spec
    /\ \A r \in Requests :
         /\ WF_vars(Handle(r))
         /\ WF_vars(Expire(r))
         /\ WF_vars(expired[r] /\ (DoFails(r) \/ ReadFails(r)))

----------------------------------------------------------------------------

\* A request that reached the upstream leaves exactly one row by the time the
\* client is answered, on every path through forward, and one that did not
\* leaves none (proxy.go:154-268).
TracedOnce ==
    \A r \in Requests :
        /\ rows[r] <= 1
        /\ pc[r] = "done" => rows[r] = IF contacted[r] THEN 1 ELSE 0

\* The row tells what the client got: the same status and, where HTTP lets one
\* be sent, the same body when it names no failure, with the usage of that body
\* if with any; and when it names one, the client got a 502 with an error body,
\* whatever status the row has, and a body in the row is one that failed to
\* normalise, which the client never saw (proxy.go:202-269).
LogTellsAnswer ==
    \A r \in Requests :
        pc[r] = "done" /\ row[r] # NoRow =>
            IF row[r].failed
            THEN /\ answer[r] = [status |-> 502, body |-> ErrorBody]
                 /\ row[r].official # NoBody =>
                      rule[r].normalize /\ row[r].official.usage = "overflowing"
            ELSE /\ answer[r].status = row[r].status
                 /\ ~Bodiless(answer[r].status) =>
                      /\ answer[r].body = row[r].official
                      /\ row[r].usage \in {NoBody, answer[r].body.usage}

\* A client that is not answered with a 2xx finds an OpenAI error object in the
\* body, whoever failed (error_response.go:30-111, proxy.go:409-418).  Only a
\* 304 of the upstream is handed on with no body at all.
ErrorsAreShaped ==
    \A r \in Requests :
        pc[r] = "done" /\ ~Succeeded(answer[r].status) =>
            answer[r].status = 304 \/ answer[r].body.error

\* A 2xx is a 2xx of the upstream with no error code of any size in its body
\* (proxy.go:195-201, error_response.go:10-28).
SuccessOnlyFromSuccess ==
    \A r \in Requests :
        pc[r] = "done" /\ Succeeded(answer[r].status) =>
            /\ Succeeded(reply[r].status)
            /\ reply[r].body.code = 0

\* A request that got as far as the upstream is answered, however silent the
\* upstream is (proxy.go:147-152).
AnsweredInTheEnd ==
    \A r \in Requests : contacted[r] ~> pc[r] = "done"

=============================================================================
