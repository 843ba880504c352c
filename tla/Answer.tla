------------------------------- MODULE Answer -------------------------------
(***************************************************************************)
(* From the upstream's body to the client's answer and to its log row, as  *)
(* `forward` of internal/service/proxy.go makes them: the mapping of       *)
(* ResponseMapping or none, the error body of error_response.go, the usage *)
(* of transform.go and the columns of the row.  Proxy has the control of   *)
(* these steps and any outcome of each; here is what the outcomes are.     *)
(* What is read back as JSON has lost what float64s do not keep.           *)
(***************************************************************************)
EXTENDS ResponseMapping, LogSanitize, Usage

CONSTANTS
    Bodies,         \* the upstream's bodies as they come, before decoding
    ErrorOfficial,  \* the official paths of error bodies
    Statuses,       \* statuses of failed replies
    KnownStatuses,  \* those that http.StatusText has a text for
    NoAnswer

RequestFailed == "upstream request failed"

\* json.Unmarshal of bytes that may be nil.
Decode(v) == IF Found(v) THEN Decoded[v] ELSE Missing

ASSUME AnswerAssumption ==
    /\ {"error", "message", "type", "param", "code", "base_resp", "status_msg",
        "status_code", "detail", "data", "b64_json"} \subseteq FieldNames
    /\ {"text", "upstream_error", RequestFailed, "unsupported",
        "channel_adapter_gateway_error", "normalize_response_failed"} \subseteq Texts
    /\ Bodies \subseteq Json /\ {Decoded[b] : b \in Bodies} \subseteq Sources
    /\ Statuses \subseteq Nat
    /\ MaxDepth >= 2

VARIABLES
    received, \* respBody
    failed,   \* the reply is an error, by its status or by its base_resp
    answer,   \* the body for the client, the usage for the row, and the body that
              \* the client was to have if the normalisation of it failed
    row       \* the columns that hold bodies

avars == <<vars, received, failed, answer, row>>

Configured == DOMAIN fieldMap \cup DOMAIN defaults # {}

\* With nothing configured there is nothing to map.
AInit ==
    /\ received \in Bodies
    /\ source = Decoded[received]
    /\ \/ Init
       \/ /\ fieldMap = [p \in {} |-> <<>>] /\ defaults = [p \in {} |-> Null]
          /\ target = NoFields
          /\ pending = {} /\ phase = "done"
    /\ failed \in BOOLEAN
    /\ \A path \in DOMAIN fieldMap \cup DOMAIN defaults :
         failed <=> path \in ErrorOfficial
    /\ answer = NoAnswer
    /\ row = NoAnswer

----------------------------------------------------------------------------
(* Error bodies *)

StatusText(status) == IF status \in KnownStatuses THEN Str("text") ELSE NoText
StatusCode(status) == Digits(10 * status)

ErrorBody(e) == Obj([error |-> Obj(e)])

Or(text, default) == IF text = NoText THEN default ELSE text

\* The first path at which there is a text, or what can be written as one.
firstStringPath(v, paths) ==
    LET At(i) == getByTokens[v][paths[i]]
        text == [i \in DOMAIN paths |-> IF Found(At(i)) THEN toStringValue(At(i))
                                                        ELSE NoText]
        First(i) == text[i] # NoText /\ \A j \in 1..i - 1 : text[j] = NoText
    IN  IF \A i \in DOMAIN paths : text[i] = NoText THEN NoText
        ELSE text[CHOOSE i \in DOMAIN paths : First(i)]

defaultOpenAIErrorFlat(status, v) ==    \* mutant: the paths below `error` are missing
    ErrorBody([message |-> Or(firstStringPath(v, <<<<Key("message")>>>>), Str("failed")),
               code |-> Or(firstStringPath(v, <<<<Key("code")>>>>), StatusCode(status)),
               type |-> Str("upstream_error"), param |-> NoText])

defaultOpenAIError(status, v) ==
    LET error(name) == <<Key("error"), Key(name)>>
        base(name) == <<Key("base_resp"), Key(name)>>
        top(name) == <<Key(name)>>
        message == firstStringPath(v,
            <<error("message"), top("message"), base("status_msg"), base("message"),
              top("status_msg"), top("detail")>>)
        code == firstStringPath(v,
            <<error("code"), top("code"), base("status_code"), top("status_code")>>)
        type == firstStringPath(v, <<error("type"), top("type")>>)
    IN  ErrorBody(
          [message |-> Or(Or(message, StatusText(status)), Str(RequestFailed)),
           code |-> Or(code, StatusCode(status)),
           type |-> Or(type, Str("upstream_error")),
           param |-> firstStringPath(v, <<error("param"), top("param")>>)])

\* A field that the mapping has made stays, be it empty or no text.
ensureOpenAIErrorDefaults(status, fields) ==
    LET error == Fields(fields["error"])
        default == Obj([message |-> StatusText(status), type |-> Str("upstream_error"),
                        param |-> NoText, code |-> StatusCode(status)])
    IN  Obj([fields EXCEPT !["error"] =
               Obj([k \in FieldNames |-> IF Found(error[k]) THEN error[k]
                                                           ELSE default.f[k]])])

MapErrorResponse(status) ==
    IF Configured THEN ensureOpenAIErrorDefaults(status, target)
                  ELSE defaultOpenAIError(status, source)

----------------------------------------------------------------------------
(* forward *)

openAIError(code, text) ==
    ErrorBody([message |-> Str(text), type |-> Str("channel_adapter_gateway_error"),
               param |-> NoText, code |-> Str(code)])

\* Without a mapping a good body is not even decoded.
MappedBody == IF Configured THEN Obj(target) ELSE received

\* MapResponse returns the usage of what it has made, a null if there is none.
Outcome(status) ==
    IF failed THEN [body |-> MapErrorResponse(status), usage |-> Missing, err |-> FALSE]
    ELSE [body |-> MappedBody, err |-> FALSE,
          usage |-> IF Configured THEN jsonbString(Field(MappedBody, "usage")) ELSE Missing]

\* outBody, usage and err once they are normalised, if they are.
Final(status, normalize) ==
    IF normalize THEN normalizeOpenAIInputOutputUsage(Outcome(status).body)
                 ELSE Outcome(status)

\* With an error the row has the body all the same, and the client another one.
Sent(final) ==
    IF final.err
    THEN [body |-> openAIError("normalize_response_failed", "unsupported"),
          usage |-> final.usage, unsent |-> final.body]
    ELSE [body |-> final.body, usage |-> final.usage, unsent |-> Missing]

Columns(final) ==
    [upstream_response |-> LogColumn("response", source),
     official_response |-> LogColumn("response", Decode(final.body)),
     response_usage |-> LogColumn("usage", Decode(final.usage))]

Reply(status, normalize) ==
    /\ phase = "done" /\ answer = NoAnswer
    /\ answer' = Sent(Final(status, normalize))
    /\ row' = Columns(Final(status, normalize))
    /\ UNCHANGED <<vars, received, failed>>

ANext ==
    \/ Next /\ phase \notin {"done", "failed"} /\ UNCHANGED <<received, failed, answer, row>>
    \/ \E status \in Statuses, normalize \in BOOLEAN : Reply(status, normalize)
    \/ (phase = "failed" \/ answer # NoAnswer) /\ UNCHANGED avars

ASpec == AInit /\ [][ANext]_avars

----------------------------------------------------------------------------

Answers == answer # NoAnswer

Withheld == Found(answer.unsent)

\* The usage of the row is the usage in the client's answer; and between mapping
\* and answer nothing of a good body changes, for a reader that takes numbers as
\* float64s, but the total, which is the upstream's own, or else the sum of the
\* numbers it gave.  A body is withheld, and its usage, only when it has no total
\* and that sum is no float64 (transform.go:217-243, proxy.go:236-269).
UsageAddsUp ==
    Answers /\ ~failed =>
        IF Withheld
        THEN LET usage == Field(Decoded[MappedBody], "usage")
             IN  /\ Field(usage, "total_tokens").t \in {"null", "missing"}
                 /\ Exact(usage) \notin Numbers
                 /\ answer.unsent = MappedBody /\ row.response_usage = Null
        ELSE /\ answer.usage.t = "obj" =>
                  /\ answer.usage = Field(answer.body, "usage")
                  /\ Rest[row.response_usage] = Rest[Decoded[answer.usage]]
             /\ OnlyTotalChanges(Decoded[MappedBody], Decoded[answer.body])

\* A client whose request failed, or whose answer was withheld, always finds the
\* four fields of an official error.  Without an error mapping they are texts, only
\* `param` may be empty, and another gateway of this kind in front passes them on
\* unchanged (error_response.go:30-111, proxy.go:409-418).
ErrorsSpeakOpenAI ==
    Answers /\ (failed \/ Withheld) =>
        LET error == Fields(Field(answer.body, "error"))
        IN  /\ \A k \in {"message", "type", "code", "param"} : Found(error[k])
            /\ ~Configured \/ Withheld =>
                 /\ \A k \in {"message", "type", "code", "param"} :
                      error[k].t \in {"str", "digits"} /\ (error[k] = NoText => k = "param")
                 /\ \A status \in Statuses :
                      defaultOpenAIError(status, answer.body) = answer.body

\* The row shows what the upstream sent and what the client got, or was to get:
\* numbers as float64s, and with a mark for every scalar, alone or in lists, that
\* has a name for image data at any depth.  An object with such a name is there
\* whole, whatever it holds, and nothing else is changed either
\* (log_sanitize.go:20-142, proxy.go:236-269, 306-317).
RowShowsAllButImages ==
    Answers =>
        \A shown \in {<<row.upstream_response, Decoded[received]>>,
                      <<row.official_response,
                        Decoded[IF Withheld THEN answer.unsent ELSE answer.body]>>} :
            /\ LargeScalars[shown[1]] \subseteq {Redacted}
            /\ LargeObjects[shown[1]] = LargeObjects[shown[2]]
            /\ Rest[shown[1]] = Rest[shown[2]]

============================================================================
