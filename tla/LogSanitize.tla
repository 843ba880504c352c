---------------------------- MODULE LogSanitize -----------------------------
(***************************************************************************)
(* What of a body goes into a log row: SanitizeLogPayload of               *)
(* internal/transform/log_sanitize.go for the image endpoints, and         *)
(* jsonbString of internal/service/proxy.go.  Names are in lower case.     *)
(***************************************************************************)
EXTENDS Json

ASSUME RedactedAssumption == "xxxx" \in Texts

Redacted == Str("xxxx")    \* redactedLargeValue

shouldRedactFieldName(name) ==
    name \in {"b64_json", "base64", "image_base64", "mask_base64",
              "audio_base64", "video_base64"}

\* An object is copied as it is, whatever it holds.
redactValue[v \in Json] ==
    CASE v.t = "arr" -> Arr([i \in DOMAIN v.q |-> redactValue[v.q[i]]])
      [] v.t = "obj" -> v
      [] OTHER -> Redacted

redactPath[v \in Json] ==
    [tokens \in Seq(Tokens) |->
        LET token == Head(tokens)
            next == Field(v, token.name)
            below == IF Len(tokens) = 1 THEN redactValue[next]
                     ELSE IF token.array /\ next.t # "arr" THEN next
                     ELSE redactPath[next][Tail(tokens)]
        IN  IF tokens = <<>> THEN v
            ELSE IF v.t = "arr"
            THEN Arr([i \in DOMAIN v.q |-> redactPath[v.q[i]][tokens]])
            ELSE IF Found(next) THEN [v EXCEPT !.f[token.name] = below]
            ELSE v]

sanitizeCommonLargeFields[v \in Json] ==
    CASE v.t = "arr" ->
           Arr([i \in DOMAIN v.q |-> sanitizeCommonLargeFields[v.q[i]]])
      [] v.t = "obj" ->
           Obj([k \in FieldNames |->
                  IF ~Found(v.f[k]) THEN Missing
                  ELSE IF shouldRedactFieldName(k) THEN redactValue[v.f[k]]
                  ELSE sanitizeCommonLargeFields[v.f[k]]])
      [] OTHER -> v

\* redactPaths for the endpoint: the path "image[]" reaches what "image" does.
redactOwn(column, v) ==
    CASE column = "response" -> redactPath[v][<<Each("data"), Key("b64_json")>>]
      [] column = "request" ->
           redactPath[redactPath[redactPath[v]
               [<<Key("image")>>]][<<Each("images")>>]][<<Key("mask")>>]
      [] OTHER -> v

SanitizeLogPayloadCommon(column, v) ==    \* mutant: every endpoint is another one
    IF Found(v) THEN sanitizeCommonLargeFields[v] ELSE v

SanitizeLogPayloadOwn(column, v) ==    \* mutant: the default case does not follow
    IF Found(v) THEN redactOwn(column, v) ELSE v

SanitizeLogPayload(column, v) ==
    IF Found(v) THEN sanitizeCommonLargeFields[redactOwn(column, v)] ELSE v

\* No bytes are a null.  Bodies are JSON here, and within max_payload_bytes.
jsonbString(v) == IF Found(v) THEN v ELSE Null

LogColumn(column, v) == jsonbString(SanitizeLogPayload(column, v))

----------------------------------------------------------------------------
(* What a column shows *)

\* The scalars of a value that are in no object, and those that the names of image
\* data have: alone, or in lists.
Scalars[v \in Json] ==
    CASE v.t = "arr" -> UNION {Scalars[v.q[i]] : i \in DOMAIN v.q}
      [] v.t = "obj" -> {}
      [] OTHER -> {v}

LargeScalars[v \in Json] ==
    CASE v.t = "arr" -> UNION {LargeScalars[v.q[i]] : i \in DOMAIN v.q}
      [] v.t = "obj" -> UNION {IF shouldRedactFieldName(k) THEN Scalars[v.f[k]]
                                                           ELSE LargeScalars[v.f[k]]
                               : k \in {n \in FieldNames : Found(v.f[n])}}
      [] OTHER -> {}

\* Likewise the objects, each with all it holds.
Objects[v \in Json] ==
    CASE v.t = "arr" -> UNION {Objects[v.q[i]] : i \in DOMAIN v.q}
      [] v.t = "obj" -> {v}
      [] OTHER -> {}

LargeObjects[v \in Json] ==
    CASE v.t = "arr" -> UNION {LargeObjects[v.q[i]] : i \in DOMAIN v.q}
      [] v.t = "obj" -> UNION {IF shouldRedactFieldName(k) THEN Objects[v.f[k]]
                                                           ELSE LargeObjects[v.f[k]]
                               : k \in {n \in FieldNames : Found(v.f[n])}}
      [] OTHER -> {}

\* The value without the fields of such names.
Rest[v \in Json] ==
    CASE v.t = "arr" -> Arr([i \in DOMAIN v.q |-> Rest[v.q[i]]])
      [] v.t = "obj" -> Obj([k \in FieldNames |->
                               IF Found(v.f[k]) /\ ~shouldRedactFieldName(k)
                               THEN Rest[v.f[k]] ELSE Missing])
      [] OTHER -> v

============================================================================
