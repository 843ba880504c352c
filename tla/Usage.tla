------------------------------- MODULE Usage --------------------------------
(***************************************************************************)
(* The usage of an answer of the image endpoints:                          *)
(* NormalizeOpenAIUsageForEndpoint of internal/transform/transform.go,     *)
(* which decodes the whole body, numbers as float64s, and encodes it anew. *)
(***************************************************************************)
EXTENDS JsonValues

CONSTANT Float    \* the float64 nearest to a numeral

ASSUME FloatAssumption ==
    /\ Float \in [Numbers -> Numbers]
    /\ \A n \in Numbers : Float[Float[n]] = Float[n]

ASSUME UsageNames ==
    {"usage", "input_tokens", "output_tokens", "total_tokens"} \subseteq FieldNames

\* json.Unmarshal into `any`, of a body that json.Marshal then writes as it is.
Decoded[v \in Json] ==
    CASE v.t = "num" -> Num(Float[v.n])
      [] v.t = "arr" -> Arr([i \in DOMAIN v.q |-> Decoded[v.q[i]]])
      [] v.t = "obj" -> Obj([k \in FieldNames |-> IF Found(v.f[k]) THEN Decoded[v.f[k]]
                                                                 ELSE Missing])
      [] OTHER -> v

toFloat(v) == IF v.t = "num" THEN v.n ELSE 0

\* The sum of two float64s before it is rounded.
Exact(usage) == toFloat(Field(usage, "input_tokens"))
                + toFloat(Field(usage, "output_tokens"))

Sum(usage) == Num(Float[Exact(usage)])

FilledAlways(usage) ==    \* mutant: the total is always computed
    [usage EXCEPT !.f["total_tokens"] = Sum(usage)]

\* The total is filled in when it is null, and when it is missing and one of the
\* two others is there.
Lacking(usage) ==
    \/ Field(usage, "total_tokens") = Null
    \/ /\ ~Found(Field(usage, "total_tokens"))
       /\ \/ Found(Field(usage, "input_tokens"))
          \/ Found(Field(usage, "output_tokens"))

Filled(usage) ==
    IF Lacking(usage) THEN [usage EXCEPT !.f["total_tokens"] = Sum(usage)] ELSE usage

\* A sum beyond the largest float64 is an infinity, which json.Marshal refuses.
Overflows(usage) == Lacking(usage) /\ Exact(usage) \notin Numbers

\* A body without a usage object is returned as it came, not encoded anew.
normalizeOpenAIInputOutputUsage(body) ==
    LET payload == Decoded[body]
        usage == Field(payload, "usage")
    IN  IF usage.t # "obj" \/ Overflows(usage)
        THEN [body |-> body, usage |-> Missing, err |-> usage.t = "obj"]
        ELSE [body |-> [payload EXCEPT !.f["usage"] = Filled(usage)],
              usage |-> Filled(usage), err |-> FALSE]

----------------------------------------------------------------------------

\* From one decoded body to the other nothing changes but the total of the usage,
\* and that only from nothing or a null to the float64 nearest to the sum of the
\* numbers beside it.
OnlyTotalChanges(before, after) ==
    LET usage == Field(before, "usage")
        usage2 == Field(after, "usage")
        total == Field(usage, "total_tokens")
        Others(v, name) == [k \in FieldNames \ {name} |-> Field(v, k)]
    IN  /\ before.t = after.t
        /\ before.t # "obj" => before = after
        /\ Others(before, "usage") = Others(after, "usage")
        /\ usage.t = usage2.t
        /\ usage.t # "obj" => usage = usage2
        /\ Others(usage, "total_tokens") = Others(usage2, "total_tokens")
        /\ Field(usage2, "total_tokens") # total =>
              /\ total.t \in {"null", "missing"}
              /\ Exact(usage) \in Numbers
              /\ Field(usage2, "total_tokens") = Sum(usage)

=============================================================================
