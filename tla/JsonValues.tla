----------------------------- MODULE JsonValues -----------------------------
(***************************************************************************)
(* JSON values as encoding/json decodes them into `any`, and the numerals  *)
(* of bodies that are not decoded yet.  An object has a value under every  *)
(* name, Missing under those that are not in it.                           *)
(***************************************************************************)
EXTENDS Integers, Sequences

CONSTANTS
    FieldNames,  \* the names of fields
    Texts,       \* the strings of values
    MaxDepth,    \* bound on the nesting of arrays and objects
    Largest      \* the largest float64, in tenths

ASSUME DepthAssumption == MaxDepth \in Nat
ASSUME LargestAssumption == Largest \in Nat

\* A numeral beyond these is no JSON for `any`.
Numbers == -Largest..Largest

Null == [t |-> "null"]
Num(tenths) == [t |-> "num", n |-> tenths]       \* a numeral
Digits(tenths) == [t |-> "digits", n |-> tenths] \* a string that parses as one
Str(s) == [t |-> "str", s |-> s]                 \* any other string
NoText == Str("")
Bool(b) == [t |-> "bool", b |-> b]
Arr(q) == [t |-> "arr", q |-> q]

\* A second return value of false.
Missing == [t |-> "missing"]
Found(v) == v.t # "missing"

Obj(f) == [t |-> "obj",
           f |-> [k \in FieldNames |-> IF k \in DOMAIN f THEN f[k] ELSE Missing]]
NoFields == [k \in FieldNames |-> Missing]

Fields(v) == IF v.t = "obj" THEN v.f ELSE NoFields
Items(v) == IF v.t = "arr" THEN v.q ELSE <<>>

\* payload[name] of a value that should be an object.
Field(v, name) == Fields(v)[name]

----------------------------------------------------------------------------

Scalar == {Null} \cup [t : {"num"}, n : Numbers] \cup [t : {"digits"}, n : Int]
          \cup [t : {"str"}, s : Texts] \cup [t : {"bool"}, b : BOOLEAN]

\* The values whose parts are in a set.
Made(parts) == Scalar \cup [t : {"arr"}, q : Seq(parts)]
               \cup [t : {"obj"}, f : [FieldNames -> {Missing} \cup parts]]

\* The values that are nested no deeper than n.
JsonTo[n \in 0..MaxDepth] == IF n = 0 THEN Scalar ELSE Made(JsonTo[n - 1])

Json == JsonTo[MaxDepth]
FieldSets == [FieldNames -> {Missing} \cup Json]

=============================================================================
