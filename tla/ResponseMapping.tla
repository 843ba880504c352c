-------------------------- MODULE ResponseMapping ---------------------------
(***************************************************************************)
(* MapResponse of internal/transform/response.go: the answer of an         *)
(* upstream rebuilt field by field as the official one.  The field map and *)
(* the defaults are Go maps, so that the order of the steps is any.        *)
(*                                                                         *)
(* The official paths of one rule are taken not to lie inside one another: *)
(* with both "usage" and "usage.total_tokens" the result depends on the    *)
(* order, and the second write goes through the first into the source.     *)
(* Only the first token may be an array, as in all paths of the catalog.   *)
(***************************************************************************)
EXTENDS Json

CONSTANTS
    Sources,   \* decoded upstream bodies
    Official,  \* official paths
    Upstream,  \* upstream paths
    Types,     \* official path -> type in the catalog
    Required,  \* official paths the catalog requires
    Defaulted, \* official paths that a rule may have defaults for
    Values     \* values of defaults

ASSUME TextAssumption == {"", "bool", "json"} \subseteq Texts

ASSUME MappingAssumption ==
    /\ Official \subseteq Seq(Tokens) \ {<<>>}
    /\ \A p, q \in Official : p # q => Apart(p, q)
    /\ \A p \in Official : \A i \in DOMAIN p : p[i].array => i = 1
    /\ Defaulted \subseteq Official
    /\ Upstream \subseteq Seq(Tokens)
    /\ \E depth \in 0..MaxDepth - 1 :    \* there is room for what is written
         /\ Sources \cup Values \subseteq JsonTo[depth]
         /\ \A p \in Official : depth + 2 * Len(p) < MaxDepth

VARIABLES
    source,    \* the decoded body
    fieldMap,  \* official paths with the upstream paths they are filled from
    defaults,  \* official paths with constant values
    pending,   \* the paths the present loop has still to visit
    target,    \* the fields of the answer
    phase      \* "fields", "defaults", "done" or "failed"

vars == <<source, fieldMap, defaults, pending, target, phase>>

Partial(D, R) == UNION {[E -> R] : E \in SUBSET D}

TypeOK ==
    /\ source \in Sources
    /\ DOMAIN fieldMap \subseteq Official /\ fieldMap \in [DOMAIN fieldMap -> Upstream]
    /\ DOMAIN defaults \subseteq Defaulted /\ defaults \in [DOMAIN defaults -> Values]
    /\ pending \subseteq Official
    /\ Obj(target) \in Json
    /\ \A k \in FieldNames : Found(target[k]) => \E p \in Official : k = Head(p).name
    /\ phase \in {"fields", "defaults", "done", "failed"}

\* HasResponseMapping: nothing is mapped when both are empty.
Init ==
    /\ source \in Sources
    /\ fieldMap \in Partial(Official, Upstream)
    /\ defaults \in Partial(Defaulted, Values)
    /\ DOMAIN fieldMap \cup DOMAIN defaults # {}
    /\ pending = DOMAIN fieldMap
    /\ target = NoFields
    /\ phase = "fields"

----------------------------------------------------------------------------

\* int64(v) of a float64 drops the fraction.
Truncated(tenths) == IF tenths >= 0 THEN tenths - (tenths % 10)
                                    ELSE tenths + ((-tenths) % 10)

\* A null is the empty string, and what is no scalar is encoded as JSON.
toStringValue(v) ==
    CASE v.t \in {"str", "digits"} -> v
      [] v.t = "null" -> NoText
      [] v.t = "num" -> Digits(v.n)
      [] v.t = "bool" -> Str("bool")
      [] OTHER -> Str("json")

\* A string must be an integer, and in range, to be parsed as one.
toIntValue(v) ==
    CASE v.t = "num" -> Num(Truncated(v.n))
      [] v.t = "digits" /\ v.n % 10 = 0 /\ v.n \in Numbers -> Num(v.n)
      [] OTHER -> Missing

convertSingleValue(v, type) ==
    CASE type = "string" -> toStringValue(v)
      [] type = "integer" -> toIntValue(v)
      [] type = "object" -> IF v.t = "obj" THEN v ELSE Missing
      [] OTHER -> v

\* An array is converted item by item, whatever the type; one item that does not
\* convert fails the whole mapping.
convertPathValue(v, type) ==
    IF v.t # "arr" \/ type = "" THEN convertSingleValue(v, type)
    ELSE LET items == [i \in DOMAIN v.q |-> convertSingleValue(v.q[i], type)]
         IN  IF \A i \in DOMAIN items : Found(items[i]) THEN Arr(items) ELSE Missing

Fail ==
    /\ phase' = "failed"
    /\ UNCHANGED <<source, fieldMap, defaults, pending, target>>

PutFlat(path, value) ==    \* mutant: written under the last name of the path alone
    IF Found(convertPathValue(value, Types[path]))
    THEN /\ target' = setByTokens[<<path[Len(path)]>>][target]
                                   [convertPathValue(value, Types[path])]
         /\ pending' = pending \ {path}
         /\ UNCHANGED <<source, fieldMap, defaults, phase>>
    ELSE Fail

Put(path, value) ==
    IF Found(convertPathValue(value, Types[path]))
    THEN /\ target' = setByTokens[path][target][convertPathValue(value, Types[path])]
         /\ pending' = pending \ {path}
         /\ UNCHANGED <<source, fieldMap, defaults, phase>>
    ELSE Fail

\* One round of the first loop: an upstream field that is not there is an error
\* for a required official field and is skipped for any other.
MapField(path) ==
    /\ phase = "fields"
    /\ path \in pending
    /\ LET value == getByTokens[source][fieldMap[path]]
       IN  IF Found(value) THEN Put(path, value)
           ELSE IF path \in Required THEN Fail
           ELSE /\ pending' = pending \ {path}
                /\ UNCHANGED <<source, fieldMap, defaults, target, phase>>

FieldsDone ==
    /\ phase = "fields" /\ pending = {}
    /\ phase' = "defaults"
    /\ pending' = DOMAIN defaults
    /\ UNCHANGED <<source, fieldMap, defaults, target>>

ApplyDefaultOnce(path) ==    \* mutant: a default gives way to a mapped field
    /\ phase = "defaults"
    /\ path \in pending
    /\ IF Found(getByTokens[Obj(target)][path])
       THEN /\ pending' = pending \ {path}
            /\ UNCHANGED <<source, fieldMap, defaults, target, phase>>
       ELSE Put(path, defaults[path])

ApplyDefault(path) ==
    /\ phase = "defaults"
    /\ path \in pending
    /\ Put(path, defaults[path])

Finish ==
    /\ phase = "defaults" /\ pending = {}
    /\ phase' = "done"
    /\ UNCHANGED <<source, fieldMap, defaults, pending, target>>

Next ==
    \/ \E path \in Official : MapField(path) \/ ApplyDefault(path)
    \/ FieldsDone
    \/ Finish
    \/ phase \in {"done", "failed"} /\ UNCHANGED vars

Spec == Init /\ [][Next]_vars

----------------------------------------------------------------------------

Answered(path) == getByTokens[Obj(target)][path]

\* What a value of a rule is for a path: converted, if it is there.
Converted(path, v) == IF Found(v) THEN convertPathValue(v, Types[path]) ELSE Missing
Mapped(path) == Converted(path, IF path \in DOMAIN fieldMap
                                THEN getByTokens[source][fieldMap[path]] ELSE Missing)
Constant(path) == Converted(path, IF path \in DOMAIN defaults
                                  THEN defaults[path] ELSE Missing)

\* A single value counts as a list of one.
List(v) == IF v.t = "arr" THEN v.q ELSE IF Found(v) THEN <<v>> ELSE <<>>
Over(first, list) == first \o SubSeq(list, Len(first) + 1, Len(list))

\* The list that an array is made of, or at the end of its path the list itself:
\* in the items a default takes the place of the first values only.
ListOf(path, default, value) ==
    IF Len(path) = 1 /\ Found(default) THEN List(default)
                                       ELSE Over(List(default), List(value))

\* What the answer should have at a path: the default, else the upstream value.
Rule(path, default, value) ==
    IF ~Head(path).array THEN IF Found(default) THEN default ELSE value
    ELSE IF ListOf(path, default, value) = <<>> THEN Missing
    ELSE Arr(ListOf(path, default, value))

Expected(path) == Rule(path, Constant(path), Mapped(path))

\* Whatever the order of the two loops' rounds, the answer has at every official
\* path what the rule says: no field disturbs another one in the same array or
\* object (response.go:36-71, 156-198).  That no other name is at its top is part
\* of TypeOK.
Delivered ==
    phase = "done" => \A path \in Official : Answered(path) = Expected(path)

\* The i-th item of an official array is made of the i-th item of the upstream
\* array, if every one of those has all the mapped fields; if some has not, the
\* values of the others move up (response.go:125-131, 179-188).
Aligned ==
    \A p, q \in DOMAIN fieldMap \ DOMAIN defaults :
        LET a == fieldMap[p]
            b == fieldMap[q]
            items == Items(Field(source, a[1].name))
            Value(i, path) == getByTokens[items[i]][Tail(path)]
            At(i, path) == getByTokens[Items(target[path[1].name])[i]][Tail(path)]
        IN  /\ phase = "done"
            /\ a # <<>> /\ b # <<>> /\ a[1] = b[1] /\ a[1].array
            /\ p[1] = q[1] /\ p[1].array
            /\ \A i \in DOMAIN items : Found(Value(i, a)) /\ Found(Value(i, b))
            => \A i \in DOMAIN items :
                 /\ At(i, p) = convertSingleValue(Value(i, a), Types[p])
                 /\ At(i, q) = convertSingleValue(Value(i, b), Types[q])

=============================================================================
