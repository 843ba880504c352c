-------------------------------- MODULE Json --------------------------------
(***************************************************************************)
(* The dotted paths of internal/transform/response.go over JSON values.  A *)
(* path is a sequence of tokens, "data[].url" being                        *)
(* <<Each("data"), Key("url")>>.                                           *)
(***************************************************************************)
EXTENDS JsonValues, FiniteSets

Tokens == [name : FieldNames, array : BOOLEAN]
Key(name) == [name |-> name, array |-> FALSE]
Each(name) == [name |-> name, array |-> TRUE]

\* Do two paths part at a name?
Apart(p, q) ==
    \E n \in DOMAIN p \cap DOMAIN q :
        /\ \A i \in 1..n - 1 : p[i] = q[i]
        /\ p[n].name # q[n].name

\* The results that were found, one after another: what is left out makes what
\* follows move up.
Present(all) ==
    LET found == {i \in DOMAIN all : Found(all[i])}
        Nth(n) == CHOOSE i \in found : Cardinality({j \in found : j <= i}) = n
    IN  [n \in 1..Cardinality(found) |-> all[Nth(n)]]

Collected(all) == IF Present(all) = <<>> THEN Missing ELSE Arr(Present(all))

\* The value at a path.  An array is descended into whether or not the path says
\* so, and the elements that lack the rest of the path are left out.
getByTokens[v \in Json] ==
    [tokens \in Seq(Tokens) |->
        IF tokens = <<>> THEN v
        ELSE IF v.t = "arr"
        THEN Collected([i \in DOMAIN v.q |-> getByTokens[v.q[i]][tokens]])
        ELSE LET next == Field(v, Head(tokens).name)
                 rest == Tail(tokens)
             IN  IF ~Found(next) THEN Missing
                 ELSE IF ~Head(tokens).array THEN getByTokens[next][rest]
                 ELSE IF next.t # "arr" THEN Missing
                 ELSE Collected([i \in DOMAIN next.q |-> getByTokens[next.q[i]][rest]])]

Appending(items, values) ==    \* mutant: every path adds items of its own
    [index \in {Len(items) + i : i \in DOMAIN values} |-> index - Len(items)]

\* Which item of an array takes which value of a list that is written through it.
Aligning(items, values) == [index \in DOMAIN values |-> index]

\* The fields of an object with a value written at a path; what is in the way
\* and is no object, or no array, is replaced.  A list without items that
\* nothing is written to is a nil slice, which is encoded as null.
setByTokens[tokens \in Seq(Tokens) \ {<<>>}] ==
    [fields \in FieldSets |-> [value \in Json |->
        LET token == Head(tokens)
            rest == Tail(tokens)
            old == fields[token.name]
            values == IF value.t = "arr" THEN value.q ELSE <<value>>
            items == Items(old)
            index == Aligning(items, values)
            Child(i) == IF i \in DOMAIN items THEN Fields(items[i]) ELSE NoFields
            New(i) == IF i \in DOMAIN index
                      THEN Obj(setByTokens[rest][Child(i)][values[index[i]]])
                      ELSE items[i]
            new == IF rest = <<>>
                   THEN IF token.array THEN Arr(values) ELSE value
                   ELSE IF ~token.array
                   THEN Obj(setByTokens[rest][Fields(old)][value])
                   ELSE IF old.t # "arr" /\ values = <<>> THEN Null
                   ELSE Arr([i \in DOMAIN items \cup DOMAIN index |-> New(i)])
        IN  [fields EXCEPT ![token.name] = new]]]

=============================================================================
