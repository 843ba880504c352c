---------------------------- MODULE JsonProofs -----------------------------
(***************************************************************************)
(* Induction over JSON values, and with it what the recursive functions on *)
(* them do, for values of any depth.                                       *)
(***************************************************************************)
EXTENDS LogSanitize, SequenceTheorems, FiniteSetTheorems, TLAPS

----------------------------------------------------------------------------
(* Values, by their depth *)

depth == [v \in Json |-> CHOOSE n \in 0..MaxDepth :
                            v \in JsonTo[n] /\ \A m \in 0..n - 1 : v \notin JsonTo[m]]

\* The definition of redactValue.  Over is the principle of recursion for it.
RedactValueDef(g, v) ==
    CASE v.t = "arr" -> Arr([i \in DOMAIN v.q |-> g[v.q[i]]])
      [] v.t = "obj" -> v
      [] OTHER -> Redacted

OverRedactValue == INSTANCE Recursion WITH D <- Json, rank <- depth, Def <- RedactValueDef

LEMMA NatSets ==
    ASSUME NEW S, 0 \in S, \A n \in Nat : n \in S => n + 1 \in S
    PROVE  \A n \in Nat : n \in S
  BY OverRedactValue!NatSets

\* The recursive definition of the levels defines them.
LEMMA Levels ==
    /\ JsonTo[0] = Scalar
    /\ \A n \in 1..MaxDepth : JsonTo[n] = Made(JsonTo[n - 1])
<1> DEFINE Below(g, n) == IF n = 0 THEN Scalar ELSE Made(g[n - 1])
           Holds(g, n) == g = [i \in 0..n |-> Below(g, i)]
           S == {n \in Nat : \E g : Holds(g, n)}
<1>1. 0 \in S
  <2>1. Holds([i \in 0..0 |-> Scalar], 0)
    OBVIOUS
  <2> QED BY <2>1
<1>2. ASSUME NEW n \in Nat, n \in S PROVE n + 1 \in S
  <2>1. PICK g : Holds(g, n)
    BY <1>2
  <2> DEFINE h == [i \in 0..n + 1 |-> Below(g, i)]
  <2>2. \A i \in 0..n : h[i] = g[i]
    BY <2>1
  <2>3. \A i \in 0..n + 1 : Below(g, i) = Below(h, i)
    <3> SUFFICES ASSUME NEW i \in 0..n + 1, i # 0 PROVE g[i - 1] = h[i - 1]
      BY Zenon
    <3>1. i - 1 \in 0..n
      OBVIOUS
    <3> QED BY <2>2, <3>1
  <2>4. Holds(h, n + 1)
    BY <2>3
  <2>5. \E k : Holds(k, n + 1)
    <3> HIDE DEF Holds, h
    <3> QED BY <2>4
  <2> QED BY <2>5
<1>3. MaxDepth \in S
  <2> HIDE DEF S
  <2> QED BY <1>1, <1>2, NatSets, DepthAssumption
<1>4. \E g : Holds(g, MaxDepth)
  BY <1>3
<1>5. Holds(JsonTo, MaxDepth)
  BY <1>4 DEF JsonTo
<1> QED BY <1>5, DepthAssumption

LEMMA MadeMonotone ==
    ASSUME NEW S, NEW T, S \subseteq T
    PROVE  Made(S) \subseteq Made(T)
<1>1. Seq(S) \subseteq Seq(T)
  BY SeqDef
<1>2. [FieldNames -> {Missing} \cup S] \subseteq [FieldNames -> {Missing} \cup T]
  OBVIOUS
<1> QED BY <1>1, <1>2 DEF Made

LEMMA LevelsGrow ==
    \A m, n \in 0..MaxDepth : m <= n => JsonTo[m] \subseteq JsonTo[n]
<1> DEFINE S == {n \in Nat : n < MaxDepth => JsonTo[n] \subseteq JsonTo[n + 1]}
<1>1. 0 \in S
  BY Levels, DepthAssumption DEF Made
<1>2. ASSUME NEW n \in Nat, n \in S PROVE n + 1 \in S
  <2> SUFFICES ASSUME n + 1 < MaxDepth
               PROVE  JsonTo[n + 1] \subseteq JsonTo[(n + 1) + 1]
    OBVIOUS
  <2>1. JsonTo[n + 1] = Made(JsonTo[n])
    BY Levels, DepthAssumption
  <2>2. JsonTo[(n + 1) + 1] = Made(JsonTo[n + 1])
    BY Levels, DepthAssumption
  <2>3. JsonTo[n] \subseteq JsonTo[n + 1]
    BY <1>2, DepthAssumption
  <2> QED BY <2>1, <2>2, <2>3, MadeMonotone
<1>3. \A n \in Nat : n \in S
  <2> HIDE DEF S
  <2> QED BY <1>1, <1>2, NatSets
<1>4. ASSUME NEW m \in 0..MaxDepth
      PROVE  \A n \in Nat : m <= n /\ n <= MaxDepth => JsonTo[m] \subseteq JsonTo[n]
  <2> DEFINE U == {n \in Nat : m <= n /\ n <= MaxDepth => JsonTo[m] \subseteq JsonTo[n]}
  <2>1. 0 \in U
    BY DepthAssumption
  <2>2. ASSUME NEW n \in Nat, n \in U PROVE n + 1 \in U
    <3> SUFFICES ASSUME m <= n + 1, n + 1 <= MaxDepth
                 PROVE  JsonTo[m] \subseteq JsonTo[n + 1]
      OBVIOUS
    <3>1. CASE m = n + 1
      BY <3>1
    <3>2. CASE m <= n
      BY <2>2, <3>2, <1>3, DepthAssumption
    <3> QED BY <3>1, <3>2
  <2>3. \A n \in Nat : n \in U
    <3> HIDE DEF U
    <3> QED BY <2>1, <2>2, NatSets
  <2> QED BY <2>3
<1> QED BY <1>4, DepthAssumption

\* A value is a scalar, or made of values of the level below.
LEMMA LevelCases ==
    ASSUME NEW n \in 0..MaxDepth, NEW v \in JsonTo[n]
    PROVE  \/ /\ v \in Scalar
              /\ v.t \in {"null", "num", "digits", "str", "bool"}
           \/ /\ n > 0 /\ v.t = "arr"
              /\ v = Arr(v.q) /\ v.q \in Seq(JsonTo[n - 1])
           \/ /\ n > 0 /\ v.t = "obj"
              /\ v = [t |-> "obj", f |-> v.f]
              /\ v.f \in [FieldNames -> {Missing} \cup JsonTo[n - 1]]
<1>1. CASE v \in Scalar
  BY <1>1 DEF Scalar, Null
<1>2. CASE n > 0 /\ v \in [t : {"arr"}, q : Seq(JsonTo[n - 1])]
  BY <1>2 DEF Arr
<1>3. CASE n > 0 /\ v \in [t : {"obj"}, f : [FieldNames -> {Missing} \cup JsonTo[n - 1]]]
  BY <1>3
<1>4. n = 0 => v \in Scalar
  BY Levels
<1>5. n > 0 => v \in Made(JsonTo[n - 1])
  BY Levels, DepthAssumption
<1> QED BY <1>1, <1>2, <1>3, <1>4, <1>5 DEF Made

LEMMA InJson ==
    /\ Scalar \subseteq Json
    /\ \A n \in 0..MaxDepth : JsonTo[n] \subseteq Json
<1>1. Scalar \subseteq JsonTo[0] /\ 0 \in 0..MaxDepth /\ MaxDepth \in 0..MaxDepth
  BY Levels, DepthAssumption
<1>2. \A n \in 0..MaxDepth : JsonTo[n] \subseteq Json
  BY <1>1, LevelsGrow, DepthAssumption DEF Json
<1> QED BY <1>1, <1>2

\* The parts of a value are values.
LEMMA Parts ==
    ASSUME NEW v \in Json
    PROVE  /\ Found(v)
           /\ v.t \in {"null", "num", "digits", "str", "bool", "arr", "obj"}
           /\ v.t \notin {"arr", "obj"} => v \in Scalar
           /\ v.t = "arr" => /\ v = Arr(v.q) /\ v.q \in Seq(Json)
                             /\ \A i \in DOMAIN v.q : v.q[i] \in Json
           /\ v.t = "obj" => v = [t |-> "obj", f |-> v.f] /\ v.f \in FieldSets
<1>1. v \in JsonTo[MaxDepth] /\ MaxDepth \in 0..MaxDepth
  BY DepthAssumption DEF Json
<1>2. MaxDepth > 0 => MaxDepth - 1 \in 0..MaxDepth /\ JsonTo[MaxDepth - 1] \subseteq Json
  BY InJson, DepthAssumption
<1>3. CASE v \in Scalar /\ v.t \in {"null", "num", "digits", "str", "bool"}
  BY <1>3 DEF Found
<1>4. CASE MaxDepth > 0 /\ v.t = "arr" /\ v = Arr(v.q) /\ v.q \in Seq(JsonTo[MaxDepth - 1])
  BY <1>2, <1>4, SeqDef DEF Found
<1>5. CASE /\ MaxDepth > 0 /\ v.t = "obj" /\ v = [t |-> "obj", f |-> v.f]
           /\ v.f \in [FieldNames -> {Missing} \cup JsonTo[MaxDepth - 1]]
  BY <1>2, <1>5 DEF Found, FieldSets
<1> QED BY <1>1, <1>3, <1>4, <1>5, LevelCases

LEMMA MissingNotJson == ~Found(Missing) /\ Missing \notin Json
<1>1. ~Found(Missing)
  BY DEF Found, Missing
<1> QED BY <1>1, Parts

\* A value under a name, if there is one, is a value.
LEMMA FieldFound ==
    ASSUME NEW f \in FieldSets, NEW k \in FieldNames
    PROVE  /\ f[k] \in {Missing} \cup Json
           /\ Found(f[k]) <=> f[k] \in Json
           /\ ~Found(f[k]) <=> f[k] = Missing
  BY Parts, MissingNotJson DEF FieldSets

\* Structural induction: a set that has the scalars, and with its parts every
\* array and every object, has all values.
LEMMA JsonInduction ==
    ASSUME NEW T, Scalar \subseteq T,
           \A v \in Json : /\ v.t = "arr" /\ v.q \in Seq(Json)
                           /\ \A i \in DOMAIN v.q : v.q[i] \in T
                           => v \in T,
           \A v \in Json : /\ v.t = "obj" /\ v.f \in FieldSets
                           /\ \A k \in FieldNames : v.f[k] \in {Missing} \cup T
                           => v \in T
    PROVE  Json \subseteq T
<1> DEFINE S == {n \in Nat : n <= MaxDepth => JsonTo[n] \subseteq T}
<1>1. 0 \in S
  BY Levels
<1>2. ASSUME NEW n \in Nat, n \in S PROVE n + 1 \in S
  <2> SUFFICES ASSUME n + 1 <= MaxDepth, NEW v \in JsonTo[n + 1] PROVE v \in T
    OBVIOUS
  <2>1. n + 1 \in 0..MaxDepth /\ (n + 1) - 1 = n /\ JsonTo[n] \subseteq T
    BY <1>2, DepthAssumption
  <2>2. v \in Json
    BY <2>1, InJson
  <2>3. CASE v \in Scalar
    BY <2>3
  <2>4. CASE v.t = "arr" /\ v.q \in Seq(JsonTo[n])
    BY <2>1, <2>2, <2>4, Parts, SeqDef
  <2>5. CASE v.t = "obj" /\ v.f \in [FieldNames -> {Missing} \cup JsonTo[n]]
    BY <2>1, <2>2, <2>5, Parts
  <2> QED BY <2>1, <2>3, <2>4, <2>5, LevelCases
<1>3. MaxDepth \in S
  <2> HIDE DEF S
  <2> QED BY <1>1, <1>2, NatSets, DepthAssumption
<1> QED BY <1>3, DepthAssumption DEF Json

\* The depth of a value is a number, and its parts are less deep.
LEMMA Depths ==
    /\ depth \in [Json -> 0..MaxDepth]
    /\ depth \in [Json -> Nat]
    /\ \A v \in Json : v \in JsonTo[depth[v]]
    /\ \A v \in Json : \A n \in 0..MaxDepth : v \in JsonTo[n] => depth[v] <= n
<1>1. ASSUME NEW v \in Json
      PROVE  \E n \in 0..MaxDepth : v \in JsonTo[n] /\ \A m \in 0..n - 1 : v \notin JsonTo[m]
  <2> DEFINE S == {n \in Nat : \A m \in 0..n : m <= MaxDepth => v \notin JsonTo[m]}
  <2> SUFFICES ASSUME \A n \in 0..MaxDepth : v \in JsonTo[n] =>
                        \E m \in 0..n - 1 : v \in JsonTo[m]
               PROVE  FALSE
    OBVIOUS
  <2>1. 0 \in S
    BY DepthAssumption
  <2>2. ASSUME NEW n \in Nat, n \in S PROVE n + 1 \in S
    <3> SUFFICES ASSUME n + 1 <= MaxDepth, v \in JsonTo[n + 1] PROVE FALSE
      BY <2>2
    <3>1. PICK m \in 0..(n + 1) - 1 : v \in JsonTo[m]
      BY DepthAssumption
    <3> QED BY <2>2, <3>1, DepthAssumption
  <2>3. MaxDepth \in S
    <3> HIDE DEF S
    <3> QED BY <2>1, <2>2, NatSets, DepthAssumption
  <2> QED BY <2>3, DepthAssumption DEF Json
<1>2. ASSUME NEW v \in Json
      PROVE  /\ depth[v] \in 0..MaxDepth /\ v \in JsonTo[depth[v]]
             /\ \A m \in 0..depth[v] - 1 : v \notin JsonTo[m]
  BY <1>1 DEF depth
<1>3. \A v \in Json : depth[v] \in 0..MaxDepth
  BY <1>2
<1>4. depth \in [Json -> 0..MaxDepth] /\ depth \in [Json -> Nat]
  BY <1>3, DepthAssumption DEF depth
<1>5. ASSUME NEW v \in Json, NEW n \in 0..MaxDepth, v \in JsonTo[n] PROVE depth[v] <= n
  BY <1>2, <1>5, DepthAssumption
<1> QED BY <1>2, <1>4, <1>5

LEMMA PartsBelow ==
    ASSUME NEW v \in Json
    PROVE  /\ v.t = "arr" =>
                \A i \in DOMAIN v.q : v.q[i] \in Json /\ depth[v.q[i]] < depth[v]
           /\ v.t = "obj" =>
                \A k \in FieldNames :
                    Found(v.f[k]) => v.f[k] \in Json /\ depth[v.f[k]] < depth[v]
<1> DEFINE n == depth[v]
<1>1. n \in 0..MaxDepth /\ v \in JsonTo[n]
  BY Depths
<1> HIDE DEF n
<1>2. n > 0 => /\ n - 1 \in 0..MaxDepth /\ n - 1 < n
               /\ \A w \in JsonTo[n - 1] : w \in Json /\ depth[w] <= n - 1
  BY <1>1, InJson, Depths, DepthAssumption
<1>3. \A w \in Json : depth[w] \in Nat
  BY Depths
<1>4. CASE n > 0 /\ v.t = "arr" /\ v.q \in Seq(JsonTo[n - 1])
  <2>1. \A i \in DOMAIN v.q : v.q[i] \in JsonTo[n - 1]
    BY <1>4, SeqDef
  <2> QED BY <1>1, <1>2, <1>3, <1>4, <2>1 DEF n
<1>5. CASE n > 0 /\ v.t = "obj" /\ v.f \in [FieldNames -> {Missing} \cup JsonTo[n - 1]]
  <2>1. \A k \in FieldNames : Found(v.f[k]) => v.f[k] \in JsonTo[n - 1]
    BY <1>5, MissingNotJson
  <2> QED BY <1>1, <1>2, <1>3, <1>5, <2>1 DEF n
<1>6. CASE v.t \in {"null", "num", "digits", "str", "bool"}
  BY <1>6
<1> QED BY <1>1, <1>4, <1>5, <1>6, LevelCases

----------------------------------------------------------------------------
(* The recursive functions: each satisfies its definition *)

LEMMA RedactValue ==
    \A v \in Json : redactValue[v] = RedactValueDef(redactValue, v)
<1>1. OverRedactValue!LooksBelow
  <2> SUFFICES ASSUME NEW v \in Json, NEW g, NEW h,
                      \A w \in Json : depth[w] < depth[v] => g[w] = h[w]
               PROVE  RedactValueDef(g, v) = RedactValueDef(h, v)
    BY DEF OverRedactValue!LooksBelow
  <2>1. v.t = "arr" => \A i \in DOMAIN v.q : g[v.q[i]] = h[v.q[i]]
    BY PartsBelow
  <2> QED BY <2>1 DEF RedactValueDef
<1>2. \E g : g = [v \in Json |-> RedactValueDef(g, v)]
  BY <1>1, Depths, OverRedactValue!Recursive
<1>3. redactValue = [v \in Json |-> RedactValueDef(redactValue, v)]
  BY <1>2 DEF redactValue, RedactValueDef
<1> QED BY <1>3

\* The same for each of the others.
SanitizeDef(g, v) ==
    CASE v.t = "arr" -> Arr([i \in DOMAIN v.q |-> g[v.q[i]]])
      [] v.t = "obj" ->
           Obj([k \in FieldNames |->
                  IF ~Found(v.f[k]) THEN Missing
                  ELSE IF shouldRedactFieldName(k) THEN redactValue[v.f[k]]
                  ELSE g[v.f[k]]])
      [] OTHER -> v

OverSanitize == INSTANCE Recursion WITH D <- Json, rank <- depth, Def <- SanitizeDef

LEMMA Sanitize ==
    \A v \in Json :
        sanitizeCommonLargeFields[v] = SanitizeDef(sanitizeCommonLargeFields, v)
<1>1. OverSanitize!LooksBelow
  <2> SUFFICES ASSUME NEW v \in Json, NEW g, NEW h,
                      \A w \in Json : depth[w] < depth[v] => g[w] = h[w]
               PROVE  SanitizeDef(g, v) = SanitizeDef(h, v)
    BY DEF OverSanitize!LooksBelow
  <2>1. v.t = "arr" => \A i \in DOMAIN v.q : g[v.q[i]] = h[v.q[i]]
    BY PartsBelow
  <2>2. v.t = "obj" => \A k \in FieldNames : Found(v.f[k]) => g[v.f[k]] = h[v.f[k]]
    BY PartsBelow
  <2> QED BY <2>1, <2>2 DEF SanitizeDef
<1>2. \E g : g = [v \in Json |-> SanitizeDef(g, v)]
  BY <1>1, Depths, OverSanitize!Recursive
<1>3. sanitizeCommonLargeFields = [v \in Json |-> SanitizeDef(sanitizeCommonLargeFields, v)]
  BY <1>2 DEF sanitizeCommonLargeFields, SanitizeDef
<1> QED BY <1>3

RedactPathDef(g, v) ==
    [tokens \in Seq(Tokens) |->
        LET token == Head(tokens)
            next == Field(v, token.name)
            below == IF Len(tokens) = 1 THEN redactValue[next]
                     ELSE IF token.array /\ next.t # "arr" THEN next
                     ELSE g[next][Tail(tokens)]
        IN  IF tokens = <<>> THEN v
            ELSE IF v.t = "arr"
            THEN Arr([i \in DOMAIN v.q |-> g[v.q[i]][tokens]])
            ELSE IF Found(next) THEN [v EXCEPT !.f[token.name] = below]
            ELSE v]

OverRedactPath == INSTANCE Recursion WITH D <- Json, rank <- depth, Def <- RedactPathDef

\* What a path leads to first.
LEMMA Step ==
    ASSUME NEW v \in Json, NEW tokens \in Seq(Tokens), tokens # <<>>
    PROVE  /\ Head(tokens).name \in FieldNames
           /\ Head(tokens).array \in BOOLEAN
           /\ Tail(tokens) \in Seq(Tokens)
           /\ LET next == Field(v, Head(tokens).name)
              IN  Found(next) => /\ v.t = "obj" /\ next = v.f[Head(tokens).name]
                                 /\ next \in Json /\ depth[next] < depth[v]
                                 /\ next.t = "arr" => \A i \in DOMAIN next.q :
                                      next.q[i] \in Json /\ depth[next.q[i]] < depth[v]
<1> DEFINE token == Head(tokens)
           next == Field(v, token.name)
<1>1. token \in Tokens /\ Tail(tokens) \in Seq(Tokens)
  OBVIOUS
<1>2. token.name \in FieldNames /\ token.array \in BOOLEAN
  BY <1>1 DEF Tokens
<1> HIDE DEF token
<1>3. ASSUME Found(next)
      PROVE  v.t = "obj" /\ next = v.f[token.name] /\ next \in Json /\ depth[next] < depth[v]
  BY <1>2, <1>3, PartsBelow, MissingNotJson DEF Field, Fields, NoFields
<1>4. ASSUME Found(next), next.t = "arr", NEW i \in DOMAIN next.q
      PROVE  next.q[i] \in Json /\ depth[next.q[i]] < depth[v]
  <2>1. next.q[i] \in Json /\ depth[next.q[i]] < depth[next]
    BY <1>3, <1>4, PartsBelow
  <2> HIDE DEF next
  <2>2. depth[next.q[i]] \in Nat /\ depth[next] \in Nat /\ depth[v] \in Nat
    BY <1>3, <1>4, <2>1, Depths
  <2> QED BY <1>3, <1>4, <2>1, <2>2
<1> QED BY <1>1, <1>2, <1>3, <1>4 DEF token

LEMMA RedactPath ==
    \A v \in Json : redactPath[v] = RedactPathDef(redactPath, v)
<1>1. OverRedactPath!LooksBelow
  <2> SUFFICES ASSUME NEW v \in Json, NEW g, NEW h,
                      \A w \in Json : depth[w] < depth[v] => g[w] = h[w]
               PROVE  RedactPathDef(g, v) = RedactPathDef(h, v)
    BY DEF OverRedactPath!LooksBelow
  <2> SUFFICES ASSUME NEW tokens \in Seq(Tokens)
               PROVE  RedactPathDef(g, v)[tokens] = RedactPathDef(h, v)[tokens]
    <3>1. \A k : RedactPathDef(k, v) = [tokens \in Seq(Tokens) |-> RedactPathDef(k, v)[tokens]]
      BY DEF RedactPathDef
    <3> QED BY <3>1
  <2>1. CASE tokens = <<>>
    BY <2>1 DEF RedactPathDef
  <2>2. CASE tokens # <<>> /\ v.t = "arr"
    <3>1. \A i \in DOMAIN v.q : g[v.q[i]] = h[v.q[i]]
      BY <2>2, PartsBelow
    <3> QED BY <2>2, <3>1 DEF RedactPathDef
  <2>3. CASE tokens # <<>> /\ v.t # "arr"
    <3> DEFINE next == Field(v, Head(tokens).name)
    <3>1. Found(next) => g[next] = h[next]
      BY <2>3, Step
    <3> QED BY <2>3, <3>1 DEF RedactPathDef
  <2> QED BY <2>1, <2>2, <2>3
<1>2. \E g : g = [v \in Json |-> RedactPathDef(g, v)]
  BY <1>1, Depths, OverRedactPath!Recursive
<1>3. redactPath = [v \in Json |-> RedactPathDef(redactPath, v)]
  BY <1>2 DEF redactPath, RedactPathDef
<1> QED BY <1>3

GetDef(g, v) ==
    [tokens \in Seq(Tokens) |->
        IF tokens = <<>> THEN v
        ELSE IF v.t = "arr"
        THEN Collected([i \in DOMAIN v.q |-> g[v.q[i]][tokens]])
        ELSE LET next == Field(v, Head(tokens).name)
                 rest == Tail(tokens)
             IN  IF ~Found(next) THEN Missing
                 ELSE IF ~Head(tokens).array THEN g[next][rest]
                 ELSE IF next.t # "arr" THEN Missing
                 ELSE Collected([i \in DOMAIN next.q |-> g[next.q[i]][rest]])]

OverGet == INSTANCE Recursion WITH D <- Json, rank <- depth, Def <- GetDef

LEMMA Get ==
    \A v \in Json : getByTokens[v] = GetDef(getByTokens, v)
<1>1. OverGet!LooksBelow
  <2> SUFFICES ASSUME NEW v \in Json, NEW g, NEW h,
                      \A w \in Json : depth[w] < depth[v] => g[w] = h[w]
               PROVE  GetDef(g, v) = GetDef(h, v)
    BY DEF OverGet!LooksBelow
  <2> SUFFICES ASSUME NEW tokens \in Seq(Tokens)
               PROVE  GetDef(g, v)[tokens] = GetDef(h, v)[tokens]
    <3>1. \A k : GetDef(k, v) = [tokens \in Seq(Tokens) |-> GetDef(k, v)[tokens]]
      BY DEF GetDef
    <3> QED BY <3>1
  <2>1. CASE tokens = <<>>
    BY <2>1 DEF GetDef
  <2>2. CASE tokens # <<>> /\ v.t = "arr"
    <3>1. \A i \in DOMAIN v.q : g[v.q[i]] = h[v.q[i]]
      BY <2>2, PartsBelow
    <3>2. [i \in DOMAIN v.q |-> g[v.q[i]][tokens]] = [i \in DOMAIN v.q |-> h[v.q[i]][tokens]]
      BY <3>1
    <3> QED BY <2>2, <3>2 DEF GetDef
  <2>3. CASE tokens # <<>> /\ v.t # "arr"
    <3> DEFINE next == Field(v, Head(tokens).name)
    <3>1. Found(next) => g[next] = h[next]
      BY <2>3, Step
    <3>2. Found(next) /\ next.t = "arr" => \A i \in DOMAIN next.q : g[next.q[i]] = h[next.q[i]]
      BY <2>3, Step
    <3>3. Found(next) /\ next.t = "arr" =>
            [i \in DOMAIN next.q |-> g[next.q[i]][Tail(tokens)]]
              = [i \in DOMAIN next.q |-> h[next.q[i]][Tail(tokens)]]
      BY <3>2
    <3> QED BY <2>3, <3>1, <3>3 DEF GetDef
  <2> QED BY <2>1, <2>2, <2>3
<1>2. \E g : g = [v \in Json |-> GetDef(g, v)]
  BY <1>1, Depths, OverGet!Recursive
<1>3. getByTokens = [v \in Json |-> GetDef(getByTokens, v)]
  BY <1>2 DEF getByTokens, GetDef
<1> QED BY <1>3

SetDef(g, tokens) ==
    [fields \in FieldSets |-> [value \in Json |->
        LET token == Head(tokens)
            rest == Tail(tokens)
            old == fields[token.name]
            values == IF value.t = "arr" THEN value.q ELSE <<value>>
            items == Items(old)
            index == Aligning(items, values)
            Child(i) == IF i \in DOMAIN items THEN Fields(items[i]) ELSE NoFields
            New(i) == IF i \in DOMAIN index
                      THEN Obj(g[rest][Child(i)][values[index[i]]])
                      ELSE items[i]
            new == IF rest = <<>>
                   THEN IF token.array THEN Arr(values) ELSE value
                   ELSE IF ~token.array
                   THEN Obj(g[rest][Fields(old)][value])
                   ELSE IF old.t # "arr" /\ values = <<>> THEN Null
                   ELSE Arr([i \in DOMAIN items \cup DOMAIN index |-> New(i)])
        IN  [fields EXCEPT ![token.name] = new]]]

TokenPaths == Seq(Tokens) \ {<<>>}
length == [tokens \in TokenPaths |-> Len(tokens)]

OverSet == INSTANCE Recursion WITH D <- TokenPaths, rank <- length, Def <- SetDef

LEMMA Set == \A tokens \in TokenPaths : setByTokens[tokens] = SetDef(setByTokens, tokens)
<1>1. length \in [TokenPaths -> Nat]
  BY DEF length, TokenPaths
<1>2. OverSet!LooksBelow
  <2> SUFFICES ASSUME NEW tokens \in TokenPaths, NEW g, NEW h,
                      \A w \in TokenPaths : length[w] < length[tokens] => g[w] = h[w]
               PROVE  SetDef(g, tokens) = SetDef(h, tokens)
    BY DEF OverSet!LooksBelow
  <2>1. CASE Tail(tokens) = <<>>
    BY <2>1 DEF SetDef
  <2>2. CASE Tail(tokens) # <<>>
    <3>1. Tail(tokens) \in TokenPaths /\ length[Tail(tokens)] < length[tokens]
      BY <2>2 DEF length, TokenPaths
    <3>2. g[Tail(tokens)] = h[Tail(tokens)]
      BY <3>1
    <3> QED BY <3>2 DEF SetDef
  <2> QED BY <2>1, <2>2
<1>3. \E g : g = [tokens \in TokenPaths |-> SetDef(g, tokens)]
  BY <1>1, <1>2, OverSet!Recursive
<1>4. setByTokens = [tokens \in TokenPaths |-> SetDef(setByTokens, tokens)]
  BY <1>3 DEF setByTokens, SetDef, TokenPaths
<1> QED BY <1>4

----------------------------------------------------------------------------
(* What the functions return is no deeper than what they are given *)

LEMMA ObjIs ==
    ASSUME NEW R, NEW f \in [FieldNames -> R]
    PROVE  /\ Obj(f) = [t |-> "obj", f |-> f]
           /\ Fields(Obj(f)) = f
  BY DEF Obj, Fields

LEMMA IntoLevel ==
    ASSUME NEW n \in 0..MaxDepth
    PROVE  /\ Scalar \subseteq JsonTo[n]
           /\ n > 0 => /\ n - 1 \in 0..MaxDepth
                       /\ \A q \in Seq(JsonTo[n - 1]) : Arr(q) \in JsonTo[n]
                       /\ \A f \in [FieldNames -> {Missing} \cup JsonTo[n - 1]] :
                            Obj(f) \in JsonTo[n]
<1>1. Scalar \subseteq JsonTo[n]
  BY Levels, DepthAssumption DEF Made
<1>2. ASSUME n > 0
      PROVE  n - 1 \in 0..MaxDepth /\ JsonTo[n] = Made(JsonTo[n - 1])
  BY <1>2, Levels, DepthAssumption
<1>3. ASSUME n > 0, NEW q \in Seq(JsonTo[n - 1]) PROVE Arr(q) \in JsonTo[n]
  BY <1>2, <1>3 DEF Made, Arr
<1>4. ASSUME n > 0, NEW f \in [FieldNames -> {Missing} \cup JsonTo[n - 1]]
      PROVE  Obj(f) \in JsonTo[n]
  <2>1. Obj(f) = [t |-> "obj", f |-> f]
    BY ObjIs, Zenon
  <2> QED BY <1>2, <1>4, <2>1 DEF Made
<1> QED BY <1>1, <1>2, <1>3, <1>4

\* The items of an array, and an array with as many.
LEMMA ItemsOf ==
    ASSUME NEW n \in 0..MaxDepth, NEW v \in JsonTo[n], v.t = "arr"
    PROVE  /\ n > 0 /\ n - 1 \in 0..MaxDepth
           /\ v.q \in Seq(JsonTo[n - 1])
           /\ DOMAIN v.q = 1..Len(v.q) /\ Len(v.q) \in Nat
           /\ \A i \in DOMAIN v.q : v.q[i] \in JsonTo[n - 1]
<1>1. n > 0 /\ v.q \in Seq(JsonTo[n - 1])
  BY LevelCases
<1>2. n - 1 \in 0..MaxDepth
  BY <1>1, DepthAssumption
<1> QED BY <1>1, <1>2

LEMMA SeqOf ==
    ASSUME NEW R, NEW n \in Nat, NEW f \in [1..n -> R]
    PROVE  f \in Seq(R)
  BY SeqDef

\* The sanitized value has the depth of the value.
LEMMA RedactValueType ==
    \A v \in Json : \A n \in 0..MaxDepth :
        v \in JsonTo[n] => redactValue[v] \in JsonTo[n]
<1> DEFINE T == {v \in Json : \A n \in 0..MaxDepth :
                     v \in JsonTo[n] => redactValue[v] \in JsonTo[n]}
<1>1. Scalar \subseteq T
  <2> SUFFICES ASSUME NEW v \in Scalar, NEW n \in 0..MaxDepth
               PROVE  redactValue[v] \in JsonTo[n]
    BY InJson
  <2>1. redactValue[v] = Redacted
    <3>1. v.t \notin {"arr", "obj"} /\ v \in Json
      BY InJson DEF Scalar, Null
    <3> QED BY <3>1, RedactValue DEF RedactValueDef
  <2>2. Redacted \in Scalar
    <3>1. Redacted \in [t : {"str"}, s : Texts]
      BY RedactedAssumption DEF Redacted, Str
    <3> QED BY <3>1 DEF Scalar
  <2> QED BY <2>1, <2>2, IntoLevel
<1>2. ASSUME NEW v \in Json, v.t = "arr", \A i \in DOMAIN v.q : v.q[i] \in T
      PROVE  v \in T
  <2> SUFFICES ASSUME NEW n \in 0..MaxDepth, v \in JsonTo[n]
               PROVE  redactValue[v] \in JsonTo[n]
    OBVIOUS
  <2>1. /\ n > 0 /\ n - 1 \in 0..MaxDepth
        /\ DOMAIN v.q = 1..Len(v.q) /\ Len(v.q) \in Nat
        /\ \A i \in DOMAIN v.q : v.q[i] \in JsonTo[n - 1]
    BY <1>2, ItemsOf
  <2>2. \A i \in DOMAIN v.q : redactValue[v.q[i]] \in JsonTo[n - 1]
    BY <1>2, <2>1
  <2>3. [i \in DOMAIN v.q |-> redactValue[v.q[i]]] \in Seq(JsonTo[n - 1])
    BY <2>1, <2>2, SeqOf
  <2>4. redactValue[v] = Arr([i \in DOMAIN v.q |-> redactValue[v.q[i]]])
    BY <1>2, RedactValue DEF RedactValueDef
  <2> QED BY <2>1, <2>3, <2>4, IntoLevel
<1>3. ASSUME NEW v \in Json, v.t = "obj" PROVE v \in T
  BY <1>3, RedactValue DEF RedactValueDef
<1>4. Json \subseteq T
  <2> HIDE DEF T
  <2> QED BY <1>1, <1>2, <1>3, JsonInduction
<1> QED BY <1>4

LEMMA ScalarKinds == \A v \in Scalar : v \in Json /\ Found(v) /\ v.t \notin {"arr", "obj"}
  BY InJson DEF Scalar, Null, Found

LEMMA SanitizeType ==
    \A v \in Json : \A n \in 0..MaxDepth :
        v \in JsonTo[n] => sanitizeCommonLargeFields[v] \in JsonTo[n]
<1> DEFINE F == sanitizeCommonLargeFields
           T == {v \in Json : \A n \in 0..MaxDepth :
                     v \in JsonTo[n] => F[v] \in JsonTo[n]}
<1>1. Scalar \subseteq T
  <2> SUFFICES ASSUME NEW v \in Scalar, NEW n \in 0..MaxDepth PROVE F[v] \in JsonTo[n]
    BY InJson
  <2>1. F[v] = v
    BY ScalarKinds, Sanitize DEF SanitizeDef
  <2> QED BY <2>1, IntoLevel
<1>2. ASSUME NEW v \in Json, v.t = "arr", \A i \in DOMAIN v.q : v.q[i] \in T
      PROVE  v \in T
  <2> SUFFICES ASSUME NEW n \in 0..MaxDepth, v \in JsonTo[n] PROVE F[v] \in JsonTo[n]
    OBVIOUS
  <2>1. /\ n > 0 /\ n - 1 \in 0..MaxDepth
        /\ DOMAIN v.q = 1..Len(v.q) /\ Len(v.q) \in Nat
        /\ \A i \in DOMAIN v.q : v.q[i] \in JsonTo[n - 1]
    BY <1>2, ItemsOf
  <2>2. \A i \in DOMAIN v.q : F[v.q[i]] \in JsonTo[n - 1]
    BY <1>2, <2>1
  <2>3. [i \in DOMAIN v.q |-> F[v.q[i]]] \in Seq(JsonTo[n - 1])
    BY <2>1, <2>2, SeqOf
  <2>4. F[v] = Arr([i \in DOMAIN v.q |-> F[v.q[i]]])
    BY <1>2, Sanitize DEF SanitizeDef
  <2> QED BY <2>1, <2>3, <2>4, IntoLevel
<1>3. ASSUME NEW v \in Json, v.t = "obj", \A k \in FieldNames : v.f[k] \in {Missing} \cup T
      PROVE  v \in T
  <2> SUFFICES ASSUME NEW n \in 0..MaxDepth, v \in JsonTo[n] PROVE F[v] \in JsonTo[n]
    OBVIOUS
  <2> DEFINE f == [k \in FieldNames |->
                     IF ~Found(v.f[k]) THEN Missing
                     ELSE IF shouldRedactFieldName(k) THEN redactValue[v.f[k]]
                     ELSE F[v.f[k]]]
  <2>1. n > 0 /\ v.f \in [FieldNames -> {Missing} \cup JsonTo[n - 1]]
    BY <1>3, LevelCases
  <2>2. n - 1 \in 0..MaxDepth
    BY <2>1, DepthAssumption
  <2>3. ASSUME NEW k \in FieldNames, Found(v.f[k])
        PROVE  redactValue[v.f[k]] \in JsonTo[n - 1] /\ F[v.f[k]] \in JsonTo[n - 1]
    <3>1. v.f[k] \in JsonTo[n - 1] /\ v.f[k] \in Json /\ v.f[k] \in T
      BY <1>3, <2>1, <2>2, <2>3, MissingNotJson, InJson
    <3> QED BY <2>2, <3>1, RedactValueType
  <2>4. f \in [FieldNames -> {Missing} \cup JsonTo[n - 1]]
    BY <2>3
  <2>5. F[v] = Obj(f)
    BY <1>3, Sanitize DEF SanitizeDef
  <2> HIDE DEF f
  <2> QED BY <2>1, <2>4, <2>5, IntoLevel
<1>4. Json \subseteq T
  <2> HIDE DEF T
  <2> QED BY <1>1, <1>2, <1>3, JsonInduction
<1> QED BY <1>4

LEMMA RedactPathAt ==
    ASSUME NEW v \in Json, NEW tokens \in Seq(Tokens)
    PROVE  LET next == Field(v, Head(tokens).name)
               below == IF Len(tokens) = 1 THEN redactValue[next]
                        ELSE IF Head(tokens).array /\ next.t # "arr" THEN next
                        ELSE redactPath[next][Tail(tokens)]
           IN  /\ tokens = <<>> => redactPath[v][tokens] = v
               /\ tokens # <<>> /\ v.t = "arr" =>
                    redactPath[v][tokens]
                      = Arr([i \in DOMAIN v.q |-> redactPath[v.q[i]][tokens]])
               /\ tokens # <<>> /\ v.t # "arr" =>
                    redactPath[v][tokens] =
                      IF Found(next) THEN [v EXCEPT !.f[Head(tokens).name] = below] ELSE v
<1>1. redactPath[v][tokens] = RedactPathDef(redactPath, v)[tokens]
  BY RedactPath
<1>2. CASE tokens = <<>>
  BY <1>1, <1>2, Zenon DEF RedactPathDef
<1>3. CASE tokens # <<>> /\ v.t = "arr"
  BY <1>1, <1>3, Zenon DEF RedactPathDef
<1>4. CASE tokens # <<>> /\ v.t # "arr"
  BY <1>1, <1>4, Zenon DEF RedactPathDef
<1> QED BY <1>2, <1>3, <1>4

LEMMA RedactPathType ==
    \A v \in Json : \A n \in 0..MaxDepth : \A tokens \in Seq(Tokens) :
        v \in JsonTo[n] => redactPath[v][tokens] \in JsonTo[n]
<1> DEFINE T == {v \in Json : \A n \in 0..MaxDepth : \A tokens \in Seq(Tokens) :
                     v \in JsonTo[n] => redactPath[v][tokens] \in JsonTo[n]}
<1>1. Scalar \subseteq T
  <2> SUFFICES ASSUME NEW v \in Scalar, NEW n \in 0..MaxDepth, NEW tokens \in Seq(Tokens)
               PROVE  redactPath[v][tokens] \in JsonTo[n]
    BY InJson
  <2>1. redactPath[v][tokens] = v
    <3>1. v \in Json /\ v.t \notin {"arr", "obj"}
      BY ScalarKinds
    <3>2. tokens # <<>> => ~Found(Field(v, Head(tokens).name))
      BY <3>1, Step
    <3> QED BY <3>1, <3>2, RedactPathAt
  <2> QED BY <2>1, IntoLevel
<1>2. ASSUME NEW v \in Json, v.t = "arr", \A i \in DOMAIN v.q : v.q[i] \in T
      PROVE  v \in T
  <2> SUFFICES ASSUME NEW n \in 0..MaxDepth, NEW tokens \in Seq(Tokens), v \in JsonTo[n]
               PROVE  redactPath[v][tokens] \in JsonTo[n]
    OBVIOUS
  <2>1. /\ n > 0 /\ n - 1 \in 0..MaxDepth
        /\ DOMAIN v.q = 1..Len(v.q) /\ Len(v.q) \in Nat
        /\ \A i \in DOMAIN v.q : v.q[i] \in JsonTo[n - 1]
    BY <1>2, ItemsOf
  <2>2. \A i \in DOMAIN v.q : redactPath[v.q[i]][tokens] \in JsonTo[n - 1]
    BY <1>2, <2>1
  <2>3. [i \in DOMAIN v.q |-> redactPath[v.q[i]][tokens]] \in Seq(JsonTo[n - 1])
    BY <2>1, <2>2, SeqOf
  <2>4. \/ redactPath[v][tokens] = v
        \/ redactPath[v][tokens] = Arr([i \in DOMAIN v.q |-> redactPath[v.q[i]][tokens]])
    BY <1>2, RedactPathAt
  <2> QED BY <2>1, <2>3, <2>4, IntoLevel
<1>3. ASSUME NEW v \in Json, v.t = "obj", \A k \in FieldNames : v.f[k] \in {Missing} \cup T
      PROVE  v \in T
  <2> SUFFICES ASSUME NEW n \in 0..MaxDepth, NEW tokens \in Seq(Tokens), v \in JsonTo[n]
               PROVE  redactPath[v][tokens] \in JsonTo[n]
    OBVIOUS
  <2> DEFINE name == Head(tokens).name
             next == Field(v, name)
             below == IF Len(tokens) = 1 THEN redactValue[next]
                      ELSE IF Head(tokens).array /\ next.t # "arr" THEN next
                      ELSE redactPath[next][Tail(tokens)]
  <2>1. n > 0 /\ v = [t |-> "obj", f |-> v.f]
        /\ v.f \in [FieldNames -> {Missing} \cup JsonTo[n - 1]]
    BY <1>3, LevelCases
  <2>2. n - 1 \in 0..MaxDepth
    BY <2>1, DepthAssumption
  <2>3. redactPath[v][tokens] = IF tokens # <<>> /\ Found(next)
                                THEN [v EXCEPT !.f[name] = below] ELSE v
    BY <1>3, RedactPathAt
  <2>4. ASSUME tokens # <<>>, Found(next)
        PROVE  name \in FieldNames /\ below \in JsonTo[n - 1]
    <3>1. /\ name \in FieldNames /\ Tail(tokens) \in Seq(Tokens)
          /\ next \in Json /\ next = v.f[name]
      BY <2>4, Step
    <3>2. next \in T /\ next \in JsonTo[n - 1]
      BY <1>3, <2>1, <3>1, MissingNotJson
    <3> QED BY <2>2, <3>1, <3>2, RedactValueType
  <2>5. ASSUME tokens # <<>>, Found(next)
        PROVE  [v EXCEPT !.f[name] = below] = Obj([v.f EXCEPT ![name] = below])
    <3> HIDE DEF name, below, next
    <3>1. [v.f EXCEPT ![name] = below] \in [FieldNames -> {Missing} \cup JsonTo[n - 1]]
      BY <2>1, <2>4, <2>5
    <3>2. Obj([v.f EXCEPT ![name] = below]) = [t |-> "obj", f |-> [v.f EXCEPT ![name] = below]]
      BY <3>1, ObjIs, Zenon
    <3> QED BY <2>1, <3>2
  <2>6. ASSUME tokens # <<>>, Found(next)
        PROVE  Obj([v.f EXCEPT ![name] = below]) \in JsonTo[n]
    <3> HIDE DEF name, below, next
    <3>1. [v.f EXCEPT ![name] = below] \in [FieldNames -> {Missing} \cup JsonTo[n - 1]]
      BY <2>1, <2>4, <2>6
    <3> QED BY <2>1, <3>1, IntoLevel
  <2> QED BY <2>3, <2>5, <2>6
<1>4. Json \subseteq T
  <2> HIDE DEF T
  <2> QED BY <1>1, <1>2, <1>3, JsonInduction
<1> QED BY <1>4

----------------------------------------------------------------------------
(* What was found, in the order of the items *)

\* The n-th of a set of positions is in it.
LEMMA NthIn ==
    ASSUME NEW N \in Nat, NEW S, S \subseteq 1..N
    PROVE  /\ IsFiniteSet(S) /\ Cardinality(S) \in 0..N
           /\ \A n \in 1..Cardinality(S) :
                \E i \in S : Cardinality({j \in S : j <= i}) = n
<1> DEFINE C(k) == Cardinality({j \in S : j <= k})
<1>0. \A j \in S : j \in Nat /\ 1 <= j /\ j <= N
  OBVIOUS
<1>1. IsFiniteSet(1..N) /\ Cardinality(1..N) = N
  <2>1. N = N - 1 + 1 /\ 1 \in Int /\ N \in Int
    OBVIOUS
  <2> QED BY <2>1, FS_Interval
<1>2. IsFiniteSet(S) /\ Cardinality(S) <= Cardinality(1..N)
  BY <1>1, FS_Subset
<1>3. Cardinality(S) \in Nat
  BY <1>2, FS_CardinalityType
<1>4. C(0) = 0
  <2>1. \A j \in S : ~(j <= 0)
    BY <1>0
  <2>2. {j \in S : j <= 0} = {}
    BY <2>1, Zenon
  <2> QED BY <2>2, FS_EmptySet
<1>5. C(N) = Cardinality(S)
  <2>1. {j \in S : j <= N} = S
    BY <1>0
  <2> QED BY <2>1
<1>6. ASSUME NEW k \in Nat
      PROVE  /\ C(k) \in Nat
             /\ k + 1 \in S => C(k + 1) = C(k) + 1
             /\ k + 1 \notin S => C(k + 1) = C(k)
  <2> DEFINE A == {j \in S : j <= k}
  <2>1. IsFiniteSet(A)
    <3>1. A \subseteq S
      OBVIOUS
    <3> QED BY <1>2, <3>1, FS_Subset
  <2>2. Cardinality(A) \in Nat
    BY <2>1, FS_CardinalityType
  <2>0. \A j \in S : j <= k + 1 <=> j <= k \/ j = k + 1
    BY <1>0
  <2>3. ASSUME k + 1 \in S PROVE Cardinality({j \in S : j <= k + 1}) = Cardinality(A) + 1
    <3>0. ~(k + 1 <= k)
      OBVIOUS
    <3>1. {j \in S : j <= k + 1} = A \cup {k + 1} /\ k + 1 \notin A
      BY <2>0, <2>3, <3>0, Zenon
    <3> HIDE DEF A
    <3>2. Cardinality(A \cup {k + 1}) = Cardinality(A) + 1
      BY <2>1, <3>1, FS_AddElement
    <3> QED BY <3>1, <3>2
  <2>4. ASSUME k + 1 \notin S PROVE {j \in S : j <= k + 1} = A
    BY <2>0, <2>4, Zenon
  <2> QED BY <2>2, <2>3, <2>4
<1> DEFINE T(n) == {k \in Nat : C(k) >= n => \E i \in S : C(i) = n}
<1>7. ASSUME NEW n \in Nat \ {0} PROVE \A k \in Nat : k \in T(n)
  <2>1. 0 \in T(n)
    BY <1>4
  <2>2. ASSUME NEW k \in Nat, k \in T(n) PROVE k + 1 \in T(n)
    <3> HIDE DEF C
    <3> SUFFICES ASSUME C(k + 1) >= n PROVE \E i \in S : C(i) = n
      OBVIOUS
    <3>1. CASE C(k) >= n
      BY <2>2, <3>1
    <3>2. CASE C(k) < n
      <4>1. k + 1 \in S /\ C(k + 1) = C(k) + 1
        BY <1>6, <3>2
      <4>2. C(k + 1) = n
        BY <1>6, <3>2, <4>1
      <4> QED BY <4>1, <4>2
    <3>3. C(k) \in Nat
      BY <1>6
    <3> QED BY <3>1, <3>2, <3>3
  <2> HIDE DEF T
  <2> QED BY <2>1, <2>2, NatSets
<1>8. ASSUME NEW n \in 1..Cardinality(S) PROVE \E i \in S : C(i) = n
  <2>1. n \in Nat \ {0} /\ C(N) >= n
    BY <1>3, <1>5
  <2>2. N \in T(n)
    BY <1>7, <2>1
  <2> HIDE DEF C
  <2> QED BY <2>1, <2>2
<1>9. Cardinality(S) \in 0..N
  BY <1>1, <1>2, <1>3
<1> QED BY <1>2, <1>8, <1>9

\* What was found is a sequence of some of the results.
LEMMA PresentType ==
    ASSUME NEW N \in Nat, NEW R, NEW all \in [1..N -> {Missing} \cup R],
           \A v \in R : Found(v)
    PROVE  Present(all) \in Seq(R)
<1> DEFINE found == {i \in DOMAIN all : Found(all[i])}
           Nth(n) == CHOOSE i \in found : Cardinality({j \in found : j <= i}) = n
<1>1. found \subseteq 1..N
  OBVIOUS
<1>2. \A i \in found : all[i] \in R
  BY MissingNotJson
<1> HIDE DEF found
<1>3. Cardinality(found) \in Nat
  <2>1. Cardinality(found) \in 0..N
    BY <1>1, NthIn
  <2> QED BY <2>1
<1>4. ASSUME NEW n \in 1..Cardinality(found) PROVE Nth(n) \in found
  BY <1>1, NthIn
<1>5. [n \in 1..Cardinality(found) |-> all[Nth(n)]] \in Seq(R)
  <2>1. \A n \in 1..Cardinality(found) : all[Nth(n)] \in R
    BY <1>2, <1>4
  <2> HIDE DEF Nth
  <2> QED BY <1>3, <2>1, SeqOf
<1> QED BY <1>5 DEF Present, found

\* When the results that were found come first, they are what is left.
LEMMA PresentFirst ==
    ASSUME NEW N \in Nat, NEW M \in 0..N, NEW all, DOMAIN all = 1..N,
           \A i \in 1..N : Found(all[i]) <=> i <= M
    PROVE  Present(all) = [i \in 1..M |-> all[i]]
<1> DEFINE found == {i \in DOMAIN all : Found(all[i])}
<1>1. found = 1..M
  OBVIOUS
<1>2. ASSUME NEW n \in 0..M PROVE Cardinality(1..n) = n
  <2>1. n = n - 1 + 1 /\ 1 \in Int /\ n \in Int
    OBVIOUS
  <2> QED BY <2>1, FS_Interval
<1>3. ASSUME NEW n \in 1..M
      PROVE  (CHOOSE i \in found : Cardinality({j \in found : j <= i}) = n) = n
  <2>1. \A i \in 1..M : {j \in 1..M : j <= i} = 1..i
    OBVIOUS
  <2>2. \A i \in 1..M : i \in 0..M
    OBVIOUS
  <2>3. \A i \in 1..M : Cardinality({j \in 1..M : j <= i}) = i
    BY <1>2, <2>1, <2>2, Zenon
  <2> HIDE DEF found
  <2>4. \A i \in found : Cardinality({j \in found : j <= i}) = i
    BY <1>1, <2>3, Zenon
  <2>5. n \in found
    BY <1>1
  <2> QED BY <2>4, <2>5
<1>4. Cardinality(found) = M
  <2>1. M \in 0..M
    OBVIOUS
  <2> HIDE DEF found
  <2> QED BY <1>1, <1>2, <2>1, Zenon
<1> DEFINE Nth(n) == CHOOSE i \in found : Cardinality({j \in found : j <= i}) = n
<1>5. \A n \in 1..M : Nth(n) = n
  BY <1>3
<1>6. [n \in 1..Cardinality(found) |-> all[Nth(n)]] = [n \in 1..M |-> all[n]]
  <2> HIDE DEF found, Nth
  <2> QED BY <1>4, <1>5
<1> QED BY <1>6, Zenon DEF Present

LEMMA CollectedType ==
    ASSUME NEW n \in 0..MaxDepth, n > 0, NEW N \in Nat,
           NEW all \in [1..N -> {Missing} \cup JsonTo[n - 1]]
    PROVE  Collected(all) \in {Missing} \cup JsonTo[n]
<1>1. n - 1 \in 0..MaxDepth
  BY DepthAssumption
<1>2. \A v \in JsonTo[n - 1] : Found(v)
  BY <1>1, InJson, Parts
<1>3. Present(all) \in Seq(JsonTo[n - 1])
  BY <1>2, PresentType
<1> QED BY <1>3, IntoLevel DEF Collected

----------------------------------------------------------------------------
(* Reading and writing at paths *)

LEMMA GetAt ==
    ASSUME NEW v \in Json, NEW tokens \in Seq(Tokens)
    PROVE  LET next == Field(v, Head(tokens).name)
               rest == Tail(tokens)
           IN  /\ tokens = <<>> => getByTokens[v][tokens] = v
               /\ tokens # <<>> /\ v.t = "arr" =>
                    getByTokens[v][tokens]
                      = Collected([i \in DOMAIN v.q |-> getByTokens[v.q[i]][tokens]])
               /\ tokens # <<>> /\ v.t # "arr" /\ ~Found(next) =>
                    getByTokens[v][tokens] = Missing
               /\ tokens # <<>> /\ v.t # "arr" /\ Found(next) /\ ~Head(tokens).array =>
                    getByTokens[v][tokens] = getByTokens[next][rest]
               /\ tokens # <<>> /\ v.t # "arr" /\ Found(next) /\ Head(tokens).array =>
                    getByTokens[v][tokens] =
                      IF next.t # "arr" THEN Missing
                      ELSE Collected([i \in DOMAIN next.q |-> getByTokens[next.q[i]][rest]])
<1>1. getByTokens[v][tokens] = GetDef(getByTokens, v)[tokens]
  BY Get
<1>2. CASE tokens = <<>>
  BY <1>1, <1>2, Zenon DEF GetDef
<1>3. CASE tokens # <<>> /\ v.t = "arr"
  BY <1>1, <1>3, Zenon DEF GetDef
<1>4. CASE tokens # <<>> /\ v.t # "arr"
  BY <1>1, <1>4, Zenon DEF GetDef
<1> QED BY <1>2, <1>3, <1>4

\* What is found in a value is no deeper than the value.
LEMMA GetType ==
    \A v \in Json : \A n \in 0..MaxDepth : \A tokens \in Seq(Tokens) :
        v \in JsonTo[n] => getByTokens[v][tokens] \in {Missing} \cup JsonTo[n]
<1> DEFINE T == {v \in Json : \A n \in 0..MaxDepth : \A tokens \in Seq(Tokens) :
                     v \in JsonTo[n] => getByTokens[v][tokens] \in {Missing} \cup JsonTo[n]}
<1>1. Scalar \subseteq T
  <2> SUFFICES ASSUME NEW v \in Scalar, NEW n \in 0..MaxDepth, NEW tokens \in Seq(Tokens)
               PROVE  getByTokens[v][tokens] \in {Missing} \cup JsonTo[n]
    BY InJson
  <2>1. v \in Json /\ v.t \notin {"arr", "obj"}
    BY ScalarKinds
  <2>2. tokens # <<>> => ~Found(Field(v, Head(tokens).name))
    BY <2>1, Step
  <2>3. getByTokens[v][tokens] \in {v, Missing}
    BY <2>1, <2>2, GetAt
  <2> QED BY <2>3, IntoLevel
<1>2. ASSUME NEW v \in Json, v.t = "arr", \A i \in DOMAIN v.q : v.q[i] \in T
      PROVE  v \in T
  <2> SUFFICES ASSUME NEW n \in 0..MaxDepth, NEW tokens \in Seq(Tokens), v \in JsonTo[n]
               PROVE  getByTokens[v][tokens] \in {Missing} \cup JsonTo[n]
    OBVIOUS
  <2> DEFINE all == [i \in DOMAIN v.q |-> getByTokens[v.q[i]][tokens]]
  <2>1. /\ n > 0 /\ n - 1 \in 0..MaxDepth
        /\ DOMAIN v.q = 1..Len(v.q) /\ Len(v.q) \in Nat
        /\ \A i \in DOMAIN v.q : v.q[i] \in JsonTo[n - 1]
    BY <1>2, ItemsOf
  <2>2. all \in [1..Len(v.q) -> {Missing} \cup JsonTo[n - 1]]
    BY <1>2, <2>1
  <2>3. Collected(all) \in {Missing} \cup JsonTo[n]
    <3> HIDE DEF all
    <3> QED BY <2>1, <2>2, CollectedType
  <2>4. getByTokens[v][tokens] \in {v, Collected(all)}
    BY <1>2, GetAt
  <2> HIDE DEF all
  <2> QED BY <2>3, <2>4
<1>3. ASSUME NEW v \in Json, v.t = "obj", \A k \in FieldNames : v.f[k] \in {Missing} \cup T
      PROVE  v \in T
  <2> SUFFICES ASSUME NEW n \in 0..MaxDepth, NEW tokens \in Seq(Tokens), v \in JsonTo[n]
               PROVE  getByTokens[v][tokens] \in {Missing} \cup JsonTo[n]
    OBVIOUS
  <2> DEFINE next == Field(v, Head(tokens).name)
             rest == Tail(tokens)
  <2>1. /\ n > 0 /\ n - 1 \in 0..MaxDepth
        /\ v.f \in [FieldNames -> {Missing} \cup JsonTo[n - 1]]
        /\ JsonTo[n - 1] \subseteq JsonTo[n]
    <3>1. n > 0 /\ v.f \in [FieldNames -> {Missing} \cup JsonTo[n - 1]]
      BY <1>3, LevelCases
    <3>2. n - 1 \in 0..MaxDepth
      BY <3>1, DepthAssumption
    <3> QED BY <3>1, <3>2, LevelsGrow, DepthAssumption
  <2>2. CASE tokens = <<>>
    BY <2>2, GetAt
  <2>5. v.t # "arr"
    BY <1>3
  <2>3. CASE tokens # <<>> /\ ~Found(next)
    <3>1. getByTokens[v][tokens] = Missing
      BY <2>5, <2>3, GetAt, Zenon
    <3> QED BY <3>1
  <2>4. CASE tokens # <<>> /\ Found(next)
    <3>1. next \in Json /\ next \in T /\ next \in JsonTo[n - 1] /\ rest \in Seq(Tokens)
      BY <1>3, <2>1, <2>4, Step, MissingNotJson
    <3>2. getByTokens[next][rest] \in {Missing} \cup JsonTo[n - 1]
      BY <2>1, <3>1
    <3>3. CASE ~Head(tokens).array
      <4>1. getByTokens[v][tokens] = getByTokens[next][rest]
        BY <2>5, <2>4, <3>3, GetAt, Zenon
      <4> HIDE DEF next, rest
      <4> QED BY <2>1, <3>2, <4>1
    <3>4. CASE Head(tokens).array /\ next.t # "arr"
      <4>1. getByTokens[v][tokens] = Missing
        BY <2>5, <2>4, <3>4, GetAt, Zenon
      <4> QED BY <4>1
    <3>5. CASE Head(tokens).array /\ next.t = "arr" /\ rest # <<>>
      <4>1. getByTokens[v][tokens]
              = Collected([i \in DOMAIN next.q |-> getByTokens[next.q[i]][rest]])
        BY <2>5, <2>4, <3>5, GetAt, Zenon
      <4>2. getByTokens[next][rest]
              = Collected([i \in DOMAIN next.q |-> getByTokens[next.q[i]][rest]])
        <5>1. /\ next \in Json /\ rest \in Seq(Tokens)
              /\ rest # <<>> /\ next.t = "arr"
          BY <3>1, <3>5
        <5> HIDE DEF next, rest
        <5> QED BY <5>1, GetAt
      <4> QED BY <2>1, <3>2, <4>1, <4>2
    <3>6. CASE Head(tokens).array /\ next.t = "arr" /\ rest = <<>>
      <4> DEFINE all == [i \in DOMAIN next.q |-> getByTokens[next.q[i]][rest]]
      <4>1. /\ n - 1 > 0 /\ (n - 1) - 1 \in 0..MaxDepth
            /\ DOMAIN next.q = 1..Len(next.q) /\ Len(next.q) \in Nat
            /\ \A i \in DOMAIN next.q : next.q[i] \in JsonTo[(n - 1) - 1]
        BY <2>1, <3>1, <3>6, ItemsOf
      <4>2. \A i \in DOMAIN next.q : getByTokens[next.q[i]][rest] = next.q[i]
        BY <3>1, <3>6, <4>1, InJson, GetAt
      <4>3. all \in [1..Len(next.q) -> {Missing} \cup JsonTo[(n - 1) - 1]]
        BY <4>1, <4>2
      <4>4. getByTokens[v][tokens] = Collected(all)
        BY <2>5, <2>4, <3>6, GetAt, Zenon
      <4>5. Collected(all) \in {Missing} \cup JsonTo[n - 1]
        <5> HIDE DEF all, next, rest
        <5> QED BY <2>1, <4>1, <4>3, CollectedType
      <4> HIDE DEF all
      <4> QED BY <2>1, <4>4, <4>5
    <3>7. Head(tokens).array \in BOOLEAN
      BY <2>4, Step
    <3> QED BY <3>3, <3>4, <3>5, <3>6, <3>7
  <2> QED BY <2>2, <2>3, <2>4
<1>4. Json \subseteq T
  <2> HIDE DEF T
  <2> QED BY <1>1, <1>2, <1>3, JsonInduction
<1> QED BY <1>4

\* Induction over the length of a path.
LEMMA PathInduction ==
    ASSUME NEW T,
           \A p \in TokenPaths : Tail(p) = <<>> \/ (Tail(p) \in TokenPaths /\ Tail(p) \in T) => p \in T
    PROVE  TokenPaths \subseteq T
<1> DEFINE S == {n \in Nat : \A p \in TokenPaths : Len(p) <= n => p \in T}
<1>1. 0 \in S
  BY DEF TokenPaths
<1>2. ASSUME NEW n \in Nat, n \in S PROVE n + 1 \in S
  <2> SUFFICES ASSUME NEW p \in TokenPaths, Len(p) <= n + 1 PROVE p \in T
    OBVIOUS
  <2>1. CASE Tail(p) = <<>>
    BY <2>1
  <2>2. CASE Tail(p) # <<>>
    <3>1. Tail(p) \in TokenPaths /\ Len(Tail(p)) <= n
      BY <2>2 DEF TokenPaths
    <3>2. Tail(p) \in T
      BY <1>2, <3>1
    <3> QED BY <3>1, <3>2
  <2> QED BY <2>1, <2>2
<1>3. \A n \in Nat : n \in S
  <2> HIDE DEF S
  <2> QED BY <1>1, <1>2, NatSets
<1>4. ASSUME NEW p \in TokenPaths PROVE p \in T
  <2>1. Len(p) \in Nat /\ Len(p) \in S
    BY <1>3 DEF TokenPaths
  <2> QED BY <2>1
<1> QED BY <1>4

\* The parts of a path.
LEMMA PathParts ==
    ASSUME NEW p \in TokenPaths
    PROVE  /\ p \in Seq(Tokens) /\ p # <<>>
           /\ Head(p) = p[1] /\ Head(p) \in Tokens
           /\ Head(p).name \in FieldNames /\ Head(p).array \in BOOLEAN
           /\ Tail(p) \in Seq(Tokens)
           /\ Len(p) \in Nat \ {0}
           /\ Tail(p) = <<>> <=> Len(p) = 1
           /\ Tail(p) # <<>> => Tail(p) \in TokenPaths /\ Len(Tail(p)) = Len(p) - 1
           /\ \A i \in 1..Len(p) - 1 : Tail(p)[i] = p[i + 1]
<1>1. p \in Seq(Tokens) /\ p # <<>>
  BY DEF TokenPaths
<1>2. Head(p) = p[1] /\ Head(p) \in Tokens
  BY <1>1
<1>3. Head(p).name \in FieldNames /\ Head(p).array \in BOOLEAN
  BY <1>2 DEF Tokens
<1>4. Tail(p) \in Seq(Tokens) /\ Len(p) \in Nat \ {0} /\ Len(Tail(p)) = Len(p) - 1
  BY <1>1
<1>5. Tail(p) = <<>> <=> Len(p) = 1
  BY <1>1, <1>4
<1>6. \A i \in 1..Len(p) - 1 : Tail(p)[i] = p[i + 1]
  BY <1>1
<1> QED BY <1>1, <1>2, <1>3, <1>4, <1>5, <1>6 DEF TokenPaths

\* A value counts as a list of one where a list is written.
ListValues(v) == IF v.t = "arr" THEN v.q ELSE <<v>>
Child(items, i) == IF i \in DOMAIN items THEN Fields(items[i]) ELSE NoFields

\* What is written under the first name of a path, and in the items of an array.
ItemsWritten(rest, items, values) ==
    [i \in DOMAIN items \cup DOMAIN values |->
        IF i \in DOMAIN values THEN Obj(setByTokens[rest][Child(items, i)][values[i]])
                               ELSE items[i]]

PutAt(p, old, value) ==
    IF Tail(p) = <<>>
    THEN IF Head(p).array THEN Arr(ListValues(value)) ELSE value
    ELSE IF ~Head(p).array
    THEN Obj(setByTokens[Tail(p)][Fields(old)][value])
    ELSE IF old.t # "arr" /\ ListValues(value) = <<>> THEN Null
    ELSE Arr(ItemsWritten(Tail(p), Items(old), ListValues(value)))

LEMMA SetAt ==
    ASSUME NEW p \in TokenPaths, NEW fields \in FieldSets, NEW value \in Json
    PROVE  setByTokens[p][fields][value]
             = [fields EXCEPT ![Head(p).name] = PutAt(p, fields[Head(p).name], value)]
<1> DEFINE items == Items(fields[Head(p).name])
           values == ListValues(value)
<1>1. setByTokens[p][fields][value] = SetDef(setByTokens, p)[fields][value]
  BY Set
<1>2. DOMAIN Aligning(items, values) = DOMAIN values
      /\ \A i \in DOMAIN values : Aligning(items, values)[i] = i
  BY DEF Aligning
<1>3. [i \in DOMAIN items \cup DOMAIN Aligning(items, values) |->
         IF i \in DOMAIN Aligning(items, values)
         THEN Obj(setByTokens[Tail(p)][Child(items, i)][values[Aligning(items, values)[i]]])
         ELSE items[i]]
      = ItemsWritten(Tail(p), items, values)
  <2> HIDE DEF items, values
  <2> QED BY <1>2 DEF ItemsWritten
<1>4. SetDef(setByTokens, p)[fields][value]
        = [fields EXCEPT ![Head(p).name] = PutAt(p, fields[Head(p).name], value)]
  BY <1>3, Zenon DEF SetDef, ListValues, Child, PutAt
<1> QED BY <1>1, <1>4

\* The names that fields with values of a level have.
FieldsTo(n) == [FieldNames -> {Missing} \cup JsonTo[n]]

LEMMA FieldsIn ==
    ASSUME NEW n \in 0..MaxDepth
    PROVE  /\ FieldsTo(n) \subseteq FieldSets
           /\ NoFields \in FieldsTo(n)
           /\ \A v \in {Missing} \cup JsonTo[n] : Fields(v) \in FieldsTo(n)
           /\ n > 0 => \A v \in {Missing} \cup JsonTo[n] : Fields(v) \in FieldsTo(n - 1)
           /\ n > 0 => \A f \in FieldsTo(n - 1) :
                         Obj(f) \in JsonTo[n] /\ Fields(Obj(f)) = f /\ Obj(f).t = "obj"
<1>1. FieldsTo(n) \subseteq FieldSets /\ NoFields \in FieldsTo(n)
  BY InJson DEF FieldsTo, FieldSets, NoFields
<1>2. ASSUME n > 0, NEW v \in {Missing} \cup JsonTo[n] PROVE Fields(v) \in FieldsTo(n - 1)
  <2>1. CASE v.t # "obj"
    BY <2>1 DEF FieldsTo, Fields, NoFields
  <2>2. CASE v.t = "obj"
    <3>1. v \in JsonTo[n]
      BY <2>2 DEF Missing
    <3> QED BY <2>2, <3>1, LevelCases DEF FieldsTo, Fields
  <2> QED BY <2>1, <2>2
<1>3. ASSUME NEW v \in {Missing} \cup JsonTo[n] PROVE Fields(v) \in FieldsTo(n)
  <2>1. CASE n = 0
    <3>1. v.t # "obj"
      BY <2>1, Levels, ScalarKinds DEF Missing
    <3> QED BY <3>1 DEF FieldsTo, Fields, NoFields
  <2>2. CASE n > 0
    <3>1. n - 1 \in 0..MaxDepth /\ n - 1 <= n
      BY <2>2, DepthAssumption
    <3>2. FieldsTo(n - 1) \subseteq FieldsTo(n)
      BY <3>1, LevelsGrow DEF FieldsTo
    <3> QED BY <1>2, <2>2, <3>2
  <2> QED BY <2>1, <2>2
<1>4. ASSUME n > 0, NEW f \in FieldsTo(n - 1)
      PROVE  Obj(f) \in JsonTo[n] /\ Fields(Obj(f)) = f /\ Obj(f).t = "obj"
  <2>1. f \in [FieldNames -> {Missing} \cup JsonTo[n - 1]]
    BY <1>4 DEF FieldsTo
  <2>2. Obj(f) = [t |-> "obj", f |-> f] /\ Fields(Obj(f)) = f
    BY <2>1, ObjIs, Zenon
  <2>3. Obj(f) \in JsonTo[n]
    BY <1>4, <2>1, IntoLevel
  <2> QED BY <2>2, <2>3
<1> QED BY <1>1, <1>2, <1>3, <1>4

LEMMA SeqOfOne ==
    ASSUME NEW R, NEW v \in R
    PROVE  <<v>> \in Seq(R) /\ Len(<<v>>) = 1 /\ DOMAIN <<v>> = 1..1 /\ <<v>>[1] = v
  OBVIOUS

LEMMA ValuesIn ==
    ASSUME NEW n \in 0..MaxDepth, NEW v \in JsonTo[n]
    PROVE  /\ DOMAIN ListValues(v) = 1..Len(ListValues(v)) /\ Len(ListValues(v)) \in Nat
           /\ ListValues(v) \in Seq(JsonTo[n])
           /\ \A i \in DOMAIN ListValues(v) : ListValues(v)[i] \in JsonTo[n]
<1>1. CASE v.t = "arr"
  <2>1. /\ n - 1 \in 0..MaxDepth /\ n - 1 <= n
        /\ v.q \in Seq(JsonTo[n - 1])
    BY <1>1, ItemsOf
  <2>2. JsonTo[n - 1] \subseteq JsonTo[n]
    BY <2>1, LevelsGrow
  <2>3. v.q \in Seq(JsonTo[n])
    BY <2>1, <2>2, SeqDef
  <2> QED BY <1>1, <2>3 DEF ListValues
<1>2. CASE v.t # "arr"
  <2>1. ListValues(v) = <<v>>
    BY <1>2 DEF ListValues
  <2>2. <<v>> \in Seq(JsonTo[n]) /\ Len(<<v>>) = 1
    BY SeqOfOne
  <2> QED BY <2>1, <2>2
<1> QED BY <1>1, <1>2

\* Writing a value makes the fields deeper by no more than the path and it need.
LEMMA SetType ==
    \A p \in TokenPaths : \A d, e \in 0..MaxDepth : e + 2 * Len(p) <= d + 1 =>
        \A fields \in FieldsTo(d), value \in JsonTo[e] :
            setByTokens[p][fields][value] \in FieldsTo(d)
<1> DEFINE T == {p \in TokenPaths : \A d, e \in 0..MaxDepth : e + 2 * Len(p) <= d + 1 =>
                    \A fields \in FieldsTo(d), value \in JsonTo[e] :
                        setByTokens[p][fields][value] \in FieldsTo(d)}
<1>1. ASSUME NEW p \in TokenPaths, Tail(p) = <<>> \/ (Tail(p) \in TokenPaths /\ Tail(p) \in T)
      PROVE  p \in T
  <2> SUFFICES ASSUME NEW d \in 0..MaxDepth, NEW e \in 0..MaxDepth,
                      e + 2 * Len(p) <= d + 1,
                      NEW fields \in FieldsTo(d), NEW value \in JsonTo[e]
               PROVE  setByTokens[p][fields][value] \in FieldsTo(d)
    OBVIOUS
  <2> DEFINE name == Head(p).name
             old == fields[name]
             items == Items(old)
             values == ListValues(value)
  <2>1. Len(p) \in Nat \ {0} /\ name \in FieldNames /\ Head(p).array \in BOOLEAN
    BY PathParts
  <2>2. fields \in FieldSets /\ value \in Json
    BY FieldsIn, InJson
  <2>3. old \in {Missing} \cup JsonTo[d]
    BY <2>1 DEF FieldsTo
  <2>4. e <= d - 1 /\ d > 0 /\ d - 1 \in 0..MaxDepth
    BY <2>1, DepthAssumption
  <2>5. /\ DOMAIN values = 1..Len(values) /\ Len(values) \in Nat
        /\ values \in Seq(JsonTo[e])
        /\ \A i \in DOMAIN values : values[i] \in JsonTo[e]
    BY ValuesIn
  <2>6. ASSUME NEW new \in JsonTo[d] PROVE [fields EXCEPT ![name] = new] \in FieldsTo(d)
    BY <2>1 DEF FieldsTo
  <2>7. JsonTo[e] \subseteq JsonTo[d] /\ JsonTo[e] \subseteq JsonTo[d - 1]
    BY <2>4, LevelsGrow
  <2> HIDE DEF values, items, old, name
  <2>8. Arr(values) \in JsonTo[d]
    <3>1. values \in Seq(JsonTo[d - 1])
      BY <2>5, <2>7, SeqDef
    <3> QED BY <2>4, <3>1, IntoLevel
  <2>9. CASE Tail(p) = <<>>
    <3>1. \/ setByTokens[p][fields][value] = [fields EXCEPT ![name] = value]
          \/ setByTokens[p][fields][value] = [fields EXCEPT ![name] = Arr(values)]
      BY <2>1, <2>2, <2>9, SetAt DEF name, values, PutAt
    <3> QED BY <2>6, <2>7, <2>8, <3>1
  <2>10. CASE Tail(p) # <<>>
    <3>1. /\ Tail(p) \in TokenPaths /\ Tail(p) \in T /\ Len(Tail(p)) = Len(p) - 1
          /\ Len(Tail(p)) \in Nat \ {0}
      BY <1>1, <2>10, PathParts
    <3>2. e + 2 * Len(Tail(p)) <= (d - 1) + 1 /\ e + 2 * Len(Tail(p)) <= (d - 2) + 1
          /\ d - 2 >= 0 /\ d - 2 \in 0..MaxDepth
      BY <2>1, <2>4, <3>1, DepthAssumption
    <3>3. CASE ~Head(p).array
      <4>1. Fields(old) \in FieldsTo(d - 1)
        BY <2>3, <2>4, FieldsIn
      <4>2. setByTokens[Tail(p)][Fields(old)][value] \in FieldsTo(d - 1)
        BY <2>4, <3>1, <3>2, <4>1
      <4>3. Obj(setByTokens[Tail(p)][Fields(old)][value]) \in JsonTo[d]
        BY <2>4, <4>2, FieldsIn
      <4>4. setByTokens[p][fields][value]
              = [fields EXCEPT ![name] = Obj(setByTokens[Tail(p)][Fields(old)][value])]
        BY <2>2, <2>10, <3>3, SetAt DEF name, old, PutAt
      <4> QED BY <2>6, <4>3, <4>4
    <3>4. CASE Head(p).array /\ old.t # "arr" /\ values = <<>>
      <4>1. setByTokens[p][fields][value] = [fields EXCEPT ![name] = Null]
        BY <2>2, <2>10, <3>4, SetAt DEF name, old, values, PutAt
      <4>2. Null \in JsonTo[d]
        BY IntoLevel DEF Scalar
      <4> QED BY <2>6, <4>1, <4>2
    <3>5. CASE Head(p).array /\ ~(old.t # "arr" /\ values = <<>>)
      <4> DEFINE all == ItemsWritten(Tail(p), items, values)
      <4>1. setByTokens[p][fields][value] = [fields EXCEPT ![name] = Arr(all)]
        BY <2>2, <2>10, <3>5, SetAt DEF name, old, values, items, PutAt
      <4>2. /\ DOMAIN items = 1..Len(items) /\ Len(items) \in Nat
            /\ \A i \in DOMAIN items : items[i] \in JsonTo[d - 1]
        <5>1. CASE old.t # "arr"
          BY <5>1 DEF items, Items
        <5>2. CASE old.t = "arr"
          <6>1. old \in JsonTo[d]
            BY <2>3, <5>2 DEF Missing
          <6> QED BY <5>2, <6>1, ItemsOf DEF items, Items
        <5> QED BY <5>1, <5>2
      <4>3. \A i \in DOMAIN values : Child(items, i) \in FieldsTo(d - 2)
        <5>1. d - 1 > 0 /\ (d - 1) - 1 = d - 2
          BY <3>2
        <5>2. \A i \in DOMAIN items : Fields(items[i]) \in FieldsTo((d - 1) - 1)
          BY <2>4, <4>2, <5>1, FieldsIn
        <5>3. NoFields \in FieldsTo(d - 2)
          BY <3>2, FieldsIn
        <5> QED BY <5>1, <5>2, <5>3 DEF Child
      <4>4. \A i \in DOMAIN values :
              Obj(setByTokens[Tail(p)][Child(items, i)][values[i]]) \in JsonTo[d - 1]
        <5>1. \A i \in DOMAIN values :
                setByTokens[Tail(p)][Child(items, i)][values[i]] \in FieldsTo(d - 2)
          BY <2>5, <3>1, <3>2, <4>3
        <5>2. d - 1 > 0 /\ (d - 1) - 1 = d - 2
          BY <3>2
        <5> QED BY <2>4, <5>1, <5>2, FieldsIn
      <4> DEFINE n == IF Len(items) > Len(values) THEN Len(items) ELSE Len(values)
      <4>5. DOMAIN items \cup DOMAIN values = 1..n /\ n \in Nat
        BY <2>5, <4>2
      <4>6. all \in [1..n -> JsonTo[d - 1]]
        BY <4>2, <4>4, <4>5 DEF ItemsWritten
      <4> HIDE DEF n, all
      <4>7. all \in Seq(JsonTo[d - 1])
        BY <4>5, <4>6, SeqOf
      <4>8. Arr(all) \in JsonTo[d]
        BY <2>4, <4>7, IntoLevel
      <4> QED BY <2>6, <4>1, <4>8
    <3> QED BY <2>1, <3>3, <3>4, <3>5
  <2> QED BY <2>9, <2>10
<1>2. TokenPaths \subseteq T
  <2> HIDE DEF T
  <2> QED BY <1>1, PathInduction
<1> QED BY <1>2

----------------------------------------------------------------------------
(* TokenPaths of names only.  A value that is written is there, and nothing is  *)
(* written to a path that parts from it, unless an array is on the way.    *)

Keys(p) == \A i \in DOMAIN p : ~p[i].array

ClearDef(g, p) ==
    [fields \in FieldSets |->
        \/ Tail(p) = <<>>
        \/ /\ fields[Head(p).name].t # "arr"
           /\ g[Tail(p)][Fields(fields[Head(p).name])]]

\* No array is on the way of a path.
clear[p \in TokenPaths] ==
    [fields \in FieldSets |->
        \/ Tail(p) = <<>>
        \/ /\ fields[Head(p).name].t # "arr"
           /\ clear[Tail(p)][Fields(fields[Head(p).name])]]

OverClear == INSTANCE Recursion WITH D <- TokenPaths, rank <- length, Def <- ClearDef

LEMMA Clear == \A p \in TokenPaths : clear[p] = ClearDef(clear, p)
<1>1. length \in [TokenPaths -> Nat]
  BY DEF length, TokenPaths
<1>2. OverClear!LooksBelow
  <2> SUFFICES ASSUME NEW p \in TokenPaths, NEW g, NEW h,
                      \A w \in TokenPaths : length[w] < length[p] => g[w] = h[w]
               PROVE  ClearDef(g, p) = ClearDef(h, p)
    BY DEF OverClear!LooksBelow
  <2>1. CASE Tail(p) = <<>>
    BY <2>1 DEF ClearDef
  <2>2. CASE Tail(p) # <<>>
    <3>1. Tail(p) \in TokenPaths /\ length[Tail(p)] < length[p]
      BY <2>2 DEF length, TokenPaths
    <3>2. g[Tail(p)] = h[Tail(p)]
      BY <3>1
    <3> QED BY <3>2 DEF ClearDef
  <2> QED BY <2>1, <2>2
<1>3. \E g : g = [p \in TokenPaths |-> ClearDef(g, p)]
  BY <1>1, <1>2, OverClear!Recursive
<1>4. clear = [p \in TokenPaths |-> ClearDef(clear, p)]
  BY <1>3 DEF clear, ClearDef
<1> QED BY <1>4

LEMMA ClearAt ==
    ASSUME NEW p \in TokenPaths, NEW fields \in FieldSets
    PROVE  clear[p][fields] <=>
             \/ Tail(p) = <<>>
             \/ /\ fields[Head(p).name].t # "arr"
                /\ clear[Tail(p)][Fields(fields[Head(p).name])]
  BY Clear DEF ClearDef

\* Paths that part do so at their first name, or have the same first token and
\* part below it.
LEMMA ApartTail ==
    ASSUME NEW p \in TokenPaths, NEW q \in TokenPaths, Apart(p, q)
    PROVE  \/ Head(p).name # Head(q).name
           \/ /\ Head(p) = Head(q)
              /\ Tail(p) \in TokenPaths /\ Tail(q) \in TokenPaths
              /\ Apart(Tail(p), Tail(q))
<1>1. PICK n \in DOMAIN p \cap DOMAIN q :
        (\A i \in 1..n - 1 : p[i] = q[i]) /\ p[n].name # q[n].name
  BY DEF Apart
<1>2. p \in Seq(Tokens) /\ q \in Seq(Tokens) /\ n \in 1..Len(p) /\ n \in 1..Len(q)
  BY DEF TokenPaths
<1>3. CASE n = 1
  BY <1>1, <1>3, PathParts
<1>4. CASE n > 1
  <2>1. Len(p) \in Nat /\ Len(q) \in Nat /\ Len(p) > 1 /\ Len(q) > 1
    BY <1>2, <1>4
  <2>2. Tail(p) \in TokenPaths /\ Tail(q) \in TokenPaths
    <3>1. ASSUME NEW r \in Seq(Tokens), Len(r) > 1 PROVE Tail(r) \in TokenPaths
      <4>1. r # <<>>
        BY <3>1
      <4>2. Tail(r) \in Seq(Tokens) /\ Len(Tail(r)) = Len(r) - 1
        BY <4>1
      <4>3. Tail(r) # <<>>
        <5>1. Len(r) \in Nat
          OBVIOUS
        <5>2. \A m \in Nat : m > 1 => m - 1 # 0
          OBVIOUS
        <5>3. Len(Tail(r)) # 0
          BY <3>1, <4>2, <5>1, <5>2, Zenon
        <5> QED BY <4>2, <5>3, EmptySeq
      <4> QED BY <4>2, <4>3 DEF TokenPaths
    <3> QED BY <1>2, <2>1, <3>1
  <2>3. /\ \A i \in 1..Len(p) - 1 : Tail(p)[i] = p[i + 1]
        /\ \A i \in 1..Len(q) - 1 : Tail(q)[i] = q[i + 1]
        /\ DOMAIN Tail(p) = 1..Len(p) - 1 /\ DOMAIN Tail(q) = 1..Len(q) - 1
    BY <1>2, <2>1
  <2>4. n - 1 \in DOMAIN Tail(p) \cap DOMAIN Tail(q) /\ (n - 1) + 1 = n
    BY <1>2, <1>4, <2>1, <2>3
  <2>5. Tail(p)[n - 1].name # Tail(q)[n - 1].name
    BY <1>1, <2>3, <2>4
  <2>6. \A i \in 1..(n - 1) - 1 : Tail(p)[i] = Tail(q)[i]
    <3> SUFFICES ASSUME NEW i \in 1..(n - 1) - 1 PROVE Tail(p)[i] = Tail(q)[i]
      OBVIOUS
    <3>1. i + 1 \in 1..n - 1 /\ i \in 1..Len(p) - 1 /\ i \in 1..Len(q) - 1
      BY <1>2, <1>4, <2>1
    <3> QED BY <1>1, <2>3, <3>1
  <2>7. Apart(Tail(p), Tail(q))
    BY <2>4, <2>5, <2>6 DEF Apart
  <2>8. Head(p) = Head(q)
    <3>1. 1 \in 1..n - 1
      BY <1>2, <1>4
    <3> QED BY <1>1, <3>1, PathParts
  <2> QED BY <2>2, <2>7, <2>8
<1> QED BY <1>2, <1>3, <1>4

LEMMA ApartSwaps == \A p, q : Apart(p, q) => Apart(q, p)
  BY DEF Apart

LEMMA KeysTail ==
    ASSUME NEW p \in TokenPaths, Keys(p)
    PROVE  /\ ~Head(p).array
           /\ Tail(p) # <<>> => Keys(Tail(p))
<1>1. p \in Seq(Tokens) /\ p # <<>>
  BY DEF TokenPaths
<1>2. ~Head(p).array
  BY <1>1 DEF Keys
<1>3. ASSUME Tail(p) # <<>>, NEW i \in DOMAIN Tail(p) PROVE ~Tail(p)[i].array
  <2>1. Tail(p)[i] = p[i + 1] /\ i + 1 \in DOMAIN p
    BY <1>1, <1>3
  <2> QED BY <2>1 DEF Keys
<1> QED BY <1>2, <1>3 DEF Keys

LEMMA GetUnder ==
    ASSUME NEW v \in Json, NEW p \in Seq(Tokens), p # <<>>, v.t # "arr", NEW next,
           next = Field(v, Head(p).name)
    PROVE  /\ ~Found(next) => getByTokens[v][p] = Missing
           /\ Found(next) /\ ~Head(p).array => getByTokens[v][p] = getByTokens[next][Tail(p)]
  BY GetAt, Zenon

LEMMA GetEach ==
    ASSUME NEW v \in Json, NEW p \in Seq(Tokens), p # <<>>, v.t # "arr", NEW next,
           next = Field(v, Head(p).name), Head(p).array
    PROVE  /\ ~Found(next) \/ next.t # "arr" => getByTokens[v][p] = Missing
           /\ Found(next) /\ next.t = "arr" =>
                getByTokens[v][p]
                  = Collected([i \in DOMAIN next.q |-> getByTokens[next.q[i]][Tail(p)]])
<1>1. CASE ~Found(next)
  <2>1. getByTokens[v][p] = Missing
    BY <1>1, GetUnder
  <2> QED BY <1>1, <2>1
<1>2. CASE Found(next) /\ next.t # "arr"
  <2>1. getByTokens[v][p] = Missing
    BY <1>2, GetAt, Zenon
  <2> QED BY <1>2, <2>1
<1>3. CASE Found(next) /\ next.t = "arr"
  <2>1. getByTokens[v][p]
          = Collected([i \in DOMAIN next.q |-> getByTokens[next.q[i]][Tail(p)]])
    <3> DEFINE under == Field(v, Head(p).name)
    <3>1. Found(under) /\ under.t = "arr" =>
            getByTokens[v][p]
              = Collected([i \in DOMAIN under.q |-> getByTokens[under.q[i]][Tail(p)]])
      BY GetAt, Zenon
    <3>2. next = under
      OBVIOUS
    <3> HIDE DEF under
    <3> QED BY <1>3, <3>1, <3>2
  <2> QED BY <1>3, <2>1
<1> QED BY <1>1, <1>2, <1>3

\* Below a name, a path leads from the object with that name to what is there.
LEMMA GetKey ==
    ASSUME NEW d \in 0..MaxDepth - 1, NEW f \in FieldsTo(d), NEW p \in TokenPaths, ~Head(p).array
    PROVE  /\ getByTokens[Obj(f)][p]
                = IF Found(f[Head(p).name]) THEN getByTokens[f[Head(p).name]][Tail(p)]
                                            ELSE Missing
           /\ Tail(p) # <<>> /\ f[Head(p).name].t # "arr" =>
                getByTokens[Obj(f)][p]
                  = getByTokens[Obj(Fields(f[Head(p).name]))][Tail(p)]
<1> DEFINE old == f[Head(p).name]
<1>1. d + 1 \in 0..MaxDepth /\ d \in 0..MaxDepth /\ (d + 1) - 1 = d /\ d + 1 > 0
  BY DepthAssumption
<1>2. Obj(f) \in Json /\ Fields(Obj(f)) = f /\ Obj(f).t = "obj"
  BY <1>1, FieldsIn, InJson
<1>3. Field(Obj(f), Head(p).name) = old
  BY <1>2 DEF Field
<1>4. p \in Seq(Tokens) /\ p # <<>> /\ Head(p).name \in FieldNames /\ Tail(p) \in Seq(Tokens)
  BY PathParts
<1>5. Obj(f).t # "arr"
  BY <1>2
<1>6. getByTokens[Obj(f)][p] = IF Found(old) THEN getByTokens[old][Tail(p)] ELSE Missing
  <2> HIDE DEF old
  <2> QED BY <1>2, <1>3, <1>4, <1>5, GetUnder
<1>7. old \in {Missing} \cup JsonTo[d]
  BY <1>4 DEF FieldsTo
<1> HIDE DEF old
<1>8. ASSUME Tail(p) # <<>>, old.t # "arr"
      PROVE  getByTokens[Obj(f)][p] = getByTokens[Obj(Fields(old))][Tail(p)]
  <2>1. Tail(p) \in TokenPaths /\ Head(Tail(p)).name \in FieldNames
    BY <1>8, PathParts
  <2>2. CASE old.t = "obj"
    <3>1. old \in Json
      BY <1>7, <2>2, <1>1, InJson DEF Missing
    <3>2. old = [t |-> "obj", f |-> old.f] /\ old.f \in [FieldNames -> {Missing} \cup Json]
      BY <2>2, <3>1, Parts DEF FieldSets
    <3>3. Obj(old.f) = [t |-> "obj", f |-> old.f]
      BY <3>2, ObjIs
    <3>4. Found(old) /\ Obj(Fields(old)) = old
      BY <2>2, <3>2, <3>3 DEF Found, Fields
    <3> QED BY <1>6, <3>4
  <2>3. CASE old.t # "obj"
    <3>1. getByTokens[Obj(f)][p] = Missing
      <4>1. CASE ~Found(old)
        BY <1>6, <4>1
      <4>2. CASE Found(old)
        <5>1. old \in Json /\ Tail(p) \in Seq(Tokens)
          BY <1>4, <1>7, <1>1, <4>2, InJson, MissingNotJson
        <5>2. ~Found(Field(old, Head(Tail(p)).name))
          BY <2>1, <2>3, MissingNotJson DEF Field, Fields, NoFields
        <5>3. getByTokens[old][Tail(p)] = Missing
          BY <1>8, <5>1, <5>2, GetAt, Zenon
        <5> QED BY <1>6, <4>2, <5>3
      <4> QED BY <4>1, <4>2
    <3>2. Fields(old) = NoFields
      BY <2>3 DEF Fields
    <3>3. getByTokens[Obj(NoFields)][Tail(p)] = Missing
      <4>1. NoFields \in FieldsTo(d)
        BY <1>1, FieldsIn
      <4>2. Obj(NoFields) \in Json /\ Fields(Obj(NoFields)) = NoFields /\ Obj(NoFields).t = "obj"
        BY <1>1, <4>1, FieldsIn, InJson
      <4>3. ~Found(Field(Obj(NoFields), Head(Tail(p)).name))
        BY <2>1, <4>2, MissingNotJson DEF Field, NoFields
      <4>4. Obj(NoFields).t # "arr"
        BY <4>2
      <4> QED BY <1>4, <1>8, <4>2, <4>3, <4>4, GetAt, Zenon
    <3> QED BY <3>1, <3>2, <3>3
  <2> QED BY <2>2, <2>3
<1> QED BY <1>6, <1>8 DEF old

\* There is room in fields of a depth for a value of another at the end of a path.
Room(d, e, p) == d \in 0..MaxDepth - 1 /\ e \in 0..MaxDepth /\ e + 2 * Len(p) <= d + 1

LEMMA RoomBelow ==
    ASSUME NEW d, NEW e, NEW p \in TokenPaths, Room(d, e, p)
    PROVE  /\ d \in 0..MaxDepth /\ e \in 0..MaxDepth /\ d + 1 \in 0..MaxDepth
           /\ Tail(p) # <<>> => Room(d - 1, e, Tail(p)) /\ d - 1 > 0
                                /\ Room(d - 2, e, Tail(p)) /\ d - 2 >= 0
<1>1. d \in 0..MaxDepth /\ e \in 0..MaxDepth /\ d + 1 \in 0..MaxDepth
  BY DepthAssumption DEF Room
<1>2. ASSUME Tail(p) # <<>>
      PROVE  Room(d - 1, e, Tail(p)) /\ d - 1 > 0 /\ Room(d - 2, e, Tail(p)) /\ d - 2 >= 0
  <2>1. Len(Tail(p)) = Len(p) - 1 /\ Len(p) \in Nat
    BY <1>2, PathParts
  <2>2. Len(Tail(p)) \in Nat \ {0}
    BY <1>2, PathParts
  <2>3. e + 2 * Len(p) <= d + 1 /\ d \in 0..MaxDepth - 1
    BY DEF Room
  <2>4. d >= 3 /\ d - 1 \in 0..MaxDepth - 1 /\ d - 2 \in 0..MaxDepth - 1
    <3>1. Len(p) >= 2
      <4>1. ASSUME NEW m \in Nat, NEW n \in Nat \ {0}, n = m - 1 PROVE m >= 2
        BY <4>1
      <4> QED BY <2>1, <2>2, <4>1, Zenon
    <3>2. e \in Nat /\ d \in Nat
      BY <1>1, DepthAssumption
    <3>3. d >= 3
      BY <2>1, <2>3, <3>1, <3>2
    <3> QED BY <2>3, <3>2, <3>3, DepthAssumption
  <2>5. e + 2 * Len(Tail(p)) <= (d - 2) + 1 /\ e + 2 * Len(Tail(p)) <= (d - 1) + 1
    BY <1>1, <2>1, <2>2, <2>3, DepthAssumption
  <2> QED BY <1>1, <2>4, <2>5 DEF Room
<1> QED BY <1>1, <1>2

\* Writing at a path of names.
LEMMA SetKey ==
    ASSUME NEW d, NEW e, NEW p \in TokenPaths, Room(d, e, p), ~Head(p).array,
           NEW f \in FieldsTo(d), NEW v \in JsonTo[e]
    PROVE  /\ Head(p).name \in FieldNames
           /\ setByTokens[p][f][v] \in FieldsTo(d)
           /\ \A k \in FieldNames \ {Head(p).name} : setByTokens[p][f][v][k] = f[k]
           /\ Tail(p) = <<>> => setByTokens[p][f][v][Head(p).name] = v
           /\ Tail(p) # <<>> =>
                LET child == setByTokens[Tail(p)][Fields(f[Head(p).name])][v]
                IN  /\ Fields(f[Head(p).name]) \in FieldsTo(d - 1)
                    /\ child \in FieldsTo(d - 1)
                    /\ setByTokens[p][f][v][Head(p).name] = Obj(child)
                    /\ Obj(child) \in Json /\ Obj(child).t = "obj" /\ Found(Obj(child))
                    /\ Fields(Obj(child)) = child
<1> DEFINE name == Head(p).name
<1>1. name \in FieldNames
  BY PathParts
<1>2. d \in 0..MaxDepth /\ e \in 0..MaxDepth /\ e + 2 * Len(p) <= d + 1
  BY RoomBelow DEF Room
<1>3. setByTokens[p][f][v] \in FieldsTo(d)
  BY <1>2, SetType
<1>4. f \in FieldSets /\ v \in Json
  BY <1>2, FieldsIn, InJson
<1>5. setByTokens[p][f][v] = [f EXCEPT ![name] = PutAt(p, f[name], v)]
  BY <1>4, SetAt
<1>6. f \in [FieldNames -> {Missing} \cup JsonTo[d]]
  BY DEF FieldsTo
<1>7. setByTokens[p][f][v][name] = PutAt(p, f[name], v)
  BY <1>1, <1>5, <1>6
<1>8. \A k \in FieldNames \ {name} : setByTokens[p][f][v][k] = f[k]
  BY <1>5, <1>6
<1>9. Tail(p) = <<>> => setByTokens[p][f][v][name] = v
  BY <1>7 DEF PutAt
<1>10. ASSUME Tail(p) # <<>>
       PROVE  LET child == setByTokens[Tail(p)][Fields(f[name])][v]
              IN  /\ Fields(f[name]) \in FieldsTo(d - 1)
                  /\ child \in FieldsTo(d - 1)
                  /\ setByTokens[p][f][v][name] = Obj(child)
                  /\ Obj(child) \in Json /\ Obj(child).t = "obj" /\ Found(Obj(child))
                  /\ Fields(Obj(child)) = child
  <2> DEFINE child == setByTokens[Tail(p)][Fields(f[name])][v]
  <2>1. Room(d - 1, e, Tail(p)) /\ d > 0 /\ d - 1 \in 0..MaxDepth /\ Tail(p) \in TokenPaths
    BY <1>2, <1>10, RoomBelow, PathParts, DepthAssumption DEF Room
  <2>2. f[name] \in {Missing} \cup JsonTo[d]
    BY <1>1, <1>6
  <2>3. Fields(f[name]) \in FieldsTo(d - 1)
    BY <1>2, <2>1, <2>2, FieldsIn
  <2>4. child \in FieldsTo(d - 1)
    BY <1>2, <2>1, <2>3, SetType DEF Room
  <2>5. setByTokens[p][f][v][name] = Obj(child)
    BY <1>7, <1>10 DEF PutAt
  <2> HIDE DEF child
  <2>6. Obj(child) \in JsonTo[d] /\ Obj(child).t = "obj" /\ Fields(Obj(child)) = child
    BY <1>2, <2>1, <2>4, FieldsIn
  <2>7. Obj(child) \in Json /\ Found(Obj(child))
    BY <1>2, <2>6, InJson, Parts
  <2> QED BY <2>3, <2>4, <2>5, <2>6, <2>7 DEF child
<1> QED BY <1>1, <1>3, <1>8, <1>9, <1>10

\* What was written is found there, and the way to it is clear.
LEMMA KeysOwn ==
    \A p \in TokenPaths : Keys(p) =>
        \A d, e : Room(d, e, p) =>
            \A f \in FieldsTo(d), v \in JsonTo[e] :
                /\ getByTokens[Obj(setByTokens[p][f][v])][p] = v
                /\ clear[p][setByTokens[p][f][v]]
<1> DEFINE T == {p \in TokenPaths : Keys(p) =>
                   \A d, e : Room(d, e, p) =>
                       \A f \in FieldsTo(d), v \in JsonTo[e] :
                           /\ getByTokens[Obj(setByTokens[p][f][v])][p] = v
                           /\ clear[p][setByTokens[p][f][v]]}
<1>1. ASSUME NEW p \in TokenPaths, Tail(p) = <<>> \/ (Tail(p) \in TokenPaths /\ Tail(p) \in T)
      PROVE  p \in T
  <2> SUFFICES ASSUME Keys(p), NEW d, NEW e, Room(d, e, p),
                      NEW f \in FieldsTo(d), NEW v \in JsonTo[e]
               PROVE  /\ getByTokens[Obj(setByTokens[p][f][v])][p] = v
                      /\ clear[p][setByTokens[p][f][v]]
    OBVIOUS
  <2> DEFINE name == Head(p).name
             f2 == setByTokens[p][f][v]
  <2>1. ~Head(p).array
    BY KeysTail
  <2>2. f2 \in FieldsTo(d) /\ d \in 0..MaxDepth - 1 /\ d \in 0..MaxDepth /\ v \in Json
    BY <2>1, SetKey, RoomBelow, InJson DEF Room
  <2>3. f2 \in FieldSets
    BY <2>2, FieldsIn
  <2>4. CASE Tail(p) = <<>>
    <3>1. f2[name] = v /\ Found(v)
      BY <2>1, <2>2, <2>4, SetKey, Parts
    <3>2. getByTokens[v][<<>>] = v
      <4>1. <<>> \in Seq(Tokens)
        OBVIOUS
      <4> QED BY <2>2, <4>1, GetAt
    <3>3. getByTokens[Obj(f2)][p] = IF Found(f2[name]) THEN getByTokens[f2[name]][Tail(p)]
                                                      ELSE Missing
      <4> HIDE DEF f2
      <4> QED BY <2>1, <2>2, GetKey
    <3>4. clear[p][f2]
      BY <2>3, <2>4, ClearAt
    <3> QED BY <2>4, <3>1, <3>2, <3>3, <3>4
  <2>5. CASE Tail(p) # <<>>
    <3> DEFINE old == Fields(f[name])
               child == setByTokens[Tail(p)][old][v]
    <3>1. /\ old \in FieldsTo(d - 1) /\ f2[name] = Obj(child)
          /\ Obj(child) \in Json /\ Obj(child).t = "obj" /\ Found(Obj(child))
          /\ Fields(Obj(child)) = child
      BY <2>1, <2>5, SetKey
    <3>2. Room(d - 1, e, Tail(p)) /\ Keys(Tail(p)) /\ Tail(p) \in TokenPaths
      BY <2>5, RoomBelow, KeysTail, PathParts
    <3>3. getByTokens[Obj(child)][Tail(p)] = v /\ clear[Tail(p)][child]
      BY <1>1, <2>5, <3>1, <3>2
    <3>4. getByTokens[Obj(f2)][p] = IF Found(f2[name]) THEN getByTokens[f2[name]][Tail(p)]
                                                      ELSE Missing
      <4> HIDE DEF f2
      <4> QED BY <2>1, <2>2, GetKey
    <3>5. clear[p][f2]
      <4>1. f2[name].t # "arr" /\ Fields(f2[name]) = child
        BY <3>1
      <4> HIDE DEF f2, child
      <4> QED BY <2>3, <3>3, <4>1, ClearAt
    <3>6. getByTokens[Obj(f2)][p] = v
      <4> HIDE DEF f2, child
      <4> QED BY <3>1, <3>3, <3>4
    <3> QED BY <3>5, <3>6
  <2> QED BY <2>4, <2>5
<1>2. TokenPaths \subseteq T
  <2> HIDE DEF T
  <2> QED BY <1>1, PathInduction
<1> QED BY <1>2

\* What is at a path that parts from it stays, and the way to that is kept clear.
LEMMA KeysApart ==
    \A p \in TokenPaths : Keys(p) =>
        \A d, e : Room(d, e, p) =>
            \A f \in FieldsTo(d), v \in JsonTo[e] :
                \A q \in TokenPaths : Keys(q) /\ Apart(p, q) /\ clear[q][f] =>
                    /\ getByTokens[Obj(setByTokens[p][f][v])][q] = getByTokens[Obj(f)][q]
                    /\ clear[q][setByTokens[p][f][v]]
<1> DEFINE T == {p \in TokenPaths : Keys(p) =>
                   \A d, e : Room(d, e, p) =>
                       \A f \in FieldsTo(d), v \in JsonTo[e] :
                           \A q \in TokenPaths : Keys(q) /\ Apart(p, q) /\ clear[q][f] =>
                               /\ getByTokens[Obj(setByTokens[p][f][v])][q]
                                    = getByTokens[Obj(f)][q]
                               /\ clear[q][setByTokens[p][f][v]]}
<1>1. ASSUME NEW p \in TokenPaths, Tail(p) = <<>> \/ (Tail(p) \in TokenPaths /\ Tail(p) \in T)
      PROVE  p \in T
  <2> SUFFICES ASSUME Keys(p), NEW d, NEW e, Room(d, e, p),
                      NEW f \in FieldsTo(d), NEW v \in JsonTo[e],
                      NEW q \in TokenPaths, Keys(q), Apart(p, q), clear[q][f]
               PROVE  /\ getByTokens[Obj(setByTokens[p][f][v])][q] = getByTokens[Obj(f)][q]
                      /\ clear[q][setByTokens[p][f][v]]
    OBVIOUS
  <2> DEFINE name == Head(q).name
             f2 == setByTokens[p][f][v]
  <2>1. ~Head(p).array /\ ~Head(q).array /\ name \in FieldNames
    BY KeysTail, PathParts
  <2>2. f2 \in FieldsTo(d) /\ d \in 0..MaxDepth - 1 /\ d \in 0..MaxDepth
    BY <2>1, SetKey, RoomBelow DEF Room
  <2>3. f2 \in FieldSets /\ f \in FieldSets
    BY <2>2, FieldsIn
  <2>4. \A g \in FieldsTo(d) :
          getByTokens[Obj(g)][q] = IF Found(g[name]) THEN getByTokens[g[name]][Tail(q)]
                                                     ELSE Missing
    BY <2>1, <2>2, GetKey
  <2>5. CASE Head(p).name # name
    <3>1. f2[name] = f[name]
      BY <2>1, <2>5, SetKey
    <3>2. getByTokens[Obj(f2)][q] = getByTokens[Obj(f)][q]
      <4> HIDE DEF f2, name
      <4> QED BY <2>2, <2>4, <3>1
    <3>3. clear[q][f2]
      <4> HIDE DEF f2
      <4> QED BY <2>3, <3>1, ClearAt
    <3> QED BY <3>2, <3>3
  <2>6. CASE /\ Head(p) = Head(q) /\ Tail(p) \in TokenPaths /\ Tail(q) \in TokenPaths
             /\ Apart(Tail(p), Tail(q))
    <3> DEFINE old == Fields(f[name])
               child == setByTokens[Tail(p)][old][v]
    <3>1. Tail(p) # <<>> /\ Tail(q) # <<>>
      BY <2>6 DEF TokenPaths
    <3>2. /\ old \in FieldsTo(d - 1) /\ f2[name] = Obj(child)
          /\ Obj(child) \in Json /\ Obj(child).t = "obj" /\ Found(Obj(child))
          /\ Fields(Obj(child)) = child
      BY <2>1, <2>6, <3>1, SetKey
    <3>3. Room(d - 1, e, Tail(p)) /\ Keys(Tail(p)) /\ Keys(Tail(q))
      BY <3>1, RoomBelow, KeysTail
    <3>4. f[name].t # "arr" /\ clear[Tail(q)][old]
      BY <2>3, <3>1, ClearAt
    <3>5. getByTokens[Obj(child)][Tail(q)] = getByTokens[Obj(old)][Tail(q)]
          /\ clear[Tail(q)][child]
      <4>1. \A g \in FieldsTo(d - 1) :
              \A r \in TokenPaths : Keys(r) /\ Apart(Tail(p), r) /\ clear[r][g] =>
                  /\ getByTokens[Obj(setByTokens[Tail(p)][g][v])][r] = getByTokens[Obj(g)][r]
                  /\ clear[r][setByTokens[Tail(p)][g][v]]
        BY <1>1, <3>1, <3>3
      <4> HIDE DEF T
      <4> QED BY <2>6, <3>2, <3>3, <3>4, <4>1
    <3>6. getByTokens[Obj(f)][q] = getByTokens[Obj(old)][Tail(q)]
      BY <2>1, <2>2, <3>1, <3>4, GetKey
    <3>7. getByTokens[Obj(f2)][q] = getByTokens[Obj(child)][Tail(q)]
      <4> HIDE DEF f2, child, name
      <4> QED BY <2>2, <2>4, <3>2
    <3>8. clear[q][f2]
      <4>1. f2[name].t # "arr" /\ Fields(f2[name]) = child
        BY <3>2
      <4> HIDE DEF f2, child
      <4> QED BY <2>3, <3>5, <4>1, ClearAt
    <3> QED BY <3>5, <3>6, <3>7, <3>8
  <2> QED BY <2>5, <2>6, ApartTail
<1>2. TokenPaths \subseteq T
  <2> HIDE DEF T
  <2> QED BY <1>1, PathInduction
<1> QED BY <1>2

\* In an object without fields nothing is found, and no array is on the way.
LEMMA NothingThere ==
    ASSUME MaxDepth > 0
    PROVE  /\ Obj(NoFields) \in Json /\ Obj(NoFields).t = "obj"
           /\ Fields(Obj(NoFields)) = NoFields
           /\ \A p \in TokenPaths : getByTokens[Obj(NoFields)][p] = Missing
           /\ \A p \in TokenPaths : clear[p][NoFields]
<1>1. NoFields \in FieldsTo(0) /\ NoFields \in FieldSets /\ 1 \in 0..MaxDepth
  BY FieldsIn, DepthAssumption
<1>2. /\ Obj(NoFields) \in Json /\ Obj(NoFields).t = "obj"
      /\ Fields(Obj(NoFields)) = NoFields
  <2>1. /\ Obj(NoFields) \in JsonTo[1] /\ Obj(NoFields).t = "obj"
        /\ Fields(Obj(NoFields)) = NoFields
    <3>1. 1 - 1 = 0 /\ 1 > 0
      OBVIOUS
    <3> QED BY <1>1, <3>1, FieldsIn
  <2> QED BY <1>1, <2>1, InJson
<1>3. ASSUME NEW p \in TokenPaths PROVE getByTokens[Obj(NoFields)][p] = Missing
  <2>1. Head(p).name \in FieldNames /\ p \in Seq(Tokens) /\ p # <<>>
    BY PathParts
  <2>2. ~Found(Field(Obj(NoFields), Head(p).name)) /\ Obj(NoFields).t # "arr"
    BY <1>2, <2>1, MissingNotJson DEF Field, NoFields
  <2> QED BY <1>2, <2>1, <2>2, GetUnder
<1> DEFINE T == {p \in TokenPaths : clear[p][NoFields]}
<1>4. ASSUME NEW p \in TokenPaths, Tail(p) = <<>> \/ (Tail(p) \in TokenPaths /\ Tail(p) \in T)
      PROVE  p \in T
  <2>1. NoFields[Head(p).name] = Missing
    BY PathParts DEF NoFields
  <2>2. Missing.t # "arr" /\ Fields(Missing) = NoFields
    BY DEF Missing, Fields
  <2> QED BY <1>1, <1>4, <2>1, <2>2, ClearAt
<1>5. TokenPaths \subseteq T
  <2> HIDE DEF T
  <2> QED BY <1>4, PathInduction
<1> QED BY <1>2, <1>3, <1>5

----------------------------------------------------------------------------
(* What sanitizing hides, and that it hides nothing else *)

ScalarsDef(g, v) ==
    CASE v.t = "arr" -> UNION {g[v.q[i]] : i \in DOMAIN v.q}
      [] v.t = "obj" -> {}
      [] OTHER -> {v}

OverScalars == INSTANCE Recursion WITH D <- Json, rank <- depth, Def <- ScalarsDef

LEMMA ScalarsOf == \A v \in Json : Scalars[v] = ScalarsDef(Scalars, v)
<1>1. OverScalars!LooksBelow
  <2> SUFFICES ASSUME NEW v \in Json, NEW g, NEW h,
                      \A w \in Json : depth[w] < depth[v] => g[w] = h[w]
               PROVE  ScalarsDef(g, v) = ScalarsDef(h, v)
    BY DEF OverScalars!LooksBelow
  <2>1. v.t = "arr" => \A i \in DOMAIN v.q : g[v.q[i]] = h[v.q[i]]
    BY PartsBelow
  <2> QED BY <2>1 DEF ScalarsDef
<1>2. \E g : g = [v \in Json |-> ScalarsDef(g, v)]
  BY <1>1, Depths, OverScalars!Recursive
<1>3. Scalars = [v \in Json |-> ScalarsDef(Scalars, v)]
  BY <1>2 DEF Scalars, ScalarsDef
<1> QED BY <1>3

LargeDef(g, v) ==
    CASE v.t = "arr" -> UNION {g[v.q[i]] : i \in DOMAIN v.q}
      [] v.t = "obj" -> UNION {IF shouldRedactFieldName(k) THEN Scalars[v.f[k]] ELSE g[v.f[k]]
                               : k \in {n \in FieldNames : Found(v.f[n])}}
      [] OTHER -> {}

OverLarge == INSTANCE Recursion WITH D <- Json, rank <- depth, Def <- LargeDef

LEMMA LargeOf == \A v \in Json : LargeScalars[v] = LargeDef(LargeScalars, v)
<1>1. OverLarge!LooksBelow
  <2> SUFFICES ASSUME NEW v \in Json, NEW g, NEW h,
                      \A w \in Json : depth[w] < depth[v] => g[w] = h[w]
               PROVE  LargeDef(g, v) = LargeDef(h, v)
    BY DEF OverLarge!LooksBelow
  <2>1. v.t = "arr" => \A i \in DOMAIN v.q : g[v.q[i]] = h[v.q[i]]
    BY PartsBelow
  <2>2. v.t = "obj" => \A k \in FieldNames : Found(v.f[k]) => g[v.f[k]] = h[v.f[k]]
    BY PartsBelow
  <2> QED BY <2>1, <2>2 DEF LargeDef
<1>2. \E g : g = [v \in Json |-> LargeDef(g, v)]
  BY <1>1, Depths, OverLarge!Recursive
<1>3. LargeScalars = [v \in Json |-> LargeDef(LargeScalars, v)]
  BY <1>2 DEF LargeScalars, LargeDef
<1> QED BY <1>3

ObjectsDef(g, v) ==
    CASE v.t = "arr" -> UNION {g[v.q[i]] : i \in DOMAIN v.q}
      [] v.t = "obj" -> {v}
      [] OTHER -> {}

OverObjects == INSTANCE Recursion WITH D <- Json, rank <- depth, Def <- ObjectsDef

LEMMA ObjectsOf == \A v \in Json : Objects[v] = ObjectsDef(Objects, v)
<1>1. OverObjects!LooksBelow
  <2> SUFFICES ASSUME NEW v \in Json, NEW g, NEW h,
                      \A w \in Json : depth[w] < depth[v] => g[w] = h[w]
               PROVE  ObjectsDef(g, v) = ObjectsDef(h, v)
    BY DEF OverObjects!LooksBelow
  <2>1. v.t = "arr" => \A i \in DOMAIN v.q : g[v.q[i]] = h[v.q[i]]
    BY PartsBelow
  <2> QED BY <2>1 DEF ObjectsDef
<1>2. \E g : g = [v \in Json |-> ObjectsDef(g, v)]
  BY <1>1, Depths, OverObjects!Recursive
<1>3. Objects = [v \in Json |-> ObjectsDef(Objects, v)]
  BY <1>2 DEF Objects, ObjectsDef
<1> QED BY <1>3

LargeObjectsDef(g, v) ==
    CASE v.t = "arr" -> UNION {g[v.q[i]] : i \in DOMAIN v.q}
      [] v.t = "obj" -> UNION {IF shouldRedactFieldName(k) THEN Objects[v.f[k]] ELSE g[v.f[k]]
                               : k \in {n \in FieldNames : Found(v.f[n])}}
      [] OTHER -> {}

OverLargeObjects == INSTANCE Recursion WITH D <- Json, rank <- depth, Def <- LargeObjectsDef

LEMMA LargeObjectsOf == \A v \in Json : LargeObjects[v] = LargeObjectsDef(LargeObjects, v)
<1>1. OverLargeObjects!LooksBelow
  <2> SUFFICES ASSUME NEW v \in Json, NEW g, NEW h,
                      \A w \in Json : depth[w] < depth[v] => g[w] = h[w]
               PROVE  LargeObjectsDef(g, v) = LargeObjectsDef(h, v)
    BY DEF OverLargeObjects!LooksBelow
  <2>1. v.t = "arr" => \A i \in DOMAIN v.q : g[v.q[i]] = h[v.q[i]]
    BY PartsBelow
  <2>2. v.t = "obj" => \A k \in FieldNames : Found(v.f[k]) => g[v.f[k]] = h[v.f[k]]
    BY PartsBelow
  <2> QED BY <2>1, <2>2 DEF LargeObjectsDef
<1>2. \E g : g = [v \in Json |-> LargeObjectsDef(g, v)]
  BY <1>1, Depths, OverLargeObjects!Recursive
<1>3. LargeObjects = [v \in Json |-> LargeObjectsDef(LargeObjects, v)]
  BY <1>2 DEF LargeObjects, LargeObjectsDef
<1> QED BY <1>3

RestDef(g, v) ==
    CASE v.t = "arr" -> Arr([i \in DOMAIN v.q |-> g[v.q[i]]])
      [] v.t = "obj" -> Obj([k \in FieldNames |->
                               IF Found(v.f[k]) /\ ~shouldRedactFieldName(k)
                               THEN g[v.f[k]] ELSE Missing])
      [] OTHER -> v

OverRest == INSTANCE Recursion WITH D <- Json, rank <- depth, Def <- RestDef

LEMMA RestOf == \A v \in Json : Rest[v] = RestDef(Rest, v)
<1>1. OverRest!LooksBelow
  <2> SUFFICES ASSUME NEW v \in Json, NEW g, NEW h,
                      \A w \in Json : depth[w] < depth[v] => g[w] = h[w]
               PROVE  RestDef(g, v) = RestDef(h, v)
    BY DEF OverRest!LooksBelow
  <2>1. v.t = "arr" => \A i \in DOMAIN v.q : g[v.q[i]] = h[v.q[i]]
    BY PartsBelow
  <2>2. v.t = "obj" => \A k \in FieldNames : Found(v.f[k]) => g[v.f[k]] = h[v.f[k]]
    BY PartsBelow
  <2> QED BY <2>1, <2>2 DEF RestDef
<1>2. \E g : g = [v \in Json |-> RestDef(g, v)]
  BY <1>1, Depths, OverRest!Recursive
<1>3. Rest = [v \in Json |-> RestDef(Rest, v)]
  BY <1>2 DEF Rest, RestDef
<1> QED BY <1>3

\* The sanitizing functions give JSON again.
LEMMA StillJson ==
    ASSUME NEW v \in Json
    PROVE  /\ redactValue[v] \in Json
           /\ sanitizeCommonLargeFields[v] \in Json
           /\ \A p \in Seq(Tokens) : redactPath[v][p] \in Json
<1>1. MaxDepth \in 0..MaxDepth
  BY DepthAssumption
<1> QED BY <1>1, RedactValueType, SanitizeType, RedactPathType DEF Json

LEMMA RedactedJson == Redacted \in Scalar /\ Redacted \in Json
<1>1. Redacted \in [t : {"str"}, s : Texts]
  BY RedactedAssumption DEF Redacted, Str
<1>2. Redacted \in Scalar
  BY <1>1 DEF Scalar
<1> QED BY <1>2, InJson

\* A redacted value has no scalars but the mark.
LEMMA RedactValueHides ==
    \A v \in Json : Scalars[redactValue[v]] \subseteq {Redacted}
<1> DEFINE T == {v \in Json : Scalars[redactValue[v]] \subseteq {Redacted}}
<1>1. Scalar \subseteq T
  <2> SUFFICES ASSUME NEW v \in Scalar PROVE v \in T
    OBVIOUS
  <2>1. v \in Json /\ redactValue[v] = Redacted
    BY ScalarKinds, RedactValue DEF RedactValueDef
  <2>2. Scalars[Redacted] = {Redacted}
    BY RedactedJson, ScalarKinds, ScalarsOf DEF ScalarsDef
  <2> QED BY <2>1, <2>2
<1>2. ASSUME NEW v \in Json, v.t = "arr", \A i \in DOMAIN v.q : v.q[i] \in T
      PROVE  v \in T
  <2> DEFINE w == redactValue[v]
  <2>1. w = Arr([i \in DOMAIN v.q |-> redactValue[v.q[i]]])
    BY <1>2, RedactValue DEF RedactValueDef
  <2>2. w.t = "arr" /\ DOMAIN w.q = DOMAIN v.q
        /\ \A i \in DOMAIN v.q : w.q[i] = redactValue[v.q[i]]
    BY <2>1 DEF Arr
  <2>3. w \in Json
    BY StillJson
  <2> HIDE DEF w
  <2>4. Scalars[w] = UNION {Scalars[w.q[i]] : i \in DOMAIN w.q}
    BY <2>2, <2>3, ScalarsOf DEF ScalarsDef
  <2>5. \A i \in DOMAIN w.q : Scalars[w.q[i]] \subseteq {Redacted}
    BY <1>2, <2>2
  <2>6. Scalars[w] \subseteq {Redacted}
    BY <2>4, <2>5
  <2> QED BY <2>6 DEF w
<1>3. ASSUME NEW v \in Json, v.t = "obj" PROVE v \in T
  BY <1>3, RedactValue, ScalarsOf DEF RedactValueDef, ScalarsDef
<1>4. Json \subseteq T
  <2> HIDE DEF T
  <2> QED BY <1>1, <1>2, <1>3, JsonInduction
<1> QED BY <1>4

\* What sanitizing makes of an object.
LEMMA SanitizeObj ==
    ASSUME NEW v \in Json, v.t = "obj", NEW w, w = sanitizeCommonLargeFields[v]
    PROVE  /\ w \in Json /\ w.t = "obj" /\ v.f \in FieldSets /\ w.f \in FieldSets
           /\ \A k \in FieldNames :
                /\ Found(w.f[k]) <=> Found(v.f[k])
                /\ Found(v.f[k]) => /\ v.f[k] \in Json
                                    /\ w.f[k] = IF shouldRedactFieldName(k)
                                                THEN redactValue[v.f[k]]
                                                ELSE sanitizeCommonLargeFields[v.f[k]]
<1> DEFINE F == sanitizeCommonLargeFields
           f == [k \in FieldNames |->
                   IF ~Found(v.f[k]) THEN Missing
                   ELSE IF shouldRedactFieldName(k) THEN redactValue[v.f[k]]
                   ELSE F[v.f[k]]]
<1>1. v.f \in FieldSets
  BY Parts
<1>2. \A k \in FieldNames : Found(v.f[k]) =>
        v.f[k] \in Json /\ redactValue[v.f[k]] \in Json /\ F[v.f[k]] \in Json
  BY <1>1, FieldFound, StillJson
<1>3. f \in FieldSets
  BY <1>2 DEF FieldSets
<1>4. w = Obj(f)
  BY Sanitize DEF SanitizeDef
<1>5. \A u \in Json : Found(u)
  BY Parts
<1>6. w \in Json
  BY StillJson
<1> HIDE DEF f
<1>7. w.t = "obj" /\ w.f = f
  <2>1. f \in [FieldNames -> {Missing} \cup Json]
    BY <1>3 DEF FieldSets
  <2>2. Obj(f) = [t |-> "obj", f |-> f]
    BY <2>1, ObjIs, Zenon
  <2> QED BY <1>4, <2>2
<1> QED BY <1>1, <1>2, <1>3, <1>5, <1>6, <1>7, MissingNotJson DEF f

\* What has been sanitized shows no scalar below a name for image data.
LEMMA SanitizeHides ==
    \A v \in Json : LargeScalars[sanitizeCommonLargeFields[v]] \subseteq {Redacted}
<1> DEFINE F == sanitizeCommonLargeFields
           T == {v \in Json : LargeScalars[F[v]] \subseteq {Redacted}}
<1>1. Scalar \subseteq T
  <2> SUFFICES ASSUME NEW v \in Scalar PROVE v \in T
    OBVIOUS
  <2>1. v \in Json /\ F[v] = v
    BY ScalarKinds, Sanitize DEF SanitizeDef
  <2>2. LargeScalars[v] = {}
    BY <2>1, ScalarKinds, LargeOf DEF LargeDef
  <2> QED BY <2>1, <2>2
<1>2. ASSUME NEW v \in Json, v.t = "arr", \A i \in DOMAIN v.q : v.q[i] \in T
      PROVE  v \in T
  <2> DEFINE w == F[v]
  <2>1. w = Arr([i \in DOMAIN v.q |-> F[v.q[i]]])
    BY <1>2, Sanitize DEF SanitizeDef
  <2>2. w.t = "arr" /\ DOMAIN w.q = DOMAIN v.q
        /\ \A i \in DOMAIN v.q : w.q[i] = F[v.q[i]]
    BY <2>1 DEF Arr
  <2>3. w \in Json
    BY StillJson
  <2> HIDE DEF w
  <2>4. LargeScalars[w] = UNION {LargeScalars[w.q[i]] : i \in DOMAIN w.q}
    BY <2>2, <2>3, LargeOf DEF LargeDef
  <2>5. \A i \in DOMAIN w.q : LargeScalars[w.q[i]] \subseteq {Redacted}
    BY <1>2, <2>2
  <2>6. LargeScalars[w] \subseteq {Redacted}
    BY <2>4, <2>5
  <2> QED BY <2>6 DEF w
<1>3. ASSUME NEW v \in Json, v.t = "obj", \A k \in FieldNames : v.f[k] \in {Missing} \cup T
      PROVE  v \in T
  <2> DEFINE w == F[v]
             Below(k) == IF shouldRedactFieldName(k) THEN Scalars[w.f[k]]
                                                     ELSE LargeScalars[w.f[k]]
  <2>1. w \in Json /\ w.t = "obj"
        /\ \A k \in FieldNames :
             /\ Found(w.f[k]) <=> Found(v.f[k])
             /\ Found(v.f[k]) => /\ v.f[k] \in Json
                                 /\ w.f[k] = IF shouldRedactFieldName(k)
                                             THEN redactValue[v.f[k]] ELSE F[v.f[k]]
    BY <1>3, SanitizeObj
  <2>2. ASSUME NEW k \in FieldNames, Found(w.f[k]) PROVE Below(k) \subseteq {Redacted}
    <3>1. v.f[k] \in Json /\ v.f[k] \in T
      BY <1>3, <2>1, <2>2, MissingNotJson
    <3>2. CASE shouldRedactFieldName(k)
      BY <2>1, <2>2, <3>1, <3>2, RedactValueHides
    <3>3. CASE ~shouldRedactFieldName(k)
      BY <2>1, <2>2, <3>1, <3>3
    <3> QED BY <3>2, <3>3
  <2> HIDE DEF w
  <2>3. LargeScalars[w] = UNION {Below(k) : k \in {n \in FieldNames : Found(w.f[n])}}
    BY <2>1, LargeOf DEF LargeDef
  <2> HIDE DEF Below
  <2>4. LargeScalars[w] \subseteq {Redacted}
    BY <2>2, <2>3
  <2> QED BY <2>4 DEF w
<1>4. Json \subseteq T
  <2> HIDE DEF T
  <2> QED BY <1>1, <1>2, <1>3, JsonInduction
<1> QED BY <1>4

\* The rest of an array goes by its items, and that of an object by its fields.
LEMMA RestOfArr ==
    ASSUME NEW v \in Json, v.t = "arr", NEW w \in Json, w.t = "arr",
           DOMAIN w.q = DOMAIN v.q, \A i \in DOMAIN v.q : Rest[w.q[i]] = Rest[v.q[i]]
    PROVE  Rest[w] = Rest[v]
<1>1. [i \in DOMAIN w.q |-> Rest[w.q[i]]] = [i \in DOMAIN v.q |-> Rest[v.q[i]]]
  OBVIOUS
<1>2. \A u \in Json : u.t = "arr" => Rest[u] = Arr([i \in DOMAIN u.q |-> Rest[u.q[i]]])
  BY RestOf DEF RestDef
<1>3. Rest[w] = Arr([i \in DOMAIN w.q |-> Rest[w.q[i]]])
      /\ Rest[v] = Arr([i \in DOMAIN v.q |-> Rest[v.q[i]]])
  BY <1>2
<1> QED BY <1>1, <1>3, Zenon

LEMMA RestOfObj ==
    ASSUME NEW v \in Json, v.t = "obj", NEW w \in Json, w.t = "obj",
           \A k \in FieldNames :
             /\ Found(w.f[k]) <=> Found(v.f[k])
             /\ Found(v.f[k]) /\ ~shouldRedactFieldName(k) => Rest[w.f[k]] = Rest[v.f[k]]
    PROVE  Rest[w] = Rest[v]
<1>1. [k \in FieldNames |-> IF Found(w.f[k]) /\ ~shouldRedactFieldName(k)
                            THEN Rest[w.f[k]] ELSE Missing]
        = [k \in FieldNames |-> IF Found(v.f[k]) /\ ~shouldRedactFieldName(k)
                                THEN Rest[v.f[k]] ELSE Missing]
  OBVIOUS
<1>2. \A u \in Json : u.t = "obj" =>
        Rest[u] = Obj([k \in FieldNames |-> IF Found(u.f[k]) /\ ~shouldRedactFieldName(k)
                                            THEN Rest[u.f[k]] ELSE Missing])
  BY RestOf DEF RestDef
<1>3. /\ Rest[w] = Obj([k \in FieldNames |->
                          IF Found(w.f[k]) /\ ~shouldRedactFieldName(k)
                          THEN Rest[w.f[k]] ELSE Missing])
      /\ Rest[v] = Obj([k \in FieldNames |->
                          IF Found(v.f[k]) /\ ~shouldRedactFieldName(k)
                          THEN Rest[v.f[k]] ELSE Missing])
  BY <1>2
<1> QED BY <1>1, <1>3, Zenon

\* And it changes nothing else.
LEMMA SanitizeKeeps ==
    \A v \in Json : Rest[sanitizeCommonLargeFields[v]] = Rest[v]
<1> DEFINE F == sanitizeCommonLargeFields
           T == {v \in Json : Rest[F[v]] = Rest[v]}
<1>1. Scalar \subseteq T
  BY ScalarKinds, Sanitize DEF SanitizeDef
<1>2. ASSUME NEW v \in Json, v.t = "arr", \A i \in DOMAIN v.q : v.q[i] \in T
      PROVE  v \in T
  <2> DEFINE w == F[v]
  <2>1. w = Arr([i \in DOMAIN v.q |-> F[v.q[i]]])
    BY <1>2, Sanitize DEF SanitizeDef
  <2>2. w.t = "arr" /\ DOMAIN w.q = DOMAIN v.q
        /\ \A i \in DOMAIN v.q : Rest[w.q[i]] = Rest[v.q[i]]
    BY <1>2, <2>1 DEF Arr
  <2>3. w \in Json
    BY StillJson
  <2> HIDE DEF w
  <2>4. Rest[w] = Rest[v]
    BY <1>2, <2>2, <2>3, RestOfArr
  <2> QED BY <2>4 DEF w
<1>3. ASSUME NEW v \in Json, v.t = "obj", \A k \in FieldNames : v.f[k] \in {Missing} \cup T
      PROVE  v \in T
  <2> DEFINE w == F[v]
  <2>1. w \in Json /\ w.t = "obj"
        /\ \A k \in FieldNames :
             /\ Found(w.f[k]) <=> Found(v.f[k])
             /\ Found(v.f[k]) => /\ v.f[k] \in Json
                                 /\ w.f[k] = IF shouldRedactFieldName(k)
                                             THEN redactValue[v.f[k]] ELSE F[v.f[k]]
    BY <1>3, SanitizeObj
  <2>2. \A k \in FieldNames : Found(v.f[k]) /\ ~shouldRedactFieldName(k) =>
          Rest[w.f[k]] = Rest[v.f[k]]
    BY <1>3, <2>1, MissingNotJson
  <2> HIDE DEF w
  <2>3. Rest[w] = Rest[v]
    BY <1>3, <2>1, <2>2, RestOfObj
  <2> QED BY <2>3 DEF w
<1>4. Json \subseteq T
  <2> HIDE DEF T
  <2> QED BY <1>1, <1>2, <1>3, JsonInduction
<1> QED BY <1>4

\* The objects of an array are those of its items, and what an object has below
\* the names of image data goes by its fields.
LEMMA ObjectsOfArr ==
    ASSUME NEW v \in Json, v.t = "arr", NEW w \in Json, w.t = "arr",
           DOMAIN w.q = DOMAIN v.q
    PROVE  /\ (\A i \in DOMAIN v.q : Objects[w.q[i]] = Objects[v.q[i]])
                => Objects[w] = Objects[v]
           /\ (\A i \in DOMAIN v.q : LargeObjects[w.q[i]] = LargeObjects[v.q[i]])
                => LargeObjects[w] = LargeObjects[v]
<1>1. \A u \in Json : u.t = "arr" =>
        /\ Objects[u] = UNION {Objects[u.q[i]] : i \in DOMAIN u.q}
        /\ LargeObjects[u] = UNION {LargeObjects[u.q[i]] : i \in DOMAIN u.q}
  BY ObjectsOf, LargeObjectsOf DEF ObjectsDef, LargeObjectsDef
<1>2. ASSUME \A i \in DOMAIN v.q : Objects[w.q[i]] = Objects[v.q[i]]
      PROVE  Objects[w] = Objects[v]
  <2>1. {Objects[w.q[i]] : i \in DOMAIN w.q} = {Objects[v.q[i]] : i \in DOMAIN v.q}
    BY <1>2
  <2> QED BY <1>1, <2>1
<1>3. ASSUME \A i \in DOMAIN v.q : LargeObjects[w.q[i]] = LargeObjects[v.q[i]]
      PROVE  LargeObjects[w] = LargeObjects[v]
  <2>1. {LargeObjects[w.q[i]] : i \in DOMAIN w.q}
          = {LargeObjects[v.q[i]] : i \in DOMAIN v.q}
    BY <1>3
  <2> QED BY <1>1, <2>1
<1> QED BY <1>2, <1>3

LEMMA ObjectsOfObj ==
    ASSUME NEW v \in Json, v.t = "obj", NEW w \in Json, w.t = "obj",
           \A k \in FieldNames :
             /\ Found(w.f[k]) <=> Found(v.f[k])
             /\ Found(v.f[k]) => IF shouldRedactFieldName(k)
                                 THEN Objects[w.f[k]] = Objects[v.f[k]]
                                 ELSE LargeObjects[w.f[k]] = LargeObjects[v.f[k]]
    PROVE  LargeObjects[w] = LargeObjects[v]
<1> DEFINE Below(u, k) == IF shouldRedactFieldName(k) THEN Objects[u.f[k]]
                                                      ELSE LargeObjects[u.f[k]]
<1>1. \A u \in Json : u.t = "obj" =>
        LargeObjects[u] = UNION {Below(u, k) : k \in {n \in FieldNames : Found(u.f[n])}}
  BY LargeObjectsOf DEF LargeObjectsDef
<1>2. \A k \in FieldNames : Found(v.f[k]) => Below(w, k) = Below(v, k)
  OBVIOUS
<1> HIDE DEF Below
<1>3. {Below(w, k) : k \in {n \in FieldNames : Found(w.f[n])}}
        = {Below(v, k) : k \in {n \in FieldNames : Found(v.f[n])}}
  BY <1>2
<1> QED BY <1>1, <1>3

\* Blanking leaves every object as it is,
LEMMA RedactValueKeepsObjects ==
    \A v \in Json : Objects[redactValue[v]] = Objects[v]
<1> DEFINE T == {v \in Json : Objects[redactValue[v]] = Objects[v]}
<1>1. Scalar \subseteq T
  <2> SUFFICES ASSUME NEW v \in Scalar PROVE v \in T
    OBVIOUS
  <2>1. v \in Json /\ redactValue[v] = Redacted /\ Objects[v] = {}
    BY ScalarKinds, RedactValue, ObjectsOf DEF RedactValueDef, ObjectsDef
  <2>2. Objects[Redacted] = {}
    BY RedactedJson, ScalarKinds, ObjectsOf DEF ObjectsDef
  <2> QED BY <2>1, <2>2
<1>2. ASSUME NEW v \in Json, v.t = "arr", \A i \in DOMAIN v.q : v.q[i] \in T
      PROVE  v \in T
  <2> DEFINE w == redactValue[v]
  <2>1. w = Arr([i \in DOMAIN v.q |-> redactValue[v.q[i]]])
    BY <1>2, RedactValue DEF RedactValueDef
  <2>2. w.t = "arr" /\ DOMAIN w.q = DOMAIN v.q
        /\ \A i \in DOMAIN v.q : Objects[w.q[i]] = Objects[v.q[i]]
    BY <1>2, <2>1 DEF Arr
  <2>3. w \in Json
    BY StillJson
  <2> HIDE DEF w
  <2>4. Objects[w] = Objects[v]
    BY <1>2, <2>2, <2>3, ObjectsOfArr
  <2> QED BY <2>4 DEF w
<1>3. ASSUME NEW v \in Json, v.t = "obj" PROVE v \in T
  BY <1>3, RedactValue DEF RedactValueDef
<1>4. Json \subseteq T
  <2> HIDE DEF T
  <2> QED BY <1>1, <1>2, <1>3, JsonInduction
<1> QED BY <1>4

\* and so does sanitizing those below the names of image data,
LEMMA SanitizeKeepsObjects ==
    \A v \in Json : LargeObjects[sanitizeCommonLargeFields[v]] = LargeObjects[v]
<1> DEFINE F == sanitizeCommonLargeFields
           T == {v \in Json : LargeObjects[F[v]] = LargeObjects[v]}
<1>1. Scalar \subseteq T
  BY ScalarKinds, Sanitize DEF SanitizeDef
<1>2. ASSUME NEW v \in Json, v.t = "arr", \A i \in DOMAIN v.q : v.q[i] \in T
      PROVE  v \in T
  <2> DEFINE w == F[v]
  <2>1. w = Arr([i \in DOMAIN v.q |-> F[v.q[i]]])
    BY <1>2, Sanitize DEF SanitizeDef
  <2>2. w.t = "arr" /\ DOMAIN w.q = DOMAIN v.q
        /\ \A i \in DOMAIN v.q : LargeObjects[w.q[i]] = LargeObjects[v.q[i]]
    BY <1>2, <2>1 DEF Arr
  <2>3. w \in Json
    BY StillJson
  <2> HIDE DEF w
  <2>4. LargeObjects[w] = LargeObjects[v]
    BY <1>2, <2>2, <2>3, ObjectsOfArr
  <2> QED BY <2>4 DEF w
<1>3. ASSUME NEW v \in Json, v.t = "obj", \A k \in FieldNames : v.f[k] \in {Missing} \cup T
      PROVE  v \in T
  <2> DEFINE w == F[v]
  <2>1. w \in Json /\ w.t = "obj"
        /\ \A k \in FieldNames :
             /\ Found(w.f[k]) <=> Found(v.f[k])
             /\ Found(v.f[k]) => /\ v.f[k] \in Json
                                 /\ w.f[k] = IF shouldRedactFieldName(k)
                                             THEN redactValue[v.f[k]] ELSE F[v.f[k]]
    BY <1>3, SanitizeObj
  <2>2. \A k \in FieldNames : Found(v.f[k]) =>
          IF shouldRedactFieldName(k) THEN Objects[w.f[k]] = Objects[v.f[k]]
                                      ELSE LargeObjects[w.f[k]] = LargeObjects[v.f[k]]
    BY <1>3, <2>1, MissingNotJson, RedactValueKeepsObjects
  <2> HIDE DEF w
  <2>3. LargeObjects[w] = LargeObjects[v]
    BY <1>3, <2>1, <2>2, ObjectsOfObj
  <2> QED BY <2>3 DEF w
<1>4. Json \subseteq T
  <2> HIDE DEF T
  <2> QED BY <1>1, <1>2, <1>3, JsonInduction
<1> QED BY <1>4

\* One field of an object with another value.
Replaced(w, v, k, below) ==
    /\ w.t = "obj" /\ w.f[k] = below
    /\ \A n \in FieldNames \ {k} : w.f[n] = v.f[n]

LEMMA FieldReplaced ==
    ASSUME NEW v \in Json, v.t = "obj", NEW k \in FieldNames, NEW below,
           NEW w, w = [v EXCEPT !.f[k] = below]
    PROVE  Replaced(w, v, k, below)
<1>1. v = [t |-> "obj", f |-> v.f] /\ DOMAIN v.f = FieldNames
  BY Parts DEF FieldSets
<1> QED BY <1>1 DEF Replaced

\* Redacting at the end of a path changes only what is below the last name.
LEMMA RedactPathKeeps ==
    \A v \in Json : \A p \in TokenPaths :
        shouldRedactFieldName(p[Len(p)].name) => Rest[redactPath[v][p]] = Rest[v]
<1> DEFINE Large(p) == shouldRedactFieldName(p[Len(p)].name)
           T == {v \in Json : \A p \in TokenPaths : Large(p) => Rest[redactPath[v][p]] = Rest[v]}
<1>1. \A p \in TokenPaths : p \in Seq(Tokens) /\ p # <<>>
  BY DEF TokenPaths
<1>2. Scalar \subseteq T
  <2> SUFFICES ASSUME NEW v \in Scalar, NEW p \in TokenPaths PROVE Rest[redactPath[v][p]] = Rest[v]
    BY ScalarKinds
  <2>1. Field(v, Head(p).name) = Missing
    BY ScalarKinds, PathParts DEF Field, Fields, NoFields
  <2>2. redactPath[v][p] = v
    BY <1>1, <2>1, ScalarKinds, RedactPathAt, MissingNotJson
  <2> QED BY <2>2
<1>3. ASSUME NEW v \in Json, v.t = "arr", \A i \in DOMAIN v.q : v.q[i] \in T
      PROVE  v \in T
  <2> SUFFICES ASSUME NEW p \in TokenPaths, Large(p) PROVE Rest[redactPath[v][p]] = Rest[v]
    BY <1>3
  <2> DEFINE w == redactPath[v][p]
  <2>1. w = Arr([i \in DOMAIN v.q |-> redactPath[v.q[i]][p]])
    BY <1>1, <1>3, RedactPathAt
  <2>2. w.t = "arr" /\ DOMAIN w.q = DOMAIN v.q
        /\ \A i \in DOMAIN v.q : Rest[w.q[i]] = Rest[v.q[i]]
    BY <1>3, <2>1 DEF Arr
  <2>3. w \in Json
    BY <1>1, StillJson
  <2> HIDE DEF w
  <2>4. Rest[w] = Rest[v]
    BY <1>3, <2>2, <2>3, RestOfArr
  <2> QED BY <2>4 DEF w
<1>4. ASSUME NEW v \in Json, v.t = "obj", \A k \in FieldNames : v.f[k] \in {Missing} \cup T
      PROVE  v \in T
  <2> SUFFICES ASSUME NEW p \in TokenPaths, Large(p) PROVE Rest[redactPath[v][p]] = Rest[v]
    BY <1>4
  <2> DEFINE w == redactPath[v][p]
             k == Head(p).name
             next == Field(v, k)
             below == IF Len(p) = 1 THEN redactValue[next]
                      ELSE IF Head(p).array /\ next.t # "arr" THEN next
                      ELSE redactPath[next][Tail(p)]
  <2>1. k \in FieldNames /\ next = v.f[k]
    BY <1>4, PathParts DEF Field, Fields
  <2>2. w = IF Found(next) THEN [v EXCEPT !.f[k] = below] ELSE v
    BY <1>1, <1>4, RedactPathAt
  <2>3. CASE ~Found(next)
    BY <2>2, <2>3
  <2>4. CASE Found(next)
    <3>1. next \in Json /\ next \in T
      BY <1>4, <2>1, <2>4, MissingNotJson
    <3>2. w.t = "obj" /\ w.f[k] = below /\ \A n \in FieldNames \ {k} : w.f[n] = v.f[n]
      <4>1. w = [v EXCEPT !.f[k] = below]
        BY <2>2, <2>4
      <4> HIDE DEF w, below, k
      <4>2. Replaced(w, v, k, below)
        BY <1>4, <2>1, <4>1, FieldReplaced
      <4> QED BY <4>2 DEF Replaced
    <3>3. w \in Json
      BY <1>1, StillJson
    <3>4. Len(p) \in Nat \ {0} /\ p[1] = Head(p)
          /\ (Len(p) # 1 => /\ Tail(p) \in TokenPaths /\ Len(Tail(p)) = Len(p) - 1
                            /\ Tail(p)[Len(Tail(p))] = p[Len(p)])
      <4>1. /\ Len(p) \in Nat \ {0} /\ p[1] = Head(p)
            /\ Tail(p) = <<>> <=> Len(p) = 1
            /\ Tail(p) # <<>> => Tail(p) \in TokenPaths /\ Len(Tail(p)) = Len(p) - 1
            /\ \A i \in 1..Len(p) - 1 : Tail(p)[i] = p[i + 1]
        BY PathParts
      <4> QED BY <4>1
    <3>5. Found(below) /\ (~shouldRedactFieldName(k) => Rest[below] = Rest[next])
      <4>1. CASE Len(p) = 1
        <5>1. below = redactValue[next]
          BY <4>1
        <5> QED BY <3>1, <3>4, <4>1, <5>1, StillJson, Parts
      <4>2. CASE Len(p) # 1
        <5>1. Tail(p) \in TokenPaths /\ Large(Tail(p))
          <6>1. Tail(p) \in TokenPaths /\ Tail(p)[Len(Tail(p))] = p[Len(p)]
            BY <3>4, <4>2
          <6> QED BY <6>1, Zenon
        <5>2. Rest[redactPath[next][Tail(p)]] = Rest[next]
          BY <3>1, <5>1
        <5>3. redactPath[next][Tail(p)] \in Json
          BY <1>1, <3>1, <5>1, StillJson
        <5>4. below = next \/ below = redactPath[next][Tail(p)]
          BY <4>2
        <5> QED BY <3>1, <5>2, <5>3, <5>4, Parts
      <4> QED BY <4>1, <4>2
    <3> HIDE DEF w, below, T, k, next
    <3>6. \A n \in FieldNames :
            /\ Found(w.f[n]) <=> Found(v.f[n])
            /\ Found(v.f[n]) /\ ~shouldRedactFieldName(n) => Rest[w.f[n]] = Rest[v.f[n]]
      BY <2>1, <2>4, <3>2, <3>5
    <3>7. Rest[w] = Rest[v]
      BY <1>4, <3>2, <3>3, <3>6, RestOfObj
    <3> QED BY <3>7 DEF w
  <2> QED BY <2>3, <2>4
<1>5. Json \subseteq T
  <2> HIDE DEF T
  <2> QED BY <1>2, <1>3, <1>4, JsonInduction
<1> QED BY <1>5

\* and redacting at the end of a path that has such a name there only.
LEMMA RedactPathKeepsObjects ==
    \A v \in Json : \A p \in TokenPaths :
        (\A i \in 1..Len(p) : shouldRedactFieldName(p[i].name) <=> i = Len(p))
          => LargeObjects[redactPath[v][p]] = LargeObjects[v]
<1> DEFINE Large(p) == \A i \in 1..Len(p) : shouldRedactFieldName(p[i].name) <=> i = Len(p)
           T == {v \in Json : \A p \in TokenPaths :
                   Large(p) => LargeObjects[redactPath[v][p]] = LargeObjects[v]}
<1>1. \A p \in TokenPaths : p \in Seq(Tokens) /\ p # <<>>
  BY DEF TokenPaths
<1>2. Scalar \subseteq T
  <2> SUFFICES ASSUME NEW v \in Scalar, NEW p \in TokenPaths
               PROVE  LargeObjects[redactPath[v][p]] = LargeObjects[v]
    BY ScalarKinds
  <2>1. Field(v, Head(p).name) = Missing
    BY ScalarKinds, PathParts DEF Field, Fields, NoFields
  <2>2. redactPath[v][p] = v
    BY <1>1, <2>1, ScalarKinds, RedactPathAt, MissingNotJson
  <2> QED BY <2>2
<1>3. ASSUME NEW v \in Json, v.t = "arr", \A i \in DOMAIN v.q : v.q[i] \in T
      PROVE  v \in T
  <2> SUFFICES ASSUME NEW p \in TokenPaths, Large(p)
               PROVE  LargeObjects[redactPath[v][p]] = LargeObjects[v]
    BY <1>3
  <2> DEFINE w == redactPath[v][p]
  <2>1. w = Arr([i \in DOMAIN v.q |-> redactPath[v.q[i]][p]])
    BY <1>1, <1>3, RedactPathAt
  <2>2. w.t = "arr" /\ DOMAIN w.q = DOMAIN v.q
        /\ \A i \in DOMAIN v.q : LargeObjects[w.q[i]] = LargeObjects[v.q[i]]
    BY <1>3, <2>1 DEF Arr
  <2>3. w \in Json
    BY <1>1, StillJson
  <2> HIDE DEF w
  <2>4. LargeObjects[w] = LargeObjects[v]
    BY <1>3, <2>2, <2>3, ObjectsOfArr
  <2> QED BY <2>4 DEF w
<1>4. ASSUME NEW v \in Json, v.t = "obj", \A k \in FieldNames : v.f[k] \in {Missing} \cup T
      PROVE  v \in T
  <2> SUFFICES ASSUME NEW p \in TokenPaths, Large(p)
               PROVE  LargeObjects[redactPath[v][p]] = LargeObjects[v]
    BY <1>4
  <2> DEFINE w == redactPath[v][p]
             k == Head(p).name
             next == Field(v, k)
             below == IF Len(p) = 1 THEN redactValue[next]
                      ELSE IF Head(p).array /\ next.t # "arr" THEN next
                      ELSE redactPath[next][Tail(p)]
  <2>1. k \in FieldNames /\ next = v.f[k]
    BY <1>4, PathParts DEF Field, Fields
  <2>2. w = IF Found(next) THEN [v EXCEPT !.f[k] = below] ELSE v
    BY <1>1, <1>4, RedactPathAt
  <2>3. CASE ~Found(next)
    BY <2>2, <2>3
  <2>4. CASE Found(next)
    <3>1. next \in Json /\ next \in T
      BY <1>4, <2>1, <2>4, MissingNotJson
    <3>2. w.t = "obj" /\ w.f[k] = below /\ \A n \in FieldNames \ {k} : w.f[n] = v.f[n]
      <4>1. w = [v EXCEPT !.f[k] = below]
        BY <2>2, <2>4
      <4> HIDE DEF w, below, k
      <4>2. Replaced(w, v, k, below)
        BY <1>4, <2>1, <4>1, FieldReplaced
      <4> QED BY <4>2 DEF Replaced
    <3>3. w \in Json
      BY <1>1, StillJson
    <3>4. /\ shouldRedactFieldName(k) <=> Len(p) = 1
          /\ Len(p) # 1 => Tail(p) \in TokenPaths /\ Large(Tail(p))
      <4>1. /\ Len(p) \in Nat \ {0} /\ p[1] = Head(p)
            /\ Tail(p) = <<>> <=> Len(p) = 1
            /\ Tail(p) # <<>> => Tail(p) \in TokenPaths /\ Len(Tail(p)) = Len(p) - 1
            /\ \A i \in 1..Len(p) - 1 : Tail(p)[i] = p[i + 1]
        BY PathParts
      <4>2. shouldRedactFieldName(k) <=> Len(p) = 1
        BY <4>1
      <4>3. ASSUME Len(p) # 1 PROVE Large(Tail(p))
        <5> SUFFICES ASSUME NEW i \in 1..Len(Tail(p))
                     PROVE  shouldRedactFieldName(Tail(p)[i].name) <=> i = Len(Tail(p))
          OBVIOUS
        <5>1. i \in 1..Len(p) - 1 /\ i + 1 \in 1..Len(p) /\ Len(Tail(p)) = Len(p) - 1
          BY <4>1, <4>3
        <5>2. Tail(p)[i].name = p[i + 1].name
          BY <4>1, <5>1
        <5>3. shouldRedactFieldName(p[i + 1].name) <=> i + 1 = Len(p)
          BY <5>1
        <5>4. i + 1 = Len(p) <=> i = Len(Tail(p))
          <6>1. \A m \in Nat : \A l : l = m - 1 => (i + 1 = m <=> i = l)
            BY <5>1
          <6> QED BY <4>1, <5>1, <6>1
        <5> QED BY <5>2, <5>3, <5>4, Zenon
      <4> QED BY <4>1, <4>2, <4>3
    <3>5. /\ Found(below)
          /\ IF shouldRedactFieldName(k) THEN Objects[below] = Objects[next]
             ELSE LargeObjects[below] = LargeObjects[next]
      <4>1. CASE Len(p) = 1
        <5>1. below = redactValue[next]
          BY <4>1
        <5> QED BY <3>1, <3>4, <4>1, <5>1, StillJson, Parts, RedactValueKeepsObjects
      <4>2. CASE Len(p) # 1
        <5>1. Tail(p) \in TokenPaths /\ Large(Tail(p))
          BY <3>4, <4>2
        <5>2. LargeObjects[redactPath[next][Tail(p)]] = LargeObjects[next]
          BY <3>1, <5>1
        <5>3. redactPath[next][Tail(p)] \in Json
          BY <1>1, <3>1, <5>1, StillJson
        <5>4. below = next \/ below = redactPath[next][Tail(p)]
          BY <4>2
        <5> HIDE DEF below
        <5> QED BY <3>1, <3>4, <4>2, <5>2, <5>3, <5>4, Parts
      <4> QED BY <4>1, <4>2
    <3> HIDE DEF w, below, T, k, next
    <3>6. \A n \in FieldNames :
            /\ Found(w.f[n]) <=> Found(v.f[n])
            /\ Found(v.f[n]) => IF shouldRedactFieldName(n)
                                THEN Objects[w.f[n]] = Objects[v.f[n]]
                                ELSE LargeObjects[w.f[n]] = LargeObjects[v.f[n]]
      BY <2>1, <2>4, <3>2, <3>5
    <3>7. LargeObjects[w] = LargeObjects[v]
      BY <1>4, <3>2, <3>3, <3>6, ObjectsOfObj
    <3> QED BY <3>7 DEF w
  <2> QED BY <2>3, <2>4
<1>5. Json \subseteq T
  <2> HIDE DEF T
  <2> QED BY <1>2, <1>3, <1>4, JsonInduction
<1> QED BY <1>5

=============================================================================
