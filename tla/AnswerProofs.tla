---------------------------- MODULE AnswerProofs ----------------------------
(***************************************************************************)
(* Proofs about Answer and ResponseMapping.                                *)
(***************************************************************************)
EXTENDS Answer, JsonProofs

----------------------------------------------------------------------------
(* Lists of values *)

LEMMA ListIn ==
    ASSUME NEW n \in 0..MaxDepth, NEW v \in {Missing} \cup JsonTo[n]
    PROVE  /\ List(v) \in Seq(JsonTo[n])
           /\ v = Missing => List(v) = <<>>
           /\ Found(v) => List(v) = ListValues(v)
<1>1. CASE v = Missing
  <2>1. List(v) = <<>> /\ ~Found(v)
    BY <1>1, MissingNotJson DEF List, Missing
  <2> QED BY <1>1, <2>1
<1>2. CASE v \in JsonTo[n]
  <2>1. Found(v) /\ v # Missing
    BY <1>2, InJson, Parts, MissingNotJson
  <2>2. List(v) = ListValues(v)
    BY <2>1 DEF List, ListValues
  <2> QED BY <1>2, <2>1, <2>2, ValuesIn
<1> QED BY <1>1, <1>2

LEMMA OverAt ==
    ASSUME NEW R, NEW a \in Seq(R), NEW b \in Seq(R)
    PROVE  /\ Over(a, b) \in Seq(R)
           /\ Len(Over(a, b)) = IF Len(a) > Len(b) THEN Len(a) ELSE Len(b)
           /\ \A i \in 1..Len(Over(a, b)) :
                Over(a, b)[i] = IF i <= Len(a) THEN a[i] ELSE b[i]
<1> DEFINE m == Len(a) + 1
           n == Len(b)
           s == SubSeq(b, m, n)
<1>2. Len(a) \in Nat /\ Len(b) \in Nat
  OBVIOUS
<1>3. /\ s \in Seq(R)
      /\ Len(s) = IF m <= n THEN n - m + 1 ELSE 0
      /\ \A i \in 1..Len(s) : s[i] = b[m + i - 1]
  <2>1. CASE m <= n
    BY <1>2, <2>1, SubSeqProperties
  <2>2. CASE m > n
    <3>1. s = <<>>
      BY <1>2, <2>2, SubSeqProperties
    <3> QED BY <1>2, <2>2, <3>1
  <2> QED BY <1>2, <2>1, <2>2
<1> HIDE DEF s
<1>4. /\ a \o s \in Seq(R)
      /\ Len(a \o s) = Len(a) + Len(s)
      /\ \A i \in 1..Len(a) + Len(s) :
           (a \o s)[i] = IF i <= Len(a) THEN a[i] ELSE s[i - Len(a)]
  BY <1>3
<1>5. Len(a \o s) = IF Len(a) > Len(b) THEN Len(a) ELSE Len(b)
  BY <1>2, <1>3, <1>4
<1>6. ASSUME NEW i \in 1..Len(a \o s)
      PROVE  (a \o s)[i] = IF i <= Len(a) THEN a[i] ELSE b[i]
  <2>1. CASE i <= Len(a)
    BY <1>4, <2>1
  <2>2. CASE i > Len(a)
    <3>1. i \in Nat /\ i - Len(a) \in 1..Len(s) /\ m + (i - Len(a)) - 1 = i
      BY <1>2, <1>3, <1>4, <2>2
    <3> QED BY <1>2, <1>3, <1>4, <2>2, <3>1
  <2> QED BY <1>2, <2>1, <2>2
<1> QED BY <1>4, <1>5, <1>6 DEF Over, s

LEMMA ListOfIn ==
    ASSUME NEW n \in 0..MaxDepth, NEW q \in TokenPaths,
           NEW d \in {Missing} \cup JsonTo[n], NEW w \in {Missing} \cup JsonTo[n]
    PROVE  /\ ListOf(q, d, w) \in Seq(JsonTo[n])
           /\ d = Missing => ListOf(q, d, w) = List(w)
<1>1. List(d) \in Seq(JsonTo[n]) /\ List(w) \in Seq(JsonTo[n])
  BY ListIn
<1>2. ListOf(q, d, w) \in Seq(JsonTo[n])
  BY <1>1, OverAt DEF ListOf
<1>3. ASSUME d = Missing PROVE ListOf(q, d, w) = List(w)
  <2>1. List(d) = <<>> /\ ~Found(d)
    BY <1>3, ListIn, MissingNotJson
  <2>2. Over(<<>>, List(w)) = List(w)
    BY <1>1 DEF Over
  <2> QED BY <2>1, <2>2 DEF ListOf
<1> QED BY <1>2, <1>3

----------------------------------------------------------------------------
(* What the answer has at one path *)

\* The official paths: only the first token may be an array.
Shaped(p) == p \in TokenPaths /\ \A i \in DOMAIN p : p[i].array => i = 1

LEMMA ShapedKeys ==
    ASSUME NEW p, Shaped(p)
    PROVE  /\ p \in TokenPaths
           /\ ~Head(p).array => Keys(p)
           /\ Tail(p) # <<>> => Tail(p) \in TokenPaths /\ Keys(Tail(p))
<1>1. p \in Seq(Tokens) /\ p # <<>> /\ p \in TokenPaths
  BY DEF Shaped, TokenPaths
<1>2. ASSUME ~Head(p).array, NEW i \in DOMAIN p PROVE ~p[i].array
  BY <1>1, <1>2 DEF Shaped
<1>3. ASSUME Tail(p) # <<>>, NEW i \in DOMAIN Tail(p) PROVE ~Tail(p)[i].array
  <2>1. Tail(p)[i] = p[i + 1] /\ i + 1 \in DOMAIN p /\ i + 1 # 1
    BY <1>1, <1>3
  <2> QED BY <2>1 DEF Shaped
<1> QED BY <1>1, <1>2, <1>3, PathParts DEF Keys

\* The items under the first name of a path.
ItemsAt(f, p) == Items(f[Head(p).name])

\* The fields have at a path what a default and a value make there, and if that is
\* in the items of an array, at that place in each item.
Holds(f, q, default, value) ==
    LET items == ItemsAt(f, q)
        list == ListOf(q, default, value)
    IN  IF ~Head(q).array
        THEN clear[q][f] /\ getByTokens[Obj(f)][q] = Rule(q, default, value)
        ELSE IF Tail(q) = <<>> THEN items = list
        ELSE /\ Len(list) <= Len(items)
             /\ \A i \in DOMAIN items :
                  /\ items[i].t = "obj" /\ clear[Tail(q)][Fields(items[i])]
                  /\ getByTokens[items[i]][Tail(q)]
                       = IF i \in DOMAIN list THEN list[i] ELSE Missing

\* At first nothing is anywhere.
LEMMA HoldsAtFirst ==
    ASSUME NEW q \in TokenPaths, MaxDepth > 0
    PROVE  Holds(NoFields, q, Missing, Missing)
<1>1. 0 \in 0..MaxDepth
  BY DepthAssumption
<1>2. ListOf(q, Missing, Missing) = <<>>
  BY <1>1, ListOfIn, ListIn
<1>3. ItemsAt(NoFields, q) = <<>>
  BY PathParts DEF ItemsAt, NoFields, Items, Missing
<1>4. Rule(q, Missing, Missing) = Missing
  BY <1>2, MissingNotJson DEF Rule
<1>5. getByTokens[Obj(NoFields)][q] = Missing /\ clear[q][NoFields]
  BY NothingThere
<1> QED BY <1>2, <1>3, <1>4, <1>5 DEF Holds

\* The items under a name of fields.
LEMMA ItemsUnder ==
    ASSUME NEW d \in 0..MaxDepth, NEW f \in FieldsTo(d), NEW k \in FieldNames
    PROVE  /\ Len(Items(f[k])) \in Nat /\ DOMAIN Items(f[k]) = 1..Len(Items(f[k]))
           /\ \A i \in DOMAIN Items(f[k]) : d > 0 /\ Items(f[k])[i] \in JsonTo[d - 1]
           /\ f[k].t # "arr" => Items(f[k]) = <<>>
           /\ f[k].t = "arr" => f[k] \in JsonTo[d] /\ f[k] \in Json /\ Items(f[k]) = f[k].q
<1>1. f[k] \in {Missing} \cup JsonTo[d]
  BY DEF FieldsTo
<1>2. CASE f[k].t # "arr"
  BY <1>2 DEF Items
<1>3. CASE f[k].t = "arr"
  <2>1. f[k] \in JsonTo[d]
    BY <1>1, <1>3 DEF Missing
  <2> QED BY <1>3, <2>1, ItemsOf, InJson DEF Items
<1> QED BY <1>2, <1>3

\* Nothing else than what is under its first name matters to a path.
LEMMA HoldsUnder ==
    ASSUME NEW d \in 0..MaxDepth - 1, NEW f \in FieldsTo(d), NEW g \in FieldsTo(d),
           NEW q \in TokenPaths, f[Head(q).name] = g[Head(q).name], NEW default, NEW value,
           Holds(f, q, default, value)
    PROVE  Holds(g, q, default, value)
<1>1. CASE Head(q).array
  BY <1>1 DEF Holds, ItemsAt
<1>2. CASE ~Head(q).array
  <2>1. f \in FieldSets /\ g \in FieldSets
    BY FieldsIn, DepthAssumption
  <2>2. clear[q][f] <=> clear[q][g]
    BY <2>1, ClearAt
  <2>3. getByTokens[Obj(f)][q] = getByTokens[Obj(g)][q]
    BY <1>2, GetKey
  <2> QED BY <1>2, <2>2, <2>3 DEF Holds
<1>3. Head(q).array \in BOOLEAN
  BY PathParts
<1> QED BY <1>1, <1>2, <1>3

\* It is what one finds there.
LEMMA HoldsGives ==
    ASSUME NEW d \in 0..MaxDepth - 1, NEW f \in FieldsTo(d), NEW e \in 0..MaxDepth,
           NEW q, Shaped(q),
           NEW default \in {Missing} \cup JsonTo[e], NEW value \in {Missing} \cup JsonTo[e],
           Holds(f, q, default, value)
    PROVE  getByTokens[Obj(f)][q] = Rule(q, default, value)
<1> DEFINE name == Head(q).name
           old == f[name]
           items == Items(old)
           list == ListOf(q, default, value)
<1>1. CASE ~Head(q).array
  BY <1>1 DEF Holds
<1>2. CASE Head(q).array
  <2>1. /\ q \in TokenPaths /\ q \in Seq(Tokens) /\ q # <<>> /\ name \in FieldNames
        /\ Tail(q) \in Seq(Tokens) /\ d \in 0..MaxDepth /\ d + 1 \in 0..MaxDepth
        /\ (d + 1) - 1 = d /\ d + 1 > 0
    BY PathParts, DepthAssumption DEF Shaped
  <2>2. Obj(f) \in Json /\ Fields(Obj(f)) = f /\ Obj(f).t = "obj"
    BY <2>1, FieldsIn, InJson
  <2>3. Field(Obj(f), name) = old /\ Obj(f).t # "arr"
    BY <2>2 DEF Field
  <2>4. list \in Seq(JsonTo[e]) /\ Len(list) \in Nat /\ DOMAIN list = 1..Len(list)
        /\ \A i \in DOMAIN list : list[i] \in JsonTo[e]
    <3>1. list \in Seq(JsonTo[e])
      BY <2>1, ListOfIn
    <3> HIDE DEF list
    <3> QED BY <3>1
  <2>5. \A i \in DOMAIN list : Found(list[i])
    BY <2>4, InJson, Parts
  <2>6. /\ Len(items) \in Nat /\ DOMAIN items = 1..Len(items)
        /\ \A i \in DOMAIN items : items[i] \in Json
        /\ old.t # "arr" => items = <<>>
        /\ old.t = "arr" => Found(old) /\ items = old.q
    <3>1. d > 0 => JsonTo[d - 1] \subseteq Json
      BY <2>1, InJson, DepthAssumption
    <3> QED BY <2>1, <3>1, ItemsUnder, Parts
  <2>7. Rule(q, default, value) = IF list = <<>> THEN Missing ELSE Arr(list)
    BY <1>2 DEF Rule
  <2> DEFINE all == [i \in DOMAIN old.q |-> getByTokens[old.q[i]][Tail(q)]]
  <2>8. CASE old.t # "arr"
    <3>1. list = <<>>
      <4>1. items = <<>>
        BY <2>6, <2>8
      <4>2. Tail(q) = <<>> => list = <<>>
        BY <1>2, <4>1 DEF Holds, ItemsAt
      <4>3. Tail(q) # <<>> => Len(list) <= 0
        BY <1>2, <4>1 DEF Holds, ItemsAt
      <4> HIDE DEF list
      <4> QED BY <2>4, <4>2, <4>3, EmptySeq
    <3>2. getByTokens[Obj(f)][q] = Missing
      <4> HIDE DEF old
      <4> QED BY <1>2, <2>1, <2>2, <2>3, <2>8, GetEach
    <3> QED BY <2>7, <3>1, <3>2
  <2>9. CASE old.t = "arr"
    <3>1. getByTokens[Obj(f)][q] = Collected(all)
      <4>1. Found(old) /\ Obj(f).t # "arr"
        BY <2>3, <2>6, <2>9
      <4> HIDE DEF old
      <4> QED BY <1>2, <2>1, <2>2, <2>3, <2>9, <4>1, GetEach
    <3>2. /\ DOMAIN all = 1..Len(items) /\ Len(list) \in 0..Len(items)
          /\ \A i \in 1..Len(items) : Found(all[i]) <=> i <= Len(list)
          /\ \A i \in 1..Len(list) : all[i] = list[i]
      <4>1. DOMAIN all = 1..Len(items)
            /\ \A i \in 1..Len(items) : all[i] = getByTokens[items[i]][Tail(q)]
        BY <2>6, <2>9
      <4>2. CASE Tail(q) = <<>>
        <5>1. items = list
          BY <1>2, <4>2 DEF Holds, ItemsAt
        <5>2. \A i \in 1..Len(items) : all[i] = items[i]
          BY <2>6, <4>1, <4>2, <2>1, GetAt
        <5> HIDE DEF all, items, list
        <5> QED BY <2>4, <2>5, <4>1, <5>1, <5>2
      <4>3. CASE Tail(q) # <<>>
        <5>1. /\ Len(list) <= Len(items)
              /\ \A i \in DOMAIN items :
                   getByTokens[items[i]][Tail(q)] = IF i \in DOMAIN list THEN list[i] ELSE Missing
          BY <1>2, <4>3 DEF Holds, ItemsAt
        <5> HIDE DEF all, items, list
        <5>2. Len(list) \in 0..Len(items)
          BY <2>4, <2>6, <5>1
        <5>3. \A i \in 1..Len(items) :
                all[i] = IF i \in DOMAIN list THEN list[i] ELSE Missing
          BY <2>6, <4>1, <5>1
        <5>4. \A i \in 1..Len(items) : Found(all[i]) <=> i <= Len(list)
          BY <2>4, <2>5, <5>3, MissingNotJson
        <5>5. \A i \in 1..Len(list) : all[i] = list[i]
          BY <2>4, <2>6, <5>1, <5>3
        <5> QED BY <4>1, <5>2, <5>4, <5>5
      <4> QED BY <4>2, <4>3
    <3>3. Present(all) = list
      <4> HIDE DEF all, items, list
      <4>1. Present(all) = [i \in 1..Len(list) |-> all[i]]
        BY <2>6, <3>2, PresentFirst
      <4>2. [i \in 1..Len(list) |-> all[i]] = list
        BY <2>4, <3>2
      <4> QED BY <4>1, <4>2
    <3> HIDE DEF all, list
    <3> QED BY <2>7, <3>1, <3>3 DEF Collected
  <2> QED BY <2>8, <2>9
<1>3. Head(q).array \in BOOLEAN
  BY PathParts DEF Shaped
<1> QED BY <1>1, <1>2, <1>3

\* The fields of an item that a list is written through.
FieldsWritten(p, f, v, i) == setByTokens[Tail(p)][Child(ItemsAt(f, p), i)][ListValues(v)[i]]

\* Writing a list through an array writes one value in each item.
LEMMA SetEach ==
    ASSUME NEW d, NEW e, NEW p \in TokenPaths, Room(d, e, p), Head(p).array, Tail(p) # <<>>,
           NEW f \in FieldsTo(d), NEW v \in JsonTo[e],
           NEW f2, f2 = setByTokens[p][f][v]
    PROVE  /\ Len(ItemsAt(f, p)) \in Nat /\ DOMAIN ItemsAt(f, p) = 1..Len(ItemsAt(f, p))
           /\ Len(ListValues(v)) \in Nat /\ DOMAIN ListValues(v) = 1..Len(ListValues(v))
           /\ DOMAIN ItemsAt(f2, p) = 1..Len(ItemsAt(f2, p))
           /\ Len(ItemsAt(f2, p)) = IF Len(ItemsAt(f, p)) > Len(ListValues(v))
                                    THEN Len(ItemsAt(f, p)) ELSE Len(ListValues(v))
           /\ \A i \in 1..Len(ListValues(v)) :
                /\ ListValues(v)[i] \in JsonTo[e]
                /\ Child(ItemsAt(f, p), i) \in FieldsTo(d - 2)
                /\ ItemsAt(f2, p)[i] = Obj(FieldsWritten(p, f, v, i))
                /\ Obj(FieldsWritten(p, f, v, i)).t = "obj"
                /\ Fields(Obj(FieldsWritten(p, f, v, i))) = FieldsWritten(p, f, v, i)
           /\ \A i \in 1..Len(ItemsAt(f2, p)) :
                i > Len(ListValues(v)) => ItemsAt(f2, p)[i] = ItemsAt(f, p)[i]
<1> DEFINE name == Head(p).name
           items == Items(f[name])
           values == ListValues(v)
           Fields2(i) == setByTokens[Tail(p)][Child(items, i)][values[i]]
           new == setByTokens[p][f][v][name]
           items2 == Items(new)
<1>1. /\ name \in FieldNames /\ Tail(p) \in TokenPaths /\ d \in 0..MaxDepth /\ e \in 0..MaxDepth
      /\ Room(d - 2, e, Tail(p)) /\ d - 2 \in 0..MaxDepth /\ d - 1 \in 0..MaxDepth
      /\ (d - 1) - 1 = d - 2 /\ d - 1 > 0
  <2>1. name \in FieldNames /\ Tail(p) \in TokenPaths
    BY PathParts
  <2>2. /\ d \in 0..MaxDepth /\ e \in 0..MaxDepth
        /\ Room(d - 2, e, Tail(p)) /\ d - 2 >= 0 /\ d - 1 > 0
    BY RoomBelow
  <2>3. d - 2 \in 0..MaxDepth /\ d - 1 \in 0..MaxDepth /\ (d - 1) - 1 = d - 2
    BY <2>2, DepthAssumption
  <2> QED BY <2>1, <2>2, <2>3
<1>2. f \in FieldSets /\ v \in Json /\ f \in [FieldNames -> {Missing} \cup JsonTo[d]]
  BY <1>1, FieldsIn, InJson DEF FieldsTo
<1>3. new = PutAt(p, f[name], v)
  <2>1. setByTokens[p][f][v] = [f EXCEPT ![name] = PutAt(p, f[name], v)]
    BY <1>2, SetAt
  <2> QED BY <1>1, <1>2, <2>1
<1>4. /\ Len(items) \in Nat /\ DOMAIN items = 1..Len(items)
      /\ \A i \in DOMAIN items : items[i] \in JsonTo[d - 1]
      /\ f[name].t # "arr" => items = <<>>
  BY <1>1, ItemsUnder
<1>5. /\ DOMAIN values = 1..Len(values) /\ Len(values) \in Nat
      /\ \A i \in DOMAIN values : values[i] \in JsonTo[e]
  BY <1>1, ValuesIn
<1>6. \A i \in 1..Len(values) : Child(items, i) \in FieldsTo(d - 2)
  <2>1. \A i \in DOMAIN items : Fields(items[i]) \in FieldsTo((d - 1) - 1)
    BY <1>1, <1>4, FieldsIn
  <2>2. NoFields \in FieldsTo(d - 2)
    BY <1>1, FieldsIn
  <2> QED BY <1>1, <2>1, <2>2 DEF Child
<1>7. \A i \in 1..Len(values) : Fields2(i) \in FieldsTo(d - 2)
  <2>1. \A g \in FieldsTo(d - 2) : \A w \in JsonTo[e] :
          setByTokens[Tail(p)][g][w] \in FieldsTo(d - 2)
    BY <1>1, SetType DEF Room
  <2> QED BY <1>5, <1>6, <2>1
<1>8. \A i \in 1..Len(values) :
        Obj(Fields2(i)).t = "obj" /\ Fields(Obj(Fields2(i))) = Fields2(i)
  <2>1. \A g \in FieldsTo((d - 1) - 1) : Obj(g).t = "obj" /\ Fields(Obj(g)) = g
    BY <1>1, FieldsIn
  <2> QED BY <1>1, <1>7, <2>1
<1>9. /\ Len(items2) = IF Len(items) > Len(values) THEN Len(items) ELSE Len(values)
      /\ DOMAIN items2 = 1..Len(items2)
      /\ \A i \in 1..Len(items2) :
            items2[i] = IF i \in DOMAIN values THEN Obj(Fields2(i)) ELSE items[i]
  <2>1. CASE f[name].t # "arr" /\ values = <<>>
    <3>1. new = Null
      BY <1>3, <2>1 DEF PutAt
    <3>2. items2 = <<>>
      BY <3>1 DEF Items, Null
    <3>3. items = <<>>
      BY <1>4, <2>1
    <3> HIDE DEF items2, items, values
    <3> QED BY <2>1, <3>2, <3>3
  <2>2. CASE ~(f[name].t # "arr" /\ values = <<>>)
    <3> DEFINE all == ItemsWritten(Tail(p), items, values)
    <3>1. new = Arr(all)
      BY <1>3, <2>2 DEF PutAt
    <3>2. items2 = all
      BY <3>1 DEF Items, Arr
    <3> DEFINE n == IF Len(items) > Len(values) THEN Len(items) ELSE Len(values)
    <3>3. DOMAIN items \cup DOMAIN values = 1..n /\ n \in Nat
      <4> HIDE DEF items, values
      <4> QED BY <1>4, <1>5
    <3>4. all = [i \in 1..n |-> IF i \in DOMAIN values THEN Obj(Fields2(i)) ELSE items[i]]
      BY <3>3 DEF ItemsWritten
    <3> HIDE DEF n, items, values, Fields2, all, items2
    <3>5. Len(all) = n /\ DOMAIN all = 1..n
      BY <3>3, <3>4
    <3>6. Len(items2) = n /\ DOMAIN items2 = 1..n
      BY <3>2, <3>5
    <3>7. \A i \in 1..n :
            items2[i] = IF i \in DOMAIN values THEN Obj(Fields2(i)) ELSE items[i]
      BY <3>2, <3>4
    <3> QED BY <3>6, <3>7 DEF n
  <2> QED BY <2>1, <2>2
<1>10. \A i \in 1..Len(values) : items2[i] = Obj(Fields2(i))
  <2> HIDE DEF items, values, items2, Fields2
  <2> QED BY <1>4, <1>5, <1>9
<1>11. \A i \in 1..Len(items2) : i > Len(values) => items2[i] = items[i]
  <2> HIDE DEF items, values, items2, Fields2
  <2> QED BY <1>5, <1>9
<1>12. /\ ItemsAt(f, p) = items /\ ItemsAt(f2, p) = items2 /\ ListValues(v) = values
       /\ \A i : FieldsWritten(p, f, v, i) = Fields2(i)
  BY DEF ItemsAt, FieldsWritten
<1> HIDE DEF items, items2, values, Fields2
<1> QED BY <1>4, <1>5, <1>6, <1>8, <1>9, <1>10, <1>11, <1>12

LEMMA SetList ==
    ASSUME NEW d, NEW e, NEW p \in TokenPaths, Room(d, e, p),
           NEW f \in FieldsTo(d), NEW v \in JsonTo[e]
    PROVE  /\ setByTokens[p][f][v] \in FieldsTo(d)
           /\ \A k \in FieldNames \ {Head(p).name} : setByTokens[p][f][v][k] = f[k]
           /\ Head(p).array /\ Tail(p) = <<>> =>
                Items(setByTokens[p][f][v][Head(p).name]) = ListValues(v)
<1>1. Head(p).name \in FieldNames /\ d \in 0..MaxDepth /\ e \in 0..MaxDepth
  BY PathParts, RoomBelow
<1>2. f \in FieldSets /\ v \in Json /\ f \in [FieldNames -> {Missing} \cup JsonTo[d]]
  BY <1>1, FieldsIn, InJson DEF FieldsTo
<1>3. setByTokens[p][f][v] = [f EXCEPT ![Head(p).name] = PutAt(p, f[Head(p).name], v)]
  BY <1>2, SetAt
<1>4. setByTokens[p][f][v] \in FieldsTo(d)
  BY <1>1, SetType DEF Room
<1>5. setByTokens[p][f][v][Head(p).name] = PutAt(p, f[Head(p).name], v)
  BY <1>1, <1>2, <1>3
<1>6. Head(p).array /\ Tail(p) = <<>> => PutAt(p, f[Head(p).name], v) = Arr(ListValues(v))
  BY DEF PutAt
<1>7. Items(Arr(ListValues(v))) = ListValues(v)
  BY DEF Items, Arr
<1> QED BY <1>2, <1>3, <1>4, <1>5, <1>6, <1>7

\* Writing a value at a path makes that path hold it, a list over what was there.
LEMMA HoldsOwn ==
    ASSUME NEW d, NEW e, NEW p, Shaped(p), Room(d, e, p),
           NEW f \in FieldsTo(d), NEW v \in JsonTo[e], NEW w \in {Missing} \cup JsonTo[e],
           Holds(f, p, Missing, w), NEW default, NEW value,
           v = IF Found(default) THEN default ELSE value,
           ListOf(p, default, value) = IF Tail(p) = <<>> THEN ListValues(v)
                                                         ELSE Over(ListValues(v), List(w))
    PROVE  Holds(setByTokens[p][f][v], p, default, value)
<1> DEFINE f2 == setByTokens[p][f][v]
           items == ItemsAt(f, p)
           items2 == ItemsAt(f2, p)
           values == ListValues(v)
           list == ListOf(p, default, value)
           old == List(w)
           Fields2(i) == FieldsWritten(p, f, v, i)
<1>1. p \in TokenPaths /\ Head(p).array \in BOOLEAN
  BY PathParts DEF Shaped
<1>2. CASE ~Head(p).array
  <2>1. getByTokens[Obj(f2)][p] = v /\ clear[p][f2]
    BY <1>2, ShapedKeys, KeysOwn
  <2> QED BY <1>2, <2>1 DEF Holds, Rule
<1>3. CASE Head(p).array /\ Tail(p) = <<>>
  <2>1. items2 = values
    BY <1>1, <1>3, SetList DEF ItemsAt
  <2> QED BY <1>3, <2>1 DEF Holds
<1>4. CASE Head(p).array /\ Tail(p) # <<>>
  <2>1. /\ Len(items) \in Nat /\ DOMAIN items = 1..Len(items)
        /\ Len(values) \in Nat /\ DOMAIN values = 1..Len(values)
        /\ DOMAIN items2 = 1..Len(items2)
        /\ Len(items2) = IF Len(items) > Len(values) THEN Len(items) ELSE Len(values)
        /\ \A i \in 1..Len(values) :
             /\ values[i] \in JsonTo[e]
             /\ Child(items, i) \in FieldsTo(d - 2)
             /\ items2[i] = Obj(Fields2(i))
             /\ Obj(Fields2(i)).t = "obj" /\ Fields(Obj(Fields2(i))) = Fields2(i)
        /\ \A i \in 1..Len(items2) : i > Len(values) => items2[i] = items[i]
    BY <1>1, <1>4, SetEach
  <2>2. Room(d - 2, e, Tail(p)) /\ Tail(p) \in TokenPaths /\ Keys(Tail(p)) /\ e \in 0..MaxDepth
    BY <1>1, <1>4, ShapedKeys, RoomBelow
  <2>3. old \in Seq(JsonTo[e]) /\ values \in Seq(JsonTo[e]) /\ ListOf(p, Missing, w) = old
    BY <1>1, <2>2, ListIn, ListOfIn, ValuesIn
  <2>4. /\ Len(list) = IF Len(values) > Len(old) THEN Len(values) ELSE Len(old)
        /\ DOMAIN list = 1..Len(list)
        /\ \A i \in 1..Len(list) : list[i] = IF i <= Len(values) THEN values[i] ELSE old[i]
    <3>1. list = Over(values, old)
      BY <1>4
    <3> HIDE DEF list, values, old
    <3>2. list \in Seq(JsonTo[e])
      BY <2>3, <3>1, OverAt
    <3> QED BY <2>3, <3>1, <3>2, OverAt
  <2>5. /\ Len(old) <= Len(items)
        /\ \A i \in DOMAIN items :
             /\ items[i].t = "obj" /\ clear[Tail(p)][Fields(items[i])]
             /\ getByTokens[items[i]][Tail(p)] = IF i \in DOMAIN old THEN old[i] ELSE Missing
    BY <1>4, <2>3 DEF Holds
  <2>6. Len(old) \in Nat /\ DOMAIN old = 1..Len(old)
    <3> HIDE DEF old
    <3> QED BY <2>3
  <2>7. ASSUME NEW i \in 1..Len(values)
        PROVE  /\ items2[i].t = "obj" /\ clear[Tail(p)][Fields(items2[i])]
               /\ getByTokens[items2[i]][Tail(p)] = values[i]
    <3>1. getByTokens[Obj(Fields2(i))][Tail(p)] = values[i] /\ clear[Tail(p)][Fields2(i)]
      <4>1. \A g \in FieldsTo(d - 2), u \in JsonTo[e] :
              /\ getByTokens[Obj(setByTokens[Tail(p)][g][u])][Tail(p)] = u
              /\ clear[Tail(p)][setByTokens[Tail(p)][g][u]]
        BY <2>2, KeysOwn
      <4>2. Child(items, i) \in FieldsTo(d - 2) /\ values[i] \in JsonTo[e]
        BY <2>1
      <4> QED BY <4>1, <4>2, Zenon DEF FieldsWritten
    <3> HIDE DEF items2, Fields2
    <3> QED BY <2>1, <3>1
  <2> HIDE DEF items, items2, values, list, old, Fields2
  <2>8. Len(list) <= Len(items2)
    BY <2>1, <2>4, <2>5, <2>6
  <2>9. ASSUME NEW i \in DOMAIN items2
        PROVE  /\ items2[i].t = "obj" /\ clear[Tail(p)][Fields(items2[i])]
               /\ getByTokens[items2[i]][Tail(p)]
                    = IF i \in DOMAIN list THEN list[i] ELSE Missing
    <3>1. CASE i <= Len(values)
      <4>1. i \in 1..Len(values) /\ i \in 1..Len(list)
        BY <2>1, <2>4, <2>6, <3>1
      <4> QED BY <2>4, <2>7, <3>1, <4>1
    <3>2. CASE i > Len(values)
      <4>1. items2[i] = items[i] /\ i \in DOMAIN items
        BY <2>1, <3>2
      <4>2. i \in DOMAIN list <=> i \in DOMAIN old
        BY <2>1, <2>4, <2>6, <3>2
      <4>3. i \in DOMAIN list => list[i] = old[i]
        BY <2>1, <2>4, <3>2
      <4> QED BY <2>5, <4>1, <4>2, <4>3
    <3> QED BY <2>1, <3>1, <3>2
  <2> QED BY <1>4, <2>8, <2>9 DEF Holds, items2, list
<1> QED BY <1>1, <1>2, <1>3, <1>4

\* A path that parts from it holds what it held.
LEMMA HoldsApart ==
    ASSUME NEW d, NEW e, NEW p, Shaped(p), Room(d, e, p),
           NEW f \in FieldsTo(d), NEW v \in JsonTo[e],
           NEW q, Shaped(q), Apart(p, q),
           NEW default \in {Missing} \cup JsonTo[e], NEW value \in {Missing} \cup JsonTo[e],
           Holds(f, q, default, value)
    PROVE  Holds(setByTokens[p][f][v], q, default, value)
<1> DEFINE f2 == setByTokens[p][f][v]
           items == ItemsAt(f, p)
           items2 == ItemsAt(f2, p)
           values == ListValues(v)
           list == ListOf(q, default, value)
           Fields2(i) == FieldsWritten(p, f, v, i)
<1>1. /\ p \in TokenPaths /\ q \in TokenPaths /\ Head(q).array \in BOOLEAN /\ Head(q).name \in FieldNames
      /\ Head(p).name \in FieldNames /\ d \in 0..MaxDepth - 1
  BY PathParts DEF Shaped, Room
<1>2. f2 \in FieldsTo(d) /\ \A k \in FieldNames \ {Head(p).name} : f2[k] = f[k]
  BY <1>1, SetList
<1>3. CASE Head(p).name # Head(q).name
  <2>1. f[Head(q).name] = f2[Head(q).name]
    BY <1>1, <1>2, <1>3
  <2> HIDE DEF f2
  <2>2. Holds(f2, q, default, value)
    BY <1>1, <1>2, <2>1, HoldsUnder
  <2> QED BY <2>2 DEF f2
<1>4. CASE Head(p) = Head(q) /\ ~Head(q).array
  <2>1. Keys(p) /\ Keys(q)
    BY <1>4, ShapedKeys
  <2>2. clear[q][f] /\ getByTokens[Obj(f)][q] = Rule(q, default, value)
    BY <1>4 DEF Holds
  <2>3. getByTokens[Obj(f2)][q] = getByTokens[Obj(f)][q] /\ clear[q][f2]
    BY <1>1, <2>1, <2>2, KeysApart
  <2> QED BY <1>4, <2>2, <2>3 DEF Holds
<1>5. CASE /\ Head(p) = Head(q) /\ Head(q).array /\ Tail(p) \in TokenPaths /\ Tail(q) \in TokenPaths
           /\ Apart(Tail(p), Tail(q))
  <2>1. Tail(p) # <<>> /\ Tail(q) # <<>>
    BY <1>5 DEF TokenPaths
  <2>2. /\ Len(items) \in Nat /\ DOMAIN items = 1..Len(items)
        /\ Len(values) \in Nat /\ DOMAIN values = 1..Len(values)
        /\ DOMAIN items2 = 1..Len(items2)
        /\ Len(items2) = IF Len(items) > Len(values) THEN Len(items) ELSE Len(values)
        /\ \A i \in 1..Len(values) :
             /\ values[i] \in JsonTo[e]
             /\ Child(items, i) \in FieldsTo(d - 2)
             /\ items2[i] = Obj(Fields2(i))
             /\ Obj(Fields2(i)).t = "obj" /\ Fields(Obj(Fields2(i))) = Fields2(i)
        /\ \A i \in 1..Len(items2) : i > Len(values) => items2[i] = items[i]
    BY <1>1, <1>5, <2>1, SetEach
  <2>3. Room(d - 2, e, Tail(p)) /\ Keys(Tail(p)) /\ Keys(Tail(q)) /\ MaxDepth > 0
        /\ e \in 0..MaxDepth /\ d \in 0..MaxDepth
    <3>1. Keys(Tail(p)) /\ Keys(Tail(q))
      BY <1>1, <1>5, <2>1, ShapedKeys
    <3>2. MaxDepth > 0 /\ e \in 0..MaxDepth /\ d \in 0..MaxDepth
      BY <1>1, DepthAssumption DEF Room
    <3>3. Room(d - 2, e, Tail(p))
      BY <1>1, <2>1, <3>2, RoomBelow
    <3> QED BY <3>1, <3>2, <3>3
  <2>4. /\ Len(list) <= Len(items)
        /\ \A i \in DOMAIN items :
             /\ items[i].t = "obj" /\ clear[Tail(q)][Fields(items[i])]
             /\ getByTokens[items[i]][Tail(q)]
                  = IF i \in DOMAIN list THEN list[i] ELSE Missing
    <3>1. ItemsAt(f, q) = items
      BY <1>5 DEF ItemsAt
    <3> HIDE DEF items
    <3> QED BY <1>5, <2>1, <3>1 DEF Holds
  <2>5. Len(list) \in Nat /\ DOMAIN list = 1..Len(list)
    <3>1. list \in Seq(JsonTo[e])
      BY <1>1, <2>3, ListOfIn
    <3> HIDE DEF list
    <3> QED BY <3>1
  <2>6. \A i \in DOMAIN items : items[i] = Obj(Fields(items[i]))
    <3>1. \A i \in DOMAIN items : items[i] \in Json
      <4>1. d > 0 => d - 1 \in 0..MaxDepth
        BY <2>3, DepthAssumption
      <4>2. d > 0 => JsonTo[d - 1] \subseteq Json
        BY <4>1, InJson
      <4>3. \A i \in DOMAIN items : d > 0 /\ items[i] \in JsonTo[d - 1]
        BY <1>1, <2>3, ItemsUnder DEF ItemsAt
      <4> QED BY <4>2, <4>3
    <3> SUFFICES ASSUME NEW i \in DOMAIN items PROVE items[i] = Obj(Fields(items[i]))
      OBVIOUS
    <3> HIDE DEF items
    <3>2. items[i] = [t |-> "obj", f |-> items[i].f]
          /\ items[i].f \in [FieldNames -> {Missing} \cup Json]
      BY <2>4, <3>1, Parts DEF FieldSets
    <3>3. Obj(items[i].f) = [t |-> "obj", f |-> items[i].f]
      BY <3>2, ObjIs
    <3> QED BY <2>4, <3>2, <3>3 DEF Fields
  <2>7. ASSUME NEW i \in 1..Len(values)
        PROVE  /\ items2[i].t = "obj" /\ clear[Tail(q)][Fields(items2[i])]
               /\ getByTokens[items2[i]][Tail(q)]
                    = IF i \in DOMAIN items THEN getByTokens[items[i]][Tail(q)] ELSE Missing
    <3>1. clear[Tail(q)][Child(items, i)]
      <4> HIDE DEF items
      <4> QED BY <1>5, <2>3, <2>4, NothingThere DEF Child
    <3>2. /\ getByTokens[Obj(Fields2(i))][Tail(q)] = getByTokens[Obj(Child(items, i))][Tail(q)]
          /\ clear[Tail(q)][Fields2(i)]
      <4>1. \A g \in FieldsTo(d - 2), u \in JsonTo[e] : clear[Tail(q)][g] =>
              /\ getByTokens[Obj(setByTokens[Tail(p)][g][u])][Tail(q)] = getByTokens[Obj(g)][Tail(q)]
              /\ clear[Tail(q)][setByTokens[Tail(p)][g][u]]
        BY <1>5, <2>3, KeysApart
      <4>2. Child(items, i) \in FieldsTo(d - 2) /\ values[i] \in JsonTo[e]
        BY <2>2
      <4> QED BY <3>1, <4>1, <4>2, Zenon DEF FieldsWritten
    <3>3. getByTokens[Obj(Child(items, i))][Tail(q)]
            = IF i \in DOMAIN items THEN getByTokens[items[i]][Tail(q)] ELSE Missing
      <4> HIDE DEF items
      <4> QED BY <1>5, <2>3, <2>6, NothingThere DEF Child
    <3> HIDE DEF items2, Fields2, items
    <3> QED BY <2>2, <3>2, <3>3
  <2>8. ItemsAt(f2, q) = items2
    BY <1>5 DEF ItemsAt
  <2> HIDE DEF items, items2, values, list, Fields2
  <2>9. ASSUME NEW i \in DOMAIN items2
        PROVE  /\ items2[i].t = "obj" /\ clear[Tail(q)][Fields(items2[i])]
               /\ getByTokens[items2[i]][Tail(q)]
                    = IF i \in DOMAIN list THEN list[i] ELSE Missing
    <3>1. CASE i <= Len(values)
      <4>1. i \in 1..Len(values)
        BY <2>2, <3>1
      <4>2. i \notin DOMAIN items => i \notin DOMAIN list
        BY <2>2, <2>4, <2>5, <4>1
      <4> QED BY <2>4, <2>7, <4>1, <4>2
    <3>2. CASE i > Len(values)
      <4>1. items2[i] = items[i] /\ i \in DOMAIN items
        BY <2>2, <3>2
      <4> QED BY <2>4, <4>1
    <3> QED BY <2>2, <3>1, <3>2
  <2>10. Len(list) <= Len(items2)
    BY <2>2, <2>4, <2>5
  <2> HIDE DEF f2
  <2>11. Holds(f2, q, default, value)
    BY <1>5, <2>1, <2>8, <2>9, <2>10 DEF Holds, list
  <2> QED BY <2>11 DEF f2
<1> QED BY <1>1, <1>3, <1>4, <1>5, ApartTail


----------------------------------------------------------------------------
(* Conversions *)

\* The strings that conversions write are among those of values, the empty one too.
LEMMA StringsOf ==
    /\ "bool" \in Texts /\ "json" \in Texts
    /\ \E e \in Texts : NoText = Str(e) /\ \A s : s # e => Str(s) # NoText
    /\ NoText \in Scalar /\ NoText.t = "str"
<1>1. "bool" \in Texts /\ "json" \in Texts /\ "" \in Texts
  BY TextAssumption, Zenon
<1>2. ASSUME NEW e, NEW s, s # e PROVE Str(s) # Str(e)
  BY <1>2 DEF Str
<1>3. \A e \in Texts : Str(e) \in Scalar /\ Str(e).t = "str"
  BY DEF Str, Scalar
<1>4. \E e \in Texts : NoText = Str(e) /\ \A s : s # e => Str(s) # NoText
  BY <1>1, <1>2, Zenon DEF NoText
<1> QED BY <1>1, <1>3, <1>4

\* A conversion leaves a scalar a scalar.
LEMMA SingleIn ==
    ASSUME NEW n \in 0..MaxDepth, NEW v \in JsonTo[n], NEW type
    PROVE  convertSingleValue(v, type) \in {Missing} \cup JsonTo[n]
<1>1. Scalar \subseteq JsonTo[n]
  BY IntoLevel
<1>2. NoText \in Scalar /\ Str("bool") \in Scalar /\ Str("json") \in Scalar
  BY StringsOf DEF Scalar, Str
<1>3. /\ v.t \in {"num", "digits"} => v.n \in Int
      /\ v.t = "num" => v.n \in Numbers
  <2>1. v.t \in {"num", "digits"} => v \in Scalar
    BY LevelCases
  <2>2. \A m \in Numbers : m \in Int
    BY LargestAssumption DEF Numbers
  <2> QED BY <2>1, <2>2 DEF Scalar, Null
<1>4. /\ \A m \in Numbers : Num(m) \in Scalar /\ Truncated(m) \in Numbers
      /\ \A m \in Int : Digits(m) \in Scalar
  <2>1. /\ \A m \in Numbers : Num(m) \in Scalar
        /\ \A m \in Int : Digits(m) \in Scalar
    BY DEF Num, Digits, Scalar
  <2>2. \A m \in Numbers : Truncated(m) \in Numbers
    BY LargestAssumption DEF Truncated, Numbers
  <2> QED BY <2>1, <2>2
<1>5. toStringValue(v) \in JsonTo[n]
  BY <1>1, <1>2, <1>3, <1>4 DEF toStringValue
<1>6. toIntValue(v) \in {Missing} \cup JsonTo[n]
  <2>1. CASE v.t = "num"
    BY <2>1, <1>1, <1>3, <1>4 DEF toIntValue
  <2>2. CASE v.t = "digits"
    BY <2>2, <1>1, <1>3, <1>4 DEF toIntValue
  <2>3. CASE v.t \notin {"num", "digits"}
    BY <2>3 DEF toIntValue
  <2> QED BY <2>1, <2>2, <2>3
<1> QED BY <1>5, <1>6 DEF convertSingleValue

\* A value is converted to one that is nested no deeper, an array item by item.
LEMMA ConvertIn ==
    ASSUME NEW n \in 0..MaxDepth, NEW v \in JsonTo[n], NEW type
    PROVE  /\ convertPathValue(v, type) \in {Missing} \cup JsonTo[n]
           /\ v.t = "arr" /\ type # "" /\ Found(convertPathValue(v, type)) =>
                convertPathValue(v, type)
                  = Arr([i \in DOMAIN v.q |-> convertSingleValue(v.q[i], type)])
<1> DEFINE items == [i \in DOMAIN v.q |-> convertSingleValue(v.q[i], type)]
<1>1. CASE v.t # "arr" \/ type = ""
  BY <1>1, SingleIn DEF convertPathValue
<1>2. CASE v.t = "arr" /\ type # ""
  <2>1. /\ n > 0 /\ n - 1 \in 0..MaxDepth /\ DOMAIN v.q = 1..Len(v.q) /\ Len(v.q) \in Nat
        /\ \A i \in DOMAIN v.q : v.q[i] \in JsonTo[n - 1]
    BY <1>2, ItemsOf
  <2>2. \A i \in DOMAIN v.q : items[i] \in {Missing} \cup JsonTo[n - 1]
    BY <2>1, SingleIn
  <2>3. convertPathValue(v, type)
          = IF \A i \in DOMAIN items : Found(items[i]) THEN Arr(items) ELSE Missing
    BY <1>2 DEF convertPathValue
  <2>4. CASE \A i \in DOMAIN items : Found(items[i])
    <3>1. \A i \in DOMAIN v.q : items[i] \in JsonTo[n - 1]
      BY <2>2, <2>4, MissingNotJson
    <3>2. items \in Seq(JsonTo[n - 1])
      BY <2>1, <3>1, SeqOf
    <3> HIDE DEF items
    <3>3. Arr(items) \in JsonTo[n]
      BY <2>1, <3>2, IntoLevel
    <3>4. convertPathValue(v, type) = Arr(items)
      BY <2>3, <2>4
    <3> QED BY <3>3, <3>4 DEF items
  <2>5. CASE ~\A i \in DOMAIN items : Found(items[i])
    <3>1. convertPathValue(v, type) = Missing
      BY <2>3, <2>5
    <3> QED BY <3>1, MissingNotJson
  <2> QED BY <2>4, <2>5
<1> QED BY <1>1, <1>2

----------------------------------------------------------------------------
(* The invariant of the mapping *)

\* What the rounds so far have to do with a path.
MappedNow(path) == IF phase = "fields" /\ path \in pending THEN Missing ELSE Mapped(path)
ConstantNow(path) ==
    IF phase = "fields" \/ (phase = "defaults" /\ path \in pending) THEN Missing
                                                                    ELSE Constant(path)

\* Before the mapping has failed, each path holds what the rounds so far make there,
\* and whatever they found they could convert.
Built ==
    phase # "failed" =>
        \A path \in Official :
            /\ Holds(target, path, ConstantNow(path), MappedNow(path))
            /\ path \in DOMAIN fieldMap /\ ~(phase = "fields" /\ path \in pending)
                 => \/ ~Found(getByTokens[source][fieldMap[path]])
                    \/ Found(Mapped(path))

Control ==
    /\ phase = "fields" => pending \subseteq DOMAIN fieldMap
    /\ phase = "defaults" => pending \subseteq DOMAIN defaults
    /\ phase = "done" => pending = {}

MapInv == TypeOK /\ target \in FieldsTo(MaxDepth - 1) /\ Control /\ Built

\* How deep sources and values are nested.
room == CHOOSE e \in 0..MaxDepth - 1 :
            /\ Sources \cup Values \subseteq JsonTo[e]
            /\ \A p \in Official : e + 2 * Len(p) < MaxDepth

LEMMA RoomIs ==
    /\ room \in 0..MaxDepth /\ MaxDepth - 1 \in 0..MaxDepth /\ MaxDepth > 0
    /\ Sources \cup Values \subseteq JsonTo[room]
    /\ \A p \in Official : Shaped(p) /\ Room(MaxDepth - 1, room, p)
<1>1. /\ room \in 0..MaxDepth - 1
      /\ Sources \cup Values \subseteq JsonTo[room]
      /\ \A p \in Official : room + 2 * Len(p) < MaxDepth
  BY MappingAssumption DEF room
<1>2. room \in 0..MaxDepth /\ MaxDepth - 1 \in 0..MaxDepth - 1 /\ MaxDepth > 0
      /\ MaxDepth - 1 \in 0..MaxDepth
  BY <1>1, DepthAssumption
<1>3. ASSUME NEW p \in Official PROVE Shaped(p) /\ Room(MaxDepth - 1, room, p)
  <2>1. Shaped(p)
    BY MappingAssumption DEF Shaped, TokenPaths
  <2>2. Len(p) \in Nat
    BY <2>1, PathParts DEF Shaped
  <2> QED BY <1>1, <1>2, <2>1, <2>2, DepthAssumption DEF Room
<1> QED BY <1>1, <1>2, <1>3

\* What the rules find and convert are values of that depth.
LEMMA ValuesOf ==
    ASSUME TypeOK, NEW path \in Official
    PROVE  /\ path \in DOMAIN fieldMap =>
                getByTokens[source][fieldMap[path]] \in {Missing} \cup JsonTo[room]
           /\ path \in DOMAIN defaults => defaults[path] \in JsonTo[room]
           /\ Mapped(path) \in {Missing} \cup JsonTo[room]
           /\ Constant(path) \in {Missing} \cup JsonTo[room]
<1>1. source \in JsonTo[room] /\ room \in 0..MaxDepth /\ source \in Json
  BY RoomIs, InJson DEF TypeOK
<1>2. path \in DOMAIN fieldMap => fieldMap[path] \in Seq(Tokens)
  BY MappingAssumption DEF TypeOK
<1>3. path \in DOMAIN fieldMap =>
        getByTokens[source][fieldMap[path]] \in {Missing} \cup JsonTo[room]
  BY <1>1, <1>2, GetType
<1>4. path \in DOMAIN defaults => defaults[path] \in JsonTo[room]
  BY RoomIs DEF TypeOK
<1>5. ASSUME NEW v \in {Missing} \cup JsonTo[room]
      PROVE  Converted(path, v) \in {Missing} \cup JsonTo[room]
  <2>1. \A w \in JsonTo[room] :
          convertPathValue(w, Types[path]) \in {Missing} \cup JsonTo[room]
    BY <1>1, ConvertIn
  <2> QED BY <1>5, <2>1, MissingNotJson DEF Converted
<1>6. Mapped(path) \in {Missing} \cup JsonTo[room]
  BY <1>3, <1>5 DEF Mapped
<1>7. Constant(path) \in {Missing} \cup JsonTo[room]
  BY <1>4, <1>5 DEF Constant
<1> QED BY <1>3, <1>4, <1>6, <1>7

LEMMA NowIn ==
    ASSUME TypeOK, NEW path \in Official
    PROVE  /\ MappedNow(path) \in {Missing} \cup JsonTo[room]
           /\ ConstantNow(path) \in {Missing} \cup JsonTo[room]
  BY ValuesOf DEF MappedNow, ConstantNow

\* Writing a value at a path leaves the other paths as they are.
LEMMA WritesApart ==
    ASSUME MapInv, phase # "failed", NEW path \in Official, NEW v \in JsonTo[room],
           NEW f, f = setByTokens[path][target][v]
    PROVE  /\ f \in FieldsTo(MaxDepth - 1)
           /\ \A k \in FieldNames : Found(f[k]) => \E p \in Official : k = Head(p).name
           /\ \A q \in Official \ {path} : Holds(f, q, ConstantNow(q), MappedNow(q))
<1>1. Shaped(path) /\ path \in TokenPaths /\ Room(MaxDepth - 1, room, path)
  BY RoomIs DEF Shaped
<1>2. target \in FieldsTo(MaxDepth - 1)
  BY DEF MapInv
<1>3. /\ f \in FieldsTo(MaxDepth - 1)
      /\ \A k \in FieldNames \ {Head(path).name} : f[k] = target[k]
  BY <1>1, <1>2, SetList
<1>4. \A k \in FieldNames : Found(f[k]) => \E p \in Official : k = Head(p).name
  BY <1>3 DEF MapInv, TypeOK
<1>5. ASSUME NEW q \in Official \ {path}
      PROVE  Holds(f, q, ConstantNow(q), MappedNow(q))
  <2>1. Shaped(q) /\ Apart(path, q)
    BY RoomIs, MappingAssumption
  <2>2. Holds(target, q, ConstantNow(q), MappedNow(q))
    BY DEF MapInv, Built
  <2>3. /\ ConstantNow(q) \in {Missing} \cup JsonTo[room]
        /\ MappedNow(q) \in {Missing} \cup JsonTo[room]
    BY NowIn DEF MapInv
  <2> QED BY <1>1, <1>2, <2>1, <2>2, <2>3, HoldsApart
<1> QED BY <1>3, <1>4, <1>5

\* The rule for a mapped value that is written where nothing is, and for a default
\* that is written over it.
LEMMA ListsWritten ==
    ASSUME NEW n \in 0..MaxDepth, NEW p \in TokenPaths, NEW v \in JsonTo[n],
           NEW w \in {Missing} \cup JsonTo[n]
    PROVE  /\ Found(v) /\ ~Found(Missing)
           /\ ListOf(p, Missing, v) = IF Tail(p) = <<>> THEN ListValues(v)
                                      ELSE Over(ListValues(v), List(Missing))
           /\ ListOf(p, v, w) = IF Tail(p) = <<>> THEN ListValues(v)
                                ELSE Over(ListValues(v), List(w))
<1>1. Found(v) /\ ~Found(Missing) /\ List(v) = ListValues(v) /\ List(Missing) = <<>>
  BY ListIn, InJson, Parts, MissingNotJson
<1>2. ListValues(v) \in Seq(JsonTo[n]) /\ Len(ListValues(v)) \in Nat
  BY ValuesIn
<1>3. Over(ListValues(v), <<>>) = ListValues(v)
  <2>1. ASSUME NEW s \in Seq(JsonTo[n]) PROVE Over(s, <<>>) = s
    <3>1. SubSeq(<<>>, Len(s) + 1, Len(<<>>)) = <<>>
      OBVIOUS
    <3> QED BY <3>1 DEF Over
  <2> QED BY <1>2, <2>1
<1>4. ListOf(p, Missing, v) = ListValues(v)
  <2>1. Missing \in {Missing} \cup JsonTo[n] /\ v \in {Missing} \cup JsonTo[n]
    OBVIOUS
  <2> QED BY <1>1, <2>1, ListOfIn
<1>5. Tail(p) = <<>> <=> Len(p) = 1
  BY PathParts
<1>6. ListOf(p, v, w) = IF Tail(p) = <<>> THEN ListValues(v) ELSE Over(ListValues(v), List(w))
  BY <1>1, <1>5 DEF ListOf
<1> QED BY <1>1, <1>3, <1>4, <1>6

LEMMA WritesMapped ==
    ASSUME MapInv, phase = "fields", NEW path \in Official, path \in pending,
           NEW v \in JsonTo[room]
    PROVE  Holds(setByTokens[path][target][v], path, Missing, v)
<1>1. Shaped(path) /\ path \in TokenPaths /\ Room(MaxDepth - 1, room, path)
      /\ room \in 0..MaxDepth
  BY RoomIs DEF Shaped
<1>2. Holds(target, path, Missing, Missing) /\ target \in FieldsTo(MaxDepth - 1)
  BY DEF MapInv, Built, ConstantNow, MappedNow
<1>3. /\ Found(v) /\ ~Found(Missing)
      /\ ListOf(path, Missing, v) = IF Tail(path) = <<>> THEN ListValues(v)
                                    ELSE Over(ListValues(v), List(Missing))
  BY <1>1, ListsWritten
<1>4. v = IF Found(Missing) THEN Missing ELSE v
  BY <1>3
<1>5. Missing \in {Missing} \cup JsonTo[room]
  OBVIOUS
<1> QED BY <1>1, <1>2, <1>3, <1>4, <1>5, HoldsOwn

LEMMA WritesDefault ==
    ASSUME MapInv, phase = "defaults", NEW path \in Official, path \in pending,
           NEW v \in JsonTo[room]
    PROVE  Holds(setByTokens[path][target][v], path, v, Mapped(path))
<1>1. Shaped(path) /\ path \in TokenPaths /\ Room(MaxDepth - 1, room, path)
      /\ room \in 0..MaxDepth
  BY RoomIs DEF Shaped
<1>2. Holds(target, path, Missing, Mapped(path)) /\ target \in FieldsTo(MaxDepth - 1)
  BY DEF MapInv, Built, ConstantNow, MappedNow
<1>3. Mapped(path) \in {Missing} \cup JsonTo[room]
  BY ValuesOf DEF MapInv
<1>4. /\ Found(v)
      /\ ListOf(path, v, Mapped(path)) = IF Tail(path) = <<>> THEN ListValues(v)
                                         ELSE Over(ListValues(v), List(Mapped(path)))
  BY <1>1, <1>3, ListsWritten
<1>5. v = IF Found(v) THEN v ELSE Mapped(path)
  BY <1>4
<1> QED BY <1>1, <1>2, <1>3, <1>4, <1>5, HoldsOwn

----------------------------------------------------------------------------

LEMMA MapInvInit == Init => MapInv
<1> SUFFICES ASSUME Init PROVE MapInv
  OBVIOUS
<1>1. MaxDepth > 0 /\ MaxDepth - 1 \in 0..MaxDepth
  BY RoomIs
<1>2. \A R, S : \A f \in Partial(R, S) : DOMAIN f \subseteq R /\ f \in [DOMAIN f -> S]
  BY DEF Partial
<1>3. target \in FieldsTo(MaxDepth - 1)
  BY <1>1, FieldsIn DEF Init
<1>4. TypeOK
  <2>1. Obj(target) \in Json
    BY <1>1, NothingThere DEF Init
  <2>2. \A k \in FieldNames : ~Found(target[k])
    BY MissingNotJson DEF Init, NoFields
  <2> QED BY <1>2, <2>1, <2>2 DEF Init, TypeOK
<1>5. Control
  BY DEF Init, Control
<1>6. Built
  <2> SUFFICES ASSUME NEW path \in Official
               PROVE  /\ Holds(target, path, ConstantNow(path), MappedNow(path))
                      /\ path \in DOMAIN fieldMap /\ path \notin pending
                           => \/ ~Found(getByTokens[source][fieldMap[path]])
                              \/ Found(Mapped(path))
    BY DEF Built, Init
  <2>1. ConstantNow(path) = Missing /\ MappedNow(path) = Missing
    <3>1. path \notin pending => path \notin DOMAIN fieldMap
      BY DEF Init
    <3>2. path \notin DOMAIN fieldMap => Mapped(path) = Missing
      BY MissingNotJson DEF Mapped, Converted
    <3> QED BY <3>1, <3>2 DEF Init, ConstantNow, MappedNow
  <2>2. path \in TokenPaths
    BY RoomIs DEF Shaped
  <2>3. Holds(NoFields, path, Missing, Missing)
    BY <1>1, <2>2, HoldsAtFirst
  <2> QED BY <2>1, <2>3 DEF Init
<1> QED BY <1>3, <1>4, <1>5, <1>6 DEF MapInv

\* Nothing but the phase, the paths to visit and the answer change, and with the rule
\* what it makes stays the same.
LEMMA RuleStays ==
    ASSUME UNCHANGED <<source, fieldMap, defaults>>
    PROVE  /\ \A path : Mapped(path)' = Mapped(path) /\ Constant(path)' = Constant(path)
           /\ \A path : getByTokens[source'][fieldMap'[path]]
                          = getByTokens[source][fieldMap[path]]
  BY DEF Mapped, Constant, Converted

\* One path has been visited; what it should hold now is there.
LEMMA Visited ==
    ASSUME MapInv, phase \in {"fields", "defaults"}, NEW path \in pending,
           pending' = pending \ {path},
           UNCHANGED <<source, fieldMap, defaults, phase>>,
           target' \in FieldsTo(MaxDepth - 1),
           \A k \in FieldNames : Found(target'[k]) => \E p \in Official : k = Head(p).name,
           \A q \in Official \ {path} : Holds(target', q, ConstantNow(q), MappedNow(q)),
           Holds(target', path, IF phase = "fields" THEN Missing ELSE Constant(path),
                                Mapped(path)),
           phase = "fields" => \/ ~Found(getByTokens[source][fieldMap[path]])
                               \/ Found(Mapped(path))
    PROVE  MapInv'
<1>1. TypeOK'
  <2>1. Obj(target') \in Json
    <3>1. MaxDepth \in 0..MaxDepth /\ MaxDepth > 0
      BY RoomIs, DepthAssumption
    <3> QED BY <3>1, FieldsIn DEF Json
  <2> QED BY <2>1 DEF TypeOK, MapInv
<1>2. Control'
  BY DEF Control, MapInv
<1>3. Built'
  <2>1. /\ \A q : Mapped(q)' = Mapped(q) /\ Constant(q)' = Constant(q)
        /\ \A q : getByTokens[source'][fieldMap'[q]] = getByTokens[source][fieldMap[q]]
    BY RuleStays
  <2> SUFFICES ASSUME NEW q \in Official
               PROVE  /\ Holds(target', q, ConstantNow(q)', MappedNow(q)')
                      /\ q \in DOMAIN fieldMap' /\ ~(phase' = "fields" /\ q \in pending')
                           => \/ ~Found(getByTokens[source'][fieldMap'[q]])
                              \/ Found(Mapped(q)')
    BY DEF Built, Holds, ItemsAt
  <2>2. CASE q = path
    <3>1. MappedNow(path)' = Mapped(path)
      BY <2>1 DEF MappedNow
    <3>2. ConstantNow(path)' = IF phase = "fields" THEN Missing ELSE Constant(path)
      BY <2>1 DEF ConstantNow
    <3>3. phase = "defaults" /\ path \in DOMAIN fieldMap =>
            \/ ~Found(getByTokens[source][fieldMap[path]])
            \/ Found(Mapped(path))
      BY <2>2 DEF MapInv, Built
    <3> QED BY <2>1, <2>2, <3>1, <3>2, <3>3
  <2>3. CASE q # path
    <3>1. MappedNow(q)' = MappedNow(q) /\ ConstantNow(q)' = ConstantNow(q)
      BY <2>1, <2>3 DEF MappedNow, ConstantNow
    <3>2. q \in DOMAIN fieldMap /\ ~(phase = "fields" /\ q \in pending)
            => \/ ~Found(getByTokens[source][fieldMap[q]]) \/ Found(Mapped(q))
      BY DEF MapInv, Built
    <3> QED BY <2>1, <2>3, <3>1, <3>2
  <2> QED BY <2>2, <2>3
<1> QED BY <1>1, <1>2, <1>3 DEF MapInv

\* A step that fails keeps the types; nothing is said of the answer then.
LEMMA Failing ==
    ASSUME MapInv, Fail
    PROVE  MapInv'
  BY DEF MapInv, TypeOK, Fail, Control, Built

LEMMA MapFieldStep ==
    ASSUME MapInv, NEW path \in Official, MapField(path)
    PROVE  MapInv'
<1> DEFINE value == getByTokens[source][fieldMap[path]]
           new == convertPathValue(value, Types[path])
<1>1. phase = "fields" /\ path \in pending /\ path \in DOMAIN fieldMap
  BY DEF MapField, MapInv, Control
<1>2. Mapped(path) = IF Found(value) THEN new ELSE Missing
  BY <1>1 DEF Mapped, Converted
<1>3. \/ Fail
      \/ /\ Found(value) /\ Found(new)
         /\ target' = setByTokens[path][target][new]
         /\ pending' = pending \ {path}
         /\ UNCHANGED <<source, fieldMap, defaults, phase>>
      \/ /\ ~Found(value)
         /\ pending' = pending \ {path}
         /\ UNCHANGED <<source, fieldMap, defaults, target, phase>>
  BY DEF MapField, Put
<1>4. CASE Fail
  BY <1>4, Failing
<1>5. CASE /\ Found(value) /\ Found(new)
           /\ target' = setByTokens[path][target][new]
           /\ pending' = pending \ {path}
           /\ UNCHANGED <<source, fieldMap, defaults, phase>>
  <2>1. Mapped(path) = new /\ new \in JsonTo[room]
    <3>1. Mapped(path) \in {Missing} \cup JsonTo[room]
      BY ValuesOf DEF MapInv
    <3> QED BY <1>2, <1>5, <3>1, MissingNotJson
  <2> HIDE DEF new, value
  <2>2. /\ target' \in FieldsTo(MaxDepth - 1)
        /\ \A k \in FieldNames : Found(target'[k]) => \E p \in Official : k = Head(p).name
        /\ \A q \in Official \ {path} : Holds(target', q, ConstantNow(q), MappedNow(q))
    BY <1>1, <1>5, <2>1, WritesApart
  <2>3. Holds(target', path, Missing, Mapped(path))
    BY <1>1, <1>5, <2>1, WritesMapped
  <2> QED BY <1>1, <1>5, <2>1, <2>2, <2>3, Visited
<1>6. CASE /\ ~Found(value)
           /\ pending' = pending \ {path}
           /\ UNCHANGED <<source, fieldMap, defaults, target, phase>>
  <2>1. Mapped(path) = Missing
    BY <1>2, <1>6
  <2>2. \A q \in Official : Holds(target', q, ConstantNow(q), MappedNow(q))
    BY <1>1, <1>6 DEF MapInv, Built
  <2>3. Holds(target', path, Missing, Mapped(path))
    BY <1>1, <2>1, <2>2 DEF ConstantNow, MappedNow
  <2>4. /\ target' \in FieldsTo(MaxDepth - 1)
        /\ \A k \in FieldNames : Found(target'[k]) => \E p \in Official : k = Head(p).name
    BY <1>6 DEF MapInv, TypeOK
  <2>5. ~Found(getByTokens[source][fieldMap[path]])
    BY <1>6
  <2> QED BY <1>1, <1>6, <2>2, <2>3, <2>4, <2>5, Visited
<1> QED BY <1>3, <1>4, <1>5, <1>6

LEMMA ApplyDefaultStep ==
    ASSUME MapInv, NEW path \in Official, ApplyDefault(path)
    PROVE  MapInv'
<1> DEFINE new == convertPathValue(defaults[path], Types[path])
<1>1. phase = "defaults" /\ path \in pending /\ path \in DOMAIN defaults
  BY DEF ApplyDefault, MapInv, Control
<1>2. Constant(path) = new
  <2>1. defaults[path] \in JsonTo[room]
    BY <1>1, ValuesOf DEF MapInv
  <2>2. Found(defaults[path])
    BY <2>1, RoomIs, InJson, Parts
  <2> QED BY <1>1, <2>2 DEF Constant, Converted
<1>3. CASE Found(new)
  <2>1. /\ target' = setByTokens[path][target][new]
        /\ pending' = pending \ {path}
        /\ UNCHANGED <<source, fieldMap, defaults, phase>>
    BY <1>3 DEF ApplyDefault, Put
  <2>2. new \in JsonTo[room]
    <3>1. Constant(path) \in {Missing} \cup JsonTo[room]
      BY ValuesOf DEF MapInv
    <3> QED BY <1>2, <1>3, <3>1, MissingNotJson
  <2> HIDE DEF new
  <2>3. /\ target' \in FieldsTo(MaxDepth - 1)
        /\ \A k \in FieldNames : Found(target'[k]) => \E p \in Official : k = Head(p).name
        /\ \A q \in Official \ {path} : Holds(target', q, ConstantNow(q), MappedNow(q))
    BY <1>1, <2>1, <2>2, WritesApart
  <2>4. Holds(target', path, Constant(path), Mapped(path))
    BY <1>1, <1>2, <2>1, <2>2, WritesDefault
  <2>5. phase # "fields"
    BY <1>1
  <2> QED BY <1>1, <2>1, <2>3, <2>4, <2>5, Visited
<1>4. CASE ~Found(new)
  <2>1. Fail
    BY <1>4 DEF ApplyDefault, Put
  <2> QED BY <2>1, Failing
<1> QED BY <1>3, <1>4

\* Between the loops, and after them, all paths have been visited.
LEMMA TurnStep ==
    ASSUME MapInv, FieldsDone \/ Finish
    PROVE  MapInv'
<1>1. UNCHANGED <<source, fieldMap, defaults, target>> /\ pending = {}
      /\ \/ phase = "fields" /\ phase' = "defaults" /\ pending' = DOMAIN defaults
         \/ phase = "defaults" /\ phase' = "done" /\ pending' = {}
  BY DEF FieldsDone, Finish
<1>2. TypeOK' /\ Control' /\ target' \in FieldsTo(MaxDepth - 1)
  <2>1. Defaulted \subseteq Official
    BY MappingAssumption
  <2> QED BY <1>1, <2>1 DEF MapInv, TypeOK, Control
<1>3. Built'
  <2>1. /\ \A q : Mapped(q)' = Mapped(q) /\ Constant(q)' = Constant(q)
        /\ \A q : getByTokens[source'][fieldMap'[q]] = getByTokens[source][fieldMap[q]]
    BY <1>1, RuleStays
  <2> SUFFICES ASSUME NEW q \in Official
               PROVE  /\ Holds(target', q, ConstantNow(q)', MappedNow(q)')
                      /\ q \in DOMAIN fieldMap' /\ ~(phase' = "fields" /\ q \in pending')
                           => \/ ~Found(getByTokens[source'][fieldMap'[q]])
                              \/ Found(Mapped(q)')
    BY DEF Built, Holds, ItemsAt
  <2>2. MappedNow(q)' = MappedNow(q) /\ ConstantNow(q)' = ConstantNow(q)
    <3>1. q \notin DOMAIN defaults => Constant(q) = Missing
      BY MissingNotJson DEF Constant, Converted
    <3> QED BY <1>1, <2>1, <3>1 DEF MappedNow, ConstantNow
  <2>3. /\ Holds(target, q, ConstantNow(q), MappedNow(q))
        /\ q \in DOMAIN fieldMap
             => \/ ~Found(getByTokens[source][fieldMap[q]]) \/ Found(Mapped(q))
    BY <1>1 DEF MapInv, Built
  <2> QED BY <1>1, <2>1, <2>2, <2>3
<1> QED BY <1>2, <1>3 DEF MapInv

LEMMA MapInvStep == MapInv /\ [Next]_vars => MapInv'
<1> SUFFICES ASSUME MapInv, [Next]_vars PROVE MapInv'
  OBVIOUS
<1>1. ASSUME NEW path \in Official, MapField(path) PROVE MapInv'
  BY <1>1, MapFieldStep
<1>2. ASSUME NEW path \in Official, ApplyDefault(path) PROVE MapInv'
  BY <1>2, ApplyDefaultStep
<1>3. CASE FieldsDone \/ Finish
  BY <1>3, TurnStep
<1>4. CASE UNCHANGED vars
  <2>1. UNCHANGED <<source, fieldMap, defaults, pending, target, phase>>
    BY <1>4 DEF vars
  <2>2. /\ \A q : Mapped(q)' = Mapped(q) /\ Constant(q)' = Constant(q)
        /\ \A q : getByTokens[source'][fieldMap'[q]] = getByTokens[source][fieldMap[q]]
    BY <2>1, RuleStays
  <2>3. \A q : MappedNow(q)' = MappedNow(q) /\ ConstantNow(q)' = ConstantNow(q)
    BY <2>1, <2>2 DEF MappedNow, ConstantNow
  <2>4. Built'
    <3> SUFFICES ASSUME phase' # "failed", NEW q \in Official
                 PROVE  /\ Holds(target', q, ConstantNow(q)', MappedNow(q)')
                        /\ q \in DOMAIN fieldMap' /\ ~(phase' = "fields" /\ q \in pending')
                             => \/ ~Found(getByTokens[source'][fieldMap'[q]])
                                \/ Found(Mapped(q)')
      BY DEF Built, Holds, ItemsAt
    <3> QED BY <2>1, <2>2, <2>3 DEF MapInv, Built
  <2> QED BY <2>1, <2>4 DEF MapInv, TypeOK, Control
<1> QED BY <1>1, <1>2, <1>3, <1>4 DEF Next

\* With nothing configured the answer of the mapping is never looked at.
LEMMA MapInvFirst == AInit => MapInv
<1> SUFFICES ASSUME AInit PROVE MapInv
  OBVIOUS
<1>1. CASE Init
  BY <1>1, MapInvInit
<1>3. source \in Sources
  BY AnswerAssumption DEF AInit
<1>2. CASE /\ fieldMap = [p \in {} |-> <<>>] /\ defaults = [p \in {} |-> Null]
           /\ target = NoFields
           /\ pending = {} /\ phase = "done"
  <2>1. MaxDepth > 0 /\ MaxDepth - 1 \in 0..MaxDepth
    BY RoomIs
  <2>2. DOMAIN fieldMap = {} /\ DOMAIN defaults = {}
    BY <1>2
  <2>3. target \in FieldsTo(MaxDepth - 1)
    BY <1>2, <2>1, FieldsIn
  <2>4. TypeOK
    <3>1. Obj(target) \in Json
      BY <1>2, <2>1, NothingThere
    <3>2. \A k \in FieldNames : ~Found(target[k])
      BY <1>2, MissingNotJson DEF NoFields
    <3>3. fieldMap \in [DOMAIN fieldMap -> Upstream]
          /\ defaults \in [DOMAIN defaults -> Values]
      BY <1>2
    <3> QED BY <1>2, <1>3, <2>2, <3>1, <3>2, <3>3 DEF TypeOK
  <2>5. Built
    <3> SUFFICES ASSUME NEW path \in Official
                 PROVE  Holds(target, path, ConstantNow(path), MappedNow(path))
      BY <2>2 DEF Built
    <3>1. ConstantNow(path) = Missing /\ MappedNow(path) = Missing
      <4>1. Mapped(path) = Missing /\ Constant(path) = Missing
        BY <2>2, MissingNotJson DEF Mapped, Constant, Converted
      <4> QED BY <4>1 DEF ConstantNow, MappedNow
    <3>2. path \in TokenPaths
      BY RoomIs DEF Shaped
    <3>3. Holds(NoFields, path, Missing, Missing)
      BY <2>1, <3>2, HoldsAtFirst
    <3> QED BY <1>2, <3>1, <3>3
  <2> QED BY <1>2, <2>3, <2>4, <2>5 DEF MapInv, Control
<1> QED BY <1>1, <1>2 DEF AInit

LEMMA MapInvNext == MapInv /\ [ANext]_avars => MapInv'
<1> SUFFICES ASSUME MapInv, [ANext]_avars PROVE MapInv'
  OBVIOUS
<1>1. [Next]_vars
  BY DEF ANext, avars, Reply
<1> QED BY <1>1, MapInvStep

LEMMA MapInvAlways == ASpec => []MapInv
<1> QED BY MapInvFirst, MapInvNext, PTL DEF ASpec

----------------------------------------------------------------------------

\* The bodies, rules and answers of the mapping have their types; what it writes stays
\* within the names of the official paths (response.go:36-71).
THEOREM Typed == ASpec => []TypeOK
<1>1. MapInv => TypeOK
  BY DEF MapInv
<1> QED BY <1>1, MapInvAlways, PTL

\* For every body and rule and in whatever order the loops take the paths, each official
\* path holds what the rule says of it at the end (response.go:36-71, 156-198).
THEOREM AnswerDelivers == ASpec => []Delivered
<1>1. MapInv => Delivered
  <2> SUFFICES ASSUME MapInv, phase = "done", NEW path \in Official
               PROVE  Answered(path) = Expected(path)
    BY DEF Delivered
  <2>1. Holds(target, path, Constant(path), Mapped(path))
    BY DEF MapInv, Built, ConstantNow, MappedNow
  <2>2. /\ Constant(path) \in {Missing} \cup JsonTo[room]
        /\ Mapped(path) \in {Missing} \cup JsonTo[room]
    BY ValuesOf DEF MapInv
  <2>3. /\ Shaped(path) /\ room \in 0..MaxDepth /\ MaxDepth - 1 \in 0..MaxDepth - 1
        /\ target \in FieldsTo(MaxDepth - 1)
    BY RoomIs DEF MapInv, Room
  <2> QED BY <2>1, <2>2, <2>3, HoldsGives DEF Answered, Expected
<1> QED BY <1>1, MapInvAlways, PTL

\* The list that an array gives when each of its items has the rest of the path.
LEMMA AllPresent ==
    ASSUME NEW v \in Json, NEW a \in Seq(Tokens), a # <<>>, a[1].array,
           NEW items, items = Items(Field(v, a[1].name)),
           \A i \in DOMAIN items : Found(getByTokens[items[i]][Tail(a)])
    PROVE  /\ DOMAIN items = 1..Len(items) /\ Len(items) \in Nat
           /\ items # <<>> =>
                getByTokens[v][a]
                  = Arr([i \in 1..Len(items) |-> getByTokens[items[i]][Tail(a)]])
<1> DEFINE next == Field(v, a[1].name)
           all == [i \in DOMAIN items |-> getByTokens[items[i]][Tail(a)]]
<1>1. a[1] = Head(a) /\ Head(a).name \in FieldNames /\ Head(a).array
  BY PathParts DEF TokenPaths
<1>2. CASE next.t # "arr"
  BY <1>2 DEF Items
<1>3. CASE next.t = "arr"
  <2>1. Found(next) /\ v.t = "obj" /\ next = v.f[Head(a).name] /\ next \in Json
    <3>1. Found(next)
      BY <1>3 DEF Found
    <3> QED BY <1>1, <3>1, Step
  <2>2. items = next.q /\ DOMAIN items = 1..Len(items) /\ Len(items) \in Nat
    <3>1. next.q \in Seq(Json)
      BY <1>3, <2>1, Parts
    <3>2. items = next.q
      BY <1>3 DEF Items
    <3> QED BY <3>1, <3>2
  <2>3. getByTokens[v][a] = Collected(all)
    <3>1. next = Field(v, Head(a).name) /\ v.t # "arr"
      BY <1>1, <2>1
    <3> HIDE DEF next
    <3>2. getByTokens[v][a]
            = Collected([i \in DOMAIN next.q |-> getByTokens[next.q[i]][Tail(a)]])
      BY <1>1, <1>3, <2>1, <3>1, GetEach
    <3> QED BY <2>2, <3>2
  <2>4. Present(all) = [i \in 1..Len(items) |-> all[i]]
    <3> DEFINE N == Len(items)
    <3>1. DOMAIN all = 1..N /\ N \in Nat
      BY <2>2
    <3>2. \A i \in 1..N : Found(all[i])
      BY <2>2
    <3> HIDE DEF all, N
    <3>3. N \in 0..N /\ \A i \in 1..N : Found(all[i]) <=> i <= N
      BY <3>1, <3>2
    <3>4. Present(all) = [i \in 1..N |-> all[i]]
      BY <3>1, <3>3, PresentFirst
    <3> QED BY <3>4 DEF N
  <2>5. [i \in 1..Len(items) |-> all[i]]
          = [i \in 1..Len(items) |-> getByTokens[items[i]][Tail(a)]]
    BY <2>2
  <2>6. ASSUME items # <<>>
        PROVE  [i \in 1..Len(items) |-> all[i]] # <<>>
    <3>1. 1 \in 1..Len(items)
      BY <2>2, <2>6, EmptySeq
    <3> QED BY <3>1
  <2> HIDE DEF all
  <2>7. items # <<>> => getByTokens[v][a] = Arr(Present(all))
    BY <2>3, <2>4, <2>6 DEF Collected
  <2> QED BY <2>2, <2>4, <2>5, <2>7
<1> QED BY <1>2, <1>3

\* Each item of an official array is made of the item at its place upstream.
UpstreamItems(p) == Items(Field(source, fieldMap[p][1].name))

\* Item i of the official array has at p what item i of the upstream array has.
ItemMapped(p, i) ==
    getByTokens[Items(target[p[1].name])[i]][Tail(p)]
      = convertSingleValue(getByTokens[UpstreamItems(p)[i]][Tail(fieldMap[p])], Types[p])

AlignedAt(p) ==
    /\ phase = "done" /\ fieldMap[p] # <<>> /\ fieldMap[p][1].array /\ p[1].array
    /\ \A i \in DOMAIN UpstreamItems(p) :
         Found(getByTokens[UpstreamItems(p)[i]][Tail(fieldMap[p])])
    => \A i \in DOMAIN UpstreamItems(p) : ItemMapped(p, i)

LEMMA AlignedAlone ==
    ASSUME MapInv, NEW p \in DOMAIN fieldMap \ DOMAIN defaults
    PROVE  AlignedAt(p)
<1> SUFFICES ASSUME phase = "done", NEW a, a = fieldMap[p], a # <<>>, a[1].array, p[1].array,
                    NEW items, items = Items(Field(source, a[1].name)),
                    \A i \in DOMAIN items : Found(getByTokens[items[i]][Tail(a)])
             PROVE  \A i \in DOMAIN items :
                      getByTokens[Items(target[p[1].name])[i]][Tail(p)]
                        = convertSingleValue(getByTokens[items[i]][Tail(a)], Types[p])
  BY Zenon DEF AlignedAt, ItemMapped, UpstreamItems
<1> DEFINE all == [i \in 1..Len(items) |-> getByTokens[items[i]][Tail(a)]]
           list == List(Mapped(p))
<1> SUFFICES ASSUME NEW i \in DOMAIN items
             PROVE  getByTokens[Items(target[p[1].name])[i]][Tail(p)]
                      = convertSingleValue(all[i], Types[p]) /\ i \in 1..Len(items)
  OBVIOUS
<1>1. /\ p \in Official /\ p \in TokenPaths /\ Shaped(p) /\ p[1] = Head(p) /\ Head(p).array
      /\ room \in 0..MaxDepth
  <2>1. p \in Official
    BY DEF MapInv, TypeOK
  <2> QED BY <2>1, RoomIs, PathParts DEF Shaped
<1>2. source \in Json /\ a \in Seq(Tokens)
  BY <1>1, RoomIs, InJson, MappingAssumption DEF MapInv, TypeOK
<1>3. /\ DOMAIN items = 1..Len(items) /\ Len(items) \in Nat
      /\ items # <<>> => getByTokens[source][a] = Arr(all)
  <2> DEFINE v == source
  <2>1. v \in Json /\ a \in Seq(Tokens) /\ a # <<>> /\ a[1].array
        /\ items = Items(Field(v, a[1].name))
        /\ \A j \in DOMAIN items : Found(getByTokens[items[j]][Tail(a)])
    BY <1>2
  <2> HIDE DEF v
  <2>2. /\ DOMAIN items = 1..Len(items) /\ Len(items) \in Nat
        /\ items # <<>> => getByTokens[v][a] = Arr(all)
    BY <2>1, AllPresent, Zenon
  <2> QED BY <2>2 DEF v
<1>4. getByTokens[source][a] = Arr(all)
  <2>1. items # <<>>
    OBVIOUS
  <2> QED BY <1>3, <2>1, Zenon
<1>5. Found(Arr(all)) /\ Arr(all).t = "arr" /\ Arr(all).q = all
  BY DEF Arr, Found
<1> HIDE DEF all
<1>6. Mapped(p) = convertPathValue(Arr(all), Types[p]) /\ Found(Mapped(p))
  <2>1. Found(getByTokens[source][fieldMap[p]])
    BY <1>4, <1>5
  <2>2. Found(Mapped(p))
    BY <1>1, <2>1 DEF MapInv, Built
  <2> QED BY <1>4, <2>1, <2>2 DEF Mapped, Converted
<1>7. Mapped(p) = Arr(Mapped(p).q) /\ DOMAIN Mapped(p).q = 1..Len(items)
      /\ \A j \in 1..Len(items) : Mapped(p).q[j] = convertSingleValue(all[j], Types[p])
  <2>1. DOMAIN all = 1..Len(items)
    BY DEF all
  <2>2. CASE Types[p] = ""
    <3>1. Mapped(p) = Arr(all)
      BY <1>5, <1>6, <2>2 DEF convertPathValue, convertSingleValue
    <3>2. \A x : convertSingleValue(x, Types[p]) = x
      BY <2>2 DEF convertSingleValue
    <3> QED BY <1>5, <2>1, <3>1, <3>2
  <2>3. CASE Types[p] # ""
    <3>1. Arr(all) \in JsonTo[room]
      <4>1. getByTokens[source][fieldMap[p]] \in {Missing} \cup JsonTo[room]
        BY <1>1, ValuesOf DEF MapInv
      <4> QED BY <1>4, <1>5, <4>1, MissingNotJson
    <3>2. Mapped(p)
            = Arr([j \in DOMAIN all |-> convertSingleValue(all[j], Types[p])])
      <4> DEFINE u == Arr(all)
      <4>1. u \in JsonTo[room] /\ u.t = "arr" /\ u.q = all
            /\ Found(convertPathValue(u, Types[p]))
        BY <1>5, <1>6, <3>1
      <4> HIDE DEF u
      <4>2. convertPathValue(u, Types[p])
              = Arr([j \in DOMAIN u.q |-> convertSingleValue(u.q[j], Types[p])])
        BY <1>1, <2>3, <4>1, ConvertIn
      <4> QED BY <1>6, <4>1, <4>2 DEF u
    <3> QED BY <2>1, <3>2 DEF Arr
  <2> QED BY <2>2, <2>3
<1>8. list = Mapped(p).q /\ i \in DOMAIN list
  BY <1>3, <1>7 DEF List, Arr
<1>9. Holds(target, p, Missing, Mapped(p)) /\ ListOf(p, Missing, Mapped(p)) = list
  <2>1. Constant(p) = Missing
    BY MissingNotJson DEF Constant, Converted
  <2>2. Holds(target, p, Constant(p), Mapped(p))
    BY <1>1 DEF MapInv, Built, ConstantNow, MappedNow
  <2>3. Mapped(p) \in {Missing} \cup JsonTo[room]
    BY <1>1, ValuesOf DEF MapInv
  <2>4. ListOf(p, Missing, Mapped(p)) = list
    <3>1. Missing \in {Missing} \cup JsonTo[room]
      OBVIOUS
    <3> QED BY <1>1, <2>3, <3>1, ListOfIn
  <2> QED BY <2>1, <2>2, <2>4
<1> HIDE DEF list
<1>10. ItemsAt(target, p) = Items(target[p[1].name])
  BY <1>1 DEF ItemsAt
<1>11. CASE Tail(p) = <<>>
  <2>1. ItemsAt(target, p)[i] = list[i]
    BY <1>1, <1>9, <1>11 DEF Holds
  <2>2. list[i] \in Json
    <3>1. Mapped(p) \in JsonTo[room]
      <4>1. Mapped(p) \in {Missing} \cup JsonTo[room]
        BY <1>1, ValuesOf DEF MapInv
      <4> QED BY <1>6, <4>1, MissingNotJson
    <3>2. room > 0 /\ room - 1 \in 0..MaxDepth
          /\ \A j \in DOMAIN Mapped(p).q : Mapped(p).q[j] \in JsonTo[room - 1]
      <4>1. Mapped(p).t = "arr"
        BY <1>7 DEF Arr
      <4> QED BY <1>1, <3>1, <4>1, ItemsOf
    <3> QED BY <1>8, <3>2, InJson
  <2>3. getByTokens[list[i]][Tail(p)] = list[i]
    <3>1. Tail(p) \in Seq(Tokens)
      BY <1>1, PathParts
    <3> QED BY <1>11, <2>2, <3>1, GetAt
  <2> QED BY <1>3, <1>7, <1>8, <1>10, <2>1, <2>3
<1>12. CASE Tail(p) # <<>>
  <2>1. Len(list) <= Len(ItemsAt(target, p))
        /\ \A j \in DOMAIN ItemsAt(target, p) :
             getByTokens[ItemsAt(target, p)[j]][Tail(p)]
               = IF j \in DOMAIN list THEN list[j] ELSE Missing
    BY <1>1, <1>9, <1>12 DEF Holds
  <2>2. i \in DOMAIN ItemsAt(target, p)
    <3>1. /\ DOMAIN ItemsAt(target, p) = 1..Len(ItemsAt(target, p))
          /\ Len(ItemsAt(target, p)) \in Nat
      <4>1. MaxDepth - 1 \in 0..MaxDepth /\ target \in FieldsTo(MaxDepth - 1)
        BY RoomIs DEF MapInv
      <4> QED BY <1>1, <4>1, PathParts, ItemsUnder DEF ItemsAt
    <3>2. DOMAIN list = 1..Len(items) /\ Len(list) = Len(items)
      <4>1. DOMAIN list = 1..Len(items) /\ list \in Seq(JsonTo[room])
        <5>1. Mapped(p) \in {Missing} \cup JsonTo[room]
          BY <1>1, ValuesOf DEF MapInv
        <5> QED BY <1>1, <1>7, <1>8, <5>1, ListIn DEF list
      <4> QED BY <1>3, <4>1
    <3> QED BY <1>3, <2>1, <3>1, <3>2
  <2> QED BY <1>3, <1>7, <1>8, <1>10, <2>1, <2>2
<1> QED BY <1>11, <1>12

\* The items of an official array and those of the upstream array it is made of go
\* together, if each of these has all the mapped fields (response.go:125-131, 179-188).
THEOREM AnswerAligns == ASpec => []Aligned
<1>1. MapInv => Aligned
  <2> SUFFICES ASSUME MapInv, NEW p \in DOMAIN fieldMap \ DOMAIN defaults,
                      NEW q \in DOMAIN fieldMap \ DOMAIN defaults
               PROVE  /\ phase = "done"
                      /\ fieldMap[p] # <<>> /\ fieldMap[q] # <<>>
                      /\ fieldMap[p][1] = fieldMap[q][1] /\ fieldMap[p][1].array
                      /\ p[1] = q[1] /\ p[1].array
                      /\ \A i \in DOMAIN UpstreamItems(p) :
                           /\ Found(getByTokens[UpstreamItems(p)[i]][Tail(fieldMap[p])])
                           /\ Found(getByTokens[UpstreamItems(p)[i]][Tail(fieldMap[q])])
                      => \A i \in DOMAIN UpstreamItems(p) :
                           /\ ItemMapped(p, i)
                           /\ getByTokens[Items(target[q[1].name])[i]][Tail(q)]
                                = convertSingleValue(
                                    getByTokens[UpstreamItems(p)[i]][Tail(fieldMap[q])],
                                    Types[q])
    BY Zenon DEF Aligned, UpstreamItems, ItemMapped
  <2>1. /\ fieldMap[p][1] = fieldMap[q][1] => UpstreamItems(p) = UpstreamItems(q)
        /\ p[1] = q[1] /\ p[1].array => q[1].array
        /\ fieldMap[p][1] = fieldMap[q][1] /\ fieldMap[p][1].array => fieldMap[q][1].array
    BY DEF UpstreamItems
  <2>2. AlignedAt(p) /\ AlignedAt(q)
    BY AlignedAlone
  <2> QED BY <2>1, <2>2 DEF AlignedAt, ItemMapped
<1> QED BY <1>1, MapInvAlways, PTL

----------------------------------------------------------------------------
(* Usage *)

\* One field of an object with another value is JSON again.
LEMMA FieldPut ==
    ASSUME NEW n \in 1..MaxDepth, NEW v \in JsonTo[n], v.t = "obj", NEW k \in FieldNames,
           NEW below \in JsonTo[n - 1], NEW w, w = [v EXCEPT !.f[k] = below]
    PROVE  w \in JsonTo[n] /\ Replaced(w, v, k, below)
<1>1. v = [t |-> "obj", f |-> v.f] /\ v.f \in [FieldNames -> {Missing} \cup JsonTo[n - 1]]
      /\ n \in 0..MaxDepth
  <2>1. n \in 0..MaxDepth
    BY DepthAssumption
  <2> QED BY <2>1, LevelCases
<1> DEFINE f == [v.f EXCEPT ![k] = below]
<1>2. f \in [FieldNames -> {Missing} \cup JsonTo[n - 1]]
  BY <1>1
<1>3. w = [t |-> "obj", f |-> f]
  BY <1>1
<1>4. Obj(f) = [t |-> "obj", f |-> f] /\ Obj(f) \in JsonTo[n]
  <2> HIDE DEF f
  <2>1. n > 0
    OBVIOUS
  <2> QED BY <1>1, <1>2, <2>1, ObjIs, IntoLevel
<1>5. f[k] = below /\ \A m \in FieldNames \ {k} : f[m] = v.f[m]
  BY <1>1
<1> HIDE DEF f
<1>6. w = Obj(f) /\ w.t = "obj" /\ w.f = f
  <2>1. w = Obj(f)
    BY <1>3, <1>4, Zenon
  <2>2. w.t = "obj" /\ w.f = f
    BY <1>3
  <2> QED BY <2>1, <2>2
<1>7. w \in JsonTo[n]
  BY <1>4, <1>6, Zenon
<1> QED BY <1>5, <1>6, <1>7, Zenon DEF Replaced

\* The recursive definition of decoding defines it.
DecodedDef(g, v) ==
    CASE v.t = "num" -> Num(Float[v.n])
      [] v.t = "arr" -> Arr([i \in DOMAIN v.q |-> g[v.q[i]]])
      [] v.t = "obj" -> Obj([k \in FieldNames |-> IF Found(v.f[k]) THEN g[v.f[k]]
                                                                 ELSE Missing])
      [] OTHER -> v

OverDecoded == INSTANCE Recursion WITH D <- Json, rank <- depth, Def <- DecodedDef

LEMMA DecodedOf == \A v \in Json : Decoded[v] = DecodedDef(Decoded, v)
<1>1. OverDecoded!LooksBelow
  <2> SUFFICES ASSUME NEW v \in Json, NEW g, NEW h,
                      \A w \in Json : depth[w] < depth[v] => g[w] = h[w]
               PROVE  DecodedDef(g, v) = DecodedDef(h, v)
    BY DEF OverDecoded!LooksBelow
  <2>1. v.t = "arr" => \A i \in DOMAIN v.q : g[v.q[i]] = h[v.q[i]]
    BY PartsBelow
  <2>2. v.t = "obj" => \A k \in FieldNames : Found(v.f[k]) => g[v.f[k]] = h[v.f[k]]
    BY PartsBelow
  <2> QED BY <2>1, <2>2 DEF DecodedDef
<1>2. \E g : g = [v \in Json |-> DecodedDef(g, v)]
  BY <1>1, Depths, OverDecoded!Recursive
<1>3. Decoded = [v \in Json |-> DecodedDef(Decoded, v)]
  BY <1>2 DEF Decoded, DecodedDef
<1> QED BY <1>3

\* A scalar stays one of its kind, and a number that has been rounded is not rounded
\* again.
LEMMA DecodedScalar ==
    \A v \in Scalar : /\ Decoded[v] \in Scalar /\ Decoded[v].t = v.t
                      /\ Decoded[Decoded[v]] = Decoded[v]
<1> SUFFICES ASSUME NEW v \in Scalar
             PROVE  /\ Decoded[v] \in Scalar /\ Decoded[v].t = v.t
                    /\ Decoded[Decoded[v]] = Decoded[v]
  OBVIOUS
<1>1. CASE v.t # "num"
  <2>1. Decoded[v] = v
    BY <1>1, ScalarKinds, DecodedOf DEF DecodedDef
  <2> QED BY <2>1
<1>2. CASE v.t = "num"
  <2>1. v.n \in Numbers
    BY <1>2 DEF Scalar, Null
  <2>2. /\ \A n \in Numbers : Num(n) \in Scalar
        /\ \A n : Num(n).t = "num" /\ Num(n).n = n
    BY DEF Num, Scalar
  <2>3. Float[v.n] \in Numbers /\ Float[Float[v.n]] = Float[v.n]
    BY <2>1, FloatAssumption
  <2>4. Decoded[v] = Num(Float[v.n])
    BY <1>2, ScalarKinds, DecodedOf DEF DecodedDef
  <2>5. Decoded[Num(Float[v.n])] = Num(Float[Float[v.n]])
    BY <2>2, <2>3, ScalarKinds, DecodedOf DEF DecodedDef
  <2> QED BY <1>2, <2>2, <2>3, <2>4, <2>5
<1> QED BY <1>1, <1>2

\* What is decoded is of the same kind, and no deeper.
LEMMA DecodedType ==
    \A v \in Json :
        /\ Decoded[v].t = v.t
        /\ \A n \in 0..MaxDepth : v \in JsonTo[n] => Decoded[v] \in JsonTo[n]
<1> DEFINE Good(v) == /\ Decoded[v].t = v.t
                      /\ \A n \in 0..MaxDepth : v \in JsonTo[n] => Decoded[v] \in JsonTo[n]
           T == {v \in Json : Good(v)}
<1>1. Scalar \subseteq T
  BY ScalarKinds, DecodedScalar, IntoLevel
<1>2. ASSUME NEW v \in Json, v.t = "arr", \A i \in DOMAIN v.q : v.q[i] \in T
      PROVE  v \in T
  <2>1. Decoded[v] = Arr([i \in DOMAIN v.q |-> Decoded[v.q[i]]])
    BY <1>2, DecodedOf DEF DecodedDef
  <2>2. ASSUME NEW n \in 0..MaxDepth, v \in JsonTo[n] PROVE Decoded[v] \in JsonTo[n]
    <3>1. /\ n > 0 /\ n - 1 \in 0..MaxDepth
          /\ DOMAIN v.q = 1..Len(v.q) /\ Len(v.q) \in Nat
          /\ \A i \in DOMAIN v.q : v.q[i] \in JsonTo[n - 1]
      BY <1>2, <2>2, ItemsOf
    <3>2. \A i \in DOMAIN v.q : Decoded[v.q[i]] \in JsonTo[n - 1]
      BY <1>2, <3>1
    <3>3. [i \in DOMAIN v.q |-> Decoded[v.q[i]]] \in Seq(JsonTo[n - 1])
      BY <3>1, <3>2, SeqOf
    <3> QED BY <2>1, <3>1, <3>3, IntoLevel
  <2>3. Decoded[v].t = v.t
    BY <1>2, <2>1 DEF Arr
  <2> QED BY <2>2, <2>3
<1>3. ASSUME NEW v \in Json, v.t = "obj", \A k \in FieldNames : v.f[k] \in {Missing} \cup T
      PROVE  v \in T
  <2> DEFINE f == [k \in FieldNames |-> IF Found(v.f[k]) THEN Decoded[v.f[k]] ELSE Missing]
  <2>1. Decoded[v] = Obj(f)
    BY <1>3, DecodedOf DEF DecodedDef
  <2>2. ASSUME NEW n \in 0..MaxDepth, v \in JsonTo[n] PROVE Decoded[v] \in JsonTo[n]
    <3>1. n > 0 /\ n - 1 \in 0..MaxDepth
          /\ v.f \in [FieldNames -> {Missing} \cup JsonTo[n - 1]]
      BY <1>3, <2>2, LevelCases, IntoLevel
    <3>2. \A k \in FieldNames : Found(v.f[k]) => Decoded[v.f[k]] \in JsonTo[n - 1]
      BY <1>3, <3>1, MissingNotJson
    <3>3. f \in [FieldNames -> {Missing} \cup JsonTo[n - 1]]
      BY <3>2
    <3> HIDE DEF f
    <3> QED BY <2>1, <3>1, <3>3, IntoLevel
  <2>3. Decoded[v].t = v.t
    BY <1>3, <2>1 DEF Obj
  <2> QED BY <2>2, <2>3
<1>4. Json \subseteq T
  <2> HIDE DEF T
  <2> QED BY <1>1, <1>2, <1>3, JsonInduction
<1> QED BY <1>4

LEMMA DecodedJson == \A v \in Json : Decoded[v] \in Json /\ Found(Decoded[v])
<1>1. MaxDepth \in 0..MaxDepth
  BY DepthAssumption
<1>2. \A v \in Json : Decoded[v] \in Json
  BY <1>1, DecodedType DEF Json
<1> QED BY <1>2, Parts

\* What decoding makes of an object.
LEMMA DecodedObj ==
    ASSUME NEW v \in Json, v.t = "obj", NEW w, w = Decoded[v]
    PROVE  /\ w \in Json /\ w.t = "obj" /\ v.f \in FieldSets /\ w.f \in FieldSets
           /\ w = [t |-> "obj", f |-> w.f]
           /\ \A k \in FieldNames :
                w.f[k] = IF Found(v.f[k]) THEN Decoded[v.f[k]] ELSE Missing
<1> DEFINE f == [k \in FieldNames |-> IF Found(v.f[k]) THEN Decoded[v.f[k]] ELSE Missing]
<1>1. v.f \in FieldSets /\ w \in Json
  BY Parts, DecodedJson
<1>2. \A k \in FieldNames : Found(v.f[k]) => Decoded[v.f[k]] \in Json
  BY <1>1, FieldFound, DecodedJson
<1>3. f \in [FieldNames -> {Missing} \cup Json]
  BY <1>2
<1>4. w = Obj(f)
  BY DecodedOf DEF DecodedDef
<1>5. \A k \in FieldNames : f[k] = IF Found(v.f[k]) THEN Decoded[v.f[k]] ELSE Missing
  OBVIOUS
<1> HIDE DEF f
<1>6. Obj(f) = [t |-> "obj", f |-> f]
  BY <1>3, ObjIs, Zenon
<1>7. w.t = "obj" /\ w.f = f /\ f \in FieldSets
  BY <1>3, <1>4, <1>6 DEF FieldSets
<1> QED BY <1>1, <1>4, <1>5, <1>6, <1>7

\* An object is as decoded if its fields are.
LEMMA DecodedFields ==
    ASSUME NEW v \in Json, v.t = "obj",
           \A k \in FieldNames : Found(v.f[k]) => Decoded[v.f[k]] = v.f[k]
    PROVE  Decoded[v] = v
<1>1. v = [t |-> "obj", f |-> v.f] /\ v.f \in FieldSets
  BY Parts
<1> DEFINE w == Decoded[v]
<1>2. /\ w = [t |-> "obj", f |-> w.f] /\ w.f \in FieldSets
      /\ \A k \in FieldNames : w.f[k] = IF Found(v.f[k]) THEN Decoded[v.f[k]] ELSE Missing
  BY DecodedObj
<1> HIDE DEF w
<1>3. \A k \in FieldNames : w.f[k] = v.f[k]
  BY <1>1, <1>2, FieldFound
<1>4. w.f = v.f
  BY <1>1, <1>2, <1>3 DEF FieldSets
<1> QED BY <1>1, <1>2, <1>4, Zenon DEF w

\* To decode again changes nothing more.
LEMMA DecodedTwice == \A v \in Json : Decoded[Decoded[v]] = Decoded[v]
<1> DEFINE T == {v \in Json : Decoded[Decoded[v]] = Decoded[v]}
<1>1. Scalar \subseteq T
  BY ScalarKinds, DecodedScalar
<1>2. ASSUME NEW v \in Json, v.t = "arr", \A i \in DOMAIN v.q : v.q[i] \in T
      PROVE  v \in T
  <2> DEFINE w == Decoded[v]
  <2>1. w = Arr([i \in DOMAIN v.q |-> Decoded[v.q[i]]])
    BY <1>2, DecodedOf DEF DecodedDef
  <2>2. w.t = "arr" /\ w.q = [i \in DOMAIN v.q |-> Decoded[v.q[i]]]
    BY <2>1 DEF Arr
  <2>3. w \in Json
    BY DecodedJson
  <2> HIDE DEF w
  <2>4. Decoded[w] = Arr([i \in DOMAIN w.q |-> Decoded[w.q[i]]])
    BY <2>2, <2>3, DecodedOf DEF DecodedDef
  <2>5. \A i \in DOMAIN v.q : Decoded[Decoded[v.q[i]]] = Decoded[v.q[i]]
    BY <1>2
  <2>6. [i \in DOMAIN w.q |-> Decoded[w.q[i]]] = [i \in DOMAIN v.q |-> Decoded[v.q[i]]]
    BY <2>2, <2>5
  <2>7. Decoded[w] = w
    BY <2>1, <2>4, <2>6, Zenon
  <2> QED BY <2>7 DEF w
<1>3. ASSUME NEW v \in Json, v.t = "obj", \A k \in FieldNames : v.f[k] \in {Missing} \cup T
      PROVE  v \in T
  <2> DEFINE w == Decoded[v]
  <2>1. /\ w \in Json /\ w.t = "obj"
        /\ \A k \in FieldNames :
             w.f[k] = IF Found(v.f[k]) THEN Decoded[v.f[k]] ELSE Missing
    BY <1>3, DecodedObj
  <2>2. ASSUME NEW k \in FieldNames, Found(w.f[k]) PROVE Decoded[w.f[k]] = w.f[k]
    BY <1>3, <2>1, <2>2, MissingNotJson
  <2> HIDE DEF w
  <2>3. Decoded[w] = w
    BY <2>1, <2>2, DecodedFields
  <2> QED BY <2>3 DEF w
<1>4. Json \subseteq T
  <2> HIDE DEF T
  <2> QED BY <1>1, <1>2, <1>3, JsonInduction
<1> QED BY <1>4

\* A sum that is no overflow is a number that decoding leaves alone.
LEMMA SumIs ==
    ASSUME NEW u, Exact(u) \in Numbers
    PROVE  Sum(u) \in Scalar /\ Decoded[Sum(u)] = Sum(u) /\ Sum(u).t = "num"
<1>1. Float[Exact(u)] \in Numbers /\ Float[Float[Exact(u)]] = Float[Exact(u)]
  BY FloatAssumption
<1>2. /\ \A n \in Numbers : Num(n) \in Scalar
      /\ \A n : Num(n).t = "num" /\ Num(n).n = n
  BY DEF Num, Scalar
<1>3. Sum(u) \in Scalar /\ Sum(u).t = "num" /\ Sum(u).n = Float[Exact(u)]
  BY <1>1, <1>2 DEF Sum
<1>4. Decoded[Sum(u)] = Num(Float[Sum(u).n])
  BY <1>3, ScalarKinds, DecodedOf DEF DecodedDef
<1>5. Sum(u) = Num(Float[Exact(u)])
  BY DEF Sum
<1> QED BY <1>1, <1>3, <1>4, <1>5

\* What is filled in is the total, where no value stands, and that is not lacking then.
FilledIn(u, w) ==
    /\ w.t = "obj"
    /\ \A k \in FieldNames \ {"total_tokens"} : w.f[k] = u.f[k]
    /\ w.f["total_tokens"] # u.f["total_tokens"] =>
         /\ u.f["total_tokens"].t \in {"null", "missing"}
         /\ Exact(u) \in Numbers
         /\ w.f["total_tokens"] = Sum(u)
    /\ ~Lacking(w)
    /\ Decoded[u] = u => Decoded[w] = w

LEMMA FilledUsage ==
    ASSUME NEW n \in 0..MaxDepth, NEW u \in JsonTo[n], u.t = "obj", ~Overflows(u),
           NEW w, w = Filled(u)
    PROVE  w \in JsonTo[n] /\ FilledIn(u, w)
<1>1. "total_tokens" \in FieldNames /\ u \in Json
  BY UsageNames, InJson
<1>2. n > 0 /\ n \in 1..MaxDepth /\ n - 1 \in 0..MaxDepth
  <2>1. n > 0
    BY LevelCases
  <2> QED BY <2>1, DepthAssumption
<1>3. CASE ~Lacking(u)
  BY <1>3 DEF Filled, FilledIn
<1>4. CASE Lacking(u)
  <2>1. Exact(u) \in Numbers /\ w = [u EXCEPT !.f["total_tokens"] = Sum(u)]
    BY <1>4 DEF Overflows, Filled
  <2>2. Sum(u) \in Scalar /\ Decoded[Sum(u)] = Sum(u) /\ Sum(u).t = "num"
    BY <2>1, SumIs
  <2>3. u.f["total_tokens"].t \in {"null", "missing"}
    BY <1>4 DEF Lacking, Field, Fields, Null, Found
  <2>4. Sum(u) \in JsonTo[n - 1]
    BY <1>2, <2>2, IntoLevel
  <2>5. w \in JsonTo[n] /\ Replaced(w, u, "total_tokens", Sum(u))
    BY <1>1, <1>2, <2>1, <2>4, FieldPut
  <2>6. /\ w.t = "obj" /\ w.f["total_tokens"] = Sum(u) /\ w \in Json
        /\ \A k \in FieldNames \ {"total_tokens"} : w.f[k] = u.f[k]
    BY <2>5, InJson DEF Replaced
  <2>7. ~Lacking(w)
    <3>1. Field(w, "total_tokens").t = "num"
      BY <2>2, <2>6 DEF Field, Fields
    <3> QED BY <3>1 DEF Lacking, Null, Found
  <2>8. ASSUME Decoded[u] = u PROVE Decoded[w] = w
    <3>1. \A k \in FieldNames : Found(u.f[k]) => Decoded[u.f[k]] = u.f[k]
      <4>1. \A k \in FieldNames :
              Decoded[u].f[k] = IF Found(u.f[k]) THEN Decoded[u.f[k]] ELSE Missing
        BY <1>1, DecodedObj
      <4> QED BY <2>8, <4>1
    <3>2. \A k \in FieldNames : Found(w.f[k]) => Decoded[w.f[k]] = w.f[k]
      BY <2>2, <2>6, <3>1
    <3> QED BY <2>6, <3>2, DecodedFields
  <2> QED BY <2>1, <2>3, <2>5, <2>6, <2>7, <2>8 DEF FilledIn
<1> QED BY <1>3, <1>4

\* A body with a usage once it has been normalised.
Normal(b, new) ==
    LET payload == Decoded[b]
        u == Field(payload, "usage")
        w == Filled(u)
    IN  /\ payload \in Json /\ payload.t = "obj" /\ u \in Json /\ u.t = "obj"
        /\ \A k \in FieldNames : Found(payload.f[k]) => Decoded[payload.f[k]] = payload.f[k]
        /\ \A k \in FieldNames : Field(payload, k) = payload.f[k]
        /\ new = [body |-> [payload EXCEPT !.f["usage"] = w], usage |-> w, err |-> FALSE]
        /\ w \in Json /\ FilledIn(u, w) /\ Decoded[w] = w
        /\ new.body \in Json /\ Replaced(new.body, payload, "usage", w)
        /\ Decoded[new.body] = new.body

LEMMA NormalBody ==
    ASSUME NEW b \in Json, NEW new, new = normalizeOpenAIInputOutputUsage(b),
           Field(Decoded[b], "usage").t = "obj", ~new.err
    PROVE  Normal(b, new)
<1> DEFINE payload == Decoded[b]
           u == Field(payload, "usage")
           w == Filled(u)
           body == [payload EXCEPT !.f["usage"] = w]
<1>1. "usage" \in FieldNames
  BY UsageNames
<1>2. payload \in Json /\ Decoded[payload] = payload
  BY DecodedJson, DecodedTwice
<1>3. ~Overflows(u) /\ new = [body |-> body, usage |-> w, err |-> FALSE]
  BY DEF normalizeOpenAIInputOutputUsage
<1> HIDE DEF payload
<1>4. payload.t = "obj" /\ u = payload.f["usage"]
      /\ \A k \in FieldNames : Field(payload, k) = payload.f[k]
  <2>1. payload.t = "obj"
    BY <1>1 DEF payload, Field, Fields, NoFields, Missing
  <2> QED BY <2>1 DEF Field, Fields
<1>5. MaxDepth \in 1..MaxDepth /\ MaxDepth - 1 \in 0..MaxDepth /\ payload \in JsonTo[MaxDepth]
      /\ u \in {Missing} \cup JsonTo[MaxDepth - 1]
  <2>1. MaxDepth \in 0..MaxDepth /\ payload \in JsonTo[MaxDepth]
    BY <1>2, DepthAssumption DEF Json
  <2>2. MaxDepth > 0 /\ payload.f \in [FieldNames -> {Missing} \cup JsonTo[MaxDepth - 1]]
    BY <1>4, <2>1, LevelCases
  <2> QED BY <1>1, <1>4, <2>1, <2>2, DepthAssumption
<1>6. u \in JsonTo[MaxDepth - 1] /\ u.t = "obj" /\ u \in Json
  <2>1. u.t = "obj"
    BY DEF payload
  <2>2. u \in JsonTo[MaxDepth - 1]
    BY <1>5, <2>1 DEF Missing
  <2> QED BY <1>5, <2>1, <2>2, InJson
<1>7. \A k \in FieldNames : Found(payload.f[k]) => Decoded[payload.f[k]] = payload.f[k]
  <2>1. \A k \in FieldNames : Decoded[payload].f[k] =
          IF Found(payload.f[k]) THEN Decoded[payload.f[k]] ELSE Missing
    BY <1>2, <1>4, DecodedObj
  <2> QED BY <1>2, <2>1
<1>8. Decoded[u] = u
  BY <1>1, <1>4, <1>6, <1>7, Parts
<1> HIDE DEF u
<1>9. w \in JsonTo[MaxDepth - 1] /\ FilledIn(u, w)
  BY <1>3, <1>5, <1>6, FilledUsage
<1>10. w \in Json /\ Decoded[w] = w
  BY <1>5, <1>8, <1>9, InJson DEF FilledIn
<1> HIDE DEF w
<1>11. body \in JsonTo[MaxDepth] /\ Replaced(body, payload, "usage", w)
  BY <1>1, <1>4, <1>5, <1>9, FieldPut
<1> HIDE DEF body
<1>12. body \in Json /\ body.t = "obj" /\ body.f["usage"] = w
       /\ \A k \in FieldNames \ {"usage"} : body.f[k] = payload.f[k]
  BY <1>5, <1>11 DEF Json, Replaced
<1>13. Decoded[body] = body
  <2>1. \A k \in FieldNames : Found(body.f[k]) => Decoded[body.f[k]] = body.f[k]
    BY <1>7, <1>10, <1>12
  <2> QED BY <1>12, <2>1, DecodedFields
<1>14. new.body = body
  BY <1>3
<1>15. new = [body |-> [payload EXCEPT !.f["usage"] = w], usage |-> w, err |-> FALSE]
  BY <1>3 DEF body
<1> QED BY <1>2, <1>4, <1>6, <1>7, <1>9, <1>10, <1>11, <1>12, <1>13, <1>14, <1>15
        DEF Normal, payload, u, w

\* A body without a usage comes back as it was, and so does one whose sum is no float64.
LEMMA NotNormal ==
    ASSUME NEW b, NEW new, new = normalizeOpenAIInputOutputUsage(b),
           NEW usage, usage = Field(Decoded[b], "usage")
    PROVE  /\ usage.t # "obj" => new = [body |-> b, usage |-> Missing, err |-> FALSE]
           /\ new.err => /\ new = [body |-> b, usage |-> Missing, err |-> TRUE]
                         /\ usage.t = "obj" /\ Overflows(usage)
<1>1. CASE usage.t # "obj"
  BY <1>1 DEF normalizeOpenAIInputOutputUsage
<1>2. CASE usage.t = "obj" /\ Overflows(usage)
  BY <1>2 DEF normalizeOpenAIInputOutputUsage
<1>3. CASE usage.t = "obj" /\ ~Overflows(usage)
  BY <1>3 DEF normalizeOpenAIInputOutputUsage
<1> QED BY <1>1, <1>2, <1>3

\* For a reader that takes numbers as float64s nothing of a body is changed but the total
\* of its usage, and that from nothing or a null to the float64 nearest to the sum; the
\* usage that is returned is the one in the body.  It fails, and returns the body as it
\* was, only if the total lacks and the sum is no float64 (transform.go:217-243).
THEOREM OnlyTotalIsFilled ==
    \A body \in Json :
        LET new == normalizeOpenAIInputOutputUsage(body)
            usage == Field(Decoded[body], "usage")
        IN  IF new.err
            THEN /\ new.body = body /\ new.usage = Missing
                 /\ usage.t = "obj" /\ Lacking(usage) /\ Exact(usage) \notin Numbers
            ELSE /\ new.body \in Json
                 /\ OnlyTotalChanges(Decoded[body], Decoded[new.body])
                 /\ new.usage.t = "obj" =>
                      new.usage \in Json /\ new.usage = Field(new.body, "usage")
                 /\ usage.t # "obj" => new.body = body /\ new.usage = Missing
                 /\ usage.t = "obj" => \A k \in FieldNames \ {"usage"} :
                                         Field(new.body, k) = Field(Decoded[body], k)
<1> SUFFICES ASSUME NEW b \in Json, NEW new, new = normalizeOpenAIInputOutputUsage(b),
                    NEW usage, usage = Field(Decoded[b], "usage")
             PROVE  IF new.err
                    THEN /\ new.body = b /\ new.usage = Missing
                         /\ usage.t = "obj" /\ Lacking(usage) /\ Exact(usage) \notin Numbers
                    ELSE /\ new.body \in Json
                         /\ OnlyTotalChanges(Decoded[b], Decoded[new.body])
                         /\ new.usage.t = "obj" =>
                              new.usage \in Json /\ new.usage = Field(new.body, "usage")
                         /\ usage.t # "obj" => new.body = b /\ new.usage = Missing
                         /\ usage.t = "obj" => \A k \in FieldNames \ {"usage"} :
                                                 Field(new.body, k) = Field(Decoded[b], k)
  OBVIOUS
<1>1. "usage" \in FieldNames /\ "total_tokens" \in FieldNames
  BY UsageNames
<1>2. CASE new.err
  BY <1>2, NotNormal DEF Overflows
<1>3. CASE usage.t # "obj"
  <2>1. new.body = b /\ new.usage = Missing /\ ~new.err
    BY <1>3, NotNormal
  <2>2. OnlyTotalChanges(Decoded[b], Decoded[b])
    BY DEF OnlyTotalChanges
  <2>3. Missing.t # "obj"
    BY DEF Missing
  <2> QED BY <1>3, <2>1, <2>2, <2>3
<1>4. CASE usage.t = "obj" /\ ~new.err
  <2> DEFINE payload == Decoded[b]
             w == Filled(usage)
             body == new.body
  <2>1. Normal(b, new)
    BY <1>4, NormalBody
  <2>2. /\ payload.t = "obj" /\ usage.t = "obj"
        /\ \A k \in FieldNames : Field(payload, k) = payload.f[k]
        /\ new.usage = w /\ w \in Json /\ FilledIn(usage, w)
        /\ body \in Json /\ Replaced(body, payload, "usage", w)
        /\ Decoded[body] = body
    BY <2>1 DEF Normal
  <2> HIDE DEF payload, w, body
  <2>3. body.t = "obj" /\ body.f["usage"] = w
        /\ \A k \in FieldNames \ {"usage"} : body.f[k] = payload.f[k]
    BY <2>2 DEF Replaced
  <2>4. /\ w.t = "obj"
        /\ \A k \in FieldNames \ {"total_tokens"} : w.f[k] = usage.f[k]
        /\ w.f["total_tokens"] # usage.f["total_tokens"] =>
             /\ usage.f["total_tokens"].t \in {"null", "missing"}
             /\ Exact(usage) \in Numbers
             /\ w.f["total_tokens"] = Sum(usage)
    BY <2>2 DEF FilledIn
  <2>5. /\ \A k \in FieldNames : Field(body, k) = body.f[k]
        /\ \A k \in FieldNames : Field(usage, k) = usage.f[k] /\ Field(w, k) = w.f[k]
    BY <2>2, <2>3, <2>4 DEF Field, Fields
  <2>6. \A k \in FieldNames \ {"usage"} : Field(body, k) = Field(payload, k)
    BY <2>2, <2>3, <2>5
  <2>7. Field(body, "usage") = w /\ Field(payload, "usage") = usage
    BY <1>1, <2>3, <2>5 DEF payload
  <2>8. OnlyTotalChanges(payload, body)
    <3>1. [k \in FieldNames \ {"usage"} |-> Field(payload, k)]
            = [k \in FieldNames \ {"usage"} |-> Field(body, k)]
      BY <2>6
    <3>2. [k \in FieldNames \ {"total_tokens"} |-> Field(usage, k)]
            = [k \in FieldNames \ {"total_tokens"} |-> Field(w, k)]
      BY <2>4, <2>5
    <3>3. Field(w, "total_tokens") # Field(usage, "total_tokens") =>
             /\ Field(usage, "total_tokens").t \in {"null", "missing"}
             /\ Exact(usage) \in Numbers
             /\ Field(w, "total_tokens") = Sum(usage)
      BY <1>1, <2>4, <2>5
    <3> QED BY <2>2, <2>3, <2>4, <2>7, <3>1, <3>2, <3>3 DEF OnlyTotalChanges
  <2>9. Decoded[body] = body
    BY <2>2
  <2> QED BY <1>4, <2>2, <2>6, <2>7, <2>8, <2>9 DEF payload, body
<1> QED BY <1>2, <1>3, <1>4

\* What has been filled in once is not filled in again: another gateway of this kind
\* in front changes nothing more (transform.go:217-243).
THEOREM FilledOnce ==
    \A body \in Json : LET once == normalizeOpenAIInputOutputUsage(body)
                       IN  normalizeOpenAIInputOutputUsage(once.body) = once
<1> SUFFICES ASSUME NEW b \in Json, NEW once, once = normalizeOpenAIInputOutputUsage(b)
             PROVE  normalizeOpenAIInputOutputUsage(once.body) = once
  OBVIOUS
<1> DEFINE usage == Field(Decoded[b], "usage")
<1>1. CASE usage.t # "obj" \/ once.err
  <2>1. once.body = b
    BY <1>1, NotNormal
  <2> QED BY <2>1
<1>2. CASE usage.t = "obj" /\ ~once.err
  <2> DEFINE w == Filled(usage)
             new == once.body
  <2>1. Normal(b, once)
    BY <1>2, NormalBody
  <2>2. /\ once.usage = w /\ FilledIn(usage, w)
        /\ once = [body |-> new, usage |-> w, err |-> FALSE]
        /\ new \in Json /\ Replaced(new, Decoded[b], "usage", w)
        /\ Decoded[new] = new
    BY <2>1 DEF Normal
  <2> HIDE DEF w, new
  <2>3. w.t = "obj" /\ ~Lacking(w)
    BY <2>2 DEF FilledIn
  <2>4. Filled(w) = w /\ ~Overflows(w)
    BY <2>3 DEF Filled, Overflows
  <2>5. new.t = "obj" /\ new.f["usage"] = w /\ "usage" \in FieldNames
    BY <2>2, UsageNames DEF Replaced
  <2>6. new = [new EXCEPT !.f["usage"] = w]
    BY <2>2, <2>5, Parts DEF FieldSets
  <2>7. Field(new, "usage") = w
    BY <2>5 DEF Field, Fields
  <2>8. normalizeOpenAIInputOutputUsage(new)
          = [body |-> [new EXCEPT !.f["usage"] = w], usage |-> w, err |-> FALSE]
    BY <2>2, <2>3, <2>4, <2>7 DEF normalizeOpenAIInputOutputUsage
  <2> QED BY <2>2, <2>6, <2>8 DEF new
<1> QED BY <1>1, <1>2

----------------------------------------------------------------------------
(* Error bodies *)

\* The texts of error bodies: strings, and strings that are numbers.
ErrorTexts == {v \in Scalar : v.t \in {"str", "digits"}}

LEMMA SomeTexts ==
    /\ \A s \in Texts : Str(s) \in ErrorTexts
    /\ \A n \in Int : Digits(n) \in ErrorTexts /\ Digits(n) # NoText
    /\ NoText \in ErrorTexts
    /\ \A v \in Json : toStringValue(v) \in ErrorTexts
    /\ \A v \in ErrorTexts : toStringValue(v) = v /\ v \in Json /\ v \in Scalar /\ Found(v)
<1>1. \A s \in Texts : Str(s) \in ErrorTexts
  BY DEF Str, ErrorTexts, Scalar
<1>2. \A n \in Int : Digits(n) \in ErrorTexts /\ Digits(n) # NoText
  BY StringsOf DEF Digits, ErrorTexts, Scalar, Str
<1>3. NoText \in ErrorTexts /\ Str("bool") \in ErrorTexts /\ Str("json") \in ErrorTexts
  BY <1>1, StringsOf
<1>4. ASSUME NEW v \in Json PROVE toStringValue(v) \in ErrorTexts
  <2>1. CASE v.t \in {"str", "digits"}
    BY <2>1, Parts DEF toStringValue, ErrorTexts
  <2>2. CASE v.t = "num"
    <3>1. v.n \in Int
      <4>1. v.n \in Numbers
        BY <2>2, Parts DEF Scalar, Null
      <4> QED BY <4>1, LargestAssumption DEF Numbers
    <3> QED BY <1>2, <2>2, <3>1 DEF toStringValue
  <2>3. CASE v.t \notin {"str", "digits", "num"}
    BY <1>3, <2>3 DEF toStringValue
  <2> QED BY <2>1, <2>2, <2>3
<1>5. \A v \in ErrorTexts : toStringValue(v) = v /\ v \in Json /\ v \in Scalar /\ Found(v)
  BY ScalarKinds DEF ErrorTexts, toStringValue
<1> QED BY <1>1, <1>2, <1>3, <1>4, <1>5

\* Of the texts at some paths the first that is not empty.
LEMMA FirstOf ==
    ASSUME NEW n \in Nat, NEW text, DOMAIN text = 1..n,
           NEW i \in 1..n, text[i] # NoText
    PROVE  \E m \in 1..n : text[m] # NoText /\ \A j \in 1..m - 1 : text[j] = NoText
<1> DEFINE Full == {m \in 1..n : text[m] # NoText}
           Least == \E m \in Full : \A l \in Full : m <= l
           S == {k \in Nat : (\E j \in Full : j <= k) => Least}
<1>1. Full \subseteq 1..n /\ i \in Full /\ \A m \in Full : m \in Nat /\ m > 0
  OBVIOUS
<1> HIDE DEF Full
<1>2. 0 \in S
  BY <1>1
<1>3. ASSUME NEW k \in Nat, k \in S PROVE k + 1 \in S
  <2>1. CASE \E l \in Full : l <= k
    BY <1>3, <2>1
  <2>2. CASE \A l \in Full : ~(l <= k)
    <3>1. ASSUME NEW j \in Full, j <= k + 1 PROVE \A l \in Full : j <= l
      BY <1>1, <2>2, <3>1
    <3> QED BY <3>1
  <2> QED BY <2>1, <2>2
<1>4. Least
  <2> HIDE DEF S, Least
  <2>1. \A k \in Nat : k \in S
    BY <1>2, <1>3, NatSets
  <2>2. i \in S
    BY <1>1, <2>1
  <2> USE DEF S
  <2> QED BY <1>1, <2>2
<1>5. PICK m \in Full : \A l \in Full : m <= l
  BY <1>4
<1>6. \A j \in 1..m - 1 : j \in 1..n /\ ~(m <= j)
  BY <1>1, <1>5
<1> QED BY <1>1, <1>5, <1>6 DEF Full

LEMMA FirstText ==
    ASSUME NEW v \in Json, NEW n \in Nat, NEW paths \in [1..n -> Seq(Tokens)]
    PROVE  firstStringPath(v, paths) \in ErrorTexts
<1> DEFINE At(i) == getByTokens[v][paths[i]]
           text == [i \in DOMAIN paths |-> IF Found(At(i)) THEN toStringValue(At(i))
                                                           ELSE NoText]
           First(i) == text[i] # NoText /\ \A j \in 1..i - 1 : text[j] = NoText
<1>1. \A i \in 1..n : text[i] \in ErrorTexts
  <2>1. \A i \in 1..n : At(i) \in {Missing} \cup Json
    <3>1. MaxDepth \in 0..MaxDepth
      BY DepthAssumption
    <3> QED BY <3>1, GetType DEF Json
  <2> QED BY <2>1, SomeTexts, MissingNotJson
<1>2. DOMAIN text = 1..n
  OBVIOUS
<1>3. firstStringPath(v, paths)
        = IF \A i \in DOMAIN paths : text[i] = NoText THEN NoText
          ELSE text[CHOOSE i \in DOMAIN paths : First(i)]
  BY DEF firstStringPath
<1> HIDE DEF text
<1>4. CASE \A i \in DOMAIN paths : text[i] = NoText
  BY <1>3, <1>4, SomeTexts
<1>5. CASE \E i \in DOMAIN paths : text[i] # NoText
  <2>1. \E m \in DOMAIN paths : First(m)
    BY <1>2, <1>5, FirstOf
  <2> DEFINE m == CHOOSE i \in DOMAIN paths : First(i)
  <2>2. m \in DOMAIN paths
    BY <2>1
  <2> HIDE DEF First, m
  <2>3. firstStringPath(v, paths) = text[m]
    BY <1>3, <1>5 DEF m
  <2> QED BY <1>1, <2>2, <2>3
<1> QED BY <1>4, <1>5

\* If only the first path has something, and that is a text, it is the one.
LEMMA OnlyText ==
    ASSUME NEW v \in Json, NEW n \in Nat, NEW paths \in [1..n -> Seq(Tokens)], n > 0,
           NEW text \in ErrorTexts, getByTokens[v][paths[1]] = text,
           \A i \in 2..n : getByTokens[v][paths[i]] = Missing
    PROVE  firstStringPath(v, paths) = text
<1> DEFINE At(i) == getByTokens[v][paths[i]]
           texts == [i \in DOMAIN paths |-> IF Found(At(i)) THEN toStringValue(At(i))
                                                            ELSE NoText]
           First(i) == texts[i] # NoText /\ \A j \in 1..i - 1 : texts[j] = NoText
<1>1. texts[1] = text /\ \A i \in 2..n : texts[i] = NoText
  <2>1. \A i \in 1..n : texts[i] = IF Found(At(i)) THEN toStringValue(At(i)) ELSE NoText
    OBVIOUS
  <2>2. 1 \in 1..n /\ \A i \in 2..n : i \in 1..n
    OBVIOUS
  <2>3. Found(text) /\ toStringValue(text) = text /\ ~Found(Missing)
    BY SomeTexts, MissingNotJson
  <2> HIDE DEF texts
  <2> QED BY <2>1, <2>2, <2>3
<1>2. firstStringPath(v, paths)
        = IF \A i \in DOMAIN paths : texts[i] = NoText THEN NoText
          ELSE texts[CHOOSE i \in DOMAIN paths : First(i)]
  BY DEF firstStringPath
<1> HIDE DEF texts
<1>3. DOMAIN paths = 1..n
  OBVIOUS
<1>4. CASE text = NoText
  <2>1. \A i \in 1..n : i = 1 \/ i \in 2..n
    OBVIOUS
  <2> QED BY <1>1, <1>2, <1>3, <1>4, <2>1
<1>5. CASE text # NoText
  <2>1. First(1) /\ \A i \in DOMAIN paths : First(i) => i = 1
    BY <1>1, <1>3, <1>5
  <2> HIDE DEF First
  <2> DEFINE m == CHOOSE i \in DOMAIN paths : First(i)
  <2>2. m = 1
    BY <1>3, <2>1
  <2>3. 1 \in DOMAIN paths /\ texts[1] # NoText
    BY <1>1, <1>3, <1>5
  <2>4. firstStringPath(v, paths) = texts[m]
    BY <1>2, <2>3
  <2> HIDE DEF m
  <2> QED BY <1>1, <2>2, <2>4
<1> QED BY <1>4, <1>5

\* An official error body of four texts.
OfficialError(message, code, type, param) ==
    ErrorBody([message |-> message, code |-> code, type |-> type, param |-> param])

LEMMA ErrorNames ==
    /\ "error" \in FieldNames /\ "message" \in FieldNames /\ "type" \in FieldNames
    /\ "param" \in FieldNames /\ "code" \in FieldNames /\ "base_resp" \in FieldNames
    /\ "status_msg" \in FieldNames /\ "status_code" \in FieldNames
    /\ "detail" \in FieldNames
  BY AnswerAssumption

\* An object that has a value under one name only, or nowhere.
LEMMA ObjFields ==
    ASSUME NEW n \in 1..MaxDepth, NEW e,
           \A k \in DOMAIN e : e[k] \in {Missing} \cup JsonTo[n - 1]
    PROVE  /\ Obj(e) \in JsonTo[n] /\ Obj(e).t = "obj" /\ Obj(e) \in Json
           /\ Obj(e).f \in FieldsTo(n - 1)
           /\ \A k \in FieldNames : /\ Obj(e).f[k] = IF k \in DOMAIN e THEN e[k] ELSE Missing
                                    /\ Field(Obj(e), k) = Obj(e).f[k]
<1> DEFINE f == [k \in FieldNames |-> IF k \in DOMAIN e THEN e[k] ELSE Missing]
<1>1. f \in [FieldNames -> {Missing} \cup JsonTo[n - 1]]
  OBVIOUS
<1>2. Obj(e) = [t |-> "obj", f |-> f]
  BY DEF Obj
<1>3. \A k \in FieldNames : f[k] = IF k \in DOMAIN e THEN e[k] ELSE Missing
  OBVIOUS
<1> HIDE DEF f
<1>4. Obj(e) = Obj(f)
  BY <1>1, <1>2, ObjIs
<1>5. Obj(f) \in JsonTo[n] /\ n \in 0..MaxDepth
  <2>1. n \in 0..MaxDepth /\ n > 0
    BY DepthAssumption
  <2> QED BY <1>1, <2>1, IntoLevel
<1> QED BY <1>1, <1>2, <1>3, <1>4, <1>5, InJson DEF Field, Fields, FieldsTo

HasError(b, m, c, t, p) ==
    /\ b \in Json /\ b.t = "obj"
    /\ \A k \in FieldNames \ {"error"} : Field(b, k) = Missing
    /\ Field(b, "error") \in Json /\ Field(b, "error").t = "obj"
    /\ Field(Field(b, "error"), "message") = m
    /\ Field(Field(b, "error"), "code") = c
    /\ Field(Field(b, "error"), "type") = t
    /\ Field(Field(b, "error"), "param") = p

LEMMA ErrorBodyIs ==
    ASSUME NEW m \in ErrorTexts, NEW c \in ErrorTexts, NEW t \in ErrorTexts,
           NEW p \in ErrorTexts, NEW b, b = OfficialError(m, c, t, p)
    PROVE  HasError(b, m, c, t, p)
<1> DEFINE e == [message |-> m, code |-> c, type |-> t, param |-> p]
           f == [error |-> Obj(e)]
<1>1. 1 \in 1..MaxDepth /\ 2 \in 1..MaxDepth /\ 0 \in 0..MaxDepth
  BY AnswerAssumption, DepthAssumption
<1>2. \A k \in DOMAIN e : e[k] \in {Missing} \cup JsonTo[1 - 1]
  <2>1. JsonTo[1 - 1] = Scalar
    BY Levels
  <2> QED BY <2>1, SomeTexts
<1>3. /\ DOMAIN e = {"message", "code", "type", "param"}
      /\ e["message"] = m /\ e["code"] = c /\ e["type"] = t /\ e["param"] = p
  OBVIOUS
<1> HIDE DEF e
<1>4. /\ Obj(e) \in JsonTo[1] /\ Obj(e).t = "obj" /\ Obj(e) \in Json
      /\ \A k \in FieldNames :
           Field(Obj(e), k) = IF k \in DOMAIN e THEN e[k] ELSE Missing
  BY <1>1, <1>2, ObjFields
<1>5. DOMAIN f = {"error"} /\ f["error"] = Obj(e)
  OBVIOUS
<1> HIDE DEF f
<1>6. \A k \in DOMAIN f : f[k] \in {Missing} \cup JsonTo[2 - 1]
  <2>1. 2 - 1 = 1
    OBVIOUS
  <2> QED BY <1>4, <1>5, <2>1, Zenon
<1>7. /\ Obj(f) \in Json /\ Obj(f).t = "obj"
      /\ \A k \in FieldNames : Field(Obj(f), k) = IF k \in DOMAIN f THEN f[k] ELSE Missing
  BY <1>1, <1>6, ObjFields
<1>8. b = Obj(f)
  BY DEF OfficialError, ErrorBody, e, f
<1>9. \A k \in FieldNames \ {"error"} : Field(b, k) = Missing
  BY <1>5, <1>7, <1>8
<1>10. Field(b, "error") = Obj(e)
  BY <1>5, <1>7, <1>8, ErrorNames
<1>11. /\ Field(Obj(e), "message") = m /\ Field(Obj(e), "code") = c
       /\ Field(Obj(e), "type") = t /\ Field(Obj(e), "param") = p
  BY <1>3, <1>4, ErrorNames
<1> QED BY <1>4, <1>7, <1>8, <1>9, <1>10, <1>11 DEF HasError

\* What the paths of error_response.go find in an official error body.
LEMMA ErrorPaths ==
    ASSUME NEW b \in Json, b.t = "obj",
           \A k \in FieldNames \ {"error"} : Field(b, k) = Missing,
           Field(b, "error") \in Json, Field(b, "error").t = "obj", NEW k \in FieldNames
    PROVE  /\ Field(Field(b, "error"), k) \in Json =>
                getByTokens[b][<<Key("error"), Key(k)>>] = Field(Field(b, "error"), k)
           /\ k # "error" => getByTokens[b][<<Key(k)>>] = Missing
           /\ \A n \in FieldNames \ {"error"} : getByTokens[b][<<Key(n), Key(k)>>] = Missing
<1>1. \A n \in FieldNames : Key(n) \in Tokens /\ Key(n).name = n /\ ~Key(n).array
  BY DEF Key, Tokens
<1>2. \A a \in Tokens, c \in Tokens :
        /\ <<a>> \in Seq(Tokens) /\ <<a>> # <<>> /\ Head(<<a>>) = a /\ Tail(<<a>>) = <<>>
        /\ <<a, c>> \in Seq(Tokens) /\ <<a, c>> # <<>> /\ Head(<<a, c>>) = a
        /\ Tail(<<a, c>>) = <<c>>
  OBVIOUS
<1>3. "error" \in FieldNames /\ Found(Field(b, "error")) /\ ~Found(Missing)
  BY ErrorNames, Parts, MissingNotJson
<1>4. ASSUME Field(Field(b, "error"), k) \in Json
      PROVE  getByTokens[b][<<Key("error"), Key(k)>>] = Field(Field(b, "error"), k)
  <2> DEFINE e == Field(b, "error")
             p == <<Key("error"), Key(k)>>
  <2>1. /\ p \in Seq(Tokens) /\ p # <<>> /\ Head(p) = Key("error")
        /\ Tail(p) = <<Key(k)>>
    BY <1>1, <1>2, <1>3
  <2>2. Head(p).name = "error" /\ ~Head(p).array
    BY <1>1, <1>3, <2>1
  <2> HIDE DEF p, e
  <2>3. getByTokens[b][p] = getByTokens[e][<<Key(k)>>]
    <3>1. e = Field(b, Head(p).name) /\ Found(e)
      BY <1>3, <2>2 DEF e
    <3> QED BY <2>1, <2>2, <3>1, GetUnder
  <2>4. getByTokens[e][<<Key(k)>>] = getByTokens[Field(e, k)][<<>>]
    <3>1. Found(Field(e, k)) /\ e \in Json /\ e.t = "obj"
      BY <1>4, Parts DEF e
    <3> DEFINE path == <<Key(k)>>
    <3>2. path \in Seq(Tokens) /\ path # <<>> /\ Head(path) = Key(k) /\ Tail(path) = <<>>
      BY <1>1, <1>2
    <3>3. Head(path).name = k /\ ~Head(path).array
      BY <1>1, <3>2
    <3> HIDE DEF path, e
    <3>4. getByTokens[e][path] = getByTokens[Field(e, k)][<<>>]
      BY <3>1, <3>2, <3>3, GetUnder
    <3> QED BY <3>4 DEF path
  <2>5. getByTokens[Field(e, k)][<<>>] = Field(e, k)
    <3>1. Field(e, k) \in Json /\ <<>> \in Seq(Tokens)
      BY <1>4 DEF e
    <3> QED BY <3>1, GetAt
  <2> QED BY <2>3, <2>4, <2>5 DEF p, e
<1>5. ASSUME NEW p \in Seq(Tokens), p # <<>>, Head(p).name \in FieldNames \ {"error"}
      PROVE  getByTokens[b][p] = Missing
  <2>1. ~Found(Field(b, Head(p).name))
    BY <1>3, <1>5
  <2> QED BY <1>5, <2>1, GetUnder
<1>6. k # "error" => getByTokens[b][<<Key(k)>>] = Missing
  BY <1>1, <1>2, <1>5
<1>7. \A n \in FieldNames \ {"error"} : getByTokens[b][<<Key(n), Key(k)>>] = Missing
  BY <1>1, <1>2, <1>5
<1> QED BY <1>4, <1>6, <1>7

\* The paths at which defaultOpenAIError looks for each of the texts.
MessagePaths ==
    <<<<Key("error"), Key("message")>>, <<Key("message")>>,
      <<Key("base_resp"), Key("status_msg")>>, <<Key("base_resp"), Key("message")>>,
      <<Key("status_msg")>>, <<Key("detail")>>>>
CodePaths ==
    <<<<Key("error"), Key("code")>>, <<Key("code")>>,
      <<Key("base_resp"), Key("status_code")>>, <<Key("status_code")>>>>
TwoPaths(name) == <<<<Key("error"), Key(name)>>, <<Key(name)>>>>

LEMMA PathsOf ==
    /\ MessagePaths \in [1..6 -> Seq(Tokens)]
    /\ CodePaths \in [1..4 -> Seq(Tokens)]
    /\ \A k \in FieldNames : TwoPaths(k) \in [1..2 -> Seq(Tokens)]
<1>1. \A n \in FieldNames : Key(n) \in Tokens
  BY DEF Key, Tokens
<1>2. \A a \in Tokens, b \in Tokens : <<a>> \in Seq(Tokens) /\ <<a, b>> \in Seq(Tokens)
  OBVIOUS
<1>3. \A n \in FieldNames : <<Key(n)>> \in Seq(Tokens)
  BY <1>1, <1>2
<1>4. \A m, n \in FieldNames : <<Key(m), Key(n)>> \in Seq(Tokens)
  BY <1>1, <1>2
<1>5. \A a, b, c, d, e, f \in Seq(Tokens) : <<a, b, c, d, e, f>> \in [1..6 -> Seq(Tokens)]
  OBVIOUS
<1>6. \A a, b, c, d \in Seq(Tokens) : <<a, b, c, d>> \in [1..4 -> Seq(Tokens)]
  OBVIOUS
<1>7. \A a, b \in Seq(Tokens) : <<a, b>> \in [1..2 -> Seq(Tokens)]
  OBVIOUS
<1>8. MessagePaths \in [1..6 -> Seq(Tokens)]
  BY <1>3, <1>4, <1>5, ErrorNames, Zenon DEF MessagePaths
<1>9. CodePaths \in [1..4 -> Seq(Tokens)]
  BY <1>3, <1>4, <1>6, ErrorNames, Zenon DEF CodePaths
<1>10. \A k \in FieldNames : TwoPaths(k) \in [1..2 -> Seq(Tokens)]
  BY <1>3, <1>4, <1>7, ErrorNames, Zenon DEF TwoPaths
<1> QED BY <1>8, <1>9, <1>10

LEMMA DefaultIs ==
    ASSUME NEW status, NEW v
    PROVE  defaultOpenAIError(status, v) =
             OfficialError(Or(Or(firstStringPath(v, MessagePaths), StatusText(status)),
                          Str(RequestFailed)),
                       Or(firstStringPath(v, CodePaths), StatusCode(status)),
                       Or(firstStringPath(v, TwoPaths("type")), Str("upstream_error")),
                       firstStringPath(v, TwoPaths("param")))
  BY DEF defaultOpenAIError, OfficialError, MessagePaths, CodePaths, TwoPaths

LEMMA ErrorDefaults ==
    ASSUME NEW status \in Statuses
    PROVE  /\ StatusText(status) \in ErrorTexts
           /\ StatusCode(status) \in ErrorTexts /\ StatusCode(status) # NoText
           /\ Str("upstream_error") \in ErrorTexts /\ Str("upstream_error") # NoText
           /\ Str(RequestFailed) \in ErrorTexts
           /\ Str(RequestFailed) # NoText /\ NoText \in ErrorTexts
<1>1. 10 * status \in Int
  BY AnswerAssumption
<1>2. StatusText(status) \in ErrorTexts
  BY AnswerAssumption, SomeTexts DEF StatusText
<1>3. StatusCode(status) \in ErrorTexts /\ StatusCode(status) # NoText
  BY <1>1, SomeTexts DEF StatusCode
<1>4. Str("upstream_error") # NoText /\ Str(RequestFailed) # NoText
  <2>1. ASSUME NEW e, NEW s, s # e PROVE Str(s) # Str(e)
    BY <2>1 DEF Str
  <2>2. "upstream_error" # "" /\ RequestFailed # ""
    BY Zenon DEF RequestFailed
  <2> QED BY <2>1, <2>2, Zenon DEF NoText
<1> QED BY <1>2, <1>3, <1>4, AnswerAssumption, SomeTexts

\* Without a mapping, an error body has four texts and only `param` may be empty
\* (error_response.go:61-111).
LEMMA DefaultError ==
    ASSUME NEW status \in Statuses, NEW v \in Json
    PROVE  \E m, c, t, p \in ErrorTexts :
             /\ m # NoText /\ c # NoText /\ t # NoText
             /\ defaultOpenAIError(status, v) = OfficialError(m, c, t, p)
<1>1. /\ firstStringPath(v, MessagePaths) \in ErrorTexts
      /\ firstStringPath(v, CodePaths) \in ErrorTexts
      /\ firstStringPath(v, TwoPaths("type")) \in ErrorTexts
      /\ firstStringPath(v, TwoPaths("param")) \in ErrorTexts
  BY PathsOf, FirstText, ErrorNames
<1>2. \A a, b \in ErrorTexts : /\ Or(a, b) \in ErrorTexts
                               /\ b # NoText => Or(a, b) # NoText
  BY DEF Or
<1>3. Or(firstStringPath(v, MessagePaths), StatusText(status)) \in ErrorTexts
  BY <1>1, <1>2, ErrorDefaults
<1> QED BY <1>1, <1>2, <1>3, ErrorDefaults, DefaultIs

\* And such a body is made again from itself, whatever the status.
LEMMA DefaultErrorAgain ==
    ASSUME NEW status \in Statuses, NEW m \in ErrorTexts, NEW c \in ErrorTexts,
           NEW t \in ErrorTexts, NEW p \in ErrorTexts,
           m # NoText, c # NoText, t # NoText, NEW b, b = OfficialError(m, c, t, p)
    PROVE  defaultOpenAIError(status, b) = b
<1>1. /\ b \in Json /\ b.t = "obj"
      /\ \A k \in FieldNames \ {"error"} : Field(b, k) = Missing
      /\ Field(b, "error") \in Json /\ Field(b, "error").t = "obj"
      /\ Field(Field(b, "error"), "message") = m
      /\ Field(Field(b, "error"), "code") = c
      /\ Field(Field(b, "error"), "type") = t
      /\ Field(Field(b, "error"), "param") = p
  <2>1. HasError(b, m, c, t, p)
    BY ErrorBodyIs
  <2> QED BY <2>1 DEF HasError
<1>2. m \in Json /\ c \in Json /\ t \in Json /\ p \in Json
  BY SomeTexts
<1>3. \A k \in FieldNames : /\ Field(Field(b, "error"), k) \in Json =>
                                 getByTokens[b][<<Key("error"), Key(k)>>]
                                   = Field(Field(b, "error"), k)
                            /\ k # "error" => getByTokens[b][<<Key(k)>>] = Missing
                            /\ \A n \in FieldNames \ {"error"} :
                                 getByTokens[b][<<Key(n), Key(k)>>] = Missing
  BY <1>1, ErrorPaths
<1>4. firstStringPath(b, MessagePaths) = m
  <2>1. getByTokens[b][MessagePaths[1]] = m
    BY <1>1, <1>2, <1>3, ErrorNames DEF MessagePaths
  <2>2. /\ getByTokens[b][<<Key("message")>>] = Missing
        /\ getByTokens[b][<<Key("base_resp"), Key("status_msg")>>] = Missing
        /\ getByTokens[b][<<Key("base_resp"), Key("message")>>] = Missing
        /\ getByTokens[b][<<Key("status_msg")>>] = Missing
        /\ getByTokens[b][<<Key("detail")>>] = Missing
    BY <1>3, ErrorNames
  <2>3. \A i \in 2..6 : getByTokens[b][MessagePaths[i]] = Missing
    BY <2>2 DEF MessagePaths
  <2>4. 6 \in Nat /\ 6 > 0 /\ MessagePaths \in [1..6 -> Seq(Tokens)]
    BY PathsOf
  <2> QED BY <1>1, <2>1, <2>3, <2>4, OnlyText, Zenon
<1>5. firstStringPath(b, CodePaths) = c
  <2>1. getByTokens[b][CodePaths[1]] = c
    BY <1>1, <1>2, <1>3, ErrorNames DEF CodePaths
  <2>2. /\ getByTokens[b][<<Key("code")>>] = Missing
        /\ getByTokens[b][<<Key("base_resp"), Key("status_code")>>] = Missing
        /\ getByTokens[b][<<Key("status_code")>>] = Missing
    BY <1>3, ErrorNames
  <2>3. \A i \in 2..4 : getByTokens[b][CodePaths[i]] = Missing
    BY <2>2 DEF CodePaths
  <2>4. 4 \in Nat /\ 4 > 0 /\ CodePaths \in [1..4 -> Seq(Tokens)]
    BY PathsOf
  <2> QED BY <1>1, <2>1, <2>3, <2>4, OnlyText, Zenon
<1>6. ASSUME NEW k \in {"type", "param"}, NEW text \in ErrorTexts,
             Field(Field(b, "error"), k) = text
      PROVE  firstStringPath(b, TwoPaths(k)) = text
  <2>1. k \in FieldNames /\ k # "error" /\ text \in Json
    BY <1>6, ErrorNames, SomeTexts
  <2>2. TwoPaths(k)[1] = <<Key("error"), Key(k)>> /\ TwoPaths(k)[2] = <<Key(k)>>
    BY DEF TwoPaths
  <2>3. getByTokens[b][TwoPaths(k)[1]] = text
        /\ \A i \in 2..2 : getByTokens[b][TwoPaths(k)[i]] = Missing
    BY <1>3, <1>6, <2>1, <2>2
  <2>4. 2 \in Nat /\ 2 > 0 /\ TwoPaths(k) \in [1..2 -> Seq(Tokens)]
    BY PathsOf, <2>1
  <2> QED BY <1>1, <2>1, <2>3, <2>4, OnlyText, Zenon
<1>7. firstStringPath(b, TwoPaths("type")) = t /\ firstStringPath(b, TwoPaths("param")) = p
  BY <1>1, <1>6
<1> QED BY <1>4, <1>5, <1>7, DefaultIs DEF Or

\* A mapped error body gets the fields of an official one that it lacks.
LEMMA EnsuredError ==
    ASSUME NEW status \in Statuses, NEW fields \in FieldsTo(MaxDepth - 1),
           NEW b, b = ensureOpenAIErrorDefaults(status, fields)
    PROVE  /\ b \in Json
           /\ \A k \in {"message", "type", "code", "param"} :
                Found(Fields(Field(b, "error"))[k])
<1> DEFINE error == Fields(fields["error"])
           defaults4 == [message |-> StatusText(status), type |-> Str("upstream_error"),
                         param |-> NoText, code |-> StatusCode(status)]
           default == Obj(defaults4)
           filled == [k \in FieldNames |-> IF Found(error[k]) THEN error[k] ELSE default.f[k]]
           all == [fields EXCEPT !["error"] = Obj(filled)]
<1>1. /\ MaxDepth \in 1..MaxDepth /\ MaxDepth - 1 \in 1..MaxDepth /\ 1 \in 1..MaxDepth
      /\ MaxDepth - 1 \in 0..MaxDepth /\ MaxDepth - 1 > 0 /\ (MaxDepth - 1) - 1 \in 0..MaxDepth
  BY AnswerAssumption, DepthAssumption
<1>2. error \in FieldsTo((MaxDepth - 1) - 1)
  <2>1. fields["error"] \in {Missing} \cup JsonTo[MaxDepth - 1]
    BY ErrorNames DEF FieldsTo
  <2> QED BY <1>1, <2>1, FieldsIn
<1>3. /\ \A k \in DOMAIN defaults4 : defaults4[k] \in ErrorTexts
      /\ DOMAIN defaults4 = {"message", "type", "code", "param"}
  BY ErrorDefaults
<1> HIDE DEF defaults4
<1>4. \A k \in FieldNames : default.f[k] = IF k \in DOMAIN defaults4 THEN defaults4[k]
                                                                   ELSE Missing
  <2>1. \A k \in DOMAIN defaults4 : defaults4[k] \in {Missing} \cup JsonTo[1 - 1]
    BY <1>3, Levels, SomeTexts
  <2> QED BY <1>1, <2>1, ObjFields
<1>5. \A k \in FieldNames : filled[k] \in {Missing} \cup JsonTo[(MaxDepth - 1) - 1]
  <2>1. Scalar \subseteq JsonTo[(MaxDepth - 1) - 1]
    BY <1>1, IntoLevel
  <2>2. \A k \in FieldNames : error[k] \in {Missing} \cup JsonTo[(MaxDepth - 1) - 1]
    BY <1>2 DEF FieldsTo
  <2>3. \A k \in FieldNames : default.f[k] \in {Missing} \cup Scalar
    BY <1>3, <1>4, SomeTexts
  <2> HIDE DEF error, default
  <2> QED BY <2>1, <2>2, <2>3
<1>6. \A k \in {"message", "type", "code", "param"} : k \in FieldNames /\ Found(filled[k])
  <2>1. \A k \in {"message", "type", "code", "param"} :
          k \in FieldNames /\ Found(default.f[k])
    BY <1>3, <1>4, ErrorNames, SomeTexts
  <2> HIDE DEF error, default
  <2> QED BY <2>1
<1>7. DOMAIN filled = FieldNames
  OBVIOUS
<1> HIDE DEF filled
<1>8. /\ Obj(filled) \in JsonTo[MaxDepth - 1] /\ Obj(filled).t = "obj"
      /\ \A k \in FieldNames : Obj(filled).f[k] = filled[k]
  BY <1>1, <1>5, <1>7, ObjFields
<1>9. /\ all["error"] = Obj(filled) /\ DOMAIN all = FieldNames
      /\ \A k \in DOMAIN all : all[k] \in {Missing} \cup JsonTo[MaxDepth - 1]
  BY <1>8, ErrorNames DEF FieldsTo
<1> HIDE DEF all
<1>10. Obj(all) \in Json /\ Field(Obj(all), "error") = Obj(filled)
  BY <1>1, <1>9, ObjFields, ErrorNames
<1>11. b = Obj(all)
  BY DEF ensureOpenAIErrorDefaults, all, filled, defaults4
<1>12. Fields(Obj(filled)) = Obj(filled).f
  BY <1>8 DEF Fields
<1> QED BY <1>6, <1>8, <1>10, <1>11, <1>12

----------------------------------------------------------------------------
(* Replies *)

\* The answer to the client and the row, once there is one, are made of the rule and
\* the upstream's body as they are.
Replied ==
    /\ received \in Bodies /\ source = Decoded[received]
    /\ Answers => /\ phase = "done"
                  /\ \E status \in Statuses, normalize \in BOOLEAN :
                       /\ answer = Sent(Final(status, normalize))
                       /\ row = Columns(Final(status, normalize))

LEMMA RepliedNext == Replied /\ [ANext]_avars => Replied'
<1> SUFFICES ASSUME Replied, [ANext]_avars PROVE Replied'
  OBVIOUS
<1>1. CASE Next /\ phase \notin {"done", "failed"} /\ UNCHANGED <<received, failed, answer, row>>
  <2>1. ~Answers /\ UNCHANGED <<received, answer>>
    BY <1>1 DEF Replied
  <2>2. source' = source
    <3>1. \A path : MapField(path) \/ ApplyDefault(path) => source' = source
      BY DEF MapField, ApplyDefault, Put, Fail
    <3> QED BY <1>1, <3>1 DEF Next, FieldsDone, Finish, vars
  <2> QED BY <2>1, <2>2 DEF Replied, Answers
<1>2. ASSUME NEW status \in Statuses, NEW normalize \in BOOLEAN, Reply(status, normalize)
      PROVE  Replied'
  <2>1. UNCHANGED <<source, fieldMap, defaults, pending, target, phase, received, failed>>
    BY <1>2 DEF Reply, vars
  <2>2. /\ phase = "done"
        /\ answer' = Sent(Final(status, normalize))
        /\ row' = Columns(Final(status, normalize))
    BY <1>2 DEF Reply
  <2>3. Final(status, normalize)' = Final(status, normalize)
    BY <2>1 DEF Final, Outcome, MapErrorResponse, MappedBody, Configured
  <2>4. Columns(Final(status, normalize))' = Columns(Final(status, normalize))
    BY <2>1, <2>3 DEF Columns
  <2>5. Sent(Final(status, normalize))' = Sent(Final(status, normalize))
    BY <2>3 DEF Sent
  <2> QED BY <2>1, <2>2, <2>4, <2>5 DEF Replied
<1>3. CASE UNCHANGED avars
  <2>1. UNCHANGED <<source, fieldMap, defaults, pending, target, phase, received, failed,
                    answer, row>>
    BY <1>3 DEF avars, vars
  <2>2. \A s, n : Final(s, n)' = Final(s, n)
    BY <2>1 DEF Final, Outcome, MapErrorResponse, MappedBody, Configured
  <2>3. \A s, n : /\ Columns(Final(s, n))' = Columns(Final(s, n))
                  /\ Sent(Final(s, n))' = Sent(Final(s, n))
    BY <2>1, <2>2 DEF Columns, Sent
  <2> QED BY <2>1, <2>3 DEF Replied, Answers
<1> QED BY <1>1, <1>2, <1>3 DEF ANext

LEMMA RepliedAlways == ASpec => []Replied
<1>1. AInit => Replied
  BY DEF AInit, Replied, Answers
<1> QED BY <1>1, RepliedNext, PTL DEF ASpec

\* All bodies are JSON.
LEMMA BodiesAreJson ==
    ASSUME MapInv, Replied, NEW status \in Statuses
    PROVE  /\ source \in Json /\ received \in Json /\ MappedBody \in Json
           /\ MapErrorResponse(status) \in Json
           /\ Outcome(status).body \in Json
<1>1. source \in Json /\ received \in Json
  BY RoomIs, InJson, AnswerAssumption DEF MapInv, TypeOK, Replied
<1>2. MappedBody \in Json
  BY <1>1 DEF MappedBody, MapInv, TypeOK
<1>3. MapErrorResponse(status) \in Json
  <2>1. CASE Configured
    BY <2>1, EnsuredError DEF MapErrorResponse, MapInv
  <2>2. CASE ~Configured
    <3>1. PICK m, c, t, p \in ErrorTexts :
            defaultOpenAIError(status, source) = OfficialError(m, c, t, p)
      BY <1>1, DefaultError
    <3> QED BY <2>2, <3>1, ErrorBodyIs DEF HasError, MapErrorResponse
  <2> QED BY <2>1, <2>2
<1> QED BY <1>1, <1>2, <1>3 DEF Outcome

LEMMA FieldIs ==
    ASSUME NEW v \in Json, NEW k \in FieldNames
    PROVE  /\ Field(v, k) \in {Missing} \cup Json
           /\ Found(Field(v, k)) <=> Field(v, k) \in Json
<1>1. CASE v.t = "obj"
  BY <1>1, Parts, FieldFound DEF Field, Fields
<1>2. CASE v.t # "obj"
  BY <1>2, MissingNotJson DEF Field, Fields, NoFields
<1> QED BY <1>1, <1>2

\* What the client gets of a body: the body, normalised or not, or an error in its place.
LEMMA SentIs ==
    ASSUME NEW b \in Json, NEW outcome, outcome.body = b, ~outcome.err,
           NEW normalize \in BOOLEAN, NEW new,
           new = IF normalize THEN normalizeOpenAIInputOutputUsage(b) ELSE outcome,
           NEW sent, sent = Sent(new)
    PROVE  /\ new.body \in Json
           /\ Found(sent.unsent) <=> new.err
           /\ new.err => /\ normalize /\ new.body = b /\ new.usage = Missing
                         /\ sent.unsent = b
                         /\ sent.body = openAIError("normalize_response_failed", "unsupported")
           /\ ~new.err => sent.body = new.body /\ sent.usage = new.usage
<1>1. new.body \in Json
  BY OnlyTotalIsFilled
<1>2. CASE new.err
  <2>1. normalize /\ new.body = b /\ new.usage = Missing
    BY <1>2, OnlyTotalIsFilled
  <2>2. /\ sent.unsent = b
        /\ sent.body = openAIError("normalize_response_failed", "unsupported")
    BY <1>2, <2>1 DEF Sent
  <2>3. Found(b)
    BY Parts
  <2> QED BY <1>1, <1>2, <2>1, <2>2, <2>3
<1>3. CASE ~new.err
  <2>1. sent.body = new.body /\ sent.usage = new.usage /\ sent.unsent = Missing
    BY <1>3 DEF Sent
  <2> QED BY <1>1, <1>3, <2>1, MissingNotJson
<1> QED BY <1>2, <1>3

\* A usage is shown whole.
LEMMA UsageShows ==
    ASSUME NEW v \in Json
    PROVE  Rest[LogColumn("usage", v)] = Rest[v]
<1>1. redactOwn("usage", v) = v
  BY DEF redactOwn
<1>2. sanitizeCommonLargeFields[v] \in Json /\ Rest[sanitizeCommonLargeFields[v]] = Rest[v]
  BY StillJson, SanitizeKeeps
<1>3. Found(v) /\ Found(sanitizeCommonLargeFields[v])
  BY <1>2, Parts
<1>4. LogColumn("usage", v) = sanitizeCommonLargeFields[v]
  BY <1>1, <1>3 DEF LogColumn, SanitizeLogPayload, jsonbString
<1> QED BY <1>2, <1>4

\* For every body and every rule, the usage in the row is the one in the client's answer,
\* and of a good answer nothing that a reader of float64s can tell changes after the
\* mapping, but a total from nothing to the rounded sum.  What is withheld had no total
\* and a sum that is no float64 (transform.go:217-243, proxy.go:236-269).
THEOREM AnswerUsageAddsUp == ASpec => []UsageAddsUp
<1>1. MapInv /\ Replied => UsageAddsUp
  <2> SUFFICES ASSUME MapInv, Replied, Answers, ~failed
               PROVE  UsageAddsUp
    BY DEF UsageAddsUp
  <2>1. PICK status \in Statuses, normalize \in BOOLEAN :
          answer = Sent(Final(status, normalize)) /\ row = Columns(Final(status, normalize))
    BY DEF Replied
  <2> DEFINE b == MappedBody
             o == Outcome(status)
             new == Final(status, normalize)
             usage == Field(Decoded[b], "usage")
  <2>2. /\ b \in Json /\ o.body = b /\ ~o.err
        /\ o.usage = IF Configured THEN jsonbString(Field(b, "usage")) ELSE Missing
    BY BodiesAreJson DEF Outcome
  <2>3. new = IF normalize THEN normalizeOpenAIInputOutputUsage(b) ELSE o
    BY <2>2 DEF Final
  <2>4. row.response_usage = LogColumn("usage", Decode(new.usage))
    BY <2>1 DEF Columns
  <2> HIDE DEF o, new
  <2>5. /\ new.body \in Json
        /\ Withheld <=> new.err
        /\ new.err => normalize /\ new.body = b /\ new.usage = Missing /\ answer.unsent = b
        /\ ~new.err => answer.body = new.body /\ answer.usage = new.usage
    BY <2>1, <2>2, <2>3, SentIs DEF Withheld, new
  <2>6. new.usage.t = "obj" => new.usage \in Json
    <3>1. CASE normalize
      BY <2>2, <2>3, <2>5, <3>1, OnlyTotalIsFilled DEF Missing
    <3>2. CASE ~normalize
      <4>1. Field(b, "usage") \in Json \cup {Missing}
        BY <2>2, FieldIs, UsageNames
      <4> QED BY <2>2, <2>3, <3>2, <4>1 DEF jsonbString, Null, Missing
    <3> QED BY <3>1, <3>2
  <2>7. CASE new.err
    <3>1. usage.t = "obj" /\ Lacking(usage) /\ Exact(usage) \notin Numbers
      BY <2>2, <2>3, <2>5, <2>7, OnlyTotalIsFilled
    <3>2. Field(usage, "total_tokens").t \in {"null", "missing"}
      BY <3>1 DEF Lacking, Null, Found
    <3>3. row.response_usage = Null
      <4>1. Decode(new.usage) = Missing
        BY <2>5, <2>7, MissingNotJson DEF Decode
      <4> QED BY <2>4, <4>1, MissingNotJson DEF LogColumn, SanitizeLogPayload, jsonbString
    <3> QED BY <2>5, <2>7, <3>1, <3>2, <3>3 DEF UsageAddsUp
  <2>8. CASE ~new.err
    <3>1. ASSUME new.usage.t = "obj"
          PROVE  /\ new.usage = Field(new.body, "usage")
                 /\ Rest[row.response_usage] = Rest[Decoded[new.usage]]
      <4>1. new.usage = Field(new.body, "usage")
        <5>1. CASE normalize
          BY <2>2, <2>3, <2>8, <3>1, <5>1, OnlyTotalIsFilled
        <5>2. CASE ~normalize
          BY <2>2, <2>3, <3>1, <5>2 DEF jsonbString, Null, Missing
        <5> QED BY <5>1, <5>2
      <4>2. new.usage \in Json /\ Decode(new.usage) = Decoded[new.usage]
        BY <2>6, <3>1, Parts DEF Decode
      <4>3. Decoded[new.usage] \in Json
        BY <4>2, DecodedJson
      <4> QED BY <2>4, <4>1, <4>2, <4>3, UsageShows
    <3>2. OnlyTotalChanges(Decoded[b], Decoded[new.body])
      <4>1. CASE normalize
        BY <2>2, <2>3, <2>8, <4>1, OnlyTotalIsFilled
      <4>2. CASE ~normalize
        <5>1. new.body = b
          BY <2>2, <2>3, <4>2
        <5> QED BY <5>1 DEF OnlyTotalChanges
      <4> QED BY <4>1, <4>2
    <3> QED BY <2>5, <2>8, <3>1, <3>2 DEF UsageAddsUp
  <2> QED BY <2>7, <2>8
<1> QED BY <1>1, MapInvAlways, RepliedAlways, PTL

\* What the gateway says in place of an answer it could not normalise.
LEMMA WithheldError ==
    \E m, c, t, p \in ErrorTexts :
      /\ m # NoText /\ c # NoText /\ t # NoText
      /\ openAIError("normalize_response_failed", "unsupported") = OfficialError(m, c, t, p)
<1> DEFINE code == "normalize_response_failed"
           text == "unsupported"
           type == "channel_adapter_gateway_error"
<1>1. code \in Texts /\ text \in Texts /\ type \in Texts
  BY AnswerAssumption
<1>2. Str(code) # NoText /\ Str(text) # NoText /\ Str(type) # NoText
  <2>1. ASSUME NEW e, NEW s, s # e PROVE Str(s) # Str(e)
    BY <2>1 DEF Str
  <2>2. code # "" /\ text # "" /\ type # ""
    BY Zenon
  <2> QED BY <2>1, <2>2, Zenon DEF NoText
<1>3. openAIError(code, text) = OfficialError(Str(text), Str(code), Str(type), NoText)
  BY DEF openAIError, OfficialError
<1> QED BY <1>1, <1>2, <1>3, SomeTexts

\* The error of a body is the error of what the normalisation makes of it, as it is read.
LEMMA NormalError ==
    ASSUME NEW b \in Json, NEW new, new = normalizeOpenAIInputOutputUsage(b), ~new.err
    PROVE  /\ \A k \in FieldNames : Found(Fields(Field(b, "error"))[k])
                                      => Found(Fields(Field(new.body, "error"))[k])
           /\ Field(b, "usage").t # "obj" => new.body = b
<1>1. \A v \in Json, k \in FieldNames :
        Field(Decoded[v], k) = IF Found(Field(v, k)) THEN Decoded[Field(v, k)] ELSE Missing
  <2> SUFFICES ASSUME NEW v \in Json, NEW k \in FieldNames
               PROVE  Field(Decoded[v], k)
                        = IF Found(Field(v, k)) THEN Decoded[Field(v, k)] ELSE Missing
    OBVIOUS
  <2>1. CASE v.t = "obj"
    BY <2>1, DecodedObj DEF Field, Fields
  <2>2. CASE v.t # "obj"
    <3>1. Decoded[v].t # "obj"
      BY <2>2, DecodedType
    <3> QED BY <2>2, <3>1, MissingNotJson DEF Field, Fields, NoFields
  <2> QED BY <2>1, <2>2
<1>2. "usage" \in FieldNames /\ "error" \in FieldNames \ {"usage"}
  BY UsageNames, ErrorNames
<1>3. CASE Field(Decoded[b], "usage").t # "obj"
  <2>1. new.body = b
    BY <1>3, OnlyTotalIsFilled
  <2> QED BY <2>1
<1>4. CASE Field(Decoded[b], "usage").t = "obj"
  <2>1. Field(new.body, "error") = Field(Decoded[b], "error")
    BY <1>2, <1>4, OnlyTotalIsFilled
  <2>2. Field(b, "usage").t = "obj"
    <3>1. Found(Field(b, "usage")) /\ Decoded[Field(b, "usage")].t = "obj"
      BY <1>1, <1>2, <1>4 DEF Missing
    <3>2. Field(b, "usage") \in Json
      BY <1>2, <3>1, FieldIs, MissingNotJson
    <3> QED BY <3>1, <3>2, DecodedType
  <2>3. ASSUME NEW k \in FieldNames, Found(Fields(Field(b, "error"))[k])
        PROVE  Found(Fields(Field(new.body, "error"))[k])
    <3> DEFINE e == Field(b, "error")
    <3>1. Found(e) /\ e \in Json
      <4>1. e # Missing
        BY <2>3, MissingNotJson DEF Fields, NoFields, Missing
      <4> QED BY <1>2, <4>1, FieldIs DEF Found
    <3>2. Field(new.body, "error") = Decoded[e]
      BY <1>1, <1>2, <2>1, <3>1
    <3>3. Field(e, k) = Fields(e)[k] /\ Field(Decoded[e], k) = Fields(Decoded[e])[k]
      BY DEF Field
    <3>4. Field(e, k) \in Json
      BY <2>3, <3>1, <3>3, FieldIs DEF Found
    <3>5. Field(Decoded[e], k) = Decoded[Field(e, k)]
      BY <1>1, <2>3, <3>1, <3>3
    <3> QED BY <3>2, <3>3, <3>4, <3>5, DecodedJson
  <2> QED BY <2>2, <2>3
<1> QED BY <1>3, <1>4

\* For every body, status and rule, the client finds the fields of an official error, and
\* one that no mapping made passes another such gateway unchanged
\* (error_response.go:30-111, proxy.go:409-418).
THEOREM AnswerErrorsSpeakOpenAI == ASpec => []ErrorsSpeakOpenAI
<1>1. MapInv /\ Replied => ErrorsSpeakOpenAI
  <2> SUFFICES ASSUME MapInv, Replied, Answers, failed \/ Withheld,
                      NEW error, error = Fields(Field(answer.body, "error"))
               PROVE  /\ \A k \in {"message", "type", "code", "param"} : Found(error[k])
                      /\ ~Configured \/ Withheld =>
                           /\ \A k \in {"message", "type", "code", "param"} :
                                error[k].t \in {"str", "digits"}
                                /\ (error[k] = NoText => k = "param")
                           /\ \A status \in Statuses :
                                defaultOpenAIError(status, answer.body) = answer.body
    BY DEF ErrorsSpeakOpenAI
  <2>1. PICK status \in Statuses, normalize \in BOOLEAN :
          answer = Sent(Final(status, normalize))
    BY DEF Replied
  <2> DEFINE o == Outcome(status)
             b == o.body
             new == Final(status, normalize)
  <2>2. b \in Json /\ ~o.err
    BY BodiesAreJson DEF Outcome
  <2>3. new = IF normalize THEN normalizeOpenAIInputOutputUsage(b) ELSE o
    BY DEF Final
  <2> HIDE DEF o, new
  <2>4. /\ Withheld <=> new.err
        /\ new.err => answer.body = openAIError("normalize_response_failed", "unsupported")
        /\ ~new.err => answer.body = new.body
    BY <2>1, <2>2, <2>3, SentIs DEF Withheld, new
  \* An error of four texts.
  <2>5. ASSUME \E m, c, t, p \in ErrorTexts : /\ m # NoText /\ c # NoText /\ t # NoText
                                              /\ answer.body = OfficialError(m, c, t, p)
        PROVE  /\ \A k \in {"message", "type", "code", "param"} :
                    Found(error[k]) /\ error[k].t \in {"str", "digits"}
                    /\ (error[k] = NoText => k = "param")
               /\ \A other \in Statuses : defaultOpenAIError(other, answer.body) = answer.body
    <3>1. PICK m, c, t, p \in ErrorTexts : /\ m # NoText /\ c # NoText /\ t # NoText
                                           /\ answer.body = OfficialError(m, c, t, p)
      BY <2>5
    <3>2. /\ Field(Field(answer.body, "error"), "message") = m
          /\ Field(Field(answer.body, "error"), "code") = c
          /\ Field(Field(answer.body, "error"), "type") = t
          /\ Field(Field(answer.body, "error"), "param") = p
      <4>1. HasError(answer.body, m, c, t, p)
        BY <3>1, ErrorBodyIs
      <4> QED BY <4>1 DEF HasError
    <3>3. error["message"] = m /\ error["code"] = c /\ error["type"] = t /\ error["param"] = p
      BY <3>2 DEF Field
    <3> QED BY <3>1, <3>3, SomeTexts, DefaultErrorAgain DEF ErrorTexts
  <2>6. CASE new.err
    BY <2>4, <2>5, <2>6, WithheldError
  <2>7. CASE ~new.err /\ Configured
    <3>1. /\ b = ensureOpenAIErrorDefaults(status, target)
          /\ target \in FieldsTo(MaxDepth - 1)
      BY <2>4, <2>7 DEF o, Outcome, MapErrorResponse, MapInv
    <3>2. \A k \in {"message", "type", "code", "param"} :
            k \in FieldNames /\ Found(Fields(Field(b, "error"))[k])
      BY <3>1, EnsuredError, ErrorNames
    <3>3. CASE normalize
      BY <2>2, <2>3, <2>4, <2>7, <3>2, <3>3, NormalError
    <3>4. CASE ~normalize
      BY <2>2, <2>3, <2>4, <2>7, <3>2, <3>4
    <3> QED BY <2>4, <2>7, <3>3, <3>4
  <2>8. CASE ~new.err /\ ~Configured
    <3>1. b = defaultOpenAIError(status, source) /\ source \in Json
      BY <2>4, <2>8, BodiesAreJson DEF o, Outcome, MapErrorResponse
    <3>2. PICK m, c, t, p \in ErrorTexts :
            /\ m # NoText /\ c # NoText /\ t # NoText
            /\ b = OfficialError(m, c, t, p)
      BY <3>1, DefaultError
    <3>3. Field(b, "usage") = Missing
      <4>1. HasError(b, m, c, t, p)
        BY <3>2, ErrorBodyIs
      <4> QED BY <4>1, UsageNames DEF HasError
    <3>4. answer.body = b
      BY <2>2, <2>3, <2>4, <2>8, <3>3, NormalError DEF Missing
    <3> QED BY <2>5, <3>2, <3>4
  <2> QED BY <2>6, <2>7, <2>8
<1> QED BY <1>1, MapInvAlways, RepliedAlways, PTL

\* The column of a body hides the scalars below the names of image data, alone or in
\* lists, and nothing else; objects below such a name it shows as they are.
LEMMA ColumnShows ==
    ASSUME NEW v \in Json
    PROVE  /\ LargeScalars[LogColumn("response", v)] \subseteq {Redacted}
           /\ LargeObjects[LogColumn("response", v)] = LargeObjects[v]
           /\ Rest[LogColumn("response", v)] = Rest[v]
<1> DEFINE path == <<Each("data"), Key("b64_json")>>
           redacted == redactPath[v][path]
<1>1. /\ path \in TokenPaths
      /\ \A i \in 1..Len(path) : shouldRedactFieldName(path[i].name) <=> i = Len(path)
  <2>1. Each("data") \in Tokens /\ Key("b64_json") \in Tokens
    BY AnswerAssumption DEF Each, Key, Tokens
  <2>2. path \in Seq(Tokens) /\ path # <<>> /\ Len(path) = 2
        /\ path[1] = Each("data") /\ path[2] = Key("b64_json")
    BY <2>1
  <2>3. /\ ~shouldRedactFieldName(path[1].name)
        /\ shouldRedactFieldName(path[2].name)
    BY <2>2 DEF Each, Key, shouldRedactFieldName
  <2>4. \A i \in 1..2 : i = 1 \/ i = 2
    OBVIOUS
  <2> HIDE DEF path
  <2> QED BY <2>2, <2>3, <2>4 DEF TokenPaths
<1>2. redactOwn("response", v) = redacted
  BY DEF redactOwn
<1> HIDE DEF path
<1>3. /\ redacted \in Json /\ Rest[redacted] = Rest[v]
      /\ LargeObjects[redacted] = LargeObjects[v]
  <2>1. path \in Seq(Tokens) /\ Len(path) \in 1..Len(path)
    BY <1>1 DEF TokenPaths
  <2>2. shouldRedactFieldName(path[Len(path)].name)
    BY <1>1, <2>1
  <2> QED BY <1>1, <2>1, <2>2, StillJson, RedactPathKeeps, RedactPathKeepsObjects
<1> HIDE DEF redacted
<1>4. /\ sanitizeCommonLargeFields[redacted] \in Json
      /\ LargeScalars[sanitizeCommonLargeFields[redacted]] \subseteq {Redacted}
      /\ LargeObjects[sanitizeCommonLargeFields[redacted]] = LargeObjects[redacted]
      /\ Rest[sanitizeCommonLargeFields[redacted]] = Rest[redacted]
  BY <1>3, StillJson, SanitizeHides, SanitizeKeeps, SanitizeKeepsObjects
<1>5. LogColumn("response", v) = sanitizeCommonLargeFields[redacted]
  <2>1. Found(v) /\ Found(sanitizeCommonLargeFields[redacted])
    BY <1>4, Parts
  <2> QED BY <1>2, <2>1 DEF LogColumn, SanitizeLogPayload, jsonbString
<1> QED BY <1>3, <1>4, <1>5

\* For every body of the upstream and for the answer made of it, sent or withheld, the row
\* has a mark for every scalar below a name of image data, in lists and at any depth, the
\* objects below such a name as they are, and all the rest (log_sanitize.go:20-142,
\* proxy.go:236-269, 306-317).
THEOREM RowShowsTheRest == ASpec => []RowShowsAllButImages
<1>1. MapInv /\ Replied => RowShowsAllButImages
  <2> SUFFICES ASSUME MapInv, Replied, Answers
               PROVE  RowShowsAllButImages
    BY DEF RowShowsAllButImages
  <2>1. PICK status \in Statuses, normalize \in BOOLEAN :
          answer = Sent(Final(status, normalize)) /\ row = Columns(Final(status, normalize))
    BY DEF Replied
  <2> DEFINE o == Outcome(status)
             new == Final(status, normalize)
  <2>2. o.body \in Json /\ ~o.err /\ source \in Json /\ source = Decoded[received]
    BY BodiesAreJson DEF Outcome, Replied
  <2>3. new = IF normalize THEN normalizeOpenAIInputOutputUsage(o.body) ELSE o
    BY DEF Final
  <2>4. /\ row.upstream_response = LogColumn("response", source)
        /\ row.official_response = LogColumn("response", Decode(new.body))
    BY <2>1 DEF Columns
  <2> HIDE DEF o, new
  <2>5. new.body \in Json
        /\ new.body = IF Withheld THEN answer.unsent ELSE answer.body
    BY <2>1, <2>2, <2>3, SentIs DEF Withheld, new
  <2>6. Decode(new.body) = Decoded[new.body] /\ Decoded[new.body] \in Json
    BY <2>5, Parts, DecodedJson DEF Decode
  <2> DEFINE got == Decoded[IF Withheld THEN answer.unsent ELSE answer.body]
  <2>7. got = Decoded[new.body] /\ got \in Json
    BY <2>5, <2>6
  <2> HIDE DEF got
  <2>8. \A shown \in {<<row.upstream_response, Decoded[received]>>,
                      <<row.official_response, got>>} :
          shown[2] \in Json /\ shown[1] = LogColumn("response", shown[2])
    BY <2>2, <2>4, <2>6, <2>7
  <2> QED BY <2>8, ColumnShows DEF RowShowsAllButImages, got
<1> QED BY <1>1, MapInvAlways, RepliedAlways, PTL

=============================================================================
