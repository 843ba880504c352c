------------------------ MODULE RequestMappingProofs ------------------------
(***************************************************************************)
(* What the mapping of requests guarantees.                                *)
(*                                                                         *)
(* RequestMapping, for any request, any rule over any names and any order  *)
(* of the loops.  None of its properties is inductive: they speak of a     *)
(* finished body only.  IInv says the same of the fields, the defaults and *)
(* the model that the loops have been through so far.                      *)
(*                                                                         *)
(* Snapshots, for bodies of any depth: what a column of the log row shows  *)
(* of an object, and where in the object of a body the text of a leaf is.  *)
(***************************************************************************)
EXTENDS Snapshots, JsonProofs

\* Has the loop over the fields, or the one over the files, been through it?
Visited(field) ==
    IF field[1] = "text"
    THEN \/ phase \in {"defaults", "files", "done"}
         \/ phase = "fields" /\ field \notin pending
    ELSE \/ phase = "done"
         \/ phase = "files" /\ field \notin pending

\* Which loop runs over what, and which body is built.
Control ==
    /\ mode = "json" => parts = <<>> /\ phase # "files"
    /\ mode = "multipart" => DOMAIN target = {} /\ phase # "defaults"
    /\ phase = "parse" => parts = <<>> /\ DOMAIN target = {}
    /\ phase \in {"parse", "defaults", "done"} => pending = {}
    /\ phase = "fields" => pending \subseteq TextFields
    /\ phase = "files" => pending \subseteq FileFields
    /\ phase # "defaults" => unset = {}

\* The model is the first part, or the last leaf.
ModelIn ==
    rule.hasModel =>
        IF mode = "json" THEN phase = "done" => Sends(ModelField, Upstream)
        ELSE phase \in {"fields", "files", "done"} =>
               /\ Len(parts) > 0
               /\ parts[1] = [name |-> ModelField, value |-> Upstream]

OnlyKept == \A field \in DOMAIN request : SentAnywhere(field) => Kept(field)

FieldsAt ==
    mode = "json" =>
        \A field \in KeptFields :
            Visited(field) => Sends(Place(field), field) \/ Contested(field)

\* Another default, or the model, may be written to the place of a default.
ContestedDefault(path) ==
    \/ \E other \in rule.defaults \ {path} : Overlap(path, other)
    \/ rule.hasModel /\ Overlap(path, ModelField)

DefaultsAt ==
    mode = "json" /\ phase \in {"defaults", "done"} =>
        \A path \in rule.defaults \ unset :
            Sends(path, Default(path)) \/ ContestedDefault(path)

\* A field the loops have been through has as many parts as it had values, and
\* the others have none.
PartsCounted ==
    mode = "multipart" /\ phase # "failed" =>
        \A field \in DOMAIN request :
            IF Visited(field) /\ Kept(field) /\ ~SkippedForModel(field)
            THEN Cardinality(Copies(field)) = request[field]
            ELSE Copies(field) = {}

\* What the client sent is at its place, or nowhere in the body.
InPlace ==
    \A p \in DOMAIN target :
        target[p] \in TextFields => target[p] \in DOMAIN request /\ p = Place(target[p])

IInv == /\ TypeOK /\ Control /\ ModelIn /\ OnlyKept
        /\ InPlace /\ FieldsAt /\ DefaultsAt /\ PartsCounted

----------------------------------------------------------------------------
(* Lemmas about the operators *)

LEMMA PartialIs ==
    ASSUME NEW D, NEW R, NEW f
    PROVE  f \in Partial(D, R) <=> DOMAIN f \subseteq D /\ f \in [DOMAIN f -> R]
BY DEF Partial

LEMMA UnderItself == \A p \in Seq(STRING) : Under(p, p)
<1> SUFFICES ASSUME NEW p \in Seq(STRING) PROVE Under(p, p)
  OBVIOUS
<1>1. /\ Len(p) \in Nat /\ DOMAIN p = 1..Len(p) /\ p \in [1..Len(p) -> STRING]
  BY LenProperties
<1>2. \A i \in 1..Len(p) : p[i] \in STRING
  BY <1>1
<1>3. /\ SubSeq(p, 1, Len(p)) \in Seq(STRING)
      /\ Len(SubSeq(p, 1, Len(p))) = Len(p)
      /\ \A i \in 1..Len(p) : SubSeq(p, 1, Len(p))[i] = p[i]
  BY <1>1, <1>2, SubSeqProperties
<1>4. SubSeq(p, 1, Len(p)) = p
  BY <1>3, SeqEqual
<1> QED BY <1>1, <1>4 DEF Under

\* What a write leaves of the body: the value at its path, of the leaves that
\* were there some, unchanged, and all that do not overlap the path.
LEMMA WrittenLeaves ==
    ASSUME NEW leaves, NEW path \in Paths, NEW value
    PROVE  LET new == Written(leaves, path, value)
           IN  /\ path \in DOMAIN new /\ new[path] = value
               /\ \A p \in DOMAIN new \ {path} :
                     /\ p \in DOMAIN leaves /\ new[p] = leaves[p]
                     /\ ~Under(p, path)
                     /\ Under(path, p) => leaves[p] \in Objectual
               /\ \A p \in DOMAIN leaves :
                     ~Overlap(p, path) => p \in DOMAIN new /\ new[p] = leaves[p]
<1> DEFINE Stays(p) == ~Under(p, path) /\ (Under(path, p) => leaves[p] \in Objectual)
           new == Written(leaves, path, value)
<1>1. new = [p \in {q \in DOMAIN leaves : Stays(q)} \cup {path} |->
                IF p = path THEN value ELSE leaves[p]]
  BY DEF Written
<1>2. DOMAIN new = {q \in DOMAIN leaves : Stays(q)} \cup {path}
  BY <1>1
<1>3. \A p \in DOMAIN new : new[p] = IF p = path THEN value ELSE leaves[p]
  BY <1>1, <1>2
<1>4. \A p \in DOMAIN leaves : ~Overlap(p, path) => Stays(p)
  BY DEF Overlap
<1> HIDE DEF new
<1>5. \A p \in DOMAIN leaves :
         ~Overlap(p, path) => p \in DOMAIN new /\ new[p] = leaves[p]
  <2> SUFFICES ASSUME NEW p \in DOMAIN leaves, ~Overlap(p, path)
               PROVE  p \in DOMAIN new /\ new[p] = leaves[p]
    OBVIOUS
  <2>1. p \in DOMAIN new
    BY <1>2, <1>4
  <2>2. p # path
    BY UnderItself, MappingAssumption DEF Overlap, Paths
  <2> QED BY <1>3, <2>1, <2>2
<1> QED BY <1>2, <1>3, <1>5 DEF new

\* A write keeps the leaves those of one object.
LEMMA WrittenTyped ==
    ASSUME NEW leaves, NEW path \in Paths, NEW value \in Values,
           DOMAIN leaves \subseteq Paths, leaves \in [DOMAIN leaves -> Values],
           IsBody(leaves)
    PROVE  LET new == Written(leaves, path, value)
           IN  /\ DOMAIN new \subseteq Paths
               /\ new \in [DOMAIN new -> Values]
               /\ IsBody(new)
<1> DEFINE new == Written(leaves, path, value)
<1>1. /\ path \in DOMAIN new /\ new[path] = value
      /\ \A p \in DOMAIN new \ {path} :
            /\ p \in DOMAIN leaves /\ new[p] = leaves[p]
            /\ ~Under(p, path)
            /\ Under(path, p) => leaves[p] \in Objectual
  BY WrittenLeaves
<1>2. new = [p \in DOMAIN new |-> new[p]]
  BY DEF Written
<1> HIDE DEF new
<1>3. DOMAIN new \subseteq Paths /\ \A p \in DOMAIN new : new[p] \in Values
  BY <1>1
<1>4. IsBody(new)
  <2> SUFFICES ASSUME NEW p \in DOMAIN new, NEW q \in DOMAIN new, Under(q, p), p # q
               PROVE  new[p] \in Objectual
    BY DEF IsBody
  <2>1. p # path
    BY <1>1
  <2>2. CASE q = path
    BY <1>1, <2>1, <2>2
  <2>3. CASE q # path
    BY <1>1, <2>1, <2>3 DEF IsBody
  <2> QED BY <2>2, <2>3
<1> QED BY <1>2, <1>3, <1>4 DEF new

\* The fields of a request in JSON, each with one value and no two of one name, and
\* those of one in a form.
LEMMA RequestIs ==
    ASSUME TypeOK
    PROVE  /\ mode = "json" =>
                /\ DOMAIN request \subseteq TextFields
                /\ request \in [DOMAIN request -> {1}]
                /\ \A f, g \in DOMAIN request : f[2] = g[2] => f = g
           /\ mode # "json" =>
                /\ DOMAIN request \subseteq TextFields \cup FileFields
                /\ request \in [DOMAIN request -> 1..MaxValues]
<1>1. ASSUME mode = "json"
      PROVE  /\ request \in Partial(TextFields, {1})
             /\ \A f, g \in DOMAIN request : f[2] = g[2] => f = g
  BY <1>1 DEF TypeOK, JsonRequests
<1>2. ASSUME mode # "json"
      PROVE  request \in Partial({f \in TextFields : f[3] = "text"} \cup FileFields,
                                 1..MaxValues)
  BY <1>2 DEF TypeOK, FormRequests
<1>3. {f \in TextFields : f[3] = "text"} \cup FileFields \subseteq TextFields \cup FileFields
  OBVIOUS
<1>4. ASSUME mode # "json"
      PROVE  /\ DOMAIN request \subseteq {f \in TextFields : f[3] = "text"} \cup FileFields
             /\ request \in [DOMAIN request -> 1..MaxValues]
  BY <1>2, <1>4, PartialIs
<1> QED BY <1>1, <1>3, <1>4, PartialIs

\* The name of a field.
LEMMA NamesOf ==
    /\ \A field \in TextFields : field[1] = "text" /\ field[2] \in Names /\ field[3] \in Kinds
    /\ \A field \in FileFields : field[1] = "file" /\ field[2] \in FileNames
  BY DEF TextFields, FileFields

\* A field of the request has a place, is a value, and has a value at least.
LEMMA FieldTyped ==
    ASSUME TypeOK, NEW field \in DOMAIN request
    PROVE  /\ Place(field) \in Paths
           /\ field \in TextFields \cup FileFields
           /\ field \in Values
           /\ request[field] \in Nat \ {0}
<1>1. DOMAIN request \subseteq TextFields \cup FileFields
  BY RequestIs
<1>2. request[field] \in Nat \ {0}
  <2>1. CASE mode = "json"
    <3>1. request \in [DOMAIN request -> {1}]
      BY <2>1, RequestIs
    <3> QED BY <3>1
  <2>2. CASE mode # "json"
    <3>1. request \in [DOMAIN request -> 1..MaxValues]
      BY <2>2, RequestIs
    <3> QED BY <3>1, MappingAssumption
  <2> QED BY <2>1, <2>2
<1>3. /\ DOMAIN rule.fieldMap \subseteq Names
      /\ rule.fieldMap \in [DOMAIN rule.fieldMap -> Targets]
      /\ rule.fileFieldMap \in [DOMAIN rule.fileFieldMap -> Targets]
  <2>1. /\ rule.fieldMap \in Partial(Names, Targets)
        /\ rule.fileFieldMap \in Partial(FileNames, Targets)
    BY DEF TypeOK, Rules
  <2> QED BY <2>1, PartialIs
<1>4. field[2] \in Names \cup FileNames
  BY <1>1, NamesOf
<1>5. Place(field) \in Paths
  BY <1>3, <1>4 DEF Place, Paths
<1> QED BY <1>1, <1>2, <1>5 DEF Values

\* The parts of one field.
LEMMA Block ==
    ASSUME TypeOK, NEW field \in DOMAIN request
    PROVE  LET part == [name |-> Place(field), value |-> field]
               block == [i \in 1..request[field] |-> part]
           IN  /\ block \in Seq([name : Paths, value : Values])
               /\ Len(block) = request[field]
               /\ \A i \in 1..request[field] : block[i] = part
<1>1. /\ [name |-> Place(field), value |-> field] \in [name : Paths, value : Values]
      /\ request[field] \in Nat
  BY FieldTyped
<1> DEFINE part == [name |-> Place(field), value |-> field]
           block == [i \in 1..request[field] |-> part]
<1> HIDE DEF part
<1>2. block \in Seq([name : Paths, value : Values]) /\ Len(block) = request[field]
  <2>1. part \in [name : Paths, value : Values]
    BY <1>1 DEF part
  <2>2. \A S, n, e : n \in Nat /\ e \in S
                     => /\ [i \in 1..n |-> e] \in Seq(S)
                        /\ Len([i \in 1..n |-> e]) = n
    OBVIOUS
  <2> QED BY <1>1, <2>1, <2>2
<1>3. \A i \in 1..request[field] : block[i] = part
  OBVIOUS
<1> QED BY <1>2, <1>3 DEF part

\* A step leaves the request and its rule alone, and so what a field is sent as.
LEMMA Fixed ==
    ASSUME [Next]_vars
    PROVE  /\ UNCHANGED <<mode, rule, request>>
           /\ \A field : /\ Place(field)' = Place(field)
                         /\ Kept(field)' = Kept(field)
                         /\ Contested(field)' = Contested(field)
                         /\ SkippedForModel(field)' = SkippedForModel(field)
           /\ KeptFields' = KeptFields
<1>1. UNCHANGED <<mode, rule, request>>
  BY DEF Next, vars, MapField, WriteFieldPart, WriteFilePart, ApplyDefault,
         ParseFails, Unmarshal, FieldsDone, SetModel, WriteModelPart, PartsDone,
         FileFails, FilesDone, Returned
<1>2. \A field : Place(field)' = Place(field)
  BY <1>1 DEF Place
<1>3. \A field : Kept(field)' = Kept(field)
  BY <1>1, <1>2 DEF Kept
<1>4. KeptFields' = KeptFields
  BY <1>1, <1>3 DEF KeptFields
<1>5. \A field : Contested(field)' = Contested(field)
  BY <1>1, <1>2, <1>4 DEF Contested
<1> QED BY <1>1, <1>2, <1>3, <1>4, <1>5 DEF SkippedForModel

----------------------------------------------------------------------------
(* The inductive invariant *)

LEMMA InitIInv == Init => IInv
<1> SUFFICES ASSUME Init PROVE IInv
  OBVIOUS
<1>1. DOMAIN target = {} /\ target \in [DOMAIN target -> Values]
  BY DEF Init
<1>2. parts = <<>> /\ DOMAIN parts = {}
  BY DEF Init
<1>3. TypeOK
  BY <1>1 DEF Init, TypeOK, IsBody
<1>4. Control /\ ModelIn /\ InPlace /\ DefaultsAt
  BY <1>1 DEF Init, Control, ModelIn, InPlace, DefaultsAt
<1>5. OnlyKept
  BY <1>1, <1>2 DEF OnlyKept, SentAnywhere
<1>6. \A field : ~Visited(field)
  BY DEF Init, Visited
<1>7. FieldsAt
  BY <1>6 DEF FieldsAt
<1>8. PartsCounted
  BY <1>2, <1>6 DEF PartsCounted, Copies
<1> QED BY <1>3, <1>4, <1>5, <1>7, <1>8 DEF IInv

LEMMA NextTypeOK == TypeOK /\ [Next]_vars => TypeOK'
<1> SUFFICES ASSUME TypeOK, [Next]_vars PROVE TypeOK'
  OBVIOUS
<1> USE DEF TypeOK
<1>1. UNCHANGED <<mode, rule, request>>
  BY Fixed
<1>2. ASSUME NEW path \in Paths, NEW value \in Values, setPath(path, value)
      PROVE  /\ DOMAIN target' \subseteq Paths
             /\ target' \in [DOMAIN target' -> Values] /\ IsBody(target')
  BY <1>2, WrittenTyped DEF setPath
<1>3. ASSUME NEW field \in DOMAIN request, WritePart(field)
      PROVE  parts' \in Seq([name : Paths, value : Values])
  BY <1>3, Block, ConcatProperties DEF WritePart
<1>4. ModelField \in Paths /\ Upstream \in Values
  BY DEF Paths, Values
<1>5. ASSUME NEW field \in pending, MapField(field) PROVE TypeOK'
  <2>1. Place(field) \in Paths /\ field \in Values
    BY FieldTyped
  <2> QED BY <1>1, <1>2, <1>5, <2>1 DEF MapField
<1>6. ASSUME NEW path \in unset, ApplyDefault(path) PROVE TypeOK'
  <2>1. path \in Paths /\ Default(path) \in Values
    BY DEF Rules, Paths, Values
  <2> QED BY <1>1, <1>2, <1>6, <2>1 DEF ApplyDefault
<1>7. CASE SetModel
  <2>1. CASE rule.hasModel
    BY <1>1, <1>2, <1>4, <1>7, <2>1 DEF SetModel
  <2>2. CASE ~rule.hasModel
    BY <1>1, <1>7, <2>2 DEF SetModel
  <2> QED BY <2>1, <2>2
<1>8. ASSUME NEW field \in pending, WriteFieldPart(field) \/ WriteFilePart(field)
      PROVE  TypeOK'
  BY <1>1, <1>3, <1>8 DEF WriteFieldPart, WriteFilePart
<1>9. CASE WriteModelPart
  <2>1. parts' \in Seq([name : Paths, value : Values])
    <3>1. [name |-> ModelField, value |-> Upstream] \in [name : Paths, value : Values]
      BY <1>4
    <3>2. \A S : \A part \in S : <<part>> \in Seq(S) /\ <<>> \in Seq(S)
      OBVIOUS
    <3>3. parts' = IF rule.hasModel THEN <<[name |-> ModelField, value |-> Upstream]>>
                                    ELSE <<>>
      BY <1>9 DEF WriteModelPart
    <3> QED BY <3>1, <3>2, <3>3
  <2>2. /\ UNCHANGED <<unset, target>> /\ phase' = "fields"
        /\ pending' \subseteq DOMAIN request
    BY <1>9 DEF WriteModelPart
  <2> QED BY <1>1, <2>1, <2>2
<1>10. CASE ParseFails \/ Unmarshal \/ FieldsDone
  BY <1>1, <1>10 DEF ParseFails, Unmarshal, FieldsDone
<1>11. CASE PartsDone \/ FileFails \/ FilesDone
  BY <1>1, <1>11 DEF PartsDone, FileFails, FilesDone
<1>12. CASE Returned \/ UNCHANGED vars
  BY <1>12 DEF Returned, vars
<1> QED BY <1>5, <1>6, <1>7, <1>8, <1>9, <1>10, <1>11, <1>12 DEF Next

\* Which loop runs, and over what, is as the code has it; the empty body stays
\* so until there is something to write.
LEMMA NextControl == TypeOK /\ Control /\ [Next]_vars => Control'
<1> SUFFICES ASSUME TypeOK, Control, [Next]_vars PROVE Control'
  OBVIOUS
<1> USE DEF TypeOK, Control
<1>1. ASSUME NEW field \in pending,
             MapField(field) \/ WriteFieldPart(field) \/ WriteFilePart(field)
      PROVE  Control'
  <2>1. CASE MapField(field)
    BY <2>1 DEF MapField
  <2>2. CASE WriteFieldPart(field)
    BY <2>2 DEF WriteFieldPart
  <2>3. CASE WriteFilePart(field)
    BY <2>3 DEF WriteFilePart
  <2> QED BY <1>1, <2>1, <2>2, <2>3
<1>2. CASE \E path \in unset : ApplyDefault(path)
  BY <1>2 DEF ApplyDefault
<1>3. CASE ParseFails \/ FieldsDone \/ SetModel
  BY <1>3 DEF ParseFails, FieldsDone, SetModel
<1>6. CASE Unmarshal
  <2>1. DOMAIN request \subseteq TextFields
    BY <1>6, RequestIs DEF Unmarshal
  <2> QED BY <1>6, <2>1 DEF Unmarshal
<1>4. CASE WriteModelPart \/ PartsDone \/ FileFails \/ FilesDone
  BY <1>4 DEF WriteModelPart, PartsDone, FileFails, FilesDone
<1>5. CASE Returned \/ UNCHANGED vars
  BY <1>5 DEF Returned, vars
<1> QED BY <1>1, <1>2, <1>3, <1>4, <1>5, <1>6 DEF Next
----------------------------------------------------------------------------
(* What a write adds to the body, and what it spares *)

LEMMA WriteAdds ==
    ASSUME NEW path \in Paths, NEW value, setPath(path, value), UNCHANGED parts
    PROVE  /\ path \in DOMAIN target' /\ target'[path] = value
           /\ \A v : SentAnywhere(v)' => SentAnywhere(v) \/ v = value
           /\ \A p \in DOMAIN target :
                 ~Overlap(p, path) => p \in DOMAIN target' /\ target'[p] = target[p]
<1>1. /\ path \in DOMAIN target' /\ target'[path] = value
      /\ \A p \in DOMAIN target' \ {path} : p \in DOMAIN target /\ target'[p] = target[p]
      /\ \A p \in DOMAIN target :
            ~Overlap(p, path) => p \in DOMAIN target' /\ target'[p] = target[p]
  BY WrittenLeaves DEF setPath
<1>2. ASSUME NEW v, SentAnywhere(v)' PROVE SentAnywhere(v) \/ v = value
  BY <1>1, <1>2 DEF SentAnywhere
<1> QED BY <1>1, <1>2

\* The old parts stay where they were; the new ones are those of the field.
LEMMA PartAdds ==
    ASSUME TypeOK, NEW field \in DOMAIN request, WritePart(field)
    PROVE  LET new == IF Kept(field) THEN request[field] ELSE 0
           IN  /\ Len(parts) \in Nat /\ DOMAIN parts = 1..Len(parts)
               /\ DOMAIN parts' = 1..Len(parts) + new
               /\ \A i \in 1..Len(parts) : parts'[i] = parts[i]
               /\ \A i \in Len(parts) + 1..Len(parts) + new :
                     parts'[i] = [name |-> Place(field), value |-> field]
<1> DEFINE part == [name |-> Place(field), value |-> field]
           block == [i \in 1..request[field] |-> part]
           S == [name : Paths, value : Values]
<1>1. parts \in Seq(S) /\ Len(parts) \in Nat /\ DOMAIN parts = 1..Len(parts)
  BY LenProperties DEF TypeOK
<1>2. /\ block \in Seq(S) /\ Len(block) = request[field]
      /\ \A i \in 1..request[field] : block[i] = part
  BY Block
<1>3. request[field] \in Nat
  BY FieldTyped
<1>4. parts' = IF Kept(field) THEN parts \o block ELSE parts
  BY DEF WritePart
<1> HIDE DEF part, block, S
<1>5. CASE Kept(field)
  <2>1. /\ parts \o block \in Seq(S)
        /\ Len(parts \o block) = Len(parts) + request[field]
        /\ \A i \in 1..Len(parts) + request[field] :
              (parts \o block)[i] = IF i <= Len(parts) THEN parts[i]
                                    ELSE block[i - Len(parts)]
    <3>1. /\ parts \o block \in Seq(S)
          /\ Len(parts \o block) = Len(parts) + Len(block)
          /\ \A i \in 1..Len(parts) + Len(block) :
                (parts \o block)[i] = IF i <= Len(parts) THEN parts[i]
                                      ELSE block[i - Len(parts)]
      BY <1>1, <1>2, ConcatProperties
    <3> QED BY <1>2, <3>1
  <2>2. DOMAIN parts' = 1..Len(parts) + request[field]
    BY <1>4, <1>5, <2>1, LenProperties
  <2>3. \A i \in 1..Len(parts) : parts'[i] = parts[i]
    BY <1>1, <1>3, <1>4, <1>5, <2>1
  <2>4. ASSUME NEW i \in Len(parts) + 1..Len(parts) + request[field]
        PROVE  parts'[i] = part
    <3>1. i - Len(parts) \in 1..request[field] /\ ~(i <= Len(parts))
          /\ i \in 1..Len(parts) + request[field]
      BY <1>1, <1>3
    <3> QED BY <1>2, <1>4, <1>5, <2>1, <3>1
  <2> QED BY <1>1, <1>5, <2>2, <2>3, <2>4 DEF part
<1>6. CASE ~Kept(field)
  BY <1>1, <1>4, <1>6
<1> QED BY <1>5, <1>6

LEMMA PartSends ==
    ASSUME TypeOK, NEW field \in DOMAIN request, WritePart(field), UNCHANGED target,
           NEW v, SentAnywhere(v)'
    PROVE  SentAnywhere(v) \/ (v = field /\ Kept(field))
<1>1. CASE \E path \in DOMAIN target : target[path] = v
  BY <1>1 DEF SentAnywhere
<1>2. CASE \E i \in DOMAIN parts' : parts'[i].value = v
  <2>1. PICK i \in DOMAIN parts' : parts'[i].value = v
    BY <1>2
  <2>2. CASE i \in 1..Len(parts)
    BY <2>1, <2>2, PartAdds DEF SentAnywhere
  <2>3. CASE i \notin 1..Len(parts)
    <3> DEFINE new == IF Kept(field) THEN request[field] ELSE 0
    <3>1. /\ Len(parts) \in Nat /\ DOMAIN parts' = 1..Len(parts) + new
          /\ \A j \in Len(parts) + 1..Len(parts) + new :
                parts'[j] = [name |-> Place(field), value |-> field]
      BY PartAdds
    <3>2. request[field] \in Nat
      BY FieldTyped
    <3>3. Kept(field) /\ i \in Len(parts) + 1..Len(parts) + new
      BY <2>1, <2>3, <3>1, <3>2
    <3>4. parts'[i] = [name |-> Place(field), value |-> field]
      BY <3>1, <3>3
    <3> QED BY <2>1, <3>3, <3>4
  <2> QED BY <2>2, <2>3
<1> QED BY <1>1, <1>2 DEF SentAnywhere

\* Only the copies of the field itself change, from none to all its values.
LEMMA PartCopies ==
    ASSUME TypeOK, NEW field \in DOMAIN request, WritePart(field), UNCHANGED rule
    PROVE  /\ \A other \in DOMAIN request :
                 other # field \/ ~Kept(field) => Copies(other)' = Copies(other)
           /\ Kept(field) /\ Copies(field) = {}
                => Cardinality(Copies(field)') = request[field]
<1> DEFINE new == IF Kept(field) THEN request[field] ELSE 0
<1>1. /\ Len(parts) \in Nat /\ DOMAIN parts = 1..Len(parts)
      /\ DOMAIN parts' = 1..Len(parts) + new
      /\ \A i \in 1..Len(parts) : parts'[i] = parts[i]
      /\ \A i \in Len(parts) + 1..Len(parts) + new :
            parts'[i] = [name |-> Place(field), value |-> field]
  BY PartAdds
<1>2. request[field] \in Nat /\ new \in Nat
  BY FieldTyped
<1>3. \A other : Place(other)' = Place(other)
  BY DEF Place
<1>4. ASSUME NEW other \in DOMAIN request, other # field \/ ~Kept(field)
      PROVE  Copies(other)' = Copies(other)
  <2>1. \A i \in DOMAIN parts' \ DOMAIN parts :
           parts'[i] # [name |-> Place(other), value |-> other]
    BY <1>1, <1>2, <1>4
  <2>2. DOMAIN parts \subseteq DOMAIN parts'
    BY <1>1, <1>2
  <2>3. \A i \in DOMAIN parts : parts'[i] = parts[i]
    BY <1>1
  <2> QED BY <1>3, <2>1, <2>2, <2>3 DEF Copies
<1>5. ASSUME Kept(field), Copies(field) = {}
      PROVE  Cardinality(Copies(field)') = request[field]
  <2>1. Copies(field)' = Len(parts) + 1..Len(parts) + request[field]
    <3>1. \A i \in 1..Len(parts) :
             parts'[i] # [name |-> Place(field), value |-> field]
      BY <1>1, <1>5 DEF Copies
    <3>2. \A i \in Len(parts) + 1..Len(parts) + request[field] :
             parts'[i] = [name |-> Place(field), value |-> field]
      BY <1>1, <1>5
    <3>3. DOMAIN parts' = 1..Len(parts)
                          \cup (Len(parts) + 1..Len(parts) + request[field])
      BY <1>1, <1>2, <1>5
    <3> QED BY <1>3, <3>1, <3>2, <3>3 DEF Copies
  <2>2. Cardinality(Len(parts) + 1..Len(parts) + request[field]) = request[field]
    <3>1. Len(parts) + 1 \in Int /\ Len(parts) + request[field] \in Int
      BY <1>1, <1>2
    <3>2. \A a, b \in Int : Cardinality(a..b) = IF a > b THEN 0 ELSE b - a + 1
      BY FS_Interval, Zenon
    <3> QED BY <1>1, <1>2, <3>1, <3>2
  <2> QED BY <2>1, <2>2
<1> QED BY <1>4, <1>5
----------------------------------------------------------------------------
(* The steps keep the invariant *)

LEMMA NextOnlyKept == TypeOK /\ OnlyKept /\ [Next]_vars => OnlyKept'
<1> SUFFICES ASSUME TypeOK, OnlyKept, [Next]_vars,
                    NEW field \in DOMAIN request, SentAnywhere(field)'
             PROVE  Kept(field)
  BY Fixed DEF OnlyKept
<1>1. SentAnywhere(field) => Kept(field)
  BY DEF OnlyKept
<1>2. field[1] \in {"text", "file"}
  BY FieldTyped, NamesOf
<1>3. ModelField \in Paths
  BY DEF Paths
<1>4. ASSUME NEW other \in pending, MapField(other) PROVE Kept(field)
  <2>1. other \in DOMAIN request /\ Place(other) \in Paths
    BY FieldTyped DEF TypeOK
  <2>2. CASE Kept(other)
    <3>1. SentAnywhere(field) \/ field = other
      BY <1>4, <2>1, <2>2, WriteAdds DEF MapField
    <3> QED BY <1>1, <2>2, <3>1
  <2>3. CASE ~Kept(other)
    BY <1>1, <1>4, <2>3 DEF MapField, SentAnywhere
  <2> QED BY <2>2, <2>3
<1>5. ASSUME NEW path \in unset, ApplyDefault(path) PROVE Kept(field)
  <2>1. path \in Paths
    BY DEF TypeOK, Rules, Paths
  <2>2. SentAnywhere(field) \/ field = Default(path)
    BY <1>5, <2>1, WriteAdds DEF ApplyDefault
  <2> QED BY <1>1, <1>2, <2>2 DEF Default
<1>6. CASE SetModel
  <2>1. CASE rule.hasModel
    <3>1. SentAnywhere(field) \/ field = Upstream
      BY <1>3, <1>6, <2>1, WriteAdds DEF SetModel
    <3> QED BY <1>1, <1>2, <3>1 DEF Upstream
  <2>2. CASE ~rule.hasModel
    BY <1>1, <1>6, <2>2 DEF SetModel, SentAnywhere
  <2> QED BY <2>1, <2>2
<1>7. ASSUME NEW other \in pending, WriteFieldPart(other) \/ WriteFilePart(other)
      PROVE  Kept(field)
  <2>1. other \in DOMAIN request /\ UNCHANGED target
    BY <1>7 DEF TypeOK, WriteFieldPart, WriteFilePart
  <2>2. CASE WritePart(other)
    BY <1>1, <2>1, <2>2, PartSends
  <2>3. CASE UNCHANGED parts
    BY <1>1, <2>1, <2>3 DEF SentAnywhere
  <2> QED BY <1>7, <2>2, <2>3 DEF WriteFieldPart, WriteFilePart
<1>8. CASE WriteModelPart
  <2>1. \A i \in DOMAIN parts' : parts'[i].value = Upstream
    BY <1>8 DEF WriteModelPart
  <2>2. field # Upstream
    BY <1>2 DEF Upstream
  <2>3. UNCHANGED target
    BY <1>8 DEF WriteModelPart
  <2> QED BY <1>1, <2>1, <2>2, <2>3 DEF SentAnywhere
<1>9. CASE UNCHANGED <<target, parts>>
  BY <1>1, <1>9 DEF SentAnywhere
<1> QED BY <1>4, <1>5, <1>6, <1>7, <1>8, <1>9 DEF Next, vars, ParseFails, Unmarshal,
        FieldsDone, PartsDone, FileFails, FilesDone, Returned

\* The model is written last to a JSON body; in a multipart one the parts go
\* behind it.
LEMMA NextModelIn == TypeOK /\ Control /\ ModelIn /\ [Next]_vars => ModelIn'
<1> SUFFICES ASSUME TypeOK, Control, ModelIn, [Next]_vars, rule.hasModel
             PROVE  IF mode = "json" THEN phase' = "done" => Sends(ModelField, Upstream)'
                    ELSE phase' \in {"fields", "files", "done"} =>
                           /\ Len(parts') > 0
                           /\ parts'[1] = [name |-> ModelField, value |-> Upstream]
  BY Fixed DEF ModelIn
<1>0. UNCHANGED mode
  BY Fixed
<1>1. CASE mode = "json"
  <2> SUFFICES ASSUME phase' = "done" PROVE Sends(ModelField, Upstream)'
    BY <1>1
  <2>1. CASE SetModel
    <3>1. ModelField \in Paths
      BY DEF Paths
    <3>2. ModelField \in DOMAIN target' /\ target'[ModelField] = Upstream
      BY <2>1, <3>1, WriteAdds DEF SetModel
    <3> QED BY <1>0, <1>1, <3>2 DEF Sends
  <2>2. CASE Returned \/ UNCHANGED vars
    BY <1>1, <2>2 DEF Returned, vars, ModelIn, Sends
  <2>3. phase # "files"
    BY <1>1 DEF Control
  <2> QED BY <1>1, <2>1, <2>2, <2>3 DEF Next, ParseFails, Unmarshal, FieldsDone, MapField,
          ApplyDefault, WriteFieldPart, WriteFilePart, WriteModelPart, PartsDone,
          FileFails, FilesDone
<1>2. CASE mode # "json"
  <2>1. mode = "multipart" /\ phase # "defaults"
    BY <1>2 DEF TypeOK, Control
  <2> SUFFICES ASSUME phase' \in {"fields", "files", "done"}
               PROVE  /\ Len(parts') > 0
                      /\ parts'[1] = [name |-> ModelField, value |-> Upstream]
    BY <1>2
  <2>2. CASE WriteModelPart
    BY <2>2 DEF WriteModelPart
  <2>3. phase \in {"fields", "files", "done"} =>
          Len(parts) > 0 /\ parts[1] = [name |-> ModelField, value |-> Upstream]
    BY <1>2 DEF ModelIn
  <2>4. ASSUME NEW field \in pending, WriteFieldPart(field) \/ WriteFilePart(field)
        PROVE  /\ Len(parts') > 0
               /\ parts'[1] = [name |-> ModelField, value |-> Upstream]
    <3>1. /\ Len(parts) > 0 /\ parts[1] = [name |-> ModelField, value |-> Upstream]
          /\ field \in DOMAIN request
      BY <2>3, <2>4 DEF WriteFieldPart, WriteFilePart, TypeOK
    <3>2. CASE UNCHANGED parts
      BY <3>1, <3>2
    <3>3. CASE WritePart(field)
      <4> DEFINE new == IF Kept(field) THEN request[field] ELSE 0
      <4>1. /\ Len(parts) \in Nat
            /\ DOMAIN parts' = 1..Len(parts) + new
            /\ \A i \in 1..Len(parts) : parts'[i] = parts[i]
        BY <3>1, <3>3, PartAdds
      <4>2. request[field] \in Nat
        BY <3>1, FieldTyped
      <4>3. Len(parts') \in Nat /\ DOMAIN parts' = 1..Len(parts')
        BY NextTypeOK, LenProperties DEF TypeOK
      <4>4. 1 \in DOMAIN parts'
        BY <3>1, <4>1, <4>2
      <4>5. Len(parts') > 0
        <5>1. 1 \in 1..Len(parts')
          BY <4>3, <4>4
        <5> QED BY <4>3, <5>1
      <4>6. parts'[1] = parts[1]
        <5>1. 1 \in 1..Len(parts)
          BY <3>1, <4>1
        <5> QED BY <4>1, <5>1
      <4> QED BY <3>1, <4>5, <4>6
    <3> QED BY <2>4, <3>2, <3>3 DEF WriteFieldPart, WriteFilePart
  <2>5. CASE PartsDone \/ FilesDone \/ Returned \/ UNCHANGED vars
    BY <2>3, <2>5 DEF PartsDone, FilesDone, Returned, vars
  <2>6. /\ ~ParseFails /\ ~FileFails /\ ~Unmarshal /\ ~FieldsDone /\ ~SetModel
        /\ \A field : ~MapField(field)
        /\ \A path : ~ApplyDefault(path)
    BY <1>2, <2>1 DEF ParseFails, FileFails, Unmarshal, FieldsDone, SetModel,
       MapField, ApplyDefault
  <2>7. \/ \E field \in pending : WriteFieldPart(field) \/ WriteFilePart(field)
        \/ WriteModelPart
        \/ PartsDone \/ FilesDone \/ Returned \/ UNCHANGED vars
    BY <2>6 DEF Next
  <2> QED BY <2>2, <2>4, <2>5, <2>7
<1> QED BY <1>1, <1>2

\* A write elsewhere takes nothing from a place.
LEMMA SendsStays ==
    ASSUME mode = "json", UNCHANGED <<mode, parts>>, NEW path \in Paths, NEW value,
           setPath(path, value), NEW p, ~Overlap(p, path), NEW v, Sends(p, v)
    PROVE  Sends(p, v)'
BY WriteAdds DEF Sends

LEMMA SendsWritten ==
    ASSUME mode = "json", UNCHANGED <<mode, parts>>, NEW path \in Paths, NEW value,
           setPath(path, value)
    PROVE  Sends(path, value)'
BY WriteAdds DEF Sends

\* While a JSON body is built only these steps are possible.
LEMMA JsonStep ==
    ASSUME TypeOK, Control, [Next]_vars, mode = "json"
    PROVE  \/ \E field \in pending : MapField(field)
           \/ \E path \in unset : ApplyDefault(path)
           \/ ParseFails \/ Unmarshal \/ FieldsDone \/ SetModel
           \/ UNCHANGED vars
<1>1. phase # "files"
  BY DEF Control
<1>2. /\ ~WriteModelPart /\ ~PartsDone /\ ~FileFails /\ ~FilesDone
      /\ \A field : ~WriteFieldPart(field) /\ ~WriteFilePart(field)
  BY <1>1 DEF WriteModelPart, PartsDone, FileFails, FilesDone, WriteFieldPart, WriteFilePart
<1> QED BY <1>2 DEF Next, Returned

\* The place of a field that was written is disturbed only by what contests it.
LEMMA NextFieldsAt ==
    TypeOK /\ Control /\ FieldsAt /\ [Next]_vars => FieldsAt'
<1> SUFFICES ASSUME TypeOK, Control, FieldsAt, [Next]_vars, mode = "json",
                    NEW field \in KeptFields, Visited(field)', ~Contested(field)
             PROVE  Sends(Place(field), field)'
  BY Fixed DEF FieldsAt
<1>1. UNCHANGED <<mode, rule, request>>
  BY Fixed
<1>2. /\ field \in DOMAIN request /\ Kept(field) /\ field[1] = "text"
      /\ Place(field) \in Paths
  <2>1. field \in DOMAIN request /\ DOMAIN request \subseteq TextFields
    BY RequestIs DEF KeptFields
  <2> QED BY <2>1, FieldTyped, NamesOf DEF KeptFields
<1>3. Visited(field) => Sends(Place(field), field)
  BY DEF FieldsAt
<1>4. ASSUME NEW other \in pending, MapField(other)
      PROVE  Sends(Place(field), field)'
  <2>1. other \in DOMAIN request /\ Place(other) \in Paths
    BY FieldTyped DEF TypeOK
  <2>2. UNCHANGED parts
    BY <1>4 DEF MapField
  <2>3. CASE other = field
    BY <1>1, <1>2, <1>4, <2>2, <2>3, SendsWritten, Fixed DEF MapField
  <2>4. CASE other # field
    <3>1. Visited(field)
      BY <1>2, <1>4, <2>4 DEF Visited, MapField
    <3>2. Sends(Place(field), field)
      BY <1>3, <3>1
    <3>3. CASE Kept(other)
      <4>1. ~Overlap(Place(field), Place(other))
        BY <2>1, <2>4, <3>3 DEF Contested, KeptFields
      <4> QED BY <1>1, <1>4, <2>1, <2>2, <3>2, <3>3, <4>1, SendsStays, Fixed
              DEF MapField
    <3>4. CASE ~Kept(other)
      BY <1>1, <1>4, <3>2, <3>4, Fixed DEF MapField, Sends
    <3> QED BY <3>3, <3>4
  <2> QED BY <2>3, <2>4
<1>5. ASSUME NEW path \in unset, ApplyDefault(path)
      PROVE  Sends(Place(field), field)'
  <2>1. path \in rule.defaults /\ path \in Paths
    BY DEF TypeOK, Rules, Paths
  <2>2. ~Overlap(Place(field), path)
    BY <2>1 DEF Contested
  <2>3. UNCHANGED parts /\ Visited(field)
    BY <1>2, <1>5 DEF ApplyDefault, Visited
  <2> QED BY <1>1, <1>3, <1>5, <2>1, <2>2, <2>3, SendsStays, Fixed DEF ApplyDefault
<1>6. CASE SetModel
  <2>1. UNCHANGED parts /\ Visited(field) /\ ModelField \in Paths
    BY <1>2, <1>6 DEF SetModel, Visited, Paths
  <2>2. CASE rule.hasModel
    <3>1. ~Overlap(Place(field), ModelField)
      BY <2>2 DEF Contested
    <3> QED BY <1>1, <1>3, <1>6, <2>1, <2>2, <3>1, SendsStays, Fixed DEF SetModel
  <2>3. CASE ~rule.hasModel
    BY <1>1, <1>3, <1>6, <2>1, <2>3, Fixed DEF SetModel, Sends
  <2> QED BY <2>2, <2>3
<1>7. CASE FieldsDone
  <2>1. Visited(field)
    BY <1>2, <1>7 DEF FieldsDone, Visited
  <2> QED BY <1>1, <1>3, <1>7, <2>1, Fixed DEF FieldsDone, Sends
<1>8. CASE ParseFails \/ Unmarshal
  BY <1>2, <1>8 DEF ParseFails, Unmarshal, Visited
<1>9. CASE UNCHANGED vars
  <2>1. Visited(field)
    BY <1>9 DEF vars, Visited
  <2> QED BY <1>3, <1>9, <2>1, Fixed DEF vars, Sends
<1> QED BY <1>4, <1>5, <1>6, <1>7, <1>8, <1>9, JsonStep

\* The same for a default: only another default or the model disturbs it.
LEMMA NextDefaultsAt ==
    TypeOK /\ Control /\ DefaultsAt /\ [Next]_vars => DefaultsAt'
<1> SUFFICES ASSUME TypeOK, Control, DefaultsAt, [Next]_vars, mode = "json",
                    phase' \in {"defaults", "done"},
                    NEW path \in rule.defaults \ unset', ~ContestedDefault(path)
             PROVE  Sends(path, Default(path))'
  BY Fixed DEF DefaultsAt, ContestedDefault
<1>1. UNCHANGED <<mode, rule, request>>
  BY Fixed
<1>2. phase \in {"defaults", "done"} /\ path \notin unset
        => Sends(path, Default(path))
  BY DEF DefaultsAt
<1>3. ASSUME NEW other \in unset, ApplyDefault(other)
      PROVE  Sends(path, Default(path))'
  <2>1. other \in rule.defaults /\ other \in Paths
    BY DEF TypeOK, Rules, Paths
  <2>2. UNCHANGED parts /\ setPath(other, Default(other)) /\ phase = "defaults"
    BY <1>3 DEF ApplyDefault
  <2>3. CASE other = path
    BY <1>1, <2>1, <2>2, <2>3, SendsWritten DEF Default
  <2>4. CASE other # path
    <3>1. ~Overlap(path, other)
      BY <2>1, <2>4 DEF ContestedDefault
    <3>2. Sends(path, Default(path))
      BY <1>2, <1>3, <2>2, <2>4 DEF ApplyDefault
    <3>3. Sends(path, Default(path))' <=> path \in DOMAIN target' /\ target'[path] = Default(path)
      BY <1>1 DEF Sends, Default
    <3> QED BY <2>1, <2>2, <3>1, <3>2, <3>3, WriteAdds DEF Sends
  <2> QED BY <2>3, <2>4
<1>4. CASE SetModel
  <2>1. UNCHANGED parts /\ ModelField \in Paths /\ Sends(path, Default(path))
    BY <1>2, <1>4 DEF SetModel, Paths
  <2>2. CASE rule.hasModel
    <3>1. ~Overlap(path, ModelField) /\ setPath(ModelField, Upstream)
      BY <1>4, <2>2 DEF ContestedDefault, SetModel
    <3>2. Sends(path, Default(path))' <=> path \in DOMAIN target' /\ target'[path] = Default(path)
      BY <1>1 DEF Sends, Default
    <3> QED BY <2>1, <3>1, <3>2, WriteAdds DEF Sends
  <2>3. CASE ~rule.hasModel
    BY <1>1, <1>4, <2>1, <2>3 DEF SetModel, Sends, Default
  <2> QED BY <2>2, <2>3
<1>5. CASE FieldsDone
  BY <1>5 DEF FieldsDone
<1>6. CASE ParseFails \/ Unmarshal \/ (\E field \in pending : MapField(field))
  BY <1>6 DEF ParseFails, Unmarshal, MapField
<1>7. CASE UNCHANGED vars
  BY <1>2, <1>7 DEF vars, Sends, Default
<1> QED BY <1>3, <1>4, <1>5, <1>6, <1>7, JsonStep

LEMMA MultipartStep ==
    ASSUME TypeOK, Control, [Next]_vars, mode = "multipart"
    PROVE  \/ \E field \in pending : WriteFieldPart(field) \/ WriteFilePart(field)
           \/ WriteModelPart \/ PartsDone \/ FilesDone
           \/ ParseFails \/ FileFails
           \/ UNCHANGED vars
<1>1. phase # "defaults"
  BY DEF Control
<1>2. /\ ~Unmarshal /\ ~FieldsDone /\ ~SetModel
      /\ \A field : ~MapField(field)
      /\ \A path : ~ApplyDefault(path)
  BY <1>1 DEF Unmarshal, FieldsDone, SetModel, MapField, ApplyDefault
<1> QED BY <1>2 DEF Next, Returned

\* A loop visits a field once, and writes all of its values then.
LEMMA NextPartsCounted ==
    TypeOK /\ Control /\ PartsCounted /\ [Next]_vars => PartsCounted'
<1> DEFINE Due(field) == Visited(field) /\ Kept(field) /\ ~SkippedForModel(field)
<1> SUFFICES ASSUME TypeOK, Control, PartsCounted, [Next]_vars, mode = "multipart",
                    phase' # "failed", NEW field \in DOMAIN request
             PROVE  IF Due(field)' THEN Cardinality(Copies(field)') = request[field]
                                   ELSE Copies(field)' = {}
  <2>1. [Next]_vars => UNCHANGED <<mode, request>>
    BY Fixed
  <2> QED BY <2>1 DEF PartsCounted
<1>1. /\ UNCHANGED <<mode, rule, request>>
      /\ \A f : /\ Place(f)' = Place(f) /\ Kept(f)' = Kept(f)
                /\ SkippedForModel(f)' = SkippedForModel(f)
  BY Fixed
<1>2. /\ DOMAIN request \subseteq TextFields \cup FileFields
      /\ \A f \in TextFields : f[1] = "text"
      /\ \A f \in FileFields : f[1] = "file"
  BY FieldTyped, NamesOf
<1>3. phase # "failed" => IF Due(field) THEN Cardinality(Copies(field)) = request[field]
                                        ELSE Copies(field) = {}
  BY DEF PartsCounted
<1>4. ASSUME UNCHANGED parts, Visited(field)' <=> Visited(field), phase # "failed"
      PROVE  IF Due(field)' THEN Cardinality(Copies(field)') = request[field]
                            ELSE Copies(field)' = {}
  <2>1. Copies(field)' = Copies(field)
    BY <1>1, <1>4 DEF Copies
  <2> QED BY <1>1, <1>3, <1>4, <2>1
<1>5. CASE WriteModelPart
  <2>1. ~Visited(field)'
    BY <1>2, <1>5 DEF WriteModelPart, Visited
  <2>2. \A i \in DOMAIN parts' : parts'[i].value = Upstream
    BY <1>5 DEF WriteModelPart
  <2>3. field # Upstream
    BY <1>2 DEF Upstream
  <2>4. Copies(field)' = {}
    BY <2>2, <2>3 DEF Copies
  <2> QED BY <2>1, <2>4
<1>6. ASSUME NEW other \in pending, WriteFieldPart(other) \/ WriteFilePart(other)
      PROVE  IF Due(field)' THEN Cardinality(Copies(field)') = request[field]
                            ELSE Copies(field)' = {}
  <2>1. /\ other \in DOMAIN request /\ phase # "failed" /\ phase' = phase
        /\ pending' = pending \ {other}
        /\ WritePart(other) \/ UNCHANGED parts
    BY <1>6 DEF TypeOK, WriteFieldPart, WriteFilePart
  <2>2. ~Visited(other) /\ Visited(other)'
    BY <1>2, <1>6, <2>1 DEF WriteFieldPart, WriteFilePart, Visited, Control
  <2>3. \A f : f # other => (Visited(f)' <=> Visited(f))
    BY <2>1 DEF Visited
  <2>4. CASE UNCHANGED parts
    <3>1. CASE field # other
      BY <1>4, <2>1, <2>3, <2>4, <3>1
    <3>2. CASE field = other
      <4>1. Copies(field)' = Copies(field) /\ Copies(field) = {}
        BY <1>1, <1>3, <2>1, <2>2, <2>4, <3>2 DEF Copies
      <4>2. CASE WritePart(other) /\ Kept(other)
        <5>1. Cardinality(Copies(field)') = request[field]
          BY <1>1, <2>1, <3>2, <4>1, <4>2, PartCopies
        <5>2. request[field] # 0
          BY FieldTyped
        <5> QED BY <4>1, <5>1, <5>2, FS_EmptySet
      <4>3. CASE ~(WritePart(other) /\ Kept(other))
        <5>1. Kept(other) => SkippedForModel(other)
          BY <1>2, <1>6, <2>1, <4>3 DEF WriteFieldPart, WriteFilePart,
             SkippedForModel, Control
        <5> QED BY <1>1, <3>2, <4>1, <5>1
      <4> QED BY <4>2, <4>3
    <3> QED BY <3>1, <3>2
  <2>5. CASE WritePart(other)
    <3>1. CASE field # other \/ ~Kept(other)
      <4>1. Copies(field)' = Copies(field)
        BY <1>1, <2>1, <2>5, <3>1, PartCopies
      <4>2. Due(field)' <=> Due(field)
        BY <1>1, <2>3, <3>1
      <4> QED BY <1>3, <2>1, <4>1, <4>2
    <3>2. CASE field = other /\ Kept(other)
      <4>1. Copies(field) = {}
        BY <1>3, <2>1, <2>2, <3>2
      <4>2. Cardinality(Copies(field)') = request[field]
        BY <1>1, <2>1, <2>5, <3>2, <4>1, PartCopies
      <4>3. CASE ~SkippedForModel(field)
        BY <1>1, <2>2, <3>2, <4>2, <4>3
      <4>4. CASE SkippedForModel(field)
        <5>1. UNCHANGED parts
          BY <1>2, <1>6, <2>1, <3>2, <4>4 DEF WriteFieldPart, WriteFilePart,
             SkippedForModel, Control
        <5> QED BY <2>4, <5>1
      <4> QED BY <4>3, <4>4
    <3> QED BY <3>1, <3>2
  <2> QED BY <2>1, <2>4, <2>5
<1>7. CASE PartsDone
  <2>1. UNCHANGED parts /\ phase # "failed"
    BY <1>7 DEF PartsDone
  <2>2. Visited(field)' <=> Visited(field)
    BY <1>2, <1>7 DEF PartsDone, Visited
  <2> QED BY <1>4, <2>1, <2>2
<1>8. CASE FilesDone
  <2>1. UNCHANGED parts /\ phase # "failed"
    BY <1>8 DEF FilesDone
  <2>2. Visited(field)' <=> Visited(field)
    BY <1>2, <1>8 DEF FilesDone, Visited
  <2> QED BY <1>4, <2>1, <2>2
<1>9. CASE ParseFails \/ FileFails
  BY <1>9 DEF ParseFails, FileFails
<1>10. CASE UNCHANGED vars
  BY <1>4, <1>10 DEF vars, Visited
<1> QED BY <1>5, <1>6, <1>7, <1>8, <1>9, <1>10, MultipartStep

LEMMA WrittenInPlace ==
    ASSUME InPlace, NEW path \in Paths, NEW value, setPath(path, value),
           value \in TextFields => value \in DOMAIN request /\ path = Place(value)
    PROVE  \A p \in DOMAIN target' :
             target'[p] \in TextFields =>
               target'[p] \in DOMAIN request /\ p = Place(target'[p])
<1>1. /\ path \in DOMAIN target' /\ target'[path] = value
      /\ \A p \in DOMAIN target' \ {path} : p \in DOMAIN target /\ target'[p] = target[p]
      /\ \A p \in DOMAIN target :
            ~Overlap(p, path) => p \in DOMAIN target' /\ target'[p] = target[p]
  BY WrittenLeaves DEF setPath
<1> QED BY <1>1 DEF InPlace

LEMMA NextInPlace == TypeOK /\ InPlace /\ [Next]_vars => InPlace'
<1> SUFFICES ASSUME TypeOK, InPlace, [Next]_vars PROVE InPlace'
  OBVIOUS
<1>1. UNCHANGED request /\ \A field : Place(field)' = Place(field)
  BY Fixed
<1>2. ASSUME \A p \in DOMAIN target' :
               target'[p] \in TextFields =>
                 target'[p] \in DOMAIN request /\ p = Place(target'[p])
      PROVE  InPlace'
  BY <1>1, <1>2 DEF InPlace, TextFields
<1>3. ASSUME UNCHANGED target PROVE InPlace'
  BY <1>2, <1>3 DEF InPlace
<1>4. ASSUME NEW field \in pending, MapField(field) PROVE InPlace'
  <2>1. Place(field) \in Paths /\ field \in DOMAIN request
    BY FieldTyped DEF TypeOK
  <2>2. setPath(Place(field), field) \/ UNCHANGED target
    BY <1>4 DEF MapField
  <2> QED BY <1>2, <1>3, <2>1, <2>2, WrittenInPlace
<1>5. ASSUME NEW path \in unset, ApplyDefault(path) PROVE InPlace'
  <2>1. path \in Paths
    BY DEF TypeOK, Rules, Paths
  <2>2. Default(path) \notin TextFields /\ setPath(path, Default(path))
    BY <1>5, NamesOf DEF Default, ApplyDefault
  <2> QED BY <1>2, <2>1, <2>2, WrittenInPlace
<1>6. CASE SetModel
  <2>1. ModelField \in Paths /\ Upstream \notin TextFields
    BY NamesOf DEF Paths, Upstream
  <2>2. setPath(ModelField, Upstream) \/ UNCHANGED target
    BY <1>6 DEF SetModel
  <2> QED BY <1>2, <1>3, <2>1, <2>2, WrittenInPlace
<1>7. ASSUME NEW field \in pending, WriteFieldPart(field) \/ WriteFilePart(field)
      PROVE  InPlace'
  BY <1>3, <1>7 DEF WriteFieldPart, WriteFilePart
<1>8. CASE WriteModelPart \/ ParseFails \/ Unmarshal \/ FieldsDone \/ PartsDone \/ FileFails
  BY <1>3, <1>8
     DEF WriteModelPart, ParseFails, Unmarshal, FieldsDone, PartsDone, FileFails
<1>9. CASE FilesDone \/ Returned \/ UNCHANGED vars
  BY <1>3, <1>9 DEF FilesDone, Returned, vars
<1> QED BY <1>4, <1>5, <1>6, <1>7, <1>8, <1>9 DEF Next

LEMMA NextIInv == IInv /\ [Next]_vars => IInv'
BY NextTypeOK, NextControl, NextModelIn, NextOnlyKept, NextInPlace, NextFieldsAt,
   NextDefaultsAt, NextPartsCounted DEF IInv

----------------------------------------------------------------------------

\* Leaves and parts stay those of a body that can be encoded.
THEOREM BodyTyped == Spec => []TypeOK
<1>1. IInv => TypeOK
  BY DEF IInv
<1> QED BY InitIInv, NextIInv, <1>1, PTL DEF Spec

\* Whatever the request, the field map and the defaults, the upstream is asked
\* for the model of the rule.
THEOREM ModelWinsHolds == Spec => []ModelWins
<1>1. IInv => ModelWins
  <2> SUFFICES ASSUME IInv, phase = "done", rule.hasModel
               PROVE  Sends(ModelField, Upstream)
    BY DEF ModelWins
  <2>1. CASE mode = "json"
    BY <2>1 DEF IInv, ModelIn
  <2>2. CASE mode # "json"
    <3>1. Len(parts) > 0 /\ parts[1] = [name |-> ModelField, value |-> Upstream]
      BY <2>2 DEF IInv, ModelIn
    <3>2. Len(parts) \in Nat /\ DOMAIN parts = 1..Len(parts)
      BY LenProperties DEF IInv, TypeOK
    <3>3. 1 \in DOMAIN parts
      BY <3>1, <3>2
    <3>4. 1..1 - 1 = {}
      OBVIOUS
    <3> QED BY <2>2, <3>1, <3>3, <3>4 DEF Sends
  <2> QED BY <2>1, <2>2
<1> QED BY InitIInv, NextIInv, <1>1, PTL DEF Spec

\* Nothing of a field that is ignored or dropped is in a body, finished or not,
\* in any place.
THEOREM IgnoredNotSentHolds == Spec => []IgnoredNotSent
<1>1. IInv => IgnoredNotSent
  BY DEF IInv, OnlyKept, IgnoredNotSent, Kept
<1> QED BY InitIInv, NextIInv, <1>1, PTL DEF Spec

\* Every other field is sent in whatever order the loops run: in JSON unless its
\* place is contested, in a multipart body each of its values once.
THEOREM FieldsSentHolds == Spec => []FieldsSent
<1>1. IInv => FieldsSent
  <2> SUFFICES ASSUME IInv, phase = "done", NEW field \in KeptFields
               PROVE  IF mode = "json"
                      THEN Sends(Place(field), field) \/ Contested(field)
                      ELSE \/ Cardinality(Copies(field)) = request[field]
                           \/ SkippedForModel(field)
    BY DEF FieldsSent
  <2>1. Visited(field)
    BY DEF Visited
  <2>2. CASE mode = "json"
    BY <2>1, <2>2 DEF IInv, FieldsAt
  <2>3. CASE mode # "json"
    <3>1. mode = "multipart" /\ field \in DOMAIN request /\ Kept(field)
      BY <2>3 DEF IInv, TypeOK, KeptFields
    <3> QED BY <2>1, <2>3, <3>1 DEF IInv, PartsCounted
  <2> QED BY <2>2, <2>3
<1> QED BY InitIInv, NextIInv, <1>1, PTL DEF Spec

\* In a JSON body only the model, or another default, is written over a default.
THEOREM DefaultsInJsonHolds == Spec => []DefaultsInJson
<1>1. IInv => DefaultsInJson
  <2> SUFFICES ASSUME IInv, mode = "json", phase = "done", NEW path \in rule.defaults
               PROVE  Sends(path, Default(path)) \/ ContestedDefault(path)
    BY DEF DefaultsInJson, DefaultsSent, ContestedDefault
  <2>1. path \notin unset
    BY DEF IInv, Control
  <2> QED BY <2>1 DEF IInv, DefaultsAt
<1> QED BY InitIInv, NextIInv, <1>1, PTL DEF Spec

----------------------------------------------------------------------------
(* What a value shows *)

ShownDef(g, v) ==
    CASE v.t = "arr" -> UNION {g[v.q[i]] : i \in DOMAIN v.q}
      [] v.t = "obj" -> UNION {g[v.f[k]] : k \in {n \in FieldNames : Found(v.f[n])}}
      [] OTHER -> {v}

OverShown == INSTANCE Recursion WITH D <- Json, rank <- depth, Def <- ShownDef

LEMMA ShownOf == \A v \in Json : Shown[v] = ShownDef(Shown, v)
<1>1. OverShown!LooksBelow
  <2> SUFFICES ASSUME NEW v \in Json, NEW g, NEW h,
                      \A w \in Json : depth[w] < depth[v] => g[w] = h[w]
               PROVE  ShownDef(g, v) = ShownDef(h, v)
    BY DEF OverShown!LooksBelow
  <2>1. v.t = "arr" => \A i \in DOMAIN v.q : g[v.q[i]] = h[v.q[i]]
    BY PartsBelow
  <2>2. v.t = "obj" => \A k \in FieldNames : Found(v.f[k]) => g[v.f[k]] = h[v.f[k]]
    BY PartsBelow
  <2> QED BY <2>1, <2>2 DEF ShownDef
<1>2. \E g : g = [v \in Json |-> ShownDef(g, v)]
  BY <1>1, Depths, OverShown!Recursive
<1>3. Shown = [v \in Json |-> ShownDef(Shown, v)]
  BY <1>2 DEF Shown, ShownDef
<1> QED BY <1>3

\* A scalar shows itself, and an object what its fields show.
LEMMA ShownParts ==
    /\ \A v \in Scalar : Shown[v] = {v}
    /\ \A v \in Json : v.t = "obj" =>
         \A x \in Shown[v] : \E k \in FieldNames : Found(v.f[k]) /\ x \in Shown[v.f[k]]
<1>1. \A v \in Scalar : Shown[v] = {v}
  BY ScalarKinds, ShownOf DEF ShownDef
<1>2. ASSUME NEW v \in Json, v.t = "obj", NEW x \in Shown[v]
      PROVE  \E k \in FieldNames : Found(v.f[k]) /\ x \in Shown[v.f[k]]
  <2>1. Shown[v] = UNION {Shown[v.f[k]] : k \in {n \in FieldNames : Found(v.f[n])}}
    BY <1>2, ShownOf DEF ShownDef
  <2> QED BY <1>2, <2>1
<1> QED BY <1>1, <1>2

\* A redacted value shows nothing new but the mark.
LEMMA RedactedShows ==
    \A v \in Json : Shown[redactValue[v]] \subseteq Shown[v] \cup {Redacted}
<1> DEFINE T == {v \in Json : Shown[redactValue[v]] \subseteq Shown[v] \cup {Redacted}}
<1>1. Scalar \subseteq T
  <2> SUFFICES ASSUME NEW v \in Scalar PROVE v \in T
    OBVIOUS
  <2>1. v \in Json /\ redactValue[v] = Redacted
    BY ScalarKinds, RedactValue DEF RedactValueDef
  <2> QED BY <2>1, ShownParts, RedactedJson
<1>2. ASSUME NEW v \in Json, v.t = "arr", \A i \in DOMAIN v.q : v.q[i] \in T
      PROVE  v \in T
  <2> DEFINE w == redactValue[v]
  <2>1. w = Arr([i \in DOMAIN v.q |-> redactValue[v.q[i]]])
    BY <1>2, RedactValue DEF RedactValueDef
  <2>2. w.t = "arr" /\ DOMAIN w.q = DOMAIN v.q
        /\ \A i \in DOMAIN v.q : w.q[i] = redactValue[v.q[i]]
    BY <2>1 DEF Arr
  <2>3. w \in Json
    BY StillJson
  <2> HIDE DEF w
  <2>4. /\ Shown[w] = UNION {Shown[w.q[i]] : i \in DOMAIN w.q}
        /\ Shown[v] = UNION {Shown[v.q[i]] : i \in DOMAIN v.q}
    BY <1>2, <2>2, <2>3, ShownOf DEF ShownDef
  <2>5. \A i \in DOMAIN w.q : Shown[w.q[i]] \subseteq Shown[v.q[i]] \cup {Redacted}
    BY <1>2, <2>2
  <2>6. Shown[w] \subseteq Shown[v] \cup {Redacted}
    BY <2>2, <2>4, <2>5
  <2> QED BY <2>6 DEF w
<1>3. ASSUME NEW v \in Json, v.t = "obj" PROVE v \in T
  BY <1>3, RedactValue DEF RedactValueDef
<1>4. Json \subseteq T
  <2> HIDE DEF T
  <2> QED BY <1>1, <1>2, <1>3, JsonInduction
<1> QED BY <1>4

\* Nor does one whose large fields were redacted.
LEMMA SanitizedShows ==
    \A v \in Json : Shown[sanitizeCommonLargeFields[v]] \subseteq Shown[v] \cup {Redacted}
<1> DEFINE F == sanitizeCommonLargeFields
           T == {v \in Json : Shown[F[v]] \subseteq Shown[v] \cup {Redacted}}
<1>1. Scalar \subseteq T
  BY ScalarKinds, Sanitize DEF SanitizeDef
<1>2. ASSUME NEW v \in Json, v.t = "arr", \A i \in DOMAIN v.q : v.q[i] \in T
      PROVE  v \in T
  <2> DEFINE w == F[v]
  <2>1. w = Arr([i \in DOMAIN v.q |-> F[v.q[i]]])
    BY <1>2, Sanitize DEF SanitizeDef
  <2>2. w.t = "arr" /\ DOMAIN w.q = DOMAIN v.q
        /\ \A i \in DOMAIN v.q : w.q[i] = F[v.q[i]]
    BY <2>1 DEF Arr
  <2>3. w \in Json
    BY StillJson
  <2> HIDE DEF w
  <2>4. /\ Shown[w] = UNION {Shown[w.q[i]] : i \in DOMAIN w.q}
        /\ Shown[v] = UNION {Shown[v.q[i]] : i \in DOMAIN v.q}
    BY <1>2, <2>2, <2>3, ShownOf DEF ShownDef
  <2>5. \A i \in DOMAIN w.q : Shown[w.q[i]] \subseteq Shown[v.q[i]] \cup {Redacted}
    BY <1>2, <2>2
  <2>6. Shown[w] \subseteq Shown[v] \cup {Redacted}
    BY <2>2, <2>4, <2>5
  <2> QED BY <2>6 DEF w
<1>3. ASSUME NEW v \in Json, v.t = "obj", \A k \in FieldNames : v.f[k] \in {Missing} \cup T
      PROVE  v \in T
  <2> DEFINE w == F[v]
  <2>1. w \in Json /\ w.t = "obj"
        /\ \A k \in FieldNames :
             /\ Found(w.f[k]) <=> Found(v.f[k])
             /\ Found(v.f[k]) => /\ v.f[k] \in Json
                                 /\ w.f[k] = IF shouldRedactFieldName(k)
                                             THEN redactValue[v.f[k]] ELSE F[v.f[k]]
    BY <1>3, SanitizeObj
  <2>2. ASSUME NEW k \in FieldNames, Found(w.f[k])
        PROVE  Found(v.f[k]) /\ Shown[w.f[k]] \subseteq Shown[v.f[k]] \cup {Redacted}
    <3>1. v.f[k] \in Json /\ v.f[k] \in T /\ Found(v.f[k])
      BY <1>3, <2>1, <2>2, MissingNotJson
    <3> QED BY <2>1, <3>1, RedactedShows
  <2> HIDE DEF w
  <2>3. /\ Shown[w] = UNION {Shown[w.f[k]] : k \in {n \in FieldNames : Found(w.f[n])}}
        /\ Shown[v] = UNION {Shown[v.f[k]] : k \in {n \in FieldNames : Found(v.f[n])}}
    BY <1>3, <2>1, ShownOf DEF ShownDef
  <2>4. Shown[w] \subseteq Shown[v] \cup {Redacted}
    BY <2>2, <2>3
  <2> QED BY <2>4 DEF w
<1>4. Json \subseteq T
  <2> HIDE DEF T
  <2> QED BY <1>1, <1>2, <1>3, JsonInduction
<1> QED BY <1>4

----------------------------------------------------------------------------
(* What a column of a request shows *)

\* An object in which one field was redacted.
OneRedacted(w, v, k) ==
    /\ w \in Json /\ w.t = "obj"
    /\ \A n \in FieldNames \ {k} : w.f[n] = v.f[n]
    /\ w.f[k] = IF Found(v.f[k]) THEN redactValue[v.f[k]] ELSE v.f[k]

LEMMA NameRedacted ==
    \A v \in Json : \A k \in FieldNames : \A array \in BOOLEAN :
        v.t = "obj" => OneRedacted(redactPath[v][<<[name |-> k, array |-> array]>>], v, k)
<1> SUFFICES ASSUME NEW v \in Json, NEW k \in FieldNames, NEW array \in BOOLEAN, v.t = "obj"
             PROVE  OneRedacted(redactPath[v][<<[name |-> k, array |-> array]>>], v, k)
  OBVIOUS
<1> DEFINE token == [name |-> k, array |-> array]
           path == <<token>>
           w == redactPath[v][path]
           next == Field(v, Head(path).name)
           below == IF Len(path) = 1 THEN redactValue[next]
                    ELSE IF Head(path).array /\ next.t # "arr" THEN next
                    ELSE redactPath[next][Tail(path)]
<1>1. path \in Seq(Tokens) /\ path # <<>> /\ Len(path) = 1 /\ Head(path) = token
  <2>1. token \in Tokens
    BY DEF Tokens
  <2> HIDE DEF token
  <2> QED BY <2>1
<1>2. token.name = k
  OBVIOUS
<1> HIDE DEF path, token
<1>3. next = v.f[k]
  BY <1>1, <1>2 DEF Field, Fields
<1>4. w \in Json
  BY <1>1, StillJson
<1>5. w = IF Found(next) THEN [v EXCEPT !.f[Head(path).name] = below] ELSE v
  BY <1>1, RedactPathAt
<1>6. below = redactValue[next] /\ Head(path).name = k
  BY <1>1, <1>2
<1> HIDE DEF w, below, next
<1>7. OneRedacted(w, v, k)
  <2>1. CASE Found(v.f[k])
    <3>1. w = [v EXCEPT !.f[k] = below]
      BY <1>3, <1>5, <1>6, <2>1
    <3>2. Replaced(w, v, k, below)
      BY <3>1, FieldReplaced
    <3> QED BY <1>3, <1>4, <1>6, <2>1, <3>2 DEF Replaced, OneRedacted
  <2>2. CASE ~Found(v.f[k])
    BY <1>3, <1>4, <1>5, <2>2 DEF OneRedacted
  <2> QED BY <2>1, <2>2
<1> QED BY <1>7 DEF w, path, token

\* The fields that may be images are blanked, and the others are left alone.
LEMMA OwnRedacted ==
    ASSUME NEW v \in Json, v.t = "obj", NEW w, w = redactOwn("request", v)
    PROVE  /\ w \in Json /\ w.t = "obj"
           /\ \A k \in FieldNames :
                w.f[k] = IF k \in ImageNames /\ Found(v.f[k]) THEN redactValue[v.f[k]]
                                                              ELSE v.f[k]
<1> DEFINE a == redactPath[v][<<Key("image")>>]
           b == redactPath[a][<<Each("images")>>]
           c == redactPath[b][<<Key("mask")>>]
<1>1. "image" \in FieldNames /\ "images" \in FieldNames /\ "mask" \in FieldNames
  BY SnapshotAssumption DEF ImageNames
<1>2. OneRedacted(a, v, "image")
  BY <1>1, NameRedacted DEF Key
<1>3. c = w
  BY DEF redactOwn
<1> HIDE DEF a
<1>4. OneRedacted(b, a, "images")
  BY <1>1, <1>2, NameRedacted DEF Each, OneRedacted
<1> HIDE DEF b
<1>5. OneRedacted(c, b, "mask")
  BY <1>1, <1>4, NameRedacted DEF Key, OneRedacted
<1> HIDE DEF c
<1> USE DEF OneRedacted
<1>6. ASSUME NEW k \in FieldNames
      PROVE  w.f[k] = IF k \in ImageNames /\ Found(v.f[k]) THEN redactValue[v.f[k]] ELSE v.f[k]
  <2>1. CASE k = "image"
    BY <1>2, <1>3, <1>4, <1>5, <2>1 DEF ImageNames
  <2>2. CASE k = "images"
    BY <1>2, <1>3, <1>4, <1>5, <2>2 DEF ImageNames
  <2>3. CASE k = "mask"
    BY <1>2, <1>3, <1>4, <1>5, <2>3 DEF ImageNames
  <2>4. CASE k \notin ImageNames
    BY <1>2, <1>3, <1>4, <1>5, <2>4 DEF ImageNames
  <2> QED BY <2>1, <2>2, <2>3, <2>4 DEF ImageNames
<1> QED BY <1>3, <1>5, <1>6

LEMMA OtherFieldsIn ==
    ASSUME NEW v \in Json, v.t = "obj", NEW w, w = OtherFields(v)
    PROVE  /\ w \in Json /\ w.t = "obj"
           /\ \A k \in FieldNames : w.f[k] = IF k \in ImageNames THEN Missing ELSE v.f[k]
<1> DEFINE f == [k \in FieldNames |-> IF k \in ImageNames THEN Missing ELSE v.f[k]]
<1>1. MaxDepth > 0 /\ v.f \in FieldsTo(MaxDepth - 1) /\ MaxDepth \in 0..MaxDepth
  <2>1. v \in JsonTo[MaxDepth] /\ MaxDepth \in 0..MaxDepth
    BY DepthAssumption DEF Json
  <2> QED BY <2>1, LevelCases DEF FieldsTo
<1>2. f \in FieldsTo(MaxDepth - 1)
  BY <1>1 DEF FieldsTo
<1>3. w = Obj(f)
  BY DEF OtherFields, Obj, Field, Fields
<1> HIDE DEF f
<1>4. w \in Json /\ w.t = "obj" /\ Fields(w) = f
  BY <1>1, <1>2, <1>3, FieldsIn DEF Json
<1>5. w.f = f
  BY <1>4 DEF Fields
<1> QED BY <1>4, <1>5 DEF f

\* So the column of an object has its fields: the images blanked, what is large
\* redacted, nothing shown that was not there, and the others unchanged.
LEMMA RequestColumn ==
    ASSUME NEW v \in Json, v.t = "obj", NEW w, w = LogColumn("request", v)
    PROVE  /\ \A x \in Shown[w] : x # Redacted =>
                \E k \in FieldNames :
                   /\ Found(v.f[k]) /\ x \in Shown[v.f[k]]
                   /\ k \in ImageNames => x \in Shown[redactValue[v.f[k]]]
           /\ Rest[OtherFields(w)] = Rest[OtherFields(v)]
<1> DEFINE own == redactOwn("request", v)
           F == sanitizeCommonLargeFields
<1>1. /\ own \in Json /\ own.t = "obj"
      /\ \A k \in FieldNames :
           own.f[k] = IF k \in ImageNames /\ Found(v.f[k]) THEN redactValue[v.f[k]]
                                                           ELSE v.f[k]
  BY OwnRedacted
<1> HIDE DEF own
<1>2. F[own] \in Json
  BY <1>1, StillJson
<1>3. w = F[own]
  BY <1>2, Parts DEF LogColumn, SanitizeLogPayload, jsonbString, own
<1>4. /\ w \in Json /\ w.t = "obj"
      /\ \A k \in FieldNames :
           /\ Found(w.f[k]) <=> Found(own.f[k])
           /\ Found(own.f[k]) => /\ own.f[k] \in Json
                                 /\ w.f[k] = IF shouldRedactFieldName(k)
                                             THEN redactValue[own.f[k]] ELSE F[own.f[k]]
  BY <1>1, <1>3, SanitizeObj
<1>5. \A k \in FieldNames : v.f[k] \in {Missing} \cup Json
  BY Parts, FieldFound
<1>6. \A k \in FieldNames : /\ Found(v.f[k]) => v.f[k] \in Json
                            /\ Found(own.f[k]) <=> Found(v.f[k])
  BY <1>1, <1>5, StillJson, Parts, MissingNotJson
<1>7. ASSUME NEW x \in Shown[w], x # Redacted
      PROVE  \E k \in FieldNames : /\ Found(v.f[k]) /\ x \in Shown[v.f[k]]
                                   /\ k \in ImageNames => x \in Shown[redactValue[v.f[k]]]
  <2>1. PICK k \in FieldNames : Found(w.f[k]) /\ x \in Shown[w.f[k]]
    BY <1>4, <1>7, ShownParts
  <2>2. Found(v.f[k]) /\ v.f[k] \in Json /\ own.f[k] \in Json
    BY <1>4, <1>6, <2>1
  <2>3. x \in Shown[own.f[k]]
    BY <1>4, <1>7, <2>1, <2>2, RedactedShows, SanitizedShows
  <2>4. x \in Shown[v.f[k]]
    BY <1>1, <1>7, <2>2, <2>3, RedactedShows
  <2> QED BY <1>1, <2>2, <2>3, <2>4
<1>8. Rest[OtherFields(w)] = Rest[OtherFields(v)]
  <2> DEFINE a == OtherFields(w)
             b == OtherFields(v)
  <2>1. a \in Json /\ a.t = "obj"
        /\ \A k \in FieldNames : a.f[k] = IF k \in ImageNames THEN Missing ELSE w.f[k]
    BY <1>4, OtherFieldsIn
  <2>2. b \in Json /\ b.t = "obj"
        /\ \A k \in FieldNames : b.f[k] = IF k \in ImageNames THEN Missing ELSE v.f[k]
    BY OtherFieldsIn
  <2> HIDE DEF a, b
  <2>3. \A k \in FieldNames :
          /\ Found(a.f[k]) <=> Found(b.f[k])
          /\ Found(b.f[k]) /\ ~shouldRedactFieldName(k) => Rest[a.f[k]] = Rest[b.f[k]]
    BY <1>1, <1>4, <1>6, <2>1, <2>2, SanitizeKeeps, MissingNotJson
  <2>4. Rest[a] = Rest[b]
    BY <2>1, <2>2, <2>3, RestOfObj
  <2> QED BY <2>4 DEF a, b
<1> QED BY <1>7, <1>8

----------------------------------------------------------------------------
(* The values of a body *)

\* A name of the client is one word.
LEMMA NamesAre ==
    /\ \A name \in Names : name = <<name[1]>>
    /\ \A a, b \in Names : a[1] = b[1] => a = b
<1>1. ASSUME NEW name \in Names PROVE name = <<name[1]>>
  <2>1. name \in Seq(STRING) /\ Len(name) = 1
    BY MappingAssumption, SnapshotAssumption
  <2> QED BY <2>1
<1> QED BY <1>1

\* The fields whose values are blanked under a name for images: texts, and lists of them.
Pictures == {field \in TextFields : field[3] \in {"text", "texts"}}

LEMMA TextTyped == \A value \in Values : Text(value) \in Scalar
<1> SUFFICES ASSUME NEW value \in Values PROVE Text(value) \in Scalar
  OBVIOUS
<1>1. (IF value[1] = "text" THEN value[2][1] ELSE value[1]) \in Texts
  <2>1. CASE value \in TextFields
    <3>1. value[1] = "text" /\ value[2] \in Names
      BY <2>1, NamesOf
    <3>2. value[2][1] \in {name[1] : name \in Names}
      BY <3>1
    <3> QED BY <3>1, <3>2, SnapshotAssumption
  <2>2. CASE value \notin TextFields
    <3>1. value[1] \in {"file", "default", "upstream"}
      BY <2>2, NamesOf DEF Values, Default, Upstream
    <3>2. value[1] \in Texts
      BY <3>1, SnapshotAssumption
    <3> QED BY <3>1, <3>2
  <2> QED BY <2>1, <2>2
<1>2. Text(value) \in [t : {"str"}, s : Texts]
  BY <1>1 DEF Text, Str
<1> QED BY <1>2 DEF Scalar

LEMMA Shallow == /\ 0 \in 0..MaxDepth /\ 1 \in 0..MaxDepth /\ 2 \in 0..MaxDepth
                 /\ MaxDepth \in Nat /\ MaxDepth > 2
<1>1. Len(ModelField) \in 1..MaxDepth - 2
  BY SnapshotAssumption DEF Paths
<1> QED BY <1>1, DepthAssumption

\* An object with one text.
LEMMA WrappedShows ==
    ASSUME NEW value \in Values, NEW v, v = Wrapped(value)
    PROVE  /\ v \in JsonTo[1] /\ v.t = "obj"
           /\ \A k \in FieldNames : v.f[k] \in {Missing, Text(value)}
           /\ \A x \in Shown[v] : x = Text(value)
<1> DEFINE text == Text(value)
           f == [k \in FieldNames |-> IF k = "text" THEN text ELSE Missing]
<1>1. text \in Scalar /\ text \in JsonTo[0]
  BY TextTyped, Shallow, IntoLevel
<1>2. v = Obj(f)
  BY DEF Wrapped, Obj
<1> HIDE DEF text
<1>3. f \in FieldsTo(0) /\ \A k \in FieldNames : f[k] \in {Missing, text}
  BY <1>1 DEF FieldsTo
<1> HIDE DEF f
<1>4. 1 - 1 = 0 /\ 1 > 0
  OBVIOUS
<1>5. v \in JsonTo[1] /\ Fields(v) = f /\ v.t = "obj"
  BY <1>2, <1>3, <1>4, Shallow, FieldsIn
<1>6. v.f = f /\ v \in Json
  BY <1>5, Shallow, InJson DEF Fields
<1>7. ASSUME NEW x \in Shown[v] PROVE x = text
  <2>1. PICK k \in FieldNames : Found(f[k]) /\ x \in Shown[f[k]]
    BY <1>5, <1>6, <1>7, ShownParts
  <2>2. f[k] = text
    BY <1>3, <2>1, MissingNotJson
  <2> QED BY <1>1, <2>1, <2>2, ShownParts
<1> QED BY <1>3, <1>5, <1>6, <1>7 DEF text

\* A list of one value shows what the value shows, and so it is once it is redacted.
LEMMA ListShows ==
    ASSUME NEW w \in JsonTo[1], NEW v, v = Arr(<<w>>)
    PROVE  /\ v \in JsonTo[2] /\ v \in Json
           /\ Shown[v] = Shown[w] /\ Shown[redactValue[v]] = Shown[redactValue[w]]
<1>1. w \in Json /\ 2 - 1 = 1 /\ 2 > 0
  BY Shallow, InJson
<1>2. \A S, e : e \in S => /\ <<e>> \in Seq(S) /\ DOMAIN <<e>> = {1} /\ <<e>>[1] = e
                           /\ [i \in {1} |-> e] = <<e>>
  OBVIOUS
<1>3. v \in JsonTo[2] /\ v \in Json
  BY <1>1, <1>2, Shallow, IntoLevel, InJson
<1>4. \A e \in Json : /\ Arr(<<e>>).t = "arr"
                      /\ Arr(<<e>>).q = <<e>> /\ DOMAIN Arr(<<e>>).q = {1}
                      /\ Arr(<<e>>).q[1] = e
  BY <1>2 DEF Arr
<1>5. \A e \in Json : Arr(<<e>>) \in Json => Shown[Arr(<<e>>)] = Shown[e]
  <2> SUFFICES ASSUME NEW e \in Json, Arr(<<e>>) \in Json PROVE Shown[Arr(<<e>>)] = Shown[e]
    OBVIOUS
  <2>1. Shown[Arr(<<e>>)] = UNION {Shown[Arr(<<e>>).q[i]] : i \in {1}}
    BY <1>4, ShownOf DEF ShownDef
  <2> QED BY <1>4, <2>1
<1>6. redactValue[v] = Arr(<<redactValue[w]>>)
  <2>1. redactValue[v] = Arr([i \in {1} |-> redactValue[v.q[i]]])
    BY <1>1, <1>3, <1>4, RedactValue DEF RedactValueDef
  <2>2. [i \in {1} |-> redactValue[v.q[i]]] = [i \in {1} |-> redactValue[w]]
    BY <1>1, <1>4
  <2>3. [i \in {1} |-> redactValue[w]] = <<redactValue[w]>>
    BY <1>1, <1>2, StillJson
  <2> QED BY <2>1, <2>2, <2>3
<1>7. redactValue[w] \in Json /\ redactValue[v] \in Json
  BY <1>1, <1>3, StillJson
<1> QED BY <1>1, <1>3, <1>5, <1>6, <1>7

\* A value shows its text and nothing else.
LEMMA ValueShows ==
    \A value \in Values :
        /\ Value(value) \in JsonTo[2]
        /\ \A x \in Shown[Value(value)] : x = Text(value)
        /\ value \in Objectual => /\ Value(value).t = "obj"
                                  /\ \A k \in FieldNames :
                                       Value(value).f[k] \in {Missing, Text(value)}
        /\ value \in Pictures => /\ value \notin Objectual
                                 /\ Shown[redactValue[Value(value)]] = {Redacted}
<1> SUFFICES ASSUME NEW value \in Values
             PROVE  /\ Value(value) \in JsonTo[2]
                    /\ \A x \in Shown[Value(value)] : x = Text(value)
                    /\ value \in Objectual =>
                         /\ Value(value).t = "obj"
                         /\ \A k \in FieldNames :
                              Value(value).f[k] \in {Missing, Text(value)}
                    /\ value \in Pictures =>
                         /\ value \notin Objectual
                         /\ Shown[redactValue[Value(value)]] = {Redacted}
  OBVIOUS
<1>1. /\ Text(value) \in Scalar /\ Text(value) \in JsonTo[1] /\ Text(value) \in JsonTo[2]
      /\ Text(value) \in Json /\ JsonTo[1] \subseteq JsonTo[2]
  BY TextTyped, Shallow, IntoLevel, LevelsGrow, ScalarKinds
<1>2. Shown[Text(value)] = {Text(value)} /\ Shown[redactValue[Text(value)]] = {Redacted}
  <2>1. redactValue[Text(value)] = Redacted
    BY <1>1, ScalarKinds, RedactValue DEF RedactValueDef
  <2> QED BY <1>1, <2>1, ShownParts, RedactedJson
<1>3. Pictures \cap Objectual = {}
  BY NamesOf DEF Pictures, Objectual, Default
<1>4. CASE value \in Objectual
  <2>1. Value(value) = Wrapped(value)
    BY <1>4 DEF Value
  <2> QED BY <1>1, <1>3, <1>4, <2>1, WrappedShows
<1>5. CASE value \in TextFields /\ value[3] = "texts"
  <2>1. value \notin Objectual
    BY <1>3, <1>5 DEF Pictures
  <2>2. Value(value) = Arr(<<Text(value)>>)
    BY <1>5, <2>1 DEF Value
  <2> QED BY <1>1, <1>2, <2>1, <2>2, ListShows
<1>6. CASE value \in TextFields /\ value[3] = "objects"
  <2>1. value \notin Objectual /\ value \notin Pictures
    BY <1>6, NamesOf DEF Pictures, Objectual, Default
  <2>2. Value(value) = Arr(<<Wrapped(value)>>)
    BY <1>6, <2>1 DEF Value
  <2>3. Wrapped(value) \in JsonTo[1] /\ \A x \in Shown[Wrapped(value)] : x = Text(value)
    BY WrappedShows
  <2> QED BY <2>1, <2>2, <2>3, ListShows
<1>7. CASE value \notin Objectual /\ ~(value \in TextFields /\ value[3] \in {"texts", "objects"})
  <2>1. Value(value) = Text(value)
    BY <1>7 DEF Value
  <2> QED BY <1>1, <1>2, <1>7, <2>1
<1> QED BY <1>4, <1>5, <1>6, <1>7

\* A field with a name for images is told by its text.
LEMMA ImageTold ==
    ASSUME NEW field \in TextFields, field[2][1] \in ImageNames
    PROVE  /\ Text(field) # Redacted /\ field \in Values
           /\ \A value \in Values :
                Text(value) = Text(field) => value \in TextFields /\ value[2] = field[2]
<1>1. field[1] = "text" /\ field[2] \in Names /\ Text(field) = Str(field[2][1])
  BY NamesOf DEF Text
<1>2. Text(field) # Redacted
  BY <1>1 DEF Redacted, Str, ImageNames
<1>3. ASSUME NEW value \in Values, Text(value) = Text(field)
      PROVE  value \in TextFields /\ value[2] = field[2]
  <2>1. (IF value[1] = "text" THEN value[2][1] ELSE value[1]) = field[2][1]
    BY <1>1, <1>3 DEF Text, Str
  <2>2. field[2][1] \notin {"file", "default", "upstream"}
    BY DEF ImageNames
  <2>3. value \in TextFields
    BY <2>1, <2>2, NamesOf DEF Values, Default, Upstream
  <2>4. value[2] \in Names /\ value[2][1] = field[2][1]
    BY <2>1, <2>3, NamesOf
  <2> QED BY <1>1, <2>3, <2>4, NamesAre
<1> QED BY <1>2, <1>3 DEF Values

----------------------------------------------------------------------------
(* The JSON of a body *)

Bodies == {leaves \in Partial(Paths, Values) : IsBody(leaves)}

LEMMA BodiesAre ==
    \A leaves \in Bodies : /\ DOMAIN leaves \subseteq Paths
                           /\ \A p \in DOMAIN leaves : leaves[p] \in Values
                           /\ IsBody(leaves)
<1> SUFFICES ASSUME NEW leaves \in Bodies
             PROVE  /\ DOMAIN leaves \subseteq Paths
                    /\ \A p \in DOMAIN leaves : leaves[p] \in Values
                    /\ IsBody(leaves)
  OBVIOUS
<1>1. DOMAIN leaves \subseteq Paths /\ leaves \in [DOMAIN leaves -> Values]
  BY PartialIs DEF Bodies
<1> QED BY <1>1 DEF Bodies

LEMMA PathsAre ==
    /\ \A p \in Paths : /\ p \in Seq(STRING) /\ Len(p) \in 1..MaxDepth - 2
                        /\ Len(p) \in 1..MaxDepth - 1
    /\ MaxDepth \in Nat /\ MaxDepth > 1
<1>1. \A p \in Paths : p \in Seq(STRING) /\ Len(p) \in 1..MaxDepth - 2
  BY MappingAssumption, SnapshotAssumption DEF Paths
<1> QED BY <1>1, Shallow

\* The start of a path.
LEMMA Start ==
    ASSUME NEW p \in Seq(STRING), NEW n \in 0..Len(p)
    PROVE  /\ SubSeq(p, 1, n) \in Seq(STRING) /\ Len(SubSeq(p, 1, n)) = n
           /\ \A i \in 1..n : SubSeq(p, 1, n)[i] = p[i]
<1>1. Len(p) \in Nat /\ \A i \in 1..Len(p) : p[i] \in STRING
  BY LenProperties
<1>2. n \in Nat /\ \A i \in 1..n : p[i] \in STRING
  BY <1>1
<1> QED BY <1>2, SubSeqProperties

\* What is under a path begins with its names, and is longer if it is another.
LEMMA UnderIs ==
    ASSUME NEW p \in Seq(STRING), NEW q \in Seq(STRING)
    PROVE  /\ Under(q, p) <=> Len(p) <= Len(q) /\ \A i \in 1..Len(p) : q[i] = p[i]
           /\ Under(q, p) /\ q # p => Len(p) < Len(q)
<1>1. Len(p) \in Nat /\ Len(q) \in Nat
  BY LenProperties
<1>2. ASSUME Len(p) <= Len(q)
      PROVE  SubSeq(q, 1, Len(p)) = p <=> \A i \in 1..Len(p) : q[i] = p[i]
  <2>1. Len(p) \in 0..Len(q)
    BY <1>1, <1>2
  <2>2. /\ SubSeq(q, 1, Len(p)) \in Seq(STRING) /\ Len(SubSeq(q, 1, Len(p))) = Len(p)
        /\ \A i \in 1..Len(p) : SubSeq(q, 1, Len(p))[i] = q[i]
    BY <2>1, Start
  <2>3. (\A i \in 1..Len(p) : q[i] = p[i]) => SubSeq(q, 1, Len(p)) = p
    BY <2>2, SeqEqual
  <2> QED BY <2>2, <2>3
<1>3. Under(q, p) <=> Len(p) <= Len(q) /\ \A i \in 1..Len(p) : q[i] = p[i]
  BY <1>2 DEF Under
<1>4. ASSUME Under(q, p), q # p, ~(Len(p) < Len(q)) PROVE FALSE
  <2>1. Len(q) = Len(p) /\ \A i \in 1..Len(q) : q[i] = p[i]
    BY <1>1, <1>3, <1>4
  <2> QED BY <1>4, <2>1, SeqEqual
<1> QED BY <1>3, <1>4

LEMMA AboveAre ==
    ASSUME NEW leaves \in Bodies
    PROVE  /\ <<>> \in Above(leaves)
           /\ \A path \in Above(leaves) : path \in Seq(STRING) /\ Len(path) \in 0..MaxDepth - 1
<1>1. ASSUME NEW path \in Above(leaves)
      PROVE  path \in Seq(STRING) /\ Len(path) \in 0..MaxDepth - 1
  <2>1. CASE path = <<>>
    BY <2>1, PathsAre
  <2>2. CASE path # <<>>
    <3>1. PICK p \in DOMAIN leaves : \E n \in 0..Len(p) : path = SubSeq(p, 1, n)
      BY <1>1, <2>2 DEF Above
    <3>2. p \in Seq(STRING) /\ Len(p) \in 1..MaxDepth - 1
      BY BodiesAre, PathsAre
    <3> QED BY <3>1, <3>2, Start, PathsAre
  <2> QED BY <2>1, <2>2
<1> QED BY <1>1 DEF Above

LEMMA Appended ==
    \A S : \A s \in Seq(S), e \in S :
        /\ Append(s, e) \in Seq(S)
        /\ Len(Append(s, e)) = Len(s) + 1
        /\ \A i \in 1..Len(s) : Append(s, e)[i] = s[i]
        /\ Append(s, e)[Len(s) + 1] = e
  OBVIOUS

\* The path to the next name below a path is above the leaves it leads to.
LEMMA NextAbove ==
    ASSUME NEW leaves \in Bodies, NEW path \in Above(leaves),
           NEW k \in NamesBeneath(leaves, path)
    PROVE  /\ Append(path, k) \in Above(leaves)
           /\ Append(path, k) \in Seq(STRING)
           /\ Len(Append(path, k)) = Len(path) + 1
           /\ \A q \in DOMAIN leaves : Under(q, Append(path, k)) => Under(q, path)
<1>1. PICK p \in DOMAIN leaves : Under(p, path) /\ p # path /\ k = p[Len(path) + 1]
  BY DEF NamesBeneath, Beneath
<1>2. path \in Seq(STRING) /\ p \in Seq(STRING) /\ \A q \in DOMAIN leaves : q \in Seq(STRING)
  BY AboveAre, BodiesAre, PathsAre
<1>3. Len(path) \in Nat /\ Len(p) \in Nat /\ Len(path) < Len(p)
      /\ \A i \in 1..Len(path) : p[i] = path[i]
  BY <1>1, <1>2, UnderIs, LenProperties
<1>4. k \in STRING
  <2>1. Len(path) + 1 \in 1..Len(p) /\ \A i \in 1..Len(p) : p[i] \in STRING
    BY <1>2, <1>3, LenProperties
  <2> QED BY <1>1, <2>1
<1> DEFINE a == Append(path, k)
<1>5. /\ a \in Seq(STRING) /\ Len(a) = Len(path) + 1
      /\ \A i \in 1..Len(path) : a[i] = path[i]
      /\ a[Len(path) + 1] = k
  <2>1. path \in Seq(STRING) /\ k \in STRING
    BY <1>2, <1>4
  <2> HIDE DEF a
  <2>2. a = Append(path, k)
    BY DEF a
  <2>3. PICK S : S = STRING
    OBVIOUS
  <2>4. path \in Seq(S) /\ k \in S
    BY <2>1, <2>3
  <2>5. /\ a \in Seq(S) /\ Len(a) = Len(path) + 1
        /\ \A i \in 1..Len(path) : a[i] = path[i]
        /\ a[Len(path) + 1] = k
    BY <2>2, <2>4, Appended
  <2> QED BY <2>3, <2>5
<1> HIDE DEF a
<1>6. a = SubSeq(p, 1, Len(path) + 1)
  <2> DEFINE s == SubSeq(p, 1, Len(path) + 1)
  <2>1. Len(path) + 1 \in 0..Len(p)
    BY <1>3
  <2>2. /\ s \in Seq(STRING) /\ Len(s) = Len(path) + 1
        /\ \A i \in 1..Len(path) + 1 : s[i] = p[i]
    BY <1>2, <2>1, Start
  <2> HIDE DEF s
  <2>3. \A i \in 1..Len(a) : a[i] = s[i]
    BY <1>1, <1>3, <1>5, <2>2
  <2> QED BY <1>5, <2>2, <2>3, SeqEqual DEF s
<1>7. a \in Above(leaves)
  BY <1>3, <1>6 DEF Above
<1>8. ASSUME NEW q \in DOMAIN leaves, Under(q, a) PROVE Under(q, path)
  <2>1. Len(a) <= Len(q) /\ \A i \in 1..Len(a) : q[i] = a[i]
    BY <1>2, <1>5, <1>8, UnderIs
  <2>2. Len(q) \in Nat
    BY <1>2, LenProperties
  <2>3. Len(path) <= Len(q) /\ \A i \in 1..Len(path) : q[i] = path[i]
    BY <1>3, <1>5, <2>1, <2>2
  <2> QED BY <1>2, <2>3, UnderIs
<1> QED BY <1>5, <1>7, <1>8 DEF a

\* The definition of Body at one path.  Over is the principle of recursion for
\* it, over the paths of all bodies.
NodeDef(leaves, g, path) ==
    LET own == IF path \in DOMAIN leaves THEN Value(leaves[path]) ELSE Obj(NoFields)
    IN  IF path \in DOMAIN leaves /\ Beneath(leaves, path) = {} THEN own
        ELSE Obj([k \in FieldNames |-> IF k \in NamesBeneath(leaves, path)
                                       THEN g[Append(path, k)] ELSE own.f[k]])

Nodes == {node \in Bodies \X Seq(STRING) : node[2] \in Above(node[1])}
height == [node \in Nodes |-> MaxDepth - Len(node[2])]
Around(g, leaves) == [path \in Above(leaves) |-> g[<<leaves, path>>]]
NodeAt(g, node) == NodeDef(node[1], Around(g, node[1]), node[2])

OverNode == INSTANCE Recursion WITH D <- Nodes, rank <- height, Def <- NodeAt

LEMMA NodesAre ==
    ASSUME NEW leaves \in Bodies, NEW path \in Above(leaves)
    PROVE  /\ <<leaves, path>> \in Nodes
           /\ height[<<leaves, path>>] = MaxDepth - Len(path)
<1>1. path \in Seq(STRING)
  BY AboveAre
<1>2. <<leaves, path>> \in Nodes
  BY <1>1 DEF Nodes
<1> QED BY <1>2 DEF height

LEMMA BodyOf ==
    ASSUME NEW leaves \in Bodies
    PROVE  \E N : /\ N = [path \in Above(leaves) |-> NodeDef(leaves, N, path)]
                  /\ Body(leaves) = N[<<>>]
<1>1. height \in [Nodes -> Nat]
  <2> SUFFICES ASSUME NEW node \in Nodes PROVE MaxDepth - Len(node[2]) \in Nat
    BY DEF height
  <2>1. node[1] \in Bodies /\ node[2] \in Above(node[1])
    BY DEF Nodes
  <2>2. Len(node[2]) \in 0..MaxDepth - 1
    BY <2>1, AboveAre
  <2> QED BY <2>2, PathsAre
<1>2. OverNode!LooksBelow
  <2> SUFFICES ASSUME NEW node \in Nodes, NEW g, NEW h,
                      \A n \in Nodes : height[n] < height[node] => g[n] = h[n]
               PROVE  NodeAt(g, node) = NodeAt(h, node)
    BY DEF OverNode!LooksBelow
  <2> DEFINE l == node[1]
             path == node[2]
             a == Around(g, l)
             b == Around(h, l)
  <2>1. l \in Bodies /\ path \in Above(l) /\ node = <<l, path>>
    BY DEF Nodes
  <2> HIDE DEF l, path
  <2>2. ASSUME NEW k \in NamesBeneath(l, path) PROVE a[Append(path, k)] = b[Append(path, k)]
    <3> DEFINE next == Append(path, k)
    <3>1. next \in Above(l) /\ Len(next) = Len(path) + 1
      BY <2>1, <2>2, NextAbove
    <3> HIDE DEF next
    <3>2. /\ <<l, next>> \in Nodes
          /\ height[<<l, next>>] = MaxDepth - Len(next)
          /\ height[<<l, path>>] = MaxDepth - Len(path)
      BY <2>1, <3>1, NodesAre
    <3>3. Len(path) \in 0..MaxDepth - 1 /\ MaxDepth \in Nat
      BY <2>1, AboveAre, PathsAre
    <3>4. g[<<l, next>>] = h[<<l, next>>]
      BY <2>1, <3>1, <3>2, <3>3
    <3>5. a[next] = b[next]
      BY <3>1, <3>4 DEF Around
    <3> QED BY <3>5 DEF next
  <2> HIDE DEF a, b
  <2>3. NodeDef(l, a, path) = NodeDef(l, b, path)
    BY <2>2 DEF NodeDef
  <2> QED BY <2>3 DEF NodeAt, a, b, l, path
<1>3. PICK f : f = [node \in Nodes |-> NodeAt(f, node)]
  BY <1>1, <1>2, OverNode!Recursive
<1> DEFINE N == Around(f, leaves)
<1>4. ASSUME NEW path \in Above(leaves) PROVE N[path] = NodeDef(leaves, N, path)
  <2>1. <<leaves, path>> \in Nodes
    BY NodesAre
  <2>2. f[<<leaves, path>>] = NodeAt(f, <<leaves, path>>)
    BY <1>3, <2>1
  <2> QED BY <2>2 DEF NodeAt, Around
<1>5. N = [path \in Above(leaves) |-> N[path]]
  BY DEF Around
<1>6. N = [path \in Above(leaves) |-> NodeDef(leaves, N, path)]
  BY <1>4, <1>5
<1>7. \E M : M = [path \in Above(leaves) |-> NodeDef(leaves, M, path)]
  BY <1>6
<1> HIDE DEF N
<1> DEFINE C == CHOOSE M : M = [path \in Above(leaves) |-> NodeDef(leaves, M, path)]
<1>8. C = [path \in Above(leaves) |-> NodeDef(leaves, C, path)]
  BY <1>7
<1>9. Body(leaves) = C[<<>>]
  BY DEF Body, NodeDef
<1> HIDE DEF C
<1> QED BY <1>8, <1>9

\* Is this the text of a leaf under the path?
Tells(leaves, path, x) == \E p \in DOMAIN leaves : Under(p, path) /\ x = Text(leaves[p])

\* A node that is a leaf: nothing else is under it, unless it is an object.
LEMMA NodeLeaf ==
    ASSUME NEW leaves \in Bodies, NEW path \in DOMAIN leaves
    PROVE  /\ leaves[path] \in Values /\ path \in Seq(STRING)
           /\ \A x : x = Text(leaves[path]) => Tells(leaves, path, x)
           /\ Beneath(leaves, path) # {} => leaves[path] \in Objectual
<1>1. leaves[path] \in Values /\ path \in Seq(STRING) /\ IsBody(leaves)
  BY BodiesAre, PathsAre
<1>2. Under(path, path)
  BY <1>1, UnderItself
<1>3. Beneath(leaves, path) # {} => leaves[path] \in Objectual
  BY <1>1 DEF Beneath, IsBody
<1> QED BY <1>1, <1>2, <1>3 DEF Tells

\* What a node shows is the text of a leaf under it.
LEMMA NodeShows ==
    ASSUME NEW leaves \in Bodies, NEW N,
           N = [path \in Above(leaves) |-> NodeDef(leaves, N, path)]
    PROVE  \A path \in Above(leaves) :
              /\ N[path] \in JsonTo[MaxDepth - Len(path)]
              /\ \A x \in Shown[N[path]] : Tells(leaves, path, x)
<1> DEFINE Good(n, path) == /\ N[path] \in JsonTo[n]
                            /\ \A x \in Shown[N[path]] : Tells(leaves, path, x)
           S == {n \in Nat : n <= MaxDepth =>
                    \A path \in Above(leaves) : MaxDepth - Len(path) <= n => Good(n, path)}
<1>1. 0 \in S
  <2>1. ASSUME NEW path \in Above(leaves) PROVE ~(MaxDepth - Len(path) <= 0)
    BY AboveAre, PathsAre
  <2> QED BY <2>1
<1>2. ASSUME NEW n \in Nat, n \in S PROVE n + 1 \in S
  <2>6. n + 1 \in Nat
    OBVIOUS
  <2> SUFFICES ASSUME n + 1 <= MaxDepth, NEW path \in Above(leaves),
                      MaxDepth - Len(path) <= n + 1
               PROVE  Good(n + 1, path)
    BY <2>6, Zenon
  <2>1. /\ n \in 0..MaxDepth /\ n + 1 \in 0..MaxDepth /\ n + 1 > 0 /\ (n + 1) - 1 = n
        /\ 0 \in 0..MaxDepth /\ 1 \in 0..MaxDepth /\ 1 <= n + 1 /\ 0 <= n
    BY PathsAre
  <2>2. path \in Seq(STRING) /\ Len(path) \in 0..MaxDepth - 1
    BY AboveAre
  <2> DEFINE own == IF path \in DOMAIN leaves THEN Value(leaves[path]) ELSE Obj(NoFields)
             below == [k \in FieldNames |-> IF k \in NamesBeneath(leaves, path)
                                            THEN N[Append(path, k)] ELSE own.f[k]]
  <2>3. N[path] = IF path \in DOMAIN leaves /\ Beneath(leaves, path) = {} THEN own
                  ELSE Obj(below)
    BY DEF NodeDef
  <2>4. CASE path \in DOMAIN leaves /\ Beneath(leaves, path) = {}
    <3>1. N[path] = Value(leaves[path])
      BY <2>3, <2>4
    <3>2. leaves[path] \in Values
      BY <2>4, NodeLeaf
    <3>3. N[path] \in JsonTo[2] /\ \A x \in Shown[N[path]] : x = Text(leaves[path])
      BY <3>1, <3>2, ValueShows
    <3>4. JsonTo[2] \subseteq JsonTo[n + 1]
      <4>1. Len(path) \in 1..MaxDepth - 2
        BY <2>4, BodiesAre, PathsAre
      <4>2. 2 <= n + 1
        BY <4>1, PathsAre
      <4> QED BY <2>1, <4>2, Shallow, LevelsGrow
    <3> QED BY <2>4, <3>3, <3>4, NodeLeaf
  <2>5. CASE ~(path \in DOMAIN leaves /\ Beneath(leaves, path) = {})
    <3>1. ASSUME NEW k \in FieldNames, k \notin NamesBeneath(leaves, path)
          PROVE  \/ own.f[k] = Missing
                 \/ path \in DOMAIN leaves /\ own.f[k] = Text(leaves[path])
                    /\ own.f[k] \in Scalar
      <4>1. CASE path \in DOMAIN leaves
        <5>1. leaves[path] \in Values /\ leaves[path] \in Objectual
          BY <2>5, <4>1, NodeLeaf
        <5>2. own = Value(leaves[path])
          BY <4>1
        <5> HIDE DEF own
        <5> QED BY <4>1, <5>1, <5>2, ValueShows, TextTyped
      <4>2. CASE path \notin DOMAIN leaves
        BY <4>2 DEF Obj, NoFields
      <4> QED BY <4>1, <4>2
    <3>2. ASSUME NEW k \in NamesBeneath(leaves, path)
          PROVE  /\ N[Append(path, k)] \in JsonTo[n]
                 /\ \A x \in Shown[N[Append(path, k)]] : Tells(leaves, path, x)
      <4> DEFINE next == Append(path, k)
      <4>1. /\ next \in Above(leaves) /\ Len(next) = Len(path) + 1
            /\ \A q \in DOMAIN leaves : Under(q, next) => Under(q, path)
        BY <3>2, NextAbove
      <4> HIDE DEF next
      <4>2. n <= MaxDepth /\ MaxDepth - Len(next) <= n
        BY <2>1, <2>2, <4>1, PathsAre
      <4>3. Good(n, next)
        BY <1>2, <4>1, <4>2
      <4>4. \A x \in Shown[N[next]] : Tells(leaves, path, x)
        BY <4>1, <4>3 DEF Tells
      <4> QED BY <4>3, <4>4 DEF next
    <3> HIDE DEF own
    <3>3. ASSUME NEW k \in FieldNames
          PROVE  /\ below[k] \in {Missing} \cup JsonTo[n]
                 /\ Found(below[k]) => \A x \in Shown[below[k]] : Tells(leaves, path, x)
      <4>1. CASE k \in NamesBeneath(leaves, path)
        BY <3>2, <4>1
      <4>2. CASE k \notin NamesBeneath(leaves, path)
        <5>1. below[k] = own.f[k]
          BY <4>2
        <5> HIDE DEF below
        <5>2. CASE own.f[k] = Missing
          BY <5>1, <5>2, MissingNotJson
        <5>3. CASE path \in DOMAIN leaves /\ own.f[k] = Text(leaves[path])
                   /\ own.f[k] \in Scalar
          <6>1. own.f[k] \in JsonTo[n] /\ Shown[own.f[k]] = {own.f[k]}
            BY <2>1, <5>3, IntoLevel, ShownParts
          <6> QED BY <5>1, <5>3, <6>1, NodeLeaf
        <5> QED BY <3>1, <4>2, <5>2, <5>3
      <4> QED BY <4>1, <4>2
    <3>4. below \in FieldsTo(n)
      <4>1. below = [k \in FieldNames |-> below[k]]
        OBVIOUS
      <4> HIDE DEF below
      <4> QED BY <3>3, <4>1 DEF FieldsTo
    <3>5. N[path] = Obj(below)
      BY <2>3, <2>5
    <3> HIDE DEF below
    <3>6. N[path] \in JsonTo[n + 1] /\ Fields(N[path]) = below /\ N[path].t = "obj"
      BY <2>1, <3>4, <3>5, FieldsIn
    <3>7. N[path].f = below /\ N[path] \in Json
      BY <2>1, <3>6, InJson DEF Fields
    <3>8. ASSUME NEW x \in Shown[N[path]] PROVE Tells(leaves, path, x)
      <4>1. PICK k \in FieldNames : Found(below[k]) /\ x \in Shown[below[k]]
        BY <3>6, <3>7, <3>8, ShownParts
      <4> QED BY <3>3, <4>1
    <3> QED BY <3>6, <3>8
  <2> QED BY <2>4, <2>5
<1>3. \A n \in Nat : n \in S
  <2> HIDE DEF S
  <2> QED BY <1>1, <1>2, NatSets
<1> SUFFICES ASSUME NEW path \in Above(leaves)
             PROVE  Good(MaxDepth - Len(path), path)
  OBVIOUS
<1>4. MaxDepth - Len(path) \in Nat /\ MaxDepth - Len(path) <= MaxDepth
  BY AboveAre, PathsAre
<1> QED BY <1>3, <1>4

\* A body is an object; each of its fields tells of leaves under its name, and is
\* the value of the leaf if one that is no object is there.
LEMMA BodyFields ==
    ASSUME NEW leaves \in Bodies, NEW v, v = Body(leaves)
    PROVE  /\ v \in Json /\ v.t = "obj"
           /\ \A k \in FieldNames : Found(v.f[k]) =>
                /\ \A x \in Shown[v.f[k]] : Tells(leaves, <<k>>, x)
                /\ <<k>> \in DOMAIN leaves /\ leaves[<<k>>] \notin Objectual
                     => v.f[k] = Value(leaves[<<k>>])
<1>1. PICK N : /\ N = [path \in Above(leaves) |-> NodeDef(leaves, N, path)]
               /\ v = N[<<>>]
  BY BodyOf
<1>2. <<>> \in Above(leaves) /\ <<>> \notin DOMAIN leaves /\ Len(<<>>) = 0
  BY AboveAre, BodiesAre, PathsAre
<1> DEFINE root == [k \in FieldNames |-> IF k \in NamesBeneath(leaves, <<>>)
                                         THEN N[Append(<<>>, k)] ELSE Obj(NoFields).f[k]]
<1>3. v = Obj(root)
  BY <1>1, <1>2 DEF NodeDef
<1>4. v.t = "obj" /\ \A k \in FieldNames : v.f[k] = root[k]
  BY <1>3 DEF Obj
<1>5. v \in Json
  BY <1>1, <1>2, NodeShows, PathsAre DEF Json
<1>6. ASSUME NEW k \in FieldNames, Found(v.f[k])
      PROVE  /\ <<k>> \in Above(leaves)
             /\ v.f[k] = N[<<k>>]
  <2>1. k \in NamesBeneath(leaves, <<>>)
    <3> SUFFICES ASSUME k \notin NamesBeneath(leaves, <<>>) PROVE FALSE
      OBVIOUS
    <3>1. root[k] = Missing
      BY DEF Obj, NoFields
    <3> QED BY <1>4, <1>6, <3>1, MissingNotJson
  <2>2. Append(<<>>, k) = <<k>>
    OBVIOUS
  <2>3. Append(<<>>, k) \in Above(leaves)
    BY <1>2, <2>1, NextAbove
  <2>4. root[k] = N[<<k>>]
    BY <2>1, <2>2
  <2> QED BY <1>4, <2>2, <2>3, <2>4
<1> HIDE DEF root
<1>7. ASSUME NEW k \in FieldNames, Found(v.f[k])
      PROVE  \A x \in Shown[v.f[k]] : Tells(leaves, <<k>>, x)
  BY <1>1, <1>6, <1>7, NodeShows
<1>8. ASSUME NEW k \in FieldNames, Found(v.f[k]),
             <<k>> \in DOMAIN leaves, leaves[<<k>>] \notin Objectual
      PROVE  v.f[k] = Value(leaves[<<k>>])
  <2>1. leaves[<<k>>] \in Values /\ Beneath(leaves, <<k>>) = {}
    BY <1>8, NodeLeaf
  <2>2. <<k>> \in Above(leaves) /\ v.f[k] = N[<<k>>]
    BY <1>6, <1>8
  <2>3. N[<<k>>] = Value(leaves[<<k>>])
    BY <1>1, <1>8, <2>1, <2>2 DEF NodeDef
  <2> QED BY <2>2, <2>3
<1> QED BY <1>4, <1>5, <1>7, <1>8

\* The client's body is an object of its fields.
LEMMA OfficialFields ==
    ASSUME TypeOK, mode = "json", NEW v, v = OfficialSnapshot
    PROVE  /\ v \in Json /\ v.t = "obj"
           /\ \A k \in FieldNames : Found(v.f[k]) =>
                \E field \in TextFields \cap DOMAIN request :
                   field[2] = <<k>> /\ v.f[k] = Value(field)
<1> DEFINE f == [k \in FieldNames |-> IF k \in TextNames THEN Value(TextNamed(k)) ELSE Missing]
<1>1. v = Obj(f)
  BY DEF OfficialSnapshot, Obj
<1>2. ASSUME NEW k \in TextNames
      PROVE  TextNamed(k) \in TextFields \cap DOMAIN request /\ TextNamed(k)[2] = <<k>>
  <2>1. \E field \in TextFields \cap DOMAIN request : field[2][1] = k
    BY DEF TextNames
  <2>2. TextNamed(k) \in TextFields \cap DOMAIN request /\ TextNamed(k)[2][1] = k
    BY <2>1 DEF TextNamed
  <2> QED BY <2>2, NamesOf, NamesAre
<1>3. MaxDepth \in 0..MaxDepth /\ MaxDepth > 0
      /\ 2 \in 0..MaxDepth /\ MaxDepth - 1 \in 0..MaxDepth /\ 2 <= MaxDepth - 1
  BY Shallow
<1>4. f \in FieldsTo(MaxDepth - 1)
  <2>1. JsonTo[2] \subseteq JsonTo[MaxDepth - 1]
    BY <1>3, LevelsGrow
  <2>2. \A k \in TextNames : Value(TextNamed(k)) \in JsonTo[MaxDepth - 1]
    BY <1>2, <2>1, ValueShows DEF Values
  <2> QED BY <2>2 DEF FieldsTo
<1>5. \A k \in FieldNames : f[k] = IF k \in TextNames THEN Value(TextNamed(k)) ELSE Missing
  OBVIOUS
<1> HIDE DEF f
<1>6. v \in Json /\ v.t = "obj" /\ Fields(v) = f
  BY <1>1, <1>3, <1>4, FieldsIn DEF Json
<1>7. v.f = f
  BY <1>6 DEF Fields
<1>8. ASSUME NEW k \in FieldNames, Found(v.f[k]) PROVE k \in TextNames
  BY <1>5, <1>7, <1>8, MissingNotJson
<1> QED BY <1>2, <1>5, <1>6, <1>7, <1>8

----------------------------------------------------------------------------

\* For every JSON request the client's column of a log row shows no text, alone or in a
\* list, of a field with a name for images, and the upstream's only where the rule moved
\* it to a place that is not blanked; an object in such a field is not claimed to be
\* hidden.  Apart from those fields the columns are the bodies (log_sanitize.go:42-55,
\* 120-142, proxy.go:294-305).
THEOREM ColumnsHideImages == Spec => []RequestColumnsHideImages
<1>1. IInv => RequestColumnsHideImages
  <2> SUFFICES ASSUME IInv, phase = "done", mode = "json"
               PROVE  RequestColumnsHideImages
    BY DEF RequestColumnsHideImages
  <2> DEFINE a == OfficialSnapshot
             b == Body(target)
             Blanked(w, v) ==
                 /\ \A x \in Shown[w] : x # Redacted =>
                      \E k \in FieldNames :
                         /\ Found(v.f[k]) /\ x \in Shown[v.f[k]]
                         /\ k \in ImageNames => x \in Shown[redactValue[v.f[k]]]
                 /\ Rest[OtherFields(w)] = Rest[OtherFields(v)]
  <2>1. target \in Bodies
    BY DEF IInv, TypeOK, Bodies, Partial
  <2>2. UpstreamSnapshot = b
    BY DEF UpstreamSnapshot
  <2>3. /\ a \in Json /\ a.t = "obj"
        /\ \A k \in FieldNames : Found(a.f[k]) =>
             \E field \in TextFields \cap DOMAIN request :
                field[2] = <<k>> /\ a.f[k] = Value(field)
    BY OfficialFields DEF IInv
  <2>4. /\ b \in Json /\ b.t = "obj"
        /\ \A k \in FieldNames : Found(b.f[k]) =>
             /\ \A x \in Shown[b.f[k]] : Tells(target, <<k>>, x)
             /\ <<k>> \in DOMAIN target /\ target[<<k>>] \notin Objectual
                  => b.f[k] = Value(target[<<k>>])
    BY <2>1, BodyFields
  <2> HIDE DEF a, b
  <2>5. /\ Blanked(LogColumn("request", a), a)
        /\ Blanked(LogColumn("request", b), b)
    BY <2>3, <2>4, RequestColumn
  <2>6. official_request = LogColumn("request", a) /\ upstream_request = LogColumn("request", b)
    BY <2>2 DEF official_request, upstream_request, a
  <2>7. /\ DOMAIN request \subseteq TextFields
        /\ \A f, g \in DOMAIN request : f[2] = g[2] => f = g
    BY RequestIs DEF IInv
  <2>8. ASSUME NEW field \in DOMAIN request, field[2][1] \in ImageNames,
               field[3] \in {"text", "texts"}
        PROVE  /\ Text(field) \notin Shown[official_request]
               /\ Text(field) \in Shown[upstream_request]
                    => Place(field) \notin {<<name>> : name \in ImageNames}
    <3> DEFINE text == Text(field)
    <3>1. field \in TextFields /\ field \in Pictures
      BY <2>7, <2>8 DEF Pictures
    <3>2. /\ text # Redacted /\ field \in Values
          /\ \A value \in Values :
               Text(value) = text => value \in TextFields /\ value[2] = field[2]
      BY <2>8, <3>1, ImageTold
    <3>3. field \notin Objectual /\ text \notin Shown[redactValue[Value(field)]]
      BY <3>1, <3>2, ValueShows
    <3> HIDE DEF text
    <3>4. text \notin Shown[official_request]
      <4> SUFFICES ASSUME text \in Shown[official_request] PROVE FALSE
        OBVIOUS
      <4>1. PICK k \in FieldNames :
              /\ Found(a.f[k]) /\ text \in Shown[a.f[k]]
              /\ k \in ImageNames => text \in Shown[redactValue[a.f[k]]]
        BY <2>5, <2>6, <3>2
      <4>2. PICK other \in TextFields \cap DOMAIN request :
              other[2] = <<k>> /\ a.f[k] = Value(other)
        BY <2>3, <4>1
      <4>3. text = Text(other) /\ other \in Values
        BY <4>1, <4>2, ValueShows DEF Values
      <4>4. other = field
        BY <2>7, <3>2, <4>2, <4>3
      <4>5. k \in ImageNames
        BY <2>8, <4>2, <4>4
      <4> QED BY <3>3, <4>1, <4>2, <4>4, <4>5
    <3>5. ASSUME text \in Shown[upstream_request], NEW name \in ImageNames,
                 Place(field) = <<name>>
          PROVE  FALSE
      <4>1. PICK k \in FieldNames :
              /\ Found(b.f[k]) /\ text \in Shown[b.f[k]]
              /\ k \in ImageNames => text \in Shown[redactValue[b.f[k]]]
        BY <2>5, <2>6, <3>2, <3>5
      <4>2. PICK p \in DOMAIN target : Under(p, <<k>>) /\ text = Text(target[p])
        BY <2>4, <4>1 DEF Tells
      <4>3. target[p] \in TextFields /\ target[p][2] = field[2]
        BY <2>1, <3>2, <4>2, BodiesAre
      <4>4. target[p] = field /\ p = <<name>>
        <5>1. target[p] \in DOMAIN request /\ p = Place(target[p])
          BY <4>3 DEF IInv, InPlace
        <5> QED BY <2>7, <3>5, <4>3, <5>1
      <4>5. k = name
        <5>1. \A i, n : SubSeq(<<i>>, 1, Len(<<n>>)) = <<n>> => i = n
          <6> SUFFICES ASSUME NEW i, NEW n, SubSeq(<<i>>, 1, Len(<<n>>)) = <<n>>
                       PROVE  i = n
            OBVIOUS
          <6>1. Len(<<n>>) = 1 /\ <<n>>[1] = n
            OBVIOUS
          <6>2. SubSeq(<<i>>, 1, 1)[1] = i
            OBVIOUS
          <6> QED BY <6>1, <6>2
        <5>2. SubSeq(p, 1, Len(<<k>>)) = <<k>>
          BY <4>2 DEF Under
        <5> QED BY <4>4, <5>1, <5>2, Zenon
      <4>6. b.f[k] = Value(field)
        BY <2>4, <3>3, <4>1, <4>4, <4>5
      <4> QED BY <3>3, <4>1, <4>5, <4>6
    <3> QED BY <3>4, <3>5 DEF text
  <2>9. /\ Rest[OtherFields(official_request)] = Rest[OtherFields(a)]
        /\ Rest[OtherFields(upstream_request)] = Rest[OtherFields(b)]
    BY <2>5, <2>6
  <2>10. \A shown \in {<<official_request, OfficialSnapshot>>,
                       <<upstream_request, UpstreamSnapshot>>} :
           Rest[OtherFields(shown[1])] = Rest[OtherFields(shown[2])]
    BY <2>2, <2>9 DEF a
  <2> QED BY <2>8, <2>10 DEF RequestColumnsHideImages
<1> QED BY InitIInv, NextIInv, <1>1, PTL DEF Spec

=============================================================================
