--------------------------- MODULE RequestMapping ---------------------------
(***************************************************************************)
(* BuildJSON and BuildMultipart of internal/transform/transform.go: the    *)
(* upstream request rebuilt from the client's by the field map, the file   *)
(* field map, the ignored fields, the defaults and the upstream model of a *)
(* rule.  The loops range over Go maps, so that the order is any.          *)
(*                                                                         *)
(* A name is a path, the name split at its dots: "a.b" writes into an      *)
(* object in JSON and is the plain name of a part in a multipart body.     *)
(* Where a value came from stands for the value, so that one can see where *)
(* it went: a field of the request, the default of a path, or the rule's   *)
(* model.  A field of the request also tells of what kind its value is.  A *)
(* JSON body is its leaves, the paths something was written to.            *)
(***************************************************************************)
EXTENDS Integers, Sequences, FiniteSets

CONSTANTS
    Names,          \* names of JSON fields and of text parts of a request
    FileNames,      \* names of file parts
    Targets,        \* what a rule may rename a field to
    Defaulted,      \* paths a rule may have a default for
    ObjectDefaults, \* those whose default is a JSON object
    ModelField,     \* upstream_model_field
    MaxValues       \* bound on the parts of one name in a multipart request

ASSUME MappingAssumption ==
    /\ Names \cup FileNames \cup Targets \cup Defaulted \subseteq Seq(STRING)
    /\ ObjectDefaults \subseteq Defaulted
    /\ ModelField \in Seq(STRING)
    /\ MaxValues \in Nat

VARIABLES
    mode,     \* the content type of the request
    rule,     \* the columns of the mapping rule
    request,  \* the fields of the request, each with how many values it has
    pending,  \* fields the present loop has still to visit
    unset,    \* defaults the loop over them has still to write
    target,   \* JSON: the leaves of the upstream body
    parts,    \* multipart: the parts written, with their values
    phase

vars == <<mode, rule, request, pending, unset, target, parts, phase>>

\* A text, an object, a list of texts, or one of objects.
Kinds == {"text", "object", "texts", "objects"}

TextFields == {"text"} \X Names \X Kinds
FileFields == {"file"} \X FileNames
Default(path) == <<"default", path>>
Upstream == <<"upstream", ModelField>>
Values == TextFields \cup FileFields \cup {Default(path) : path \in Defaulted} \cup {Upstream}

\* The values that are JSON objects.
Objectual == {field \in TextFields : field[3] = "object"}
             \cup {Default(path) : path \in ObjectDefaults}

Paths == Names \cup FileNames \cup Targets \cup Defaulted \cup {ModelField}

Drop == <<"-">>

Partial(D, R) == UNION {[E -> R] : E \in SUBSET D}

Rules == [fieldMap : Partial(Names, Targets),
          fileFieldMap : Partial(FileNames, Targets),
          ignore : SUBSET (Names \cup FileNames),
          defaults : SUBSET Defaulted,
          hasModel : BOOLEAN]

\* In JSON a name has one value, in a form the parts are texts and files.
JsonRequests ==
    {r \in Partial(TextFields, {1}) : \A f, g \in DOMAIN r : f[2] = g[2] => f = g}
FormRequests ==
    Partial({f \in TextFields : f[3] = "text"} \cup FileFields, 1..MaxValues)

----------------------------------------------------------------------------
(* setPath *)

\* Is q the path p or one below it?
Under(q, p) == Len(p) <= Len(q) /\ SubSeq(q, 1, Len(p)) = p

\* A leaf is lost under the path, and above it unless it is an object.
Written(leaves, path, value) ==
    LET Stays(p) == /\ ~Under(p, path)
                    /\ Under(path, p) => leaves[p] \in Objectual
    IN  [p \in {q \in DOMAIN leaves : Stays(q)} \cup {path} |->
            IF p = path THEN value ELSE leaves[p]]

setPathBlind(path, value) ==    \* mutant: writes past what is in the way
    target' = [p \in DOMAIN target \cup {path} |-> IF p = path THEN value ELSE target[p]]

setPath(path, value) == target' = Written(target, path, value)

\* The leaves of one object: nothing is below a value that is none.
IsBody(leaves) ==
    \A p, q \in DOMAIN leaves : Under(q, p) /\ p # q => leaves[p] \in Objectual

----------------------------------------------------------------------------

TypeOK ==
    /\ mode \in {"json", "multipart"}
    /\ rule \in Rules
    /\ request \in IF mode = "json" THEN JsonRequests ELSE FormRequests
    /\ pending \subseteq DOMAIN request
    /\ unset \subseteq rule.defaults
    /\ DOMAIN target \subseteq Paths
    /\ target \in [DOMAIN target -> Values] /\ IsBody(target)
    /\ parts \in Seq([name : Paths, value : Values])
    /\ phase \in {"parse", "fields", "defaults", "files", "done", "failed"}

Init ==
    /\ mode \in {"json", "multipart"}
    /\ rule \in Rules
    /\ request \in IF mode = "json" THEN JsonRequests ELSE FormRequests
    /\ target = [path \in {} |-> Upstream]
    /\ parts = <<>>
    /\ phase = "parse"
    /\ pending = {}
    /\ unset = {}

\* What a rule renames a field to; "" counts as not renamed.
Place(field) ==
    LET map == IF field[1] = "text" THEN rule.fieldMap ELSE rule.fileFieldMap
    IN  IF field[2] \in DOMAIN map THEN map[field[2]] ELSE field[2]

KeptUnchecked(field) == Place(field) # Drop    \* mutant: no ignore set

Kept(field) == field[2] \notin rule.ignore /\ Place(field) # Drop

\* Neither json.Unmarshal nor ParseMultipartForm takes every body.
ParseFails ==
    /\ phase = "parse"
    /\ phase' = "failed"
    /\ UNCHANGED <<mode, rule, request, pending, unset, target, parts>>

----------------------------------------------------------------------------
(* BuildJSON *)

Unmarshal ==
    /\ mode = "json" /\ phase = "parse"
    /\ phase' = "fields"
    /\ pending' = DOMAIN request
    /\ UNCHANGED <<mode, rule, request, unset, target, parts>>

MapFieldBreak(field) ==    \* mutant: break in place of continue
    /\ mode = "json" /\ phase = "fields"
    /\ field \in pending
    /\ pending' = IF Kept(field) THEN pending \ {field} ELSE {}
    /\ IF Kept(field) THEN setPath(Place(field), field) ELSE UNCHANGED target
    /\ UNCHANGED <<mode, rule, request, unset, parts, phase>>

\* One round of the loop over the fields.
MapField(field) ==
    /\ mode = "json" /\ phase = "fields"
    /\ field \in pending
    /\ pending' = pending \ {field}
    /\ IF Kept(field) THEN setPath(Place(field), field) ELSE UNCHANGED target
    /\ UNCHANGED <<mode, rule, request, unset, parts, phase>>

FieldsDone ==
    /\ mode = "json" /\ phase = "fields" /\ pending = {}
    /\ phase' = "defaults"
    /\ unset' = rule.defaults
    /\ UNCHANGED <<mode, rule, request, pending, target, parts>>

ApplyDefaultIfAbsent(path) ==    \* mutant: a default yields to the client's value
    /\ phase = "defaults"
    /\ path \in unset
    /\ unset' = unset \ {path}
    /\ IF path \in DOMAIN target THEN UNCHANGED target ELSE setPath(path, Default(path))
    /\ UNCHANGED <<mode, rule, request, pending, parts, phase>>

\* applyDefaults: the default replaces what the client sent.
ApplyDefault(path) ==
    /\ phase = "defaults"
    /\ path \in unset
    /\ unset' = unset \ {path}
    /\ setPath(path, Default(path))
    /\ UNCHANGED <<mode, rule, request, pending, parts, phase>>

SetModelIfAbsent ==    \* mutant: the client's model wins
    /\ phase = "defaults" /\ unset = {}
    /\ phase' = "done"
    /\ IF rule.hasModel /\ ModelField \notin DOMAIN target
       THEN setPath(ModelField, Upstream) ELSE UNCHANGED target
    /\ UNCHANGED <<mode, rule, request, unset, pending, parts>>

SetModel ==
    /\ phase = "defaults" /\ unset = {}
    /\ phase' = "done"
    /\ IF rule.hasModel THEN setPath(ModelField, Upstream) ELSE UNCHANGED target
    /\ UNCHANGED <<mode, rule, request, unset, pending, parts>>

----------------------------------------------------------------------------
(* BuildMultipart *)

WriteModelPart ==
    /\ mode = "multipart" /\ phase = "parse"
    /\ parts' = IF rule.hasModel THEN <<[name |-> ModelField, value |-> Upstream]>>
                                 ELSE <<>>
    /\ phase' = "fields"
    /\ pending' = TextFields \cap DOMAIN request
    /\ UNCHANGED <<mode, rule, request, unset, target>>

\* All the values of a field, one after another.
WritePart(field) ==
    parts' = IF Kept(field)
             THEN parts \o [i \in 1..request[field] |->
                              [name |-> Place(field), value |-> field]]
             ELSE parts

\* The name of the model field is skipped whether or not a model was written.
WriteFieldPart(field) ==
    /\ mode = "multipart" /\ phase = "fields"
    /\ field \in pending
    /\ pending' = pending \ {field}
    /\ IF field[2] # ModelField THEN WritePart(field) ELSE UNCHANGED parts
    /\ UNCHANGED <<mode, rule, request, unset, target, phase>>

PartsDone ==
    /\ mode = "multipart" /\ phase = "fields" /\ pending = {}
    /\ phase' = "files"
    /\ pending' = FileFields \cap DOMAIN request
    /\ UNCHANGED <<mode, rule, request, unset, target, parts>>

WriteFilePart(field) ==
    /\ phase = "files"
    /\ field \in pending
    /\ pending' = pending \ {field}
    /\ WritePart(field)
    /\ UNCHANGED <<mode, rule, request, unset, target, phase>>

\* An uploaded file that cannot be opened or copied fails the request.
FileFails ==
    /\ phase = "files" /\ \E field \in pending : Kept(field)
    /\ phase' = "failed"
    /\ UNCHANGED <<mode, rule, request, unset, pending, target, parts>>

FilesDone ==
    /\ phase = "files" /\ pending = {}
    /\ phase' = "done"
    /\ UNCHANGED <<mode, rule, request, unset, pending, target, parts>>

Returned == phase \in {"done", "failed"} /\ UNCHANGED vars

Next ==
    \/ \E field \in pending :
          MapField(field) \/ WriteFieldPart(field) \/ WriteFilePart(field)
    \/ \E path \in unset : ApplyDefault(path)
    \/ ParseFails \/ Unmarshal \/ FieldsDone \/ SetModel
    \/ WriteModelPart \/ PartsDone \/ FileFails \/ FilesDone
    \/ Returned

Spec == Init /\ [][Next]_vars

----------------------------------------------------------------------------

\* Is this value what the upstream finds under a name: the leaf of a JSON body,
\* the first part of the name in a multipart one?
Sends(path, value) ==
    IF mode = "json" THEN path \in DOMAIN target /\ target[path] = value
    ELSE \E i \in DOMAIN parts :
            /\ parts[i] = [name |-> path, value |-> value]
            /\ \A j \in 1..i - 1 : parts[j].name # path

SentAnywhere(value) ==
    \/ \E path \in DOMAIN target : target[path] = value
    \/ \E i \in DOMAIN parts : parts[i].value = value

\* The upstream is asked for the model of the rule, whatever the client, the
\* field map and the defaults put under its name (transform.go:48-51, 78-87).
ModelWins == phase = "done" /\ rule.hasModel => Sends(ModelField, Upstream)

\* A field that is ignored, or renamed to "-", is not sent under any name, not
\* even nested in an object (transform.go:36-45, 85-94, 104-113).
IgnoredNotSent ==
    \A field \in DOMAIN request :
        field[2] \in rule.ignore \/ Place(field) = Drop => ~SentAnywhere(field)

KeptFields == {field \in DOMAIN request : Kept(field)}

\* Can a write at one path disturb what was written at the other?
Overlap(p, q) == Under(p, q) \/ Under(q, p)

Copies(field) ==
    {i \in DOMAIN parts : parts[i] = [name |-> Place(field), value |-> field]}

\* In JSON another field, a default or the model may be written to the place of
\* a field.
Contested(field) ==
    \/ \E other \in KeptFields \ {field} : Overlap(Place(field), Place(other))
    \/ \E path \in rule.defaults : Overlap(Place(field), path)
    \/ rule.hasModel /\ Overlap(Place(field), ModelField)

SkippedForModel(field) == field[1] = "text" /\ field[2] = ModelField

\* Every other field is sent under its new name, in JSON unless its place is
\* contested; in a multipart body that takes nothing away, and all its values are
\* sent, none twice.  Only a text part with the name of the model field is skipped
\* there, even by a rule that has no model to put in its place (transform.go:35-47,
\* 84-130).
FieldsSent ==
    phase = "done" =>
        \A field \in KeptFields :
            IF mode = "json" THEN Sends(Place(field), field) \/ Contested(field)
            ELSE \/ Cardinality(Copies(field)) = request[field]
                 \/ SkippedForModel(field)

\* web/src/main.jsx:448 says of the defaults of a rule: always send the field
\* with this value.  Only the model and another default are written over them.
DefaultsSent ==
    phase = "done" =>
        \A path \in rule.defaults :
            \/ Sends(path, Default(path))
            \/ \E other \in rule.defaults \ {path} : Overlap(path, other)
            \/ rule.hasModel /\ Overlap(path, ModelField)

\* BuildJSON keeps that promise, over the client's fields (transform.go:47-51).
DefaultsInJson == mode = "json" => DefaultsSent

=============================================================================
