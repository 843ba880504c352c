----------------------------- MODULE Snapshots ------------------------------
(***************************************************************************)
(* What of a request is kept for its log row: the snapshots that BuildJSON *)
(* and BuildMultipart of internal/transform/transform.go take, and the     *)
(* columns that logRequest of internal/service/proxy.go makes of them.     *)
(* The names of the client's fields have no dots here.                     *)
(***************************************************************************)
EXTENDS RequestMapping, LogSanitize, FiniteSetsExt

\* What LogSanitize blanks in a request, at the top.
ImageNames == {"image", "images", "mask"}

ASSUME SnapshotAssumption ==
    /\ \A name \in Names \cup FileNames : Len(name) = 1
    /\ \A path \in Paths : Len(path) \in 1..MaxDepth - 2
    /\ Paths \ {Drop} \subseteq Seq(FieldNames)
    /\ ImageNames \cup {"text"} \subseteq FieldNames
    /\ {"file", "default", "upstream"} \cup {name[1] : name \in Names} \subseteq Texts

\* The text of a value, and the value as JSON with this text.
Text(value) == Str(IF value[1] = "text" THEN value[2][1] ELSE value[1])
Wrapped(value) == Obj([text |-> Text(value)])
Value(value) ==
    IF value \in Objectual THEN Wrapped(value)
    ELSE IF value \in TextFields /\ value[3] = "texts" THEN Arr(<<Text(value)>>)
    ELSE IF value \in TextFields /\ value[3] = "objects" THEN Arr(<<Wrapped(value)>>)
    ELSE Text(value)

\* The paths of the leaves, and all that are above one.
Above(leaves) ==
    {<<>>} \cup UNION {{SubSeq(p, 1, n) : n \in 0..Len(p)} : p \in DOMAIN leaves}

\* The leaves below a path, and the names that lead there.
Beneath(leaves, path) == {p \in DOMAIN leaves : Under(p, path) /\ p # path}
NamesBeneath(leaves, path) == {p[Len(path) + 1] : p \in Beneath(leaves, path)}

\* The JSON of a body with these leaves: at a path an object if something is below,
\* with what an object written there already held.
Body(leaves) ==
    LET Node[path \in Above(leaves)] ==
            LET own == IF path \in DOMAIN leaves THEN Value(leaves[path])
                                                 ELSE Obj(NoFields)
            IN  IF path \in DOMAIN leaves /\ Beneath(leaves, path) = {} THEN own
                ELSE Obj([k \in FieldNames |-> IF k \in NamesBeneath(leaves, path)
                                               THEN Node[Append(path, k)] ELSE own.f[k]])
    IN  Node[<<>>]

\* A single value, or the list of them.
FormValues(field) ==
    IF request[field] = 1 THEN Value(field)
    ELSE Arr([i \in 1..request[field] |-> Value(field)])

TextNames == {field[2][1] : field \in TextFields \cap DOMAIN request}
TextNamed(name) ==
    CHOOSE field \in TextFields \cap DOMAIN request : field[2][1] = name

FileCount(fields) == FoldSet(LAMBDA field, n : n + request[field], 0, fields)

\* multipartSnapshot: the text parts, and of each file its name and size.
multipartSnapshot ==
    Obj([fields |-> Obj([name \in TextNames |-> FormValues(TextNamed(name))]),
         files |-> Arr([i \in 1..FileCount(FileFields \cap DOMAIN request) |->
                          Obj([size |-> Num(10)])])])

\* For JSON, the client's body as it came.
OfficialSnapshot ==
    IF mode = "json" THEN Obj([name \in TextNames |-> Value(TextNamed(name))])
                     ELSE multipartSnapshot

\* For JSON, the body that is sent; of a multipart body only what it was made by.
UpstreamSnapshot ==
    IF mode = "json" THEN Body(target)
    ELSE Obj([model |-> IF rule.hasModel THEN Text(Upstream) ELSE Str(""),
              file_count |-> Num(10 * FileCount(FileFields \cap KeptFields))])

official_request == LogColumn("request", OfficialSnapshot)
upstream_request == LogColumn("request", UpstreamSnapshot)

----------------------------------------------------------------------------

\* The scalars anywhere in a value.
Shown[v \in Json] ==
    CASE v.t = "arr" -> UNION {Shown[v.q[i]] : i \in DOMAIN v.q}
      [] v.t = "obj" -> UNION {Shown[v.f[k]] : k \in {n \in FieldNames : Found(v.f[n])}}
      [] OTHER -> {v}

\* An object without the fields that may be images.
OtherFields(v) == Obj([k \in FieldNames \ ImageNames |-> Field(v, k)])

\* The request columns of the row tell everything but the images.  An image of a
\* JSON request, alone or in a list, is never in the client's column, and in the
\* upstream's only if the rule has moved it out of the fields that are blanked.
\* One in an object is not taken for an image.  All other fields that came or are
\* sent in JSON are there unchanged (log_sanitize.go:42-55, 120-142,
\* proxy.go:294-305).
RequestColumnsHideImages ==
    phase = "done" /\ mode = "json" =>
        /\ \A field \in DOMAIN request :
             /\ field[2][1] \in ImageNames
             /\ field[3] \in {"text", "texts"}
             => /\ Text(field) \notin Shown[official_request]
                /\ Text(field) \in Shown[upstream_request]
                     => Place(field) \notin {<<name>> : name \in ImageNames}
        /\ \A shown \in {<<official_request, OfficialSnapshot>>,
                         <<upstream_request, UpstreamSnapshot>>} :
             Rest[OtherFields(shown[1])] = Rest[OtherFields(shown[2])]

============================================================================
