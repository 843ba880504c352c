---------------------------- MODULE MCSnapshots -----------------------------
(***************************************************************************)
(* Bounds for RequestMapping and Snapshots: any JSON request of two fields *)
(* and any multipart one with files too, each with one value or two; in    *)
(* JSON the values are texts, objects or lists of these.  One field is     *)
(* named like the model field, the other like an image.  And any rule that *)
(* renames them to the model field, to an object or into it.               *)
(***************************************************************************)
EXTENDS Snapshots

model == <<"model">>
image == <<"image">>
mask == <<"mask">>
size == <<"size">>
width == <<"size", "width">>

MCFieldNames == {"model", "image", "images", "mask", "size", "width", "in", "text",
                 "fields", "files", "file_count"}
MCNames == {model, image}
MCFileNames == {mask}
MCTargets == {model, size, width, Drop}
MCDefaulted == {model, width}
MCObjectDefaults == {width}

MCTexts == STRING

\* The leaves stand for what a recursive write into the JSON itself makes of it,
\* for any three writes one after another.
Write(leaves, write) == Written(leaves, write[1], write[2])
WriteJson(fields, write) ==
    setByTokens[[i \in DOMAIN write[1] |-> Key(write[1][i])]][fields][Value(write[2])]

ASSUME LeavesAreJson ==
    \A a, b, c \in {model, size, width, Append(width, "in")}
                   \X {<<"text", model, "object">>, <<"text", image, "objects">>, Upstream} :
        Body(Write(Write(Write([p \in {} |-> Upstream], a), b), c))
        = Obj(WriteJson(WriteJson(WriteJson(NoFields, a), b), c))

=============================================================================
