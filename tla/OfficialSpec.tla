---------------------------- MODULE OfficialSpec ----------------------------
(***************************************************************************)
(* The fields of official answers: internal/official/openai_spec.go, which *)
(* has the same ones for both image endpoints, and responseSpecs and       *)
(* errorSpecs of internal/service/proxy.go, which hand them to the mapping.*)
(***************************************************************************)
EXTENDS Json

ParamSpec(names, type) == {[name |-> n, type |-> type] : n \in names}

usage(names) == {<<Key("usage"), Key(n)>> : n \in names}

imageResponseFields ==
    ParamSpec({<<Key("created")>>}
              \cup usage({"input_tokens", "output_tokens", "total_tokens"})
              \cup {p \o <<Key(n)>> : n \in {"image_tokens", "text_tokens"},
                      p \in usage({"input_tokens_details", "output_tokens_details"})},
              "integer")
    \cup
    ParamSpec({<<Key(n)>> : n \in {"background", "output_format", "quality", "size"}}
              \cup {<<Each("data"), Key(n)>> :
                       n \in {"url", "b64_json", "revised_prompt"}},
              "string")

openAIErrorFields ==
    ParamSpec({<<Key("error"), Key(n)>> : n \in {"message", "type", "param", "code"}},
              "string")

\* In answers `created` is required, in errors the message.
RequiredFields == {<<Key("created")>>, <<Key("error"), Key("message")>>}

\* responseSpecMap[path].Type: a path that the catalog does not have has the
\* zero value, no type and not required.
TypeIn(specs, path) ==
    IF \E spec \in specs : spec.name = path
    THEN (CHOOSE spec \in specs : spec.name = path).type ELSE ""

RequiredIn(specs, path) ==
    path \in RequiredFields /\ \E spec \in specs : spec.name = path

============================================================================
