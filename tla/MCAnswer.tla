----------------------------- MODULE MCAnswer ------------------------------
(***************************************************************************)
(* Bounds for Answer and ResponseMapping: every rule over four official    *)
(* paths, two of them in one array, or over one of an error body and one   *)
(* the catalog does not have, and four upstream ones, with any of nine     *)
(* sets of defaults, or no rule at all, over bodies that are complete,     *)
(* ragged, empty, of other types, and no object.  They carry usages with   *)
(* and without a total, one that overflows, errors in several places, and  *)
(* image data alone, in lists, in objects and nested.  As beyond 2^53 only *)
(* every other integer is a float64, so here beyond 10, and 20 is the      *)
(* largest.                                                                *)
(***************************************************************************)
EXTENDS Answer, OfficialSpec, TLC

MCFieldNames ==
    {"items", "n", "x", "y", "usage", "input_tokens", "output_tokens", "total_tokens",
     "data", "url", "b64_json", "base64", "error", "base_resp", "status_msg",
     "status_code", "message", "code", "type", "param", "detail", "msg", "result",
     "images", "created", "extra"}

MCTexts == STRING

MCLargest == 200
Rounded(n) == IF n > 100 THEN 20 * ((n + 10) \div 20) ELSE n
MCFloat == [n \in -MCLargest..MCLargest |-> IF n < 0 THEN -Rounded(-n) ELSE Rounded(n)]

Fields1 == [x |-> Str("a"), y |-> Str("b")]
Fields2 == [x |-> Str("c"), y |-> Str("d")]

Usage1 == [input_tokens |-> Num(60), output_tokens |-> Num(50)]
Usage2 == [total_tokens |-> Null, input_tokens |-> Digits(40), output_tokens |-> Num(40)]
Usage4 == [input_tokens |-> Num(130), output_tokens |-> Num(110)]
Usage3 == [total_tokens |-> Num(90), input_tokens |-> Num(30)]
Images == <<Obj([b64_json |-> Str("image")]),
            Obj([b64_json |-> Arr(<<Str("image"), Num(10)>>), url |-> Str("u")]),
            Obj([b64_json |-> Obj([base64 |-> Str("image")])])>>

MCBodies == {
    Obj([items |-> Arr(<<Obj(Fields1), Obj(Fields2)>>), n |-> Num(15),
         usage |-> Obj(Usage1), data |-> Arr(Images),
         error |-> Obj([message |-> Str("bad"), code |-> Num(110)])]),
    Obj([items |-> Arr(<<Obj([x |-> Str("a")]), Obj(Fields2)>>), n |-> Digits(110),
         usage |-> Obj(Usage2), base64 |-> Null,
         base_resp |-> Obj([status_msg |-> Str("low"), status_code |-> Num(10)])]),
    Obj([items |-> Arr(<<>>), n |-> Null, usage |-> Obj(Usage3),
         error |-> Str("bad"), detail |-> Arr(<<Obj([msg |-> Str("bad")])>>)]),
    Obj([items |-> Bool(TRUE), n |-> Digits(2010), usage |-> Obj(Usage4), message |-> Null,
         result |-> Obj([images |-> Arr(Images)])]),
    Arr(<<Obj([n |-> Num(110)]), Obj([n |-> Digits(15), message |-> Str("bad")])>>),
    Str("a")}

MCSources == {Decoded[b] : b \in MCBodies}

created == <<Key("created")>>
url == <<Each("data"), Key("url")>>
b64 == <<Each("data"), Key("b64_json")>>
tokens == <<Key("usage"), Key("input_tokens")>>
message == <<Key("error"), Key("message")>>
extra == <<Each("extra")>>

MCErrorOfficial == {message, extra}
MCOfficial == {created, url, b64, tokens} \cup MCErrorOfficial

Specs(path) ==
    IF path \in MCErrorOfficial THEN openAIErrorFields ELSE imageResponseFields
Typed(path) == path :> TypeIn(Specs(path), path)
MCTypes == Typed(created) @@ Typed(url) @@ Typed(b64) @@ Typed(tokens)
           @@ Typed(message) @@ Typed(extra)
MCRequired == {path \in MCOfficial : RequiredIn(Specs(path), path)}
MCUpstream == {<<Key("n")>>, <<Key("items")>>,
               <<Each("items"), Key("x")>>, <<Each("items"), Key("y")>>}
MCDefaulted == {created, url}
MCValues == {Num(-15), Str("z")}

============================================================================
