----------------------------- MODULE MCSettings -----------------------------
(***************************************************************************)
(* Files for Settings: every text of up to four characters for every       *)
(* number and for the port; and short files about each directive, about    *)
(* each together with one that leads to ParseJson, and about the caches.   *)
(***************************************************************************)
EXTENDS Settings

MCTexts == SeqOf({0, 1, 2, 3, 9, Other, Blank}, 4)

MCSomeTexts == {<<>>, <<0>>, <<2>>, <<1, 2>>, <<9, 2>>, <<9, 3>>, <<9, 9, 9>>}

Topic(D, n, texts, L) == [of |-> D, lines |-> n, all |-> texts, libs |-> L]

MCTopics ==
    {Topic({d}, 1, TRUE, {"json"}) : d \in Numbers \union {"redisAddr"}}
    \union {Topic({d}, 3, FALSE, {"json"}) : d \in Directives}
    \union {Topic({"timeout", d}, 2, FALSE, Libraries) : d \in Directives}
    \union {Topic({"backend", d}, 3, FALSE, {"json"}) : d \in CacheOnly}
    \union {Topic({"backend", "template", "cookies"}, 3, FALSE, {"json", "ctx"}),
            Topic({"backend", "template", "headers"}, 3, FALSE, {"json", "ctx"})}

============================================================================
