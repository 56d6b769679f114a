--------------------------- MODULE CacheContract ---------------------------
(***************************************************************************)
(* What the fetch path relies on in a Cache (mesi/cache.go): a Get answers *)
(* with the body of the latest Set of that key or with a miss, never with  *)
(* an older body, and after a Delete with a miss.  Entries may disappear   *)
(* at any time (expiry, eviction).                                         *)
(***************************************************************************)
CONSTANTS Key, Body, NoBody

VARIABLES
    stored,   \* the body of the latest Set of each key not deleted since
    copy,     \* what a Get of each key would answer, NoBody: a miss
    answer    \* what the latest Get returned

vars == <<stored, copy, answer>>

Init ==
    /\ stored = [k \in Key |-> NoBody]
    /\ copy = [k \in Key |-> NoBody]
    /\ answer = NoBody

(* A Set makes its body visible and may push out any of the others.        *)
Set(k, b) ==
    /\ stored' = [stored EXCEPT ![k] = b]
    /\ \E gone \in SUBSET (Key \ {k}) :
          copy' = [j \in Key |-> IF j = k THEN b
                                 ELSE IF j \in gone THEN NoBody
                                 ELSE copy[j]]
    /\ UNCHANGED answer

Get(k) ==
    /\ answer' = copy[k]
    /\ UNCHANGED <<stored, copy>>

Delete(k) ==
    /\ stored' = [stored EXCEPT ![k] = NoBody]
    /\ copy' = [copy EXCEPT ![k] = NoBody]
    /\ UNCHANGED answer

Vanish ==
    /\ \E gone \in SUBSET Key :
          copy' = [j \in Key |-> IF j \in gone THEN NoBody ELSE copy[j]]
    /\ UNCHANGED <<stored, answer>>

Next ==
    \/ \E k \in Key, b \in Body : Set(k, b)
    \/ \E k \in Key : Get(k) \/ Delete(k)
    \/ Vanish

Spec == Init /\ [][Next]_vars
============================================================================
