---------------------------- MODULE SingleFlight ----------------------------
(***************************************************************************)
(* What the fetch path promises about one cache key, without locks, tables *)
(* or channels: at most one fetch leads the key at a time, and a body gets *)
(* into the cache only from the fetch that leads its key.  SingleFetch     *)
(* implements this specification.                                          *)
(***************************************************************************)
CONSTANTS Fetch, Key, Body, NoBody

VARIABLES
    leaders,   \* the fetches that lead a key: none or one
    copy       \* the cached body of a key, NoBody: none

vars == <<leaders, copy>>

Init ==
    /\ leaders = [k \in Key |-> {}]
    /\ copy = [k \in Key |-> NoBody]

Lead(f, k) ==
    /\ leaders[k] = {}
    /\ leaders' = [leaders EXCEPT ![k] = {f}]
    /\ UNCHANGED copy

Publish(f, k, b) ==
    /\ leaders[k] = {f}
    /\ copy' = [copy EXCEPT ![k] = b]
    /\ UNCHANGED leaders

StepDown(f, k) ==
    /\ leaders[k] = {f}
    /\ leaders' = [leaders EXCEPT ![k] = {}]
    /\ UNCHANGED copy

(* Expiry and eviction belong to the cache, not to a fetch.                *)
Drop(k) ==
    /\ copy[k] # NoBody
    /\ copy' = [copy EXCEPT ![k] = NoBody]
    /\ UNCHANGED leaders

Next ==
    \E k \in Key :
        \/ \E f \in Fetch : Lead(f, k) \/ StepDown(f, k)
        \/ \E f \in Fetch, b \in Body : Publish(f, k, b)
        \/ Drop(k)

Spec == Init /\ [][Next]_vars
=============================================================================
