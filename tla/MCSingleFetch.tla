--------------------------- MODULE MCSingleFetch ---------------------------
(***************************************************************************)
(* Instances of SingleFetch for TLC: three goroutines that work for one    *)
(* MESIParse call and compete for its semaphore, or that work for two      *)
(* pages and meet only in the process-wide lock table and cache.           *)
(***************************************************************************)
EXTENDS SingleFetch, TLC

CONSTANTS f1, f2, f3, page1, page2, l1, l2, l3

MCFetch == {f1, f2, f3}
MCParse == {page1, page2}
OnePage == [f \in MCFetch |-> page1]
TwoPages == [f \in MCFetch |-> IF f = f3 THEN page2 ELSE page1]
MCLockId == {l1, l2, l3}
MCOneLock == {l1}
MCSymmetry == Permutations(MCLockId)
============================================================================
