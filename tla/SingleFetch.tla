---------------------------- MODULE SingleFetch ----------------------------
(***************************************************************************)
(* The admission pipeline of singleFetchUrlWithContext (mesi/fetch.go):    *)
(* the time budget, the per-parse semaphore, URL validation, the cache     *)
(* lookup, the process-wide table of reference-counted per-key locks, the  *)
(* double check, the upstream round trip, the cache fill and the deferred  *)
(* releases.  Every element of Fetch is a worker goroutine that runs one   *)
(* fetch after another; each statement that touches shared state is one    *)
(* step.                                                                   *)
(*                                                                         *)
(* Lock objects are pointers in the code.  LockId is the pool they are     *)
(* drawn from: an allocation takes an id that neither the table nor any    *)
(* goroutine still refers to, which is what the garbage collector ensures. *)
(***************************************************************************)
EXTENDS Naturals, FiniteSets

CONSTANTS Fetch,                  \* worker goroutines
          Parse,                  \* MESIParse calls, one semaphore each
          ParseOf,                \* the MESIParse call a goroutine works for
          Key,                    \* cache keys (URL and policy fingerprint)
          NoKey,                  \* cacheKey == "": no cache is configured
          LockId,                 \* addresses of inflightLock objects
          NoLock,                 \* the nil *inflightLock
          Body,                   \* response bodies
          NoBody,                 \* no entry in the cache, no response yet
          MaxConcurrentRequests   \* capacity of the semaphore, 0: no semaphore

ASSUME FetchAssumption ==
    /\ IsFiniteSet(Fetch)
    /\ ParseOf \in [Fetch -> Parse]
    /\ NoKey \notin Key
    /\ NoLock \notin LockId
    /\ NoBody \notin Body
    /\ MaxConcurrentRequests \in Nat

VARIABLES
    pc,             \* the next statement of each goroutine
    key,            \* cacheKey of the current fetch
    lock,           \* local variable lock of the current fetch
    expired,        \* fetchCtx.Done() is closed
    got,            \* the body, and the return value: NoBody is an error
    blind,          \* history: the double check failed to read the cache
    sem,            \* tokens in each parse's semaphore channel
    inflightLocks,  \* the process-wide table, NoLock: no entry
    refCount,       \* refCount field of each lock object
    ch,             \* tokens in each lock object's channel of capacity 1
    cache           \* the shared cache, NoBody: no live entry

vars == <<pc, key, lock, expired, got, blind, sem, inflightLocks,
          refCount, ch, cache>>

Steps == {"idle", "admit", "validate", "get", "ref", "wait", "held",
          "recheck", "dial", "fetch", "set", "unslot", "unref", "unsem"}

(* Between taking the semaphore token and giving it back.                  *)
Admitted == Steps \ {"idle", "admit"}

(* Between acquireInflightLock and releaseInflightLock.                    *)
Referring == {"wait", "held", "recheck", "dial", "fetch", "set", "unslot",
              "unref"}

(* Between the send on lock.ch and the receive from it.                    *)
Owning == {"held", "recheck", "dial", "fetch", "set", "unslot"}

Participants(l) == {f \in Fetch : lock[f] = l /\ pc[f] \in Referring}

Admissions(p) == {f \in Fetch : ParseOf[f] = p /\ pc[f] \in Admitted}

TypeOK ==
    /\ pc \in [Fetch -> Steps]
    /\ key \in [Fetch -> Key \cup {NoKey}]
    /\ lock \in [Fetch -> LockId \cup {NoLock}]
    /\ expired \in [Fetch -> BOOLEAN]
    /\ got \in [Fetch -> Body \cup {NoBody}]
    /\ blind \in [Fetch -> BOOLEAN]
    /\ sem \in [Parse -> Nat]
    /\ inflightLocks \in [Key -> LockId \cup {NoLock}]
    /\ refCount \in [LockId -> Nat]
    /\ ch \in [LockId -> 0..1]
    /\ cache \in [Key -> Body \cup {NoBody}]

Init ==
    /\ pc = [f \in Fetch |-> "idle"]
    /\ key = [f \in Fetch |-> NoKey]
    /\ lock = [f \in Fetch |-> NoLock]
    /\ expired = [f \in Fetch |-> FALSE]
    /\ got = [f \in Fetch |-> NoBody]
    /\ blind = [f \in Fetch |-> FALSE]
    /\ sem = [p \in Parse |-> 0]
    /\ inflightLocks = [k \in Key |-> NoLock]
    /\ refCount = [l \in LockId |-> 0]
    /\ ch = [l \in LockId |-> 0]
    /\ cache = [k \in Key |-> NoBody]

----------------------------------------------------------------------------
Goto(f, s) == pc' = [pc EXCEPT ![f] = s]

(* The call returns: its local variables are gone, cancel() has run.       *)
ForgetLocals(f) ==
    /\ key' = [key EXCEPT ![f] = NoKey]
    /\ lock' = [lock EXCEPT ![f] = NoLock]
    /\ expired' = [expired EXCEPT ![f] = FALSE]
    /\ blind' = [blind EXCEPT ![f] = FALSE]

(* A call with Timeout <= 0 or with an unenforceable MaxResponseSize       *)
(* returns before a context exists; every other call gets a deadline.      *)
Refuse(f) ==
    /\ pc[f] = "idle"
    /\ got' = [got EXCEPT ![f] = NoBody]
    /\ UNCHANGED <<pc, key, lock, expired, blind, sem, inflightLocks,
                   refCount, ch, cache>>

Start(f, k) ==
    /\ pc[f] = "idle"
    /\ Goto(f, "admit")
    /\ key' = [key EXCEPT ![f] = k]
    /\ got' = [got EXCEPT ![f] = NoBody]
    /\ UNCHANGED <<lock, expired, blind, sem, inflightLocks, refCount, ch, cache>>

(* The select on the semaphore: a token, or the deadline.                  *)
Admit(f) ==
    LET p == ParseOf[f] IN
    /\ pc[f] = "admit"
    /\ \/ /\ MaxConcurrentRequests > 0
          /\ sem[p] < MaxConcurrentRequests
          /\ sem' = [sem EXCEPT ![p] = @ + 1]
       \/ /\ MaxConcurrentRequests = 0
          /\ UNCHANGED sem
    /\ Goto(f, "validate")
    /\ UNCHANGED <<key, lock, expired, got, blind, inflightLocks,
                   refCount, ch, cache>>

(* Mutant of AdmitTimeout: the release of the token is deferred before the *)
(* select, so a fetch that never got a token gives one back.               *)
AdmitTimeoutOwesToken(f) ==
    /\ pc[f] = "admit"
    /\ MaxConcurrentRequests > 0
    /\ expired[f]
    /\ Goto(f, "unsem")
    /\ UNCHANGED <<key, lock, expired, got, blind, sem, inflightLocks,
                   refCount, ch, cache>>

AdmitTimeout(f) ==
    /\ pc[f] = "admit"
    /\ MaxConcurrentRequests > 0
    /\ expired[f]
    /\ Goto(f, "idle")
    /\ ForgetLocals(f)
    /\ UNCHANGED <<got, sem, inflightLocks, refCount, ch, cache>>

(* URL parsing, scheme, SSRF and AllowedHosts checks: the URL is refused,  *)
(* or the fetch goes on to the cache (when there is one).                  *)
Validate(f) ==
    /\ pc[f] = "validate"
    /\ \/ Goto(f, "unsem")
       \/ Goto(f, IF key[f] = NoKey THEN "dial" ELSE "get")
    /\ UNCHANGED <<key, lock, expired, got, blind, sem, inflightLocks,
                   refCount, ch, cache>>

(* First Cache.Get: a hit returns the entry; a miss, and an error of the   *)
(* backend (logged only), go on to the inflight lock.                      *)
CacheHit(f) ==
    /\ pc[f] = "get"
    /\ cache[key[f]] # NoBody
    /\ got' = [got EXCEPT ![f] = cache[key[f]]]
    /\ Goto(f, "unsem")
    /\ UNCHANGED <<key, lock, expired, blind, sem, inflightLocks, refCount,
                   ch, cache>>

CacheMiss(f) ==
    /\ pc[f] = "get"
    /\ cache[key[f]] = NoBody
    /\ Goto(f, "ref")
    /\ UNCHANGED <<key, lock, expired, got, blind, sem,
                   inflightLocks, refCount, ch, cache>>

CacheGetError(f) ==
    /\ pc[f] = "get"
    /\ cache[key[f]] # NoBody
    /\ Goto(f, "ref")
    /\ UNCHANGED <<key, lock, expired, got, blind, sem,
                   inflightLocks, refCount, ch, cache>>

(* acquireInflightLock, atomic under inflightMu.                           *)
Unallocated(l) ==
    /\ \A k \in Key : inflightLocks[k] # l
    /\ \A f \in Fetch : pc[f] \in Referring => lock[f] # l

ReuseLock(f) ==
    LET l == inflightLocks[key[f]] IN
    /\ l # NoLock
    /\ refCount' = [refCount EXCEPT ![l] = @ + 1]
    /\ lock' = [lock EXCEPT ![f] = l]
    /\ UNCHANGED <<inflightLocks, ch>>

(* Mutant of NewLock: the entry found in the table is not looked at.       *)
NewLockUnconditional(f, l) ==
    /\ Unallocated(l)
    /\ inflightLocks' = [inflightLocks EXCEPT ![key[f]] = l]
    /\ refCount' = [refCount EXCEPT ![l] = 1]
    /\ ch' = [ch EXCEPT ![l] = 0]
    /\ lock' = [lock EXCEPT ![f] = l]

NewLock(f, l) ==
    /\ inflightLocks[key[f]] = NoLock
    /\ Unallocated(l)
    /\ inflightLocks' = [inflightLocks EXCEPT ![key[f]] = l]
    /\ refCount' = [refCount EXCEPT ![l] = 1]
    /\ ch' = [ch EXCEPT ![l] = 0]
    /\ lock' = [lock EXCEPT ![f] = l]

AcquireInflightLock(f) ==
    /\ pc[f] = "ref"
    /\ \/ ReuseLock(f)
       \/ \E l \in LockId : NewLock(f, l)
    /\ Goto(f, "wait")
    /\ UNCHANGED <<key, expired, got, blind, sem, cache>>

(* Mutant of TakeSlot: lock.ch is made with room for two.                  *)
TakeSlotOfTwo(f) ==
    /\ pc[f] = "wait"
    /\ ch[lock[f]] < 2
    /\ ch' = [ch EXCEPT ![lock[f]] = @ + 1]
    /\ Goto(f, "held")
    /\ UNCHANGED <<key, lock, expired, got, blind, sem,
                   inflightLocks, refCount, cache>>

(* The select on lock.ch: the slot, or the deadline.                       *)
TakeSlot(f) ==
    /\ pc[f] = "wait"
    /\ ch[lock[f]] = 0
    /\ ch' = [ch EXCEPT ![lock[f]] = 1]
    /\ Goto(f, "held")
    /\ UNCHANGED <<key, lock, expired, got, blind, sem,
                   inflightLocks, refCount, cache>>

(* Mutants of WaitTimeout: the reference is not dropped when the deadline  *)
(* wins; the select has no deadline case.                                  *)
WaitTimeoutKeepsReference(f) ==
    /\ pc[f] = "wait"
    /\ expired[f]
    /\ Goto(f, "unsem")
    /\ UNCHANGED <<key, lock, expired, got, blind, sem, inflightLocks,
                   refCount, ch, cache>>

WaitTimeoutNever(f) == pc[f] = "wait" /\ FALSE /\ UNCHANGED vars

WaitTimeout(f) ==
    /\ pc[f] = "wait"
    /\ expired[f]
    /\ Goto(f, "unref")
    /\ UNCHANGED <<key, lock, expired, got, blind, sem, inflightLocks,
                   refCount, ch, cache>>

(* Mutants of CheckDeadline: the slot is not given back; the double check  *)
(* is left out.                                                            *)
CheckDeadlineKeepsSlot(f) ==
    /\ pc[f] = "held"
    /\ \/ expired[f] /\ Goto(f, "unref")
       \/ ~expired[f] /\ Goto(f, "recheck")
    /\ UNCHANGED <<key, lock, expired, got, blind, sem, inflightLocks,
                   refCount, ch, cache>>

CheckDeadlineOnly(f) ==
    /\ pc[f] = "held"
    /\ \/ expired[f] /\ Goto(f, "unslot")
       \/ ~expired[f] /\ Goto(f, "dial")
    /\ UNCHANGED <<key, lock, expired, got, blind, sem, inflightLocks,
                   refCount, ch, cache>>

(* Both cases of the select may be ready: a slot won after the deadline is *)
(* given back without a fetch.                                             *)
CheckDeadline(f) ==
    /\ pc[f] = "held"
    /\ \/ expired[f] /\ Goto(f, "unslot")
       \/ ~expired[f] /\ Goto(f, "recheck")
    /\ UNCHANGED <<key, lock, expired, got, blind, sem, inflightLocks,
                   refCount, ch, cache>>

(* Second Cache.Get, under the slot; here an error counts as a miss.       *)
RecheckHit(f) ==
    /\ pc[f] = "recheck"
    /\ cache[key[f]] # NoBody
    /\ got' = [got EXCEPT ![f] = cache[key[f]]]
    /\ Goto(f, "unslot")
    /\ UNCHANGED <<key, lock, expired, blind, sem, inflightLocks, refCount,
                   ch, cache>>

RecheckMiss(f) ==
    /\ pc[f] = "recheck"
    /\ cache[key[f]] = NoBody
    /\ Goto(f, "dial")
    /\ UNCHANGED <<key, lock, expired, got, blind, sem,
                   inflightLocks, refCount, ch, cache>>

RecheckError(f) ==
    /\ pc[f] = "recheck"
    /\ cache[key[f]] # NoBody
    /\ Goto(f, "dial")
    /\ blind' = [blind EXCEPT ![f] = TRUE]
    /\ UNCHANGED <<key, lock, expired, got, sem, inflightLocks,
                   refCount, ch, cache>>

(* Where the deferred functions begin: a fetch with a lock gives the slot  *)
(* back first, one without a cache only has the semaphore token.           *)
FirstDefer(f) == IF key[f] = NoKey THEN "unsem" ELSE "unslot"

(* The request is sent, unless fetchCtx is already done.                   *)
Dial(f) ==
    /\ pc[f] = "dial"
    /\ \/ expired[f] /\ Goto(f, FirstDefer(f))
       \/ ~expired[f] /\ Goto(f, "fetch")
    /\ UNCHANGED <<key, lock, expired, got, blind, sem, inflightLocks,
                   refCount, ch, cache>>

(* The round trip ends: a network error, a refused redirect, an oversized  *)
(* body or a status >= 400 is an error; otherwise there is a body.         *)
UpstreamError(f) ==
    /\ pc[f] = "fetch"
    /\ Goto(f, FirstDefer(f))
    /\ UNCHANGED <<key, lock, expired, got, blind, sem, inflightLocks,
                   refCount, ch, cache>>

UpstreamBody(f, b) ==
    /\ pc[f] = "fetch"
    /\ got' = [got EXCEPT ![f] = b]
    /\ Goto(f, IF key[f] = NoKey THEN "unsem" ELSE "set")
    /\ UNCHANGED <<key, lock, expired, blind, sem, inflightLocks, refCount,
                   ch, cache>>

(* Cache.Set may fail; the failure is only logged.                         *)
CacheSet(f) ==
    /\ pc[f] = "set"
    /\ Goto(f, "unslot")
    /\ \/ cache' = [cache EXCEPT ![key[f]] = got[f]]
       \/ UNCHANGED cache
    /\ UNCHANGED <<key, lock, expired, got, blind, sem, inflightLocks,
                   refCount, ch>>

(* The deferred functions, last registered first.                          *)
GiveSlot(f) ==
    /\ pc[f] = "unslot"
    /\ ch[lock[f]] = 1
    /\ ch' = [ch EXCEPT ![lock[f]] = 0]
    /\ Goto(f, "unref")
    /\ UNCHANGED <<key, lock, expired, got, blind, sem,
                   inflightLocks, refCount, cache>>

(* Mutant of ReleaseInflightLock: the entry is deleted although others     *)
(* still refer to it.                                                      *)
ReleasePrunesAlways(f) ==
    LET l == lock[f] IN
    /\ pc[f] = "unref"
    /\ refCount' = [refCount EXCEPT ![l] = @ - 1]
    /\ inflightLocks' =
          IF inflightLocks[key[f]] = l
          THEN [inflightLocks EXCEPT ![key[f]] = NoLock]
          ELSE inflightLocks
    /\ Goto(f, "unsem")
    /\ UNCHANGED <<key, lock, expired, got, blind, sem, ch, cache>>

ReleaseInflightLock(f) ==
    LET l == lock[f] IN
    /\ pc[f] = "unref"
    /\ refCount' = [refCount EXCEPT ![l] = @ - 1]
    /\ inflightLocks' =
          IF refCount[l] = 1 /\ inflightLocks[key[f]] = l
          THEN [inflightLocks EXCEPT ![key[f]] = NoLock]
          ELSE inflightLocks
    /\ Goto(f, "unsem")
    /\ UNCHANGED <<key, lock, expired, got, blind, sem, ch, cache>>

Leave(f) ==
    LET p == ParseOf[f] IN
    /\ pc[f] = "unsem"
    /\ IF MaxConcurrentRequests > 0
       THEN sem[p] > 0 /\ sem' = [sem EXCEPT ![p] = @ - 1]
       ELSE UNCHANGED sem
    /\ Goto(f, "idle")
    /\ ForgetLocals(f)
    /\ UNCHANGED <<got, inflightLocks, refCount, ch, cache>>

----------------------------------------------------------------------------
(* The environment: the deadline passes or the page render is cancelled,   *)
(* and the cache drops an entry (expiry, eviction, a restarted backend).   *)
Expire(f) ==
    /\ pc[f] # "idle"
    /\ ~expired[f]
    /\ expired' = [expired EXCEPT ![f] = TRUE]
    /\ UNCHANGED <<pc, key, lock, got, blind, sem, inflightLocks,
                   refCount, ch, cache>>

Drop(k) ==
    /\ cache[k] # NoBody
    /\ cache' = [cache EXCEPT ![k] = NoBody]
    /\ UNCHANGED <<pc, key, lock, expired, got, blind, sem,
                   inflightLocks, refCount, ch>>

(* The steps a fetch takes once it has been called.                        *)
Advance(f) ==
    \/ Admit(f) \/ AdmitTimeout(f)
    \/ Validate(f)
    \/ CacheHit(f) \/ CacheMiss(f) \/ CacheGetError(f)
    \/ AcquireInflightLock(f)
    \/ TakeSlot(f) \/ WaitTimeout(f)
    \/ CheckDeadline(f)
    \/ RecheckHit(f) \/ RecheckMiss(f) \/ RecheckError(f)
    \/ Dial(f)
    \/ UpstreamError(f) \/ \E b \in Body : UpstreamBody(f, b)
    \/ CacheSet(f)
    \/ GiveSlot(f) \/ ReleaseInflightLock(f) \/ Leave(f)

Next ==
    \/ \E f \in Fetch : Refuse(f)
    \/ \E f \in Fetch, k \in Key \cup {NoKey} : Start(f, k)
    \/ \E f \in Fetch : Advance(f)
    \/ \E f \in Fetch : Expire(f)
    \/ \E k \in Key : Drop(k)

Spec == Init /\ [][Next]_vars

(* A runnable goroutine is eventually scheduled, and the timer of a        *)
(* context with a deadline eventually fires.  Nothing obliges an upstream  *)
(* server to answer: a round trip is only bound to end once fetchCtx is    *)
(* done.                                                                   *)
FairSpec ==
    /\ Spec
    /\ \A f \in Fetch :
          /\ WF_vars(Advance(f) /\ (pc[f] = "fetch" => expired[f]))
          /\ WF_vars(Expire(f))

----------------------------------------------------------------------------
(* At most one goroutine of the process is on an upstream round trip for   *)
(* a cache key, across all pages being rendered (fetch.go:240-244).        *)
UpstreamExclusive ==
    \A f, g \in Fetch :
        /\ pc[f] = "fetch" /\ pc[g] = "fetch"
        /\ key[f] = key[g] /\ key[f] # NoKey
        => f = g

(* The lock table is exact: a participant's lock is the canonical one of   *)
(* its key, the reference count is the number of participants, and an      *)
(* entry nobody refers to is gone, so the table cannot grow without bound  *)
(* (comments at fetch.go:28-31 and 45-48).                                 *)
LockTableExact ==
    /\ \A f \in Fetch :
          pc[f] \in Referring /\ key[f] # NoKey
          => lock[f] # NoLock /\ inflightLocks[key[f]] = lock[f]
    /\ \A k \in Key : inflightLocks[k] # NoLock =>
          /\ refCount[inflightLocks[k]] = Cardinality(Participants(inflightLocks[k]))
          /\ Participants(inflightLocks[k]) # {}

(* A taken slot always has a goroutine that will give it back: no error    *)
(* path, deadline or cache hit leaves lock.ch full behind it, and the      *)
(* receive that frees it never blocks.                                     *)
SlotNeverLost ==
    \A l \in LockId :
        (\E k \in Key : inflightLocks[k] = l) =>
            (ch[l] = 1 <=> \E f \in Fetch : lock[f] = l /\ key[f] # NoKey
                                            /\ pc[f] \in Owning)

(* The semaphore bounds the fetches of one MESIParse call that are past    *)
(* admission, and every one of them still owes exactly one token: none is  *)
(* leaked or returned twice on any return path.                            *)
AdmissionBound ==
    MaxConcurrentRequests > 0 =>
        \A p \in Parse :
            /\ Cardinality(Admissions(p)) <= MaxConcurrentRequests
            /\ sem[p] = Cardinality(Admissions(p))

(* The same-page dedup guarantee: while the cache holds a body for a key,  *)
(* nobody is upstream for that key, unless its own double check could not  *)
(* read the cache.                                                         *)
NoRedundantTrip ==
    \A f \in Fetch :
        pc[f] \in {"dial", "fetch", "set"} /\ key[f] # NoKey /\ ~blind[f]
        => cache[key[f]] = NoBody

(* The detailed fetch path implements SingleFlight: a key is led by the    *)
(* goroutine between its send on lock.ch and its receive from it.          *)
Leaders == [k \in Key |-> {f \in Fetch : key[f] = k /\ pc[f] \in Owning}]

Flight == INSTANCE SingleFlight WITH leaders <- Leaders, copy <- cache

(* One leader per key, and only the leader fills the cache, although lock  *)
(* objects come and go with the participants of a key.                     *)
ImplementsSingleFlight == Flight!Spec

(* Every fetch returns, whatever the server, the cache and the other       *)
(* fetches do: all waits are inside the one deadline (fetch.go:168-176).   *)
FetchReturns == \A f \in Fetch : pc[f] # "idle" ~> pc[f] = "idle"

----------------------------------------------------------------------------
(* The inductive strengthening of the properties above.                    *)
KeyedSteps == {"get", "ref", "wait", "held", "recheck", "set", "unslot",
               "unref"}

KeyKnown == \A f \in Fetch : pc[f] \in KeyedSteps => key[f] # NoKey

LockNeedsKey ==
    \A f \in Fetch : key[f] = NoKey \/ pc[f] = "idle" => lock[f] = NoLock

LocksDistinct ==
    \A j, k \in Key :
        inflightLocks[j] = inflightLocks[k] /\ inflightLocks[j] # NoLock
        => j = k

OneOwner ==
    \A f, g \in Fetch :
        /\ pc[f] \in Owning /\ pc[g] \in Owning
        /\ key[f] = key[g] /\ key[f] # NoKey
        => f = g

LockInv == KeyKnown /\ LockNeedsKey /\ LocksDistinct /\ LockTableExact

SlotInv == OneOwner /\ SlotNeverLost

BodyRead == \A f \in Fetch : pc[f] = "set" => got[f] # NoBody

IInv ==
    /\ TypeOK
    /\ LockInv
    /\ SlotInv
    /\ AdmissionBound
    /\ NoRedundantTrip
    /\ BodyRead
============================================================================
