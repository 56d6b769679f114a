---------------------------- MODULE FetchProofs ----------------------------
(***************************************************************************)
(* Proofs about SingleFetch, for any finite set of goroutines and any sets *)
(* of keys, locks, bodies and parses, and about FetchModes, for any        *)
(* largest ratio.  The inductive invariants are IInv, preserved conjunct   *)
(* by conjunct, each from the conjuncts before it, and IncludeInv.         *)
(***************************************************************************)
EXTENDS SingleFetch, FetchModes, FiniteSetTheorems, SequenceTheorems, TLAPS

(* The goroutines that refer to a lock object are finitely many, so a      *)
(* participant makes the reference count positive.                         *)
LEMMA ParticipantsFinite ==
    ASSUME NEW l
    PROVE  IsFiniteSet(Participants(l)) /\ Cardinality(Participants(l)) \in Nat
<1>1. Participants(l) \subseteq Fetch
  BY DEF Participants
<1> QED
  BY <1>1, FetchAssumption, FS_Subset, FS_CardinalityType

(* A goroutine that holds a reference is counted by the table's entry for  *)
(* its key, whose count is therefore positive.                             *)
LEMMA ParticipantCounted ==
    ASSUME TypeOK, LockInv, NEW f \in Fetch,
           pc[f] \in Referring, key[f] # NoKey
    PROVE  /\ key[f] \in Key
           /\ lock[f] \in LockId
           /\ inflightLocks[key[f]] = lock[f]
           /\ f \in Participants(lock[f])
           /\ refCount[lock[f]] = Cardinality(Participants(lock[f]))
           /\ refCount[lock[f]] > 0
<1>1. key[f] \in Key /\ lock[f] \in LockId /\ inflightLocks[key[f]] = lock[f]
  BY DEF TypeOK, LockInv, LockTableExact
<1>2. f \in Participants(lock[f])
  BY DEF Participants
<1>3. refCount[lock[f]] = Cardinality(Participants(lock[f]))
  BY <1>1, FetchAssumption DEF LockInv, LockTableExact
<1>4. Cardinality(Participants(lock[f])) # 0
  BY <1>2, ParticipantsFinite, FS_EmptySet
<1> QED
  BY <1>1, <1>2, <1>3, <1>4, ParticipantsFinite

----------------------------------------------------------------------------
(* Every step of a fetch keeps the types: the token of a slot is the only  *)
(* one in its channel, and a count is decremented only by a participant.   *)
LEMMA AdvanceTypeOK ==
    ASSUME TypeOK, LockInv, NEW f \in Fetch, Advance(f)
    PROVE  TypeOK'
<1> USE FetchAssumption DEF TypeOK, Steps, Goto, ForgetLocals
<1>1. CASE Admit(f)
  BY <1>1 DEF Admit
<1>2. CASE AdmitTimeout(f)
  BY <1>2 DEF AdmitTimeout
<1>3. CASE Validate(f)
  BY <1>3 DEF Validate
<1>4. CASE CacheHit(f) \/ RecheckHit(f)
  <2>1. key[f] \in Key
    BY <1>4 DEF CacheHit, RecheckHit, LockInv, KeyKnown, KeyedSteps
  <2> QED
    BY <1>4, <2>1 DEF CacheHit, RecheckHit
<1>5. CASE CacheMiss(f) \/ CacheGetError(f) \/ RecheckMiss(f) \/ RecheckError(f)
  BY <1>5 DEF CacheMiss, CacheGetError, RecheckMiss, RecheckError
<1>6. CASE AcquireInflightLock(f)
  <2>1. key[f] \in Key
    BY <1>6 DEF AcquireInflightLock, LockInv, KeyKnown, KeyedSteps
  <2>2. CASE ReuseLock(f)
    BY <1>6, <2>1, <2>2 DEF AcquireInflightLock, ReuseLock
  <2>3. ASSUME NEW l \in LockId, NewLock(f, l)
        PROVE  TypeOK'
    BY <1>6, <2>1, <2>3 DEF AcquireInflightLock, NewLock
  <2> QED
    BY <1>6, <2>2, <2>3 DEF AcquireInflightLock
<1>7. CASE TakeSlot(f) \/ GiveSlot(f)
  BY <1>7 DEF TakeSlot, GiveSlot
<1>8. CASE WaitTimeout(f)
  BY <1>8 DEF WaitTimeout
<1>9. CASE CheckDeadline(f)
  BY <1>9 DEF CheckDeadline
<1>10. CASE Dial(f) \/ UpstreamError(f)
  BY <1>10 DEF Dial, UpstreamError, FirstDefer
<1>11. ASSUME NEW b \in Body, UpstreamBody(f, b)
       PROVE  TypeOK'
  BY <1>11 DEF UpstreamBody
<1>12. CASE CacheSet(f)
  BY <1>12 DEF CacheSet
<1>13. CASE ReleaseInflightLock(f)
  <2>1. refCount[lock[f]] \in Nat \ {0} /\ lock[f] \in LockId
    BY <1>13, ParticipantCounted
    DEF ReleaseInflightLock, Referring, LockInv, KeyKnown, KeyedSteps
  <2>2. refCount' \in [LockId -> Nat]
    <3>1. refCount[lock[f]] - 1 \in Nat
      BY <2>1
    <3> QED
      BY <1>13, <3>1 DEF ReleaseInflightLock
  <2>3. inflightLocks' \in [Key -> LockId \cup {NoLock}]
    BY <1>13 DEF ReleaseInflightLock
  <2> QED
    BY <1>13, <2>2, <2>3 DEF ReleaseInflightLock
<1>14. CASE Leave(f)
  BY <1>14 DEF Leave
<1> QED
  BY <1>1, <1>2, <1>3, <1>4, <1>5, <1>6, <1>7, <1>8, <1>9, <1>10, <1>11,
     <1>12, <1>13, <1>14 DEF Advance

----------------------------------------------------------------------------
(* The steps of a fetch other than taking and dropping a reference.        *)
Elsewhere(f) ==
    \/ Admit(f) \/ AdmitTimeout(f)
    \/ Validate(f)
    \/ CacheHit(f) \/ CacheMiss(f) \/ CacheGetError(f)
    \/ TakeSlot(f) \/ WaitTimeout(f)
    \/ CheckDeadline(f)
    \/ RecheckHit(f) \/ RecheckMiss(f) \/ RecheckError(f)
    \/ Dial(f)
    \/ UpstreamError(f) \/ \E b \in Body : UpstreamBody(f, b)
    \/ CacheSet(f)
    \/ GiveSlot(f) \/ Leave(f)

(* What a step of f looks like to the lock table when it neither takes nor *)
(* drops a reference.                                                      *)
OthersAlone(f) ==
    \A g \in Fetch : g # f => /\ pc'[g] = pc[g]
                              /\ key'[g] = key[g]
                              /\ lock'[g] = lock[g]

ReferencesKept(f) ==
    /\ UNCHANGED <<inflightLocks, refCount>>
    /\ OthersAlone(f)
    /\ (pc'[f] \in Referring /\ key'[f] # NoKey)
        <=> (pc[f] \in Referring /\ key[f] # NoKey)
    /\ pc'[f] \in Referring => key'[f] = key[f] /\ lock'[f] = lock[f]
    /\ pc'[f] \in KeyedSteps => key'[f] # NoKey
    /\ key'[f] = NoKey \/ pc'[f] = "idle" => lock'[f] = NoLock

(* They leave the lock table and every reference alone.                    *)
LEMMA ElsewhereKeepsReferences ==
    ASSUME TypeOK, LockInv, NEW f \in Fetch, Elsewhere(f)
    PROVE  ReferencesKept(f)
<1> USE FetchAssumption
    DEF TypeOK, Goto, ForgetLocals, Referring, KeyedSteps, LockInv, KeyKnown,
        LockNeedsKey, Steps, ReferencesKept, OthersAlone
<1>1. CASE Admit(f)
  BY <1>1 DEF Admit
<1>2. CASE AdmitTimeout(f) \/ Leave(f)
  BY <1>2 DEF AdmitTimeout, Leave
<1>3. CASE Validate(f)
  BY <1>3 DEF Validate
<1>4. CASE CacheHit(f) \/ CacheMiss(f) \/ CacheGetError(f)
  BY <1>4 DEF CacheHit, CacheMiss, CacheGetError
<1>5. CASE TakeSlot(f) \/ WaitTimeout(f) \/ GiveSlot(f)
  BY <1>5 DEF TakeSlot, WaitTimeout, GiveSlot
<1>6. CASE CheckDeadline(f)
  BY <1>6 DEF CheckDeadline
<1>7. CASE RecheckHit(f) \/ RecheckMiss(f) \/ RecheckError(f)
  BY <1>7 DEF RecheckHit, RecheckMiss, RecheckError
<1>8. CASE Dial(f) \/ UpstreamError(f)
  BY <1>8 DEF Dial, UpstreamError, FirstDefer
<1>9. ASSUME NEW b \in Body, UpstreamBody(f, b)
      PROVE  ReferencesKept(f)
  BY <1>9 DEF UpstreamBody
<1>10. CASE CacheSet(f)
  BY <1>10 DEF CacheSet
<1> QED
  BY <1>1, <1>2, <1>3, <1>4, <1>5, <1>6, <1>7, <1>8, <1>9, <1>10 DEF Elsewhere

(* A step that leaves every reference and the table alone keeps the lock   *)
(* invariant, provided it keeps its key and its place.                     *)
LEMMA ReferencesKeptLockInv ==
    ASSUME TypeOK, LockInv, TypeOK', NEW f \in Fetch, ReferencesKept(f)
    PROVE  LockInv'
<1>1. \A l \in LockId : Participants(l)' = Participants(l)
  <2>1. \A g \in Fetch, l \in LockId :
          (lock'[g] = l /\ pc'[g] \in Referring)
          <=> (lock[g] = l /\ pc[g] \in Referring)
    BY FetchAssumption DEF ReferencesKept, OthersAlone, LockInv, LockNeedsKey
  <2> QED
    BY <2>1 DEF Participants
<1>2. KeyKnown' /\ LockNeedsKey' /\ LocksDistinct'
  BY DEF ReferencesKept, OthersAlone, LockInv, KeyKnown, LockNeedsKey,
         LocksDistinct
<1>3. LockTableExact'
  <2>1. \A g \in Fetch :
          pc'[g] \in Referring /\ key'[g] # NoKey
          => lock'[g] # NoLock /\ inflightLocks'[key'[g]] = lock'[g]
    BY DEF ReferencesKept, OthersAlone, LockInv, LockTableExact
  <2>2. ASSUME NEW k \in Key, inflightLocks'[k] # NoLock
        PROVE  /\ refCount'[inflightLocks'[k]]
                   = Cardinality(Participants(inflightLocks[k])')
               /\ Participants(inflightLocks[k])' # {}
    BY <1>1, <2>2 DEF ReferencesKept, TypeOK, LockInv, LockTableExact
  <2>3. \A k \in Key : inflightLocks'[k] # NoLock =>
          /\ refCount'[inflightLocks'[k]]
                = Cardinality({g \in Fetch : lock'[g] = inflightLocks'[k]
                                             /\ pc'[g] \in Referring})
          /\ {g \in Fetch : lock'[g] = inflightLocks'[k]
                             /\ pc'[g] \in Referring} # {}
    BY <2>2 DEF Participants, ReferencesKept
  <2> QED
    BY <2>1, <2>3 DEF LockTableExact, Participants
<1> QED
  BY <1>2, <1>3 DEF LockInv

(* What acquireInflightLock does to the table: f joins the participants of *)
(* lock object m, the canonical one of its key, which is new when the key  *)
(* had none.                                                               *)
Joins(f, m) ==
    /\ key[f] \in Key
    /\ m \in LockId
    /\ lock'[f] = m
    /\ inflightLocks'[key[f]] = m
    /\ inflightLocks[key[f]] \in {m, NoLock}
    /\ \A j \in Key : j # key[f] => /\ inflightLocks'[j] = inflightLocks[j]
                                    /\ inflightLocks[j] # m
    /\ pc[f] = "ref" /\ pc'[f] = "wait" /\ key' = key
    /\ OthersAlone(f)
    /\ \A l \in LockId : l # m => refCount'[l] = refCount[l]
    /\ inflightLocks[key[f]] = NoLock => refCount'[m] = 1 /\ Participants(m) = {}
    /\ inflightLocks[key[f]] = m => refCount'[m] = refCount[m] + 1

(* acquireInflightLock, on both of its paths, adds the caller to the       *)
(* participants of the canonical lock of its key.                          *)
LEMMA AcquireJoins ==
    ASSUME TypeOK, LockInv, NEW f \in Fetch, AcquireInflightLock(f)
    PROVE  \E m \in LockId : Joins(f, m)
<1>1. key[f] \in Key
  BY DEF AcquireInflightLock, TypeOK, LockInv, KeyKnown, KeyedSteps
<1>2. CASE ReuseLock(f)
  <2>1. inflightLocks[key[f]] \in LockId
    BY <1>1, <1>2 DEF ReuseLock, TypeOK
  <2>2. Joins(f, inflightLocks[key[f]])
    BY <1>1, <1>2, <2>1, FetchAssumption
    DEF AcquireInflightLock, ReuseLock, Goto, TypeOK, OthersAlone, LockInv,
        LocksDistinct, Joins
  <2> QED
    BY <2>1, <2>2
<1>3. ASSUME NEW l \in LockId, NewLock(f, l)
      PROVE  Joins(f, l)
  <2>1. Participants(l) = {}
    BY <1>3 DEF NewLock, Unallocated, Participants
  <2> QED
    BY <1>1, <1>3, <2>1, FetchAssumption
    DEF AcquireInflightLock, NewLock, Unallocated, Goto, TypeOK, OthersAlone,
        Joins
<1> QED
  BY <1>2, <1>3 DEF AcquireInflightLock

(* Joining the canonical lock of a key keeps the table exact.              *)
LEMMA JoinsLockInv ==
    ASSUME TypeOK, LockInv, NEW f \in Fetch, NEW m \in LockId, Joins(f, m)
    PROVE  LockInv'
<1>1. f \notin Participants(m) /\ Participants(m)' = Participants(m) \cup {f}
  BY DEF Joins, OthersAlone, Participants, Referring
<1>2. \A l \in LockId : l # m => Participants(l)' = Participants(l)
  BY DEF Joins, OthersAlone, Participants, Referring
<1>3. Cardinality(Participants(m)') = Cardinality(Participants(m)) + 1
  BY <1>1, ParticipantsFinite, FS_AddElement
<1>4. refCount'[m] = Cardinality(Participants(m)') /\ Participants(m)' # {}
  <2>1. CASE inflightLocks[key[f]] = NoLock
    <3>1. Cardinality(Participants(m)) = 0
      BY <2>1, ParticipantsFinite, FS_EmptySet DEF Joins
    <3> QED
      BY <1>1, <1>3, <2>1, <3>1 DEF Joins
  <2>2. CASE inflightLocks[key[f]] = m
    BY <1>1, <1>3, <2>2, FetchAssumption DEF Joins, LockInv, LockTableExact
  <2> QED
    BY <2>1, <2>2 DEF Joins
<1>5. KeyKnown' /\ LockNeedsKey' /\ LocksDistinct'
  BY FetchAssumption DEF Joins, OthersAlone, LockInv, KeyKnown, LockNeedsKey,
     LocksDistinct, KeyedSteps
<1>6. \A g \in Fetch :
        pc'[g] \in Referring /\ key'[g] # NoKey
        => lock'[g] # NoLock /\ inflightLocks'[key'[g]] = lock'[g]
  BY FetchAssumption DEF Joins, OthersAlone, LockInv, LockTableExact, TypeOK
<1>7. ASSUME NEW k \in Key, inflightLocks'[k] # NoLock, NEW l,
             l = inflightLocks'[k]
      PROVE  refCount'[l] = Cardinality(Participants(l)')
             /\ Participants(l)' # {}
  <2>1. CASE k = key[f]
    BY <1>4, <1>7, <2>1 DEF Joins
  <2>2. CASE k # key[f]
    <3>1. l = inflightLocks[k] /\ l \in LockId /\ l # m
      BY <1>7, <2>2 DEF Joins, TypeOK
    <3> QED
      BY <1>2, <1>7, <3>1 DEF Joins, LockInv, LockTableExact
  <2> QED
    BY <2>1, <2>2
<1>8. LockTableExact'
  BY <1>6, <1>7 DEF LockTableExact, Participants
<1> QED
  BY <1>5, <1>8 DEF LockInv

(* releaseInflightLock: f leaves the participants of its lock object, and  *)
(* the last one prunes the table entry.                                    *)
LEMMA ReleaseLockInv ==
    ASSUME TypeOK, LockInv, NEW f \in Fetch, ReleaseInflightLock(f)
    PROVE  LockInv'
<1>1. PICK m \in LockId :
      /\ m = lock[f]
      /\ key[f] \in Key /\ inflightLocks[key[f]] = m
      /\ f \in Participants(m)
      /\ refCount[m] = Cardinality(Participants(m)) /\ refCount[m] > 0
  BY ParticipantCounted
  DEF ReleaseInflightLock, LockInv, KeyKnown, KeyedSteps, Referring
<1>2. /\ pc'[f] = "unsem" /\ key' = key /\ lock' = lock /\ OthersAlone(f)
      /\ refCount'[m] = refCount[m] - 1
      /\ \A l \in LockId : l # m => refCount'[l] = refCount[l]
      /\ \A j \in Key : j # key[f] => inflightLocks'[j] = inflightLocks[j]
      /\ refCount[m] = 1 => inflightLocks'[key[f]] = NoLock
      /\ refCount[m] # 1 => inflightLocks'[key[f]] = m
  BY <1>1 DEF ReleaseInflightLock, Goto, TypeOK, OthersAlone
<1>3. Participants(m)' = Participants(m) \ {f}
  BY <1>1, <1>2 DEF OthersAlone, Participants, Referring
<1>4. \A l \in LockId : l # m => Participants(l)' = Participants(l)
  BY <1>1, <1>2 DEF OthersAlone, Participants, Referring
<1>5. IsFiniteSet(Participants(m)')
      /\ Cardinality(Participants(m)') = Cardinality(Participants(m)) - 1
  BY <1>1, <1>3, ParticipantsFinite, FS_RemoveElement
<1>6. refCount[m] # 1 => refCount'[m] = Cardinality(Participants(m)')
                         /\ Participants(m)' # {}
  <2>1. refCount[m] # 1 => Cardinality(Participants(m)') # 0
    BY <1>1, <1>5, ParticipantsFinite
  <2> QED
    BY <1>1, <1>2, <1>5, <2>1, FS_EmptySet
<1>7. refCount[m] = 1 => Participants(m)' = {}
  <2>1. refCount[m] = 1 => Cardinality(Participants(m)') = 0
    BY <1>1, <1>5
  <2> QED
    BY <1>5, <2>1, FS_EmptySet
<1>8. KeyKnown' /\ LockNeedsKey' /\ LocksDistinct'
  <2>1. KeyKnown' /\ LockNeedsKey'
    BY <1>2 DEF OthersAlone, LockInv, KeyKnown, LockNeedsKey, KeyedSteps
  <2>2. \A j \in Key : inflightLocks'[j] \in {inflightLocks[j], NoLock}
    BY <1>1, <1>2
  <2> QED
    BY <2>1, <2>2 DEF LockInv, LocksDistinct
<1>9. ASSUME NEW g \in Fetch, pc'[g] \in Referring, key'[g] # NoKey
      PROVE  lock'[g] # NoLock /\ inflightLocks'[key'[g]] = lock'[g]
  <2>1. g # f /\ pc[g] \in Referring /\ key'[g] = key[g] /\ lock'[g] = lock[g]
    BY <1>2, <1>9 DEF OthersAlone, Referring
  <2>2. key[g] \in Key /\ lock[g] # NoLock /\ inflightLocks[key[g]] = lock[g]
    BY <1>9, <2>1 DEF TypeOK, LockInv, LockTableExact
  <2>3. CASE key[g] = key[f]
    <3>1. g \in Participants(m)'
      BY <1>1, <1>9, <2>1, <2>2, <2>3 DEF Participants
    <3> QED
      BY <1>1, <1>2, <1>7, <2>1, <2>2, <2>3, <3>1
  <2>4. CASE key[g] # key[f]
    BY <1>2, <2>1, <2>2, <2>4
  <2> QED
    BY <2>3, <2>4
<1>10. ASSUME NEW k \in Key, inflightLocks'[k] # NoLock, NEW l,
              l = inflightLocks'[k]
       PROVE  refCount'[l] = Cardinality(Participants(l)')
              /\ Participants(l)' # {}
  <2>1. CASE k = key[f]
    BY <1>2, <1>6, <1>10, <2>1
  <2>2. CASE k # key[f]
    <3>1. l = inflightLocks[k] /\ l \in LockId /\ l # m
      BY <1>1, <1>2, <1>10, <2>2 DEF TypeOK, LockInv, LocksDistinct
    <3> QED
      BY <1>2, <1>4, <1>10, <3>1 DEF LockInv, LockTableExact
  <2> QED
    BY <2>1, <2>2
<1>11. LockTableExact'
  BY <1>9, <1>10 DEF LockTableExact, Participants
<1> QED
  BY <1>8, <1>11 DEF LockInv

----------------------------------------------------------------------------
(* What a step of f looks like to the slots when it neither takes nor      *)
(* gives back one.                                                         *)
SlotsKept(f) ==
    /\ UNCHANGED ch
    /\ (pc'[f] \in Owning /\ key'[f] # NoKey)
        <=> (pc[f] \in Owning /\ key[f] # NoKey)

(* The steps of Elsewhere but TakeSlot and GiveSlot.                       *)
LEMMA ElsewhereKeepsSlots ==
    ASSUME TypeOK, LockInv, NEW f \in Fetch, Elsewhere(f),
           ~TakeSlot(f), ~GiveSlot(f)
    PROVE  SlotsKept(f)
<1> USE FetchAssumption
    DEF TypeOK, Goto, ForgetLocals, Owning, KeyedSteps, LockInv, KeyKnown,
        Steps, SlotsKept
<1>1. CASE Admit(f)
  BY <1>1 DEF Admit
<1>2. CASE AdmitTimeout(f) \/ Leave(f)
  BY <1>2 DEF AdmitTimeout, Leave
<1>3. CASE Validate(f)
  BY <1>3 DEF Validate
<1>4. CASE CacheHit(f) \/ CacheMiss(f) \/ CacheGetError(f)
  BY <1>4 DEF CacheHit, CacheMiss, CacheGetError
<1>5. CASE WaitTimeout(f)
  BY <1>5 DEF WaitTimeout
<1>6. CASE CheckDeadline(f)
  BY <1>6 DEF CheckDeadline
<1>7. CASE RecheckHit(f) \/ RecheckMiss(f) \/ RecheckError(f)
  BY <1>7 DEF RecheckHit, RecheckMiss, RecheckError
<1>8. CASE Dial(f) \/ UpstreamError(f)
  BY <1>8 DEF Dial, UpstreamError, FirstDefer
<1>9. ASSUME NEW b \in Body, UpstreamBody(f, b)
      PROVE  SlotsKept(f)
  BY <1>9 DEF UpstreamBody
<1>10. CASE CacheSet(f)
  BY <1>10 DEF CacheSet
<1> QED
  BY <1>1, <1>2, <1>3, <1>4, <1>5, <1>6, <1>7, <1>8, <1>9, <1>10 DEF Elsewhere

(* A step that changes no channel, no reference and no owner keeps the     *)
(* slot invariant.                                                         *)
LEMMA SlotsKeptSlotInv ==
    ASSUME TypeOK, LockInv, SlotInv, NEW f \in Fetch, ReferencesKept(f),
           SlotsKept(f)
    PROVE  SlotInv'
<1>1. \A g \in Fetch : pc'[g] \in Owning /\ key'[g] # NoKey
        <=> pc[g] \in Owning /\ key[g] # NoKey
  BY DEF ReferencesKept, OthersAlone, SlotsKept
<1>2. \A g \in Fetch : pc'[g] \in Owning =>
        key'[g] = key[g] /\ lock'[g] = lock[g]
  BY DEF ReferencesKept, OthersAlone, Owning, Referring
<1>3. OneOwner'
  BY <1>1, <1>2 DEF SlotInv, OneOwner
<1>4. SlotNeverLost'
  BY <1>1, <1>2 DEF SlotInv, SlotNeverLost, ReferencesKept, SlotsKept
<1> QED
  BY <1>3, <1>4 DEF SlotInv

(* The owner of a key holds the token of the key's canonical lock.         *)
LEMMA OwnerHoldsToken ==
    ASSUME TypeOK, LockInv, SlotInv, NEW f \in Fetch,
           pc[f] \in Owning, key[f] # NoKey
    PROVE  ch[lock[f]] = 1
<1>1. pc[f] \in Referring
  BY DEF Owning, Referring
<1>2. key[f] \in Key /\ lock[f] \in LockId /\ inflightLocks[key[f]] = lock[f]
  BY <1>1, ParticipantCounted
<1> QED
  BY <1>2 DEF SlotInv, SlotNeverLost

(* The send on lock.ch succeeds only when nobody owns the key, and makes   *)
(* the sender its owner.                                                   *)
LEMMA TakeSlotSlotInv ==
    ASSUME TypeOK, LockInv, SlotInv, NEW f \in Fetch, TakeSlot(f)
    PROVE  SlotInv'
<1>1. /\ pc[f] = "wait" /\ pc'[f] = "held" /\ OthersAlone(f)
      /\ key' = key /\ lock' = lock /\ inflightLocks' = inflightLocks
      /\ ch[lock[f]] = 0
      /\ ch' = [ch EXCEPT ![lock[f]] = 1]
  BY DEF TakeSlot, Goto, TypeOK, OthersAlone
<1>2. key[f] \in Key /\ lock[f] \in LockId /\ inflightLocks[key[f]] = lock[f]
  BY <1>1, ParticipantCounted DEF Referring, LockInv, KeyKnown, KeyedSteps
<1>3. \A g \in Fetch : pc[g] \in Owning /\ key[g] # NoKey
        => lock[g] # lock[f] /\ key[g] # key[f]
  <2>1. SUFFICES ASSUME NEW g \in Fetch, pc[g] \in Owning, key[g] # NoKey
                 PROVE  lock[g] # lock[f] /\ key[g] # key[f]
    OBVIOUS
  <2>2. ch[lock[g]] = 1
    BY <2>1, OwnerHoldsToken
  <2>3. inflightLocks[key[g]] = lock[g]
    BY <2>1, ParticipantCounted DEF Owning, Referring
  <2> QED
    BY <1>1, <1>2, <2>2, <2>3
<1>4. OneOwner'
  BY <1>1, <1>3 DEF OthersAlone, SlotInv, OneOwner
<1>5. ASSUME NEW l \in LockId, \E k \in Key : inflightLocks'[k] = l
      PROVE  ch'[l] = 1 <=> \E g \in Fetch : lock'[g] = l /\ key'[g] # NoKey
                                             /\ pc'[g] \in Owning
  <2>1. CASE l = lock[f]
    BY <1>1, <1>2, <2>1, FetchAssumption DEF TypeOK, Owning
  <2>2. CASE l # lock[f]
    <3>1. ch'[l] = ch[l]
      BY <1>1, <2>2 DEF TypeOK
    <3>2. \A g \in Fetch : lock'[g] = l => pc'[g] = pc[g]
      BY <1>1, <2>2 DEF OthersAlone
    <3>3. \A g \in Fetch : lock[g] = l => pc'[g] = pc[g]
      BY <1>1, <2>2 DEF OthersAlone
    <3> QED
      BY <1>1, <1>5, <3>1, <3>2, <3>3 DEF SlotInv, SlotNeverLost
  <2> QED
    BY <2>1, <2>2
<1> QED
  BY <1>4, <1>5 DEF SlotInv, SlotNeverLost

(* The receive from lock.ch is done by the owner of the key and leaves the *)
(* key without an owner.                                                   *)
LEMMA GiveSlotSlotInv ==
    ASSUME TypeOK, LockInv, SlotInv, NEW f \in Fetch, GiveSlot(f)
    PROVE  SlotInv'
<1>1. /\ pc[f] = "unslot" /\ pc'[f] = "unref" /\ OthersAlone(f)
      /\ key' = key /\ lock' = lock /\ inflightLocks' = inflightLocks
      /\ ch' = [ch EXCEPT ![lock[f]] = 0]
  BY DEF GiveSlot, Goto, TypeOK, OthersAlone
<1>2. key[f] \in Key /\ lock[f] \in LockId /\ inflightLocks[key[f]] = lock[f]
  BY <1>1, ParticipantCounted DEF Referring, LockInv, KeyKnown, KeyedSteps
<1>3. \A g \in Fetch : pc[g] \in Owning /\ key[g] # NoKey /\ lock[g] = lock[f]
        => g = f
  <2>1. SUFFICES ASSUME NEW g \in Fetch, pc[g] \in Owning, key[g] # NoKey,
                        lock[g] = lock[f]
                 PROVE  g = f
    OBVIOUS
  <2>2. key[g] \in Key /\ inflightLocks[key[g]] = lock[g]
    BY <2>1, ParticipantCounted DEF Owning, Referring
  <2>3. key[g] = key[f]
    BY <1>2, <2>1, <2>2, FetchAssumption DEF LockInv, LocksDistinct
  <2> QED
    BY <1>1, <2>1, <2>3 DEF SlotInv, OneOwner, Owning
<1>4. OneOwner'
  BY <1>1 DEF OthersAlone, SlotInv, OneOwner, Owning
<1>5. ASSUME NEW l \in LockId, \E k \in Key : inflightLocks'[k] = l
      PROVE  ch'[l] = 1 <=> \E g \in Fetch : lock'[g] = l /\ key'[g] # NoKey
                                             /\ pc'[g] \in Owning
  <2>1. CASE l = lock[f]
    <3>1. ch'[l] = 0
      BY <1>1, <1>2, <2>1 DEF TypeOK
    <3>2. \A g \in Fetch : lock'[g] = l /\ key'[g] # NoKey => pc'[g] \notin Owning
      BY <1>1, <1>3, <2>1 DEF OthersAlone, Owning
    <3> QED
      BY <3>1, <3>2
  <2>2. CASE l # lock[f]
    <3>1. ch'[l] = ch[l]
      BY <1>1, <2>2 DEF TypeOK
    <3>2. \A g \in Fetch : lock[g] = l => pc'[g] = pc[g]
      BY <1>1, <2>2 DEF OthersAlone
    <3> QED
      BY <1>1, <1>5, <3>1, <3>2 DEF SlotInv, SlotNeverLost
  <2> QED
    BY <2>1, <2>2
<1> QED
  BY <1>4, <1>5 DEF SlotInv, SlotNeverLost

(* Taking or dropping a reference happens outside the slot; a new lock     *)
(* object starts with an empty channel and nobody owns it.                 *)
LEMMA AcquireSlotInv ==
    ASSUME TypeOK, LockInv, SlotInv, NEW f \in Fetch, AcquireInflightLock(f)
    PROVE  SlotInv'
<1>1. key[f] \in Key
  BY DEF AcquireInflightLock, TypeOK, LockInv, KeyKnown, KeyedSteps
<1>2. pc[f] = "ref" /\ pc'[f] = "wait" /\ key' = key /\ OthersAlone(f)
  BY DEF AcquireInflightLock, ReuseLock, NewLock, Goto, TypeOK, OthersAlone
<1>3. OneOwner'
  BY <1>2 DEF OthersAlone, SlotInv, OneOwner, Owning
<1>4. \A g \in Fetch : pc'[g] \in Owning <=> pc[g] \in Owning
  BY <1>2 DEF OthersAlone, Owning
<1>5. \A g \in Fetch : pc'[g] \in Owning => lock'[g] = lock[g]
  BY <1>2 DEF OthersAlone, Owning
<1>6. CASE ReuseLock(f)
  BY <1>2, <1>3, <1>4, <1>5, <1>6 DEF ReuseLock, SlotInv, SlotNeverLost
<1>7. ASSUME NEW m \in LockId, NewLock(f, m)
      PROVE  SlotInv'
  <2>1. \A g \in Fetch : pc'[g] \in Owning => lock'[g] # m
    BY <1>4, <1>5, <1>7 DEF NewLock, Unallocated, Owning, Referring
  <2>2. ch'[m] = 0 /\ \A l \in LockId : l # m => ch'[l] = ch[l]
    BY <1>7 DEF NewLock, TypeOK
  <2>3. \A l \in LockId : l # m /\ (\E k \in Key : inflightLocks'[k] = l)
          => \E k \in Key : inflightLocks[k] = l
    BY <1>1, <1>7 DEF NewLock, TypeOK
  <2>4. ASSUME NEW l \in LockId, \E k \in Key : inflightLocks'[k] = l
        PROVE  ch'[l] = 1 <=> \E g \in Fetch : lock'[g] = l /\ key'[g] # NoKey
                                               /\ pc'[g] \in Owning
    <3>1. CASE l = m
      BY <2>1, <2>2, <3>1
    <3>2. CASE l # m
      <4>1. \E k \in Key : inflightLocks[k] = l
        BY <2>3, <2>4, <3>2
      <4>2. ch[l] = 1 <=> \E g \in Fetch : lock[g] = l /\ key[g] # NoKey
                                           /\ pc[g] \in Owning
        BY <4>1 DEF SlotInv, SlotNeverLost
      <4> QED
        BY <1>2, <1>4, <1>5, <2>2, <3>2, <4>2
    <3> QED
      BY <3>1, <3>2
  <2> QED
    BY <1>3, <2>4 DEF SlotInv, SlotNeverLost
<1> QED
  BY <1>6, <1>7 DEF AcquireInflightLock

(* Dropping a reference takes no slot along: the caller does not own the   *)
(* key any more.                                                           *)
LEMMA ReleaseSlotInv ==
    ASSUME TypeOK, LockInv, SlotInv, NEW f \in Fetch, ReleaseInflightLock(f)
    PROVE  SlotInv'
<1>1. /\ pc[f] = "unref" /\ pc'[f] = "unsem" /\ key' = key /\ lock' = lock
      /\ ch' = ch /\ OthersAlone(f)
  BY DEF ReleaseInflightLock, Goto, TypeOK, OthersAlone
<1>2. \A g \in Fetch : pc'[g] \in Owning <=> pc[g] \in Owning
  BY <1>1 DEF OthersAlone, Owning
<1>3. \A l \in LockId : (\E k \in Key : inflightLocks'[k] = l)
        => \E k \in Key : inflightLocks[k] = l
  BY FetchAssumption DEF ReleaseInflightLock, TypeOK
<1> QED
  BY <1>1, <1>2, <1>3 DEF SlotInv, OneOwner, SlotNeverLost

----------------------------------------------------------------------------
(* A fetch leaves the double check only if it saw no entry or could not    *)
(* look, and no other fetch can fill the entry while it owns the slot.     *)
LEMMA AdvanceNoRedundantTrip ==
    ASSUME TypeOK, LockInv, SlotInv, NoRedundantTrip, NEW f \in Fetch, Advance(f)
    PROVE  NoRedundantTrip'
<1> DEFINE Away == {"dial", "fetch", "set"}
<1>1. \A g \in Fetch : g # f => pc'[g] = pc[g] /\ key'[g] = key[g]
                               /\ blind'[g] = blind[g]
  BY DEF Advance, Admit, AdmitTimeout, Validate, CacheHit, CacheMiss,
     CacheGetError, AcquireInflightLock, ReuseLock, NewLock, TakeSlot,
     WaitTimeout, CheckDeadline, RecheckHit, RecheckMiss, RecheckError, Dial,
     UpstreamError, UpstreamBody, CacheSet, GiveSlot, ReleaseInflightLock,
     Leave, Goto, ForgetLocals, TypeOK
<1>2. CASE CacheSet(f)
  <2>1. /\ pc[f] = "set" /\ pc'[f] = "unslot" /\ key[f] # NoKey /\ key' = key
        /\ \A k \in Key : k # key[f] => cache'[k] = cache[k]
    BY <1>2 DEF CacheSet, Goto, TypeOK, LockInv, KeyKnown, KeyedSteps
  <2>2. \A g \in Fetch : g # f /\ pc'[g] \in Away => key[g] # key[f]
    BY <1>1, <2>1 DEF SlotInv, OneOwner, Owning
  <2> QED
    BY <1>1, <2>1, <2>2 DEF NoRedundantTrip, TypeOK
<1>3. ASSUME ~CacheSet(f)
      PROVE  /\ cache' = cache
             /\ pc'[f] \in Away /\ key'[f] # NoKey /\ ~blind'[f]
                => \/ cache[key'[f]] = NoBody
                   \/ pc[f] \in Away /\ key'[f] = key[f] /\ ~blind[f]
  <2> USE <1>3 DEF TypeOK, Goto, Steps
  <2>1. CASE Admit(f) \/ AdmitTimeout(f) \/ Leave(f)
    BY <2>1 DEF Admit, AdmitTimeout, Leave, ForgetLocals
  <2>2. CASE Validate(f)
    BY <2>2 DEF Validate
  <2>3. CASE CacheHit(f) \/ CacheMiss(f) \/ CacheGetError(f)
    BY <2>3 DEF CacheHit, CacheMiss, CacheGetError
  <2>4. CASE AcquireInflightLock(f)
    BY <2>4 DEF AcquireInflightLock
  <2>5. CASE TakeSlot(f) \/ WaitTimeout(f) \/ GiveSlot(f) \/ ReleaseInflightLock(f)
    BY <2>5 DEF TakeSlot, WaitTimeout, GiveSlot, ReleaseInflightLock
  <2>6. CASE CheckDeadline(f)
    BY <2>6 DEF CheckDeadline
  <2>7. CASE RecheckHit(f) \/ RecheckMiss(f) \/ RecheckError(f)
    BY <2>7 DEF RecheckHit, RecheckMiss, RecheckError
  <2>8. CASE Dial(f) \/ UpstreamError(f)
    BY <2>8 DEF Dial, UpstreamError, FirstDefer
  <2>9. CASE \E b \in Body : UpstreamBody(f, b)
    BY <2>9 DEF UpstreamBody
  <2> QED
    BY <2>1, <2>2, <2>3, <2>4, <2>5, <2>6, <2>7, <2>8, <2>9 DEF Advance
<1>4. CASE ~CacheSet(f)
  BY <1>1, <1>3, <1>4 DEF NoRedundantTrip
<1> QED
  BY <1>2, <1>4

----------------------------------------------------------------------------
(* The fetches admitted for a parse are finitely many, so they can be      *)
(* counted.                                                                *)
LEMMA AdmissionsFinite ==
    ASSUME NEW p
    PROVE  IsFiniteSet(Admissions(p)) /\ Cardinality(Admissions(p)) \in Nat
<1>1. Admissions(p) \subseteq Fetch
  BY DEF Admissions
<1> QED
  BY <1>1, FetchAssumption, FS_Subset, FS_CardinalityType

(* A step inside the admitted part, or outside it, moves no token.         *)
LEMMA AdmissionsKept ==
    ASSUME TypeOK, AdmissionBound, NEW f \in Fetch, sem' = sem,
           \A g \in Fetch : g # f => pc'[g] = pc[g],
           pc'[f] \in Admitted <=> pc[f] \in Admitted
    PROVE  AdmissionBound'
<1>1. \A p \in Parse : Admissions(p)' = Admissions(p)
  BY DEF Admissions
<1> QED
  BY <1>1 DEF AdmissionBound

(* Admission adds one fetch and one token, below the capacity.             *)
LEMMA AdmitAdmissionBound ==
    ASSUME TypeOK, AdmissionBound, NEW f \in Fetch, Admit(f)
    PROVE  AdmissionBound'
<1> SUFFICES ASSUME MaxConcurrentRequests > 0, NEW p \in Parse
             PROVE  /\ Cardinality(Admissions(p)') <= MaxConcurrentRequests
                    /\ sem'[p] = Cardinality(Admissions(p)')
  BY DEF AdmissionBound
<1>1. /\ pc[f] = "admit" /\ pc'[f] = "validate"
      /\ \A g \in Fetch : g # f => pc'[g] = pc[g]
      /\ sem[ParseOf[f]] < MaxConcurrentRequests
      /\ sem' = [sem EXCEPT ![ParseOf[f]] = @ + 1]
  BY FetchAssumption DEF Admit, Goto, TypeOK
<1>2. sem[p] = Cardinality(Admissions(p)) /\ sem[p] <= MaxConcurrentRequests
  BY DEF AdmissionBound
<1>3. CASE p = ParseOf[f]
  <2>1. f \notin Admissions(p) /\ Admissions(p)' = Admissions(p) \cup {f}
    BY <1>1, <1>3 DEF Admissions, Admitted, Steps
  <2>2. Cardinality(Admissions(p)') = Cardinality(Admissions(p)) + 1
    BY <2>1, AdmissionsFinite, FS_AddElement
  <2> QED
    BY <1>1, <1>2, <1>3, <2>2, FetchAssumption DEF TypeOK
<1>4. CASE p # ParseOf[f]
  <2>1. Admissions(p)' = Admissions(p)
    BY <1>1, <1>4 DEF Admissions
  <2> QED
    BY <1>1, <1>2, <1>4, <2>1 DEF TypeOK
<1> QED
  BY <1>3, <1>4

(* The deferred receive from the semaphore removes one fetch and one       *)
(* token.                                                                  *)
LEMMA LeaveAdmissionBound ==
    ASSUME TypeOK, AdmissionBound, NEW f \in Fetch, Leave(f)
    PROVE  AdmissionBound'
<1> SUFFICES ASSUME MaxConcurrentRequests > 0, NEW p \in Parse
             PROVE  /\ Cardinality(Admissions(p)') <= MaxConcurrentRequests
                    /\ sem'[p] = Cardinality(Admissions(p)')
  BY DEF AdmissionBound
<1>1. /\ pc[f] = "unsem" /\ pc'[f] = "idle"
      /\ \A g \in Fetch : g # f => pc'[g] = pc[g]
      /\ sem' = [sem EXCEPT ![ParseOf[f]] = @ - 1]
  BY DEF Leave, Goto, TypeOK
<1>2. sem[p] = Cardinality(Admissions(p)) /\ sem[p] <= MaxConcurrentRequests
  BY DEF AdmissionBound
<1>3. CASE p = ParseOf[f]
  <2>1. f \in Admissions(p) /\ Admissions(p)' = Admissions(p) \ {f}
    BY <1>1, <1>3 DEF Admissions, Admitted, Steps
  <2>2. Cardinality(Admissions(p)') = Cardinality(Admissions(p)) - 1
    BY <2>1, AdmissionsFinite, FS_RemoveElement
  <2> QED
    BY <1>1, <1>2, <1>3, <2>2, AdmissionsFinite, FetchAssumption DEF TypeOK
<1>4. CASE p # ParseOf[f]
  <2>1. Admissions(p)' = Admissions(p)
    BY <1>1, <1>4 DEF Admissions
  <2> QED
    BY <1>1, <1>2, <1>4, <2>1 DEF TypeOK
<1> QED
  BY <1>3, <1>4

(* Every step of a fetch keeps tokens and admitted fetches equal in        *)
(* number.                                                                 *)
LEMMA AdvanceAdmissionBound ==
    ASSUME TypeOK, AdmissionBound, NEW f \in Fetch, Advance(f)
    PROVE  AdmissionBound'
<1>1. CASE Admit(f)
  BY <1>1, AdmitAdmissionBound
<1>2. CASE Leave(f)
  BY <1>2, LeaveAdmissionBound
<1>3. ASSUME ~Admit(f), ~Leave(f)
      PROVE  /\ sem' = sem
             /\ \A g \in Fetch : g # f => pc'[g] = pc[g]
             /\ pc'[f] \in Admitted <=> pc[f] \in Admitted
  <2> USE <1>3 DEF TypeOK, Goto, Steps, Admitted
  <2>1. CASE AdmitTimeout(f)
    BY <2>1 DEF AdmitTimeout
  <2>2. CASE Validate(f)
    BY <2>2 DEF Validate
  <2>3. CASE CacheHit(f) \/ CacheMiss(f) \/ CacheGetError(f)
    BY <2>3 DEF CacheHit, CacheMiss, CacheGetError
  <2>4. CASE AcquireInflightLock(f)
    BY <2>4 DEF AcquireInflightLock
  <2>5. CASE TakeSlot(f) \/ WaitTimeout(f) \/ GiveSlot(f) \/ ReleaseInflightLock(f)
    BY <2>5 DEF TakeSlot, WaitTimeout, GiveSlot, ReleaseInflightLock
  <2>6. CASE CheckDeadline(f)
    BY <2>6 DEF CheckDeadline
  <2>7. CASE RecheckHit(f) \/ RecheckMiss(f) \/ RecheckError(f)
    BY <2>7 DEF RecheckHit, RecheckMiss, RecheckError
  <2>8. CASE Dial(f) \/ UpstreamError(f)
    BY <2>8 DEF Dial, UpstreamError, FirstDefer
  <2>9. CASE \E b \in Body : UpstreamBody(f, b)
    BY <2>9 DEF UpstreamBody
  <2>10. CASE CacheSet(f)
    BY <2>10 DEF CacheSet
  <2> QED
    BY <2>1, <2>2, <2>3, <2>4, <2>5, <2>6, <2>7, <2>8, <2>9, <2>10 DEF Advance
<1>4. CASE ~Admit(f) /\ ~Leave(f)
  BY <1>3, <1>4, AdmissionsKept
<1> QED
  BY <1>1, <1>2, <1>4

(* A fetch fills the cache with a body it has read.                        *)
LEMMA AdvanceBodyRead ==
    ASSUME TypeOK, BodyRead, NEW f \in Fetch, Advance(f)
    PROVE  BodyRead'
<1> USE FetchAssumption DEF TypeOK, Goto, BodyRead
<1>1. CASE \E b \in Body : UpstreamBody(f, b)
  BY <1>1 DEF UpstreamBody
<1>2. CASE Admit(f) \/ AdmitTimeout(f) \/ Leave(f)
  BY <1>2 DEF Admit, AdmitTimeout, Leave
<1>3. CASE Validate(f) \/ CheckDeadline(f) \/ Dial(f) \/ UpstreamError(f)
  BY <1>3 DEF Validate, CheckDeadline, Dial, UpstreamError, FirstDefer
<1>4. CASE CacheHit(f) \/ CacheMiss(f) \/ CacheGetError(f)
  BY <1>4 DEF CacheHit, CacheMiss, CacheGetError
<1>5. CASE RecheckHit(f) \/ RecheckMiss(f) \/ RecheckError(f)
  BY <1>5 DEF RecheckHit, RecheckMiss, RecheckError
<1>6. CASE AcquireInflightLock(f) \/ ReleaseInflightLock(f)
  BY <1>6 DEF AcquireInflightLock, ReleaseInflightLock
<1>7. CASE TakeSlot(f) \/ WaitTimeout(f) \/ GiveSlot(f)
  BY <1>7 DEF TakeSlot, WaitTimeout, GiveSlot
<1>8. CASE CacheSet(f)
  BY <1>8 DEF CacheSet
<1> QED
  BY <1>1, <1>2, <1>3, <1>4, <1>5, <1>6, <1>7, <1>8 DEF Advance

----------------------------------------------------------------------------
(* The inductive invariant holds before the first fetch.                   *)
LEMMA InitIInv == Init => IInv
<1> SUFFICES ASSUME Init PROVE IInv
  OBVIOUS
<1>1. TypeOK
  BY FetchAssumption DEF Init, TypeOK, Steps
<1>2. LockInv
  BY DEF Init, LockInv, KeyKnown, KeyedSteps, LockNeedsKey, LocksDistinct,
     LockTableExact, Referring
<1>3. SlotInv
  BY FetchAssumption DEF Init, SlotInv, OneOwner, SlotNeverLost, Owning
<1>4. AdmissionBound
  <2>1. \A p \in Parse : Admissions(p) = {}
    BY DEF Init, Admissions, Admitted
  <2>2. \A p \in Parse : Cardinality(Admissions(p)) = 0
    BY <2>1, FS_EmptySet
  <2> QED
    BY <2>2, FetchAssumption DEF Init, AdmissionBound
<1>5. NoRedundantTrip /\ BodyRead
  BY DEF Init, NoRedundantTrip, BodyRead
<1> QED
  BY <1>1, <1>2, <1>3, <1>4, <1>5 DEF IInv

(* Every step of a fetch keeps the inductive invariant.                    *)
LEMMA AdvanceIInv ==
    ASSUME IInv, NEW f \in Fetch, Advance(f)
    PROVE  IInv'
<1> USE DEF IInv
<1>1. TypeOK'
  BY AdvanceTypeOK
<1>2. CASE Elsewhere(f)
  <2>1. ReferencesKept(f)
    BY <1>2, ElsewhereKeepsReferences
  <2>2. LockInv'
    BY <1>1, <2>1, ReferencesKeptLockInv
  <2>3. SlotInv'
    BY <1>2, <2>1, ElsewhereKeepsSlots, SlotsKeptSlotInv, TakeSlotSlotInv,
       GiveSlotSlotInv
  <2> QED
    BY <1>1, <2>2, <2>3, AdvanceNoRedundantTrip, AdvanceAdmissionBound,
       AdvanceBodyRead
<1>3. CASE AcquireInflightLock(f)
  BY <1>1, <1>3, AcquireJoins, JoinsLockInv, AcquireSlotInv,
     AdvanceNoRedundantTrip, AdvanceAdmissionBound, AdvanceBodyRead
<1>4. CASE ReleaseInflightLock(f)
  BY <1>1, <1>4, ReleaseLockInv, ReleaseSlotInv, AdvanceNoRedundantTrip,
     AdvanceAdmissionBound, AdvanceBodyRead
<1> QED
  BY <1>2, <1>3, <1>4 DEF Advance, Elsewhere

(* A call, a refused call, an expiring deadline and a dropped cache entry  *)
(* leave every lock, slot and token where it is.                           *)
LEMMA EnvironmentIInv ==
    ASSUME IInv, NEW f \in Fetch,
           \/ Refuse(f)
           \/ \E k \in Key \cup {NoKey} : Start(f, k)
           \/ Expire(f)
    PROVE  IInv'
<1> USE DEF IInv
<1>1. TypeOK'
  <2>1. CASE Refuse(f)
    BY <2>1 DEF Refuse, TypeOK
  <2>2. CASE Expire(f)
    BY <2>2 DEF Expire, TypeOK
  <2>3. CASE \E k \in Key \cup {NoKey} : Start(f, k)
    BY <2>3 DEF Start, Goto, TypeOK, Steps
  <2> QED
    BY <2>1, <2>2, <2>3
<1>2. ReferencesKept(f)
  <2>1. CASE Refuse(f) \/ Expire(f)
    BY <2>1 DEF Refuse, Expire, ReferencesKept, OthersAlone, LockInv, KeyKnown,
       LockNeedsKey
  <2>2. CASE \E k \in Key \cup {NoKey} : Start(f, k)
    <3>1. pc[f] = "idle" /\ lock[f] = NoLock
      BY <2>2 DEF Start, LockInv, LockNeedsKey
    <3> QED
      BY <2>2, <3>1 DEF Start, Goto, TypeOK, ReferencesKept, OthersAlone,
         LockInv, KeyKnown, LockNeedsKey, Referring, KeyedSteps
  <2> QED
    BY <2>1, <2>2
<1>3. SlotsKept(f)
  BY DEF Refuse, Start, Expire, Goto, TypeOK, SlotsKept, Owning
<1>4. LockInv' /\ SlotInv'
  BY <1>1, <1>2, <1>3, ReferencesKeptLockInv, SlotsKeptSlotInv
<1>5. AdmissionBound'
  BY AdmissionsKept DEF Refuse, Start, Expire, Goto, TypeOK, Admitted, Steps
<1>6. NoRedundantTrip' /\ BodyRead'
  BY DEF Refuse, Start, Expire, Goto, TypeOK, NoRedundantTrip, BodyRead
<1> QED
  BY <1>1, <1>4, <1>5, <1>6

(* An entry that disappears from the cache disturbs nothing.               *)
LEMMA DropIInv ==
    ASSUME IInv, NEW k \in Key, Drop(k)
    PROVE  IInv'
<1> USE DEF IInv
<1>1. /\ pc' = pc /\ key' = key /\ lock' = lock /\ expired' = expired
      /\ got' = got /\ blind' = blind /\ sem' = sem /\ ch' = ch
      /\ inflightLocks' = inflightLocks /\ refCount' = refCount
      /\ cache' = [cache EXCEPT ![k] = NoBody]
  BY DEF Drop
<1>2. TypeOK'
  BY <1>1 DEF TypeOK
<1>3. LockInv'
  BY <1>1 DEF LockInv, KeyKnown, LockNeedsKey, LocksDistinct, LockTableExact,
     Participants
<1>4. SlotInv' /\ AdmissionBound'
  BY <1>1 DEF SlotInv, OneOwner, SlotNeverLost, AdmissionBound, Admissions
<1>5. NoRedundantTrip' /\ BodyRead'
  BY <1>1 DEF NoRedundantTrip, BodyRead, TypeOK
<1> QED
  BY <1>2, <1>3, <1>4, <1>5

(* Every step of the system keeps the inductive invariant.                 *)
LEMMA NextIInv == IInv /\ [Next]_vars => IInv'
<1> SUFFICES ASSUME IInv, [Next]_vars PROVE IInv'
  OBVIOUS
<1>1. CASE Next
  BY <1>1, AdvanceIInv, EnvironmentIInv, DropIInv DEF Next
<1>2. CASE UNCHANGED vars
  <2>1. TypeOK' /\ NoRedundantTrip' /\ BodyRead'
    BY <1>2 DEF vars, IInv, TypeOK, NoRedundantTrip, BodyRead
  <2>2. LockInv'
    BY <1>2 DEF vars, IInv, LockInv, KeyKnown, LockNeedsKey, LocksDistinct,
       LockTableExact, Participants
  <2>3. SlotInv' /\ AdmissionBound'
    BY <1>2 DEF vars, IInv, SlotInv, OneOwner, SlotNeverLost, AdmissionBound,
       Admissions
  <2> QED
    BY <2>1, <2>2, <2>3 DEF IInv
<1> QED
  BY <1>1, <1>2

(* The strengthened invariant holds in every reachable state.              *)
THEOREM InvariantHolds == Spec => []IInv
  BY InitIInv, NextIInv, PTL DEF Spec

(* Every variable keeps its type; in particular refCount is never          *)
(* decremented below zero and a lock channel never holds two tokens.       *)
THEOREM TypeCorrect == Spec => []TypeOK
<1>1. IInv => TypeOK
  BY DEF IInv
<1> QED
  BY <1>1, InvariantHolds, PTL

(* However many goroutines fetch, whatever fails or times out, one key has *)
(* at most one upstream round trip in flight.                              *)
THEOREM UpstreamIsExclusive == Spec => []UpstreamExclusive
<1>1. IInv => UpstreamExclusive
  BY DEF IInv, SlotInv, OneOwner, UpstreamExclusive, Owning
<1> QED
  BY <1>1, InvariantHolds, PTL

(* The lock table names exactly the locks in use, with exact counts.       *)
THEOREM LockTableIsExact == Spec => []LockTableExact
<1>1. IInv => LockTableExact
  BY DEF IInv, LockInv
<1> QED
  BY <1>1, InvariantHolds, PTL

(* No return path loses a lock slot.                                       *)
THEOREM SlotIsNeverLost == Spec => []SlotNeverLost
<1>1. IInv => SlotNeverLost
  BY DEF IInv, SlotInv
<1> QED
  BY <1>1, InvariantHolds, PTL

(* No return path loses or duplicates a semaphore token.                   *)
THEOREM AdmissionIsBounded == Spec => []AdmissionBound
<1>1. IInv => AdmissionBound
  BY DEF IInv
<1> QED
  BY <1>1, InvariantHolds, PTL

(* The double check under the slot makes a second trip for a cached key    *)
(* impossible.                                                             *)
THEOREM TripsAreNotRedundant == Spec => []NoRedundantTrip
<1>1. IInv => NoRedundantTrip
  BY DEF IInv
<1> QED
  BY <1>1, InvariantHolds, PTL

----------------------------------------------------------------------------
(* Refinement of SingleFlight.                                             *)

(* A step that takes nobody into or out of the owning part, and keeps the  *)
(* keys, leaves the leaders as they are.                                   *)
LEMMA LeadersKept ==
    ASSUME NEW f \in Fetch, OthersAlone(f),
           (pc'[f] \in Owning /\ key'[f] # NoKey)
           <=> (pc[f] \in Owning /\ key[f] # NoKey),
           pc'[f] \in Owning => key'[f] = key[f]
    PROVE  Leaders' = Leaders
<1>1. \A k \in Key, g \in Fetch : (key'[g] = k /\ pc'[g] \in Owning)
                                  <=> (key[g] = k /\ pc[g] \in Owning)
  BY FetchAssumption DEF OthersAlone
<1> QED
  BY <1>1 DEF Leaders

(* Every step of the fetch path is a step of SingleFlight, or leaves       *)
(* leaders and cached bodies as they are.                                  *)
LEMMA StepImplements ==
    ASSUME IInv, [Next]_vars
    PROVE  [Flight!Next]_(Flight!vars)
<1> USE DEF IInv
<1>1. ASSUME NEW f \in Fetch, TakeSlot(f)
      PROVE  Flight!Lead(f, key[f]) /\ key[f] \in Key
  <2>1. /\ pc[f] = "wait" /\ pc'[f] = "held" /\ key' = key /\ cache' = cache
        /\ \A g \in Fetch : g # f => pc'[g] = pc[g]
        /\ key[f] \in Key
    BY <1>1 DEF TakeSlot, Goto, TypeOK, LockInv, KeyKnown, KeyedSteps
  <2>2. lock[f] \in LockId /\ inflightLocks[key[f]] = lock[f] /\ ch[lock[f]] = 0
    BY <1>1, <2>1, ParticipantCounted, FetchAssumption DEF TakeSlot, Referring
  <2>3. \A g \in Fetch : key[g] = key[f] => pc[g] \notin Owning
    <3>1. SUFFICES ASSUME NEW g \in Fetch, key[g] = key[f], pc[g] \in Owning
                   PROVE  FALSE
      OBVIOUS
    <3>2. ch[lock[g]] = 1
      BY <2>1, <3>1, OwnerHoldsToken, FetchAssumption
    <3>3. lock[g] = lock[f]
      BY <2>1, <2>2, <3>1, ParticipantCounted, FetchAssumption
      DEF Owning, Referring
    <3> QED
      BY <2>2, <3>2, <3>3
  <2>4. Leaders[key[f]] = {}
    BY <2>1, <2>3 DEF Leaders
  <2>5. Leaders' = [Leaders EXCEPT ![key[f]] = {f}]
    BY <2>1, <2>3 DEF Leaders, Owning
  <2> QED
    BY <2>1, <2>4, <2>5 DEF Flight!Lead
<1>2. ASSUME NEW f \in Fetch, GiveSlot(f)
      PROVE  Flight!StepDown(f, key[f]) /\ key[f] \in Key
  <2>1. /\ pc[f] = "unslot" /\ pc'[f] = "unref" /\ key' = key /\ cache' = cache
        /\ \A g \in Fetch : g # f => pc'[g] = pc[g]
        /\ key[f] \in Key
    BY <1>2 DEF GiveSlot, Goto, TypeOK, LockInv, KeyKnown, KeyedSteps
  <2>2. \A g \in Fetch : key[g] = key[f] /\ pc[g] \in Owning <=> g = f
    BY <2>1, FetchAssumption DEF SlotInv, OneOwner, Owning
  <2>3. Leaders[key[f]] = {f}
    BY <2>1, <2>2 DEF Leaders
  <2>4. Leaders' = [Leaders EXCEPT ![key[f]] = {}]
    BY <2>1, <2>2 DEF Leaders, Owning
  <2> QED
    BY <2>1, <2>3, <2>4 DEF Flight!StepDown
<1>3. ASSUME NEW f \in Fetch, CacheSet(f)
      PROVE  /\ key[f] \in Key
             /\ got[f] \in Body
             /\ Flight!Publish(f, key[f], got[f]) \/ UNCHANGED Flight!vars
  <2>1. /\ pc[f] = "set" /\ pc'[f] = "unslot" /\ key' = key
        /\ \A g \in Fetch : g # f => pc'[g] = pc[g]
        /\ key[f] \in Key /\ got[f] \in Body
        /\ \/ cache' = [cache EXCEPT ![key[f]] = got[f]]
           \/ cache' = cache
    BY <1>3 DEF CacheSet, Goto, TypeOK, LockInv, KeyKnown, KeyedSteps, BodyRead
  <2>2. Leaders[key[f]] = {f}
    BY <2>1, FetchAssumption DEF Leaders, SlotInv, OneOwner, Owning
  <2>3. Leaders' = Leaders
    BY <2>1 DEF Leaders, Owning
  <2> QED
    BY <2>1, <2>2, <2>3 DEF Flight!Publish, Flight!vars
<1>4. ASSUME NEW f \in Fetch, Advance(f),
             ~TakeSlot(f), ~GiveSlot(f), ~CacheSet(f)
      PROVE  UNCHANGED Flight!vars
  <2>1. cache' = cache
    BY <1>4 DEF Advance, Admit, AdmitTimeout, Validate, CacheHit, CacheMiss,
       CacheGetError, AcquireInflightLock, WaitTimeout, CheckDeadline,
       RecheckHit, RecheckMiss, RecheckError, Dial, UpstreamError,
       UpstreamBody, ReleaseInflightLock, Leave
  <2>2. CASE Elsewhere(f)
    <3>1. ReferencesKept(f) /\ SlotsKept(f)
      BY <1>4, <2>2, ElsewhereKeepsReferences, ElsewhereKeepsSlots
    <3>2. pc'[f] \in Owning => key'[f] = key[f]
      BY <3>1 DEF ReferencesKept, Owning, Referring
    <3>3. Leaders' = Leaders
      BY <3>1, <3>2, LeadersKept DEF ReferencesKept, SlotsKept
    <3> QED
      BY <2>1, <3>3 DEF Flight!vars
  <2>3. CASE AcquireInflightLock(f) \/ ReleaseInflightLock(f)
    <3>1. /\ OthersAlone(f) /\ key' = key
          /\ pc[f] \notin Owning /\ pc'[f] \notin Owning
      BY <2>3 DEF AcquireInflightLock, ReuseLock, NewLock, ReleaseInflightLock,
         Goto, TypeOK, OthersAlone, Owning
    <3>2. Leaders' = Leaders
      BY <3>1, LeadersKept
    <3> QED
      BY <2>1, <3>2 DEF Flight!vars
  <2> QED
    BY <1>4, <2>2, <2>3 DEF Advance, Elsewhere
<1>5. ASSUME NEW f \in Fetch,
             Refuse(f) \/ Expire(f) \/ \E k \in Key \cup {NoKey} : Start(f, k)
      PROVE  UNCHANGED Flight!vars
  <2>1. /\ cache' = cache
        /\ \A g \in Fetch : pc[g] \in Owning \/ pc'[g] \in Owning
                            => pc'[g] = pc[g] /\ key'[g] = key[g]
    BY <1>5 DEF Refuse, Expire, Start, Goto, TypeOK, Owning
  <2>2. Leaders' = Leaders
    BY <2>1 DEF Leaders
  <2> QED
    BY <2>1, <2>2 DEF Flight!vars
<1>6. ASSUME NEW k \in Key, Drop(k)
      PROVE  Flight!Drop(k)
  BY <1>6 DEF Drop, Flight!Drop, Leaders
<1>7. CASE UNCHANGED vars
  BY <1>7 DEF vars, Flight!vars, Leaders
<1>8. CASE Next
  BY <1>1, <1>2, <1>3, <1>4, <1>5, <1>6, <1>8 DEF Next, Flight!Next
<1> QED
  BY <1>7, <1>8

(* The fetch path implements SingleFlight: one leader per key, and only    *)
(* the leader puts a body into the cache.                                  *)
THEOREM FetchImplementsSingleFlight == Spec => ImplementsSingleFlight
<1>1. Init => Flight!Init
  BY DEF Init, Flight!Init, Leaders, Owning
<1>2. IInv /\ [Next]_vars => [Flight!Next]_(Flight!vars)
  BY StepImplements
<1> QED
  BY <1>1, <1>2, InvariantHolds, PTL
  DEF Spec, ImplementsSingleFlight, Flight!Spec

----------------------------------------------------------------------------
(* FetchModes: an include that fails has tried everything it could, and    *)
(* the share of requests that ab sends to src is the configured one.       *)

(* Nothing has been asked for.                                             *)
StartInv ==
    stage = "start" =>
        /\ \A u \in Url : calls[u] = 0
        /\ current = "src"

(* No goroutine but the include's own is needed.                           *)
AloneInv ==
    stage \in {"start", "fetch"} =>
        /\ \A u \in Url : task[u] = "none"
        /\ resultChan = <<>> /\ results = 0 /\ ~ctxClosed /\ ret = "none"

(* One request is under way; if it is for alt in fallback mode, the one    *)
(* for src has failed.                                                     *)
FetchInv ==
    stage = "fetch" =>
        /\ mode = "concurrent" => ~hasAlt
        /\ calls[current] = 1
        /\ current = "src" => calls["alt"] = 0
        /\ current = "alt" =>
             \/ mode = "ab" /\ calls["src"] = 0
             \/ mode = "fallback" /\ outcome["src"] = "error"

(* Both requests are out.  A result in the channel is of a goroutine that  *)
(* has ended, once; the result taken out of it is an error.                *)
RaceInv ==
    stage = "race" =>
        /\ mode = "concurrent" /\ hasAlt /\ ~ctxClosed /\ ret = "none"
        /\ results \in {0, 1}
        /\ \A u \in Url : calls[u] = 1
        /\ \A i \in 1..Len(resultChan) : task[resultChan[i]] = "exited"
        /\ \A i, j \in 1..Len(resultChan) : resultChan[i] = resultChan[j] => i = j
        /\ results = 1 =>
             \E u \in Url : /\ outcome[u] = "error" /\ task[u] = "exited"
                            /\ \A i \in 1..Len(resultChan) : resultChan[i] # u

(* After a failure nothing is left that could still bring content, unless  *)
(* the render was cancelled.                                               *)
FailedInv ==
    ret = "error" =>
        /\ stage = "returned"
        /\ ~parentDone => \A u \in Url : task[u] \in {"none", "exited"}

IncludeInv ==
    /\ IncludeTypeOK
    /\ StartInv /\ AloneInv /\ FetchInv /\ RaceInv /\ FailedInv
    /\ FailureIsTotal
----------------------------------------------------------------------------
(* The parts of the invariant that speak of the goroutines and the         *)
(* requests.                                                               *)
ControlInv == StartInv /\ AloneInv /\ FetchInv /\ RaceInv /\ FailedInv /\ FailureIsTotal

(* What the types of the variables say of the channel.                     *)
LEMMA ChannelType ==
    ASSUME IncludeTypeOK
    PROVE  /\ resultChan \in Seq(Url) /\ Len(resultChan) \in Nat
           /\ \A i \in 1..Len(resultChan) : resultChan[i] \in Url
BY LenProperties, ElementOfSeq DEF IncludeTypeOK

(* No request has been made, none runs and nothing has been returned.      *)
LEMMA IncludeInitInv ==
    ASSUME IncludeInit
    PROVE  IncludeInv
<1>1. <<>> \in Seq(Url) /\ Len(<<>>) = 0
  BY EmptySeq
<1>2. abRatio \in Ratio
  BY DEF IncludeInit, Ratio
<1>3. IncludeTypeOK
  <2>1. /\ task \in [Url -> {"none", "fetching", "sending", "exited"}]
        /\ outcome \in [Url -> {"none", "content", "error"}]
        /\ calls \in [Url -> 0..2]
        /\ results \in 0..2
    BY DEF IncludeInit
  <2>2. resultChan \in Seq(Url) /\ Len(resultChan) <= 2
    BY <1>1 DEF IncludeInit
  <2> QED
    BY <1>2, <2>1, <2>2 DEF IncludeInit, IncludeTypeOK, Url
<1>4. ControlInv
  BY DEF IncludeInit, ControlInv, StartInv, AloneInv, FetchInv, RaceInv, FailedInv,
         FailureIsTotal, Url
<1> QED
  BY <1>3, <1>4 DEF IncludeInv, ControlInv

(* A ratio that parses is a pair of numbers.                               *)
LEMMA RatioType ==
    ASSUME abRatio \in Ratio, parseAB(abRatio) # BadRatio
    PROVE  parseAB(abRatio)[1] \in Nat /\ parseAB(abRatio)[2] \in Nat
BY RatioAssumption DEF Ratio, parseAB

(* The include's first request goes out: to one location, or to both.      *)
LEMMA StartKeeps ==
    ASSUME IncludeInv, FetchFallback \/ FetchAB \/ FetchConcurrentSingle \/ FetchConcurrent
    PROVE  IncludeInv'
<1> USE DEF IncludeInv
<1>1. /\ stage = "start" /\ current = "src"
      /\ \A u \in Url : calls[u] = 0 /\ task[u] = "none"
      /\ resultChan = <<>> /\ results = 0 /\ ~ctxClosed /\ ret = "none"
  BY DEF FetchFallback, FetchAB, FetchConcurrentSingle, FetchConcurrent,
         StartInv, AloneInv
<1>2. /\ UNCHANGED <<attributes, outcome, resultChan, results, ctxClosed, parentDone>>
  BY DEF FetchFallback, FetchAB, FetchConcurrentSingle, FetchConcurrent,
         Request, Return, race
<1>3. ASSUME NEW u \in Url, Request(u), UNCHANGED task,
             u = "alt" => mode = "ab", mode = "concurrent" => ~hasAlt
      PROVE  IncludeInv'
  <2>1. calls' \in [Url -> 0..2] /\ calls'[u] = 1 /\ \A v \in Url : v # u => calls'[v] = 0
    BY <1>1, <1>3 DEF Request, IncludeTypeOK
  <2>2. IncludeTypeOK'
    BY <1>2, <1>3, <2>1 DEF Request, IncludeTypeOK, attributes
  <2>3. ControlInv'
    BY <1>1, <1>2, <1>3, <2>1 DEF Request, attributes, ControlInv, StartInv, AloneInv,
       FetchInv, RaceInv, FailedInv, FailureIsTotal, Url
  <2> QED
    BY <2>2, <2>3 DEF ControlInv
<1>4. CASE FetchFallback \/ FetchConcurrentSingle
  BY <1>3, <1>4 DEF FetchFallback, FetchConcurrentSingle, race, Url
<1>5. CASE FetchAB
  <2>1. CASE parseAB(abRatio) = BadRatio
    <3>1. Return("error") /\ UNCHANGED <<current, calls, task>>
      BY <1>5, <2>1 DEF FetchAB, race
    <3>2. IncludeTypeOK'
      BY <1>2, <3>1 DEF Return, IncludeTypeOK, attributes
    <3>3. ControlInv'
      BY <1>1, <1>2, <2>1, <3>1 DEF Return, attributes, ControlInv, StartInv, AloneInv,
         FetchInv, RaceInv, FailedInv, FailureIsTotal
    <3> QED
      BY <3>2, <3>3 DEF ControlInv
  <2>2. CASE parseAB(abRatio) # BadRatio
    <3>1. PICK random : Request(selectUrl(parseAB(abRatio), random))
      BY <1>5, <2>2 DEF FetchAB
    <3>2. selectUrl(parseAB(abRatio), random) \in Url
      BY DEF selectUrl, Url
    <3>3. mode = "ab" /\ UNCHANGED task
      BY <1>5 DEF FetchAB, race
    <3> QED
      BY <1>3, <3>1, <3>2, <3>3
  <2> QED
    BY <2>1, <2>2
<1>6. CASE FetchConcurrent
  <2>1. /\ mode = "concurrent" /\ hasAlt /\ stage' = "race" /\ UNCHANGED <<current, ret>>
        /\ task' = [u \in Url |-> "fetching"] /\ calls' = [u \in Url |-> 1]
    BY <1>1, <1>6 DEF FetchConcurrent
  <2>2. IncludeTypeOK'
    BY <1>2, <2>1 DEF IncludeTypeOK, attributes
  <2>3. ControlInv'
    BY <1>1, <1>2, <2>1 DEF attributes, ControlInv, StartInv, AloneInv,
       FetchInv, RaceInv, FailedInv, FailureIsTotal
  <2> QED
    BY <2>2, <2>3 DEF ControlInv
<1> QED
  BY <1>4, <1>5, <1>6

(* A request of the include's own goroutine ends.                          *)
LEMMA SingleEndsKeeps ==
    ASSUME IncludeInv, NEW r \in {"content", "error"}, SingleEnds(r)
    PROVE  IncludeInv'
<1> USE DEF IncludeInv
<1>1. /\ stage = "fetch" /\ current \in Url /\ calls[current] = 1
      /\ outcome' = [outcome EXCEPT ![current] = r]
      /\ UNCHANGED <<attributes, task, resultChan, results, ctxClosed, parentDone>>
      /\ outcome \in [Url -> {"none", "content", "error"}]
      /\ calls \in [Url -> 0..2]
  BY DEF SingleEnds, FetchInv, IncludeTypeOK, race
<1>2. /\ outcome'[current] = r /\ \A u \in Url : u # current => outcome'[u] = outcome[u]
      /\ outcome' \in [Url -> {"none", "content", "error"}]
  BY <1>1
<1>3. /\ \A u \in Url : task[u] = "none"
      /\ resultChan = <<>> /\ results = 0 /\ ~ctxClosed /\ ret = "none"
      /\ mode = "concurrent" => ~hasAlt
      /\ current = "src" => calls["alt"] = 0
      /\ current = "alt" => \/ mode = "ab" /\ calls["src"] = 0
                            \/ mode = "fallback" /\ outcome["src"] = "error"
  BY <1>1 DEF AloneInv, FetchInv
<1>4. CASE mode = "fallback" /\ r = "error" /\ current = "src" /\ hasAlt
  <2>1. /\ current' = "alt" /\ UNCHANGED <<stage, ret>>
        /\ calls' = [calls EXCEPT !["alt"] = @ + 1]
    BY <1>4 DEF SingleEnds
  <2>2. calls' \in [Url -> 0..2] /\ calls'["alt"] = 1 /\ calls'["src"] = 1
    BY <1>1, <1>3, <1>4, <2>1 DEF Url
  <2>3. IncludeTypeOK'
    BY <1>1, <1>2, <2>1, <2>2 DEF IncludeTypeOK, attributes, Url
  <2>4. ControlInv'
    BY <1>1, <1>2, <1>3, <1>4, <2>1, <2>2 DEF attributes, ControlInv, StartInv, AloneInv,
       FetchInv, RaceInv, FailedInv, FailureIsTotal, Url
  <2> QED
    BY <2>3, <2>4 DEF ControlInv
<1>5. CASE ~(mode = "fallback" /\ r = "error" /\ current = "src" /\ hasAlt)
  <2>1. stage' = "returned" /\ ret' = r /\ UNCHANGED <<current, calls>>
    BY <1>5 DEF SingleEnds, Return
  <2>2. IncludeTypeOK'
    BY <1>1, <1>2, <2>1 DEF IncludeTypeOK, attributes
  <2>3. mode \in Mode
    BY DEF IncludeTypeOK
  <2>4. FailureIsTotal'
    BY <1>1, <1>2, <1>3, <1>5, <2>1, <2>3 DEF attributes, FailureIsTotal, Url, Mode
  <2>5. ControlInv'
    BY <1>1, <1>2, <1>3, <2>1, <2>4 DEF attributes, ControlInv, StartInv, AloneInv,
       FetchInv, RaceInv, FailedInv, Url
  <2> QED
    BY <2>2, <2>5 DEF ControlInv
<1> QED
  BY <1>4, <1>5

(* A goroutine of the race gets its answer, or gives up sending it.        *)
LEMMA TaskWaitsKeeps ==
    ASSUME IncludeInv, NEW u \in Url,
           (\E r \in {"content", "error"} : TaskFetched(u, r)) \/ TaskGivesUp(u)
    PROVE  IncludeInv'
<1> USE DEF IncludeInv
<1>1. /\ UNCHANGED <<attributes, stage, current, calls, resultChan, results, ctxClosed,
                     parentDone, ret>>
      /\ task[u] \in {"fetching", "sending"}
  BY DEF TaskFetched, TaskGivesUp
<1>2. PICK s \in {"sending", "exited"}, r \in {"none", "content", "error"} :
        /\ task' = [task EXCEPT ![u] = s] /\ outcome' = [outcome EXCEPT ![u] = r]
        /\ s = "exited" => parentDone \/ ctxClosed
  <2>1. CASE \E r \in {"content", "error"} : TaskFetched(u, r)
    BY <2>1 DEF TaskFetched
  <2>2. CASE TaskGivesUp(u)
    <3>1. /\ task' = [task EXCEPT ![u] = "exited"] /\ outcome' = outcome
          /\ outcome \in [Url -> {"none", "content", "error"}] /\ ctxDone
      BY <2>2 DEF TaskGivesUp, IncludeTypeOK
    <3>2. outcome' = [outcome EXCEPT ![u] = outcome[u]] /\ outcome[u] \in {"none", "content", "error"}
      BY <3>1
    <3> QED
      BY <3>1, <3>2 DEF ctxDone
  <2> QED
    BY <2>1, <2>2
<1>3. /\ task' \in [Url -> {"none", "fetching", "sending", "exited"}]
      /\ outcome' \in [Url -> {"none", "content", "error"}]
      /\ task'[u] = s /\ \A v \in Url : v # u => task'[v] = task[v] /\ outcome'[v] = outcome[v]
  BY <1>2 DEF IncludeTypeOK
<1>4. IncludeTypeOK'
  BY <1>1, <1>3 DEF IncludeTypeOK, attributes
<1>5. stage \notin {"start", "fetch"}
  BY <1>1 DEF AloneInv
<1>6. RaceInv'
  BY <1>1, <1>3, ChannelType DEF RaceInv, attributes
<1>7. FailedInv' /\ FailureIsTotal'
  BY <1>1, <1>3 DEF FailedInv, FailureIsTotal, attributes
<1>8. ControlInv'
  BY <1>1, <1>5, <1>6, <1>7 DEF ControlInv, StartInv, AloneInv, FetchInv
<1> QED
  BY <1>4, <1>8 DEF ControlInv

(* A goroutine of the race sends its answer and ends.                      *)
LEMMA TaskSendsKeeps ==
    ASSUME IncludeInv, NEW u \in Url, TaskSends(u)
    PROVE  IncludeInv'
<1> USE DEF IncludeInv
<1> DEFINE n == Len(resultChan)
<1>1. /\ UNCHANGED <<attributes, stage, current, outcome, calls, results, ctxClosed,
                     parentDone, ret>>
      /\ task[u] = "sending" /\ task' = [task EXCEPT ![u] = "exited"]
      /\ n < 2 /\ resultChan' = Append(resultChan, u)
  BY DEF TaskSends
<1>2. /\ task' \in [Url -> {"none", "fetching", "sending", "exited"}]
      /\ task'[u] = "exited" /\ \A v \in Url : v # u => task'[v] = task[v]
  BY <1>1 DEF IncludeTypeOK
<1>3. resultChan \in Seq(Url) /\ n \in Nat /\ \A i \in 1..n : resultChan[i] \in Url
  BY ChannelType
<1>4. /\ resultChan' \in Seq(Url) /\ Len(resultChan') = n + 1
      /\ resultChan'[n + 1] = u /\ \A i \in 1..n : resultChan'[i] = resultChan[i]
  BY <1>1, <1>3, AppendProperties
<1>5. IncludeTypeOK'
  BY <1>1, <1>2, <1>3, <1>4 DEF IncludeTypeOK, attributes
<1>6. stage \notin {"start", "fetch"}
  BY <1>1 DEF AloneInv
<1>7. RaceInv'
  <2> SUFFICES ASSUME stage = "race" PROVE RaceInv'
    BY <1>1 DEF RaceInv
  <2>1. /\ \A i \in 1..n : task[resultChan[i]] = "exited"
        /\ \A i, j \in 1..n : resultChan[i] = resultChan[j] => i = j
    BY DEF RaceInv
  <2>2. \A i \in 1..n : resultChan[i] # u
    BY <1>1, <2>1
  <2>3. \A i \in 1..(n + 1) : i \in 1..n \/ i = n + 1
    BY <1>3
  <2>4. \A i \in 1..(n + 1) : task'[resultChan'[i]] = "exited"
    BY <1>2, <1>3, <1>4, <2>1, <2>3
  <2>5. \A i, j \in 1..(n + 1) : resultChan'[i] = resultChan'[j] => i = j
    BY <1>4, <2>1, <2>2, <2>3
  <2>6. results = 1 =>
             \E v \in Url : /\ outcome[v] = "error" /\ task'[v] = "exited"
                            /\ \A i \in 1..(n + 1) : resultChan'[i] # v
    <3> SUFFICES ASSUME results = 1
                 PROVE  \E v \in Url : /\ outcome[v] = "error" /\ task'[v] = "exited"
                                       /\ \A i \in 1..(n + 1) : resultChan'[i] # v
      OBVIOUS
    <3>1. PICK v \in Url : /\ outcome[v] = "error" /\ task[v] = "exited"
                           /\ \A i \in 1..n : resultChan[i] # v
      BY DEF RaceInv
    <3>2. v # u /\ task'[v] = "exited"
      BY <1>1, <1>2, <3>1
    <3> QED
      BY <1>4, <2>3, <3>1, <3>2
  <2>7. Len(resultChan') = n + 1
    BY <1>4
  <2> QED
    BY <1>1, <2>4, <2>5, <2>6, <2>7 DEF RaceInv, attributes
<1>8. FailedInv' /\ FailureIsTotal'
  BY <1>1, <1>2 DEF FailedInv, FailureIsTotal, attributes
<1>9. ControlInv'
  BY <1>1, <1>6, <1>7, <1>8 DEF ControlInv, StartInv, AloneInv, FetchInv
<1> QED
  BY <1>5, <1>9 DEF ControlInv

(* The loop takes a result, or is cancelled.                               *)
LEMMA ReceiveKeeps ==
    ASSUME IncludeInv, ReceiveContent \/ ReceiveError \/ RaceCancelled
    PROVE  IncludeInv'
<1> USE DEF IncludeInv
<1> DEFINE n == Len(resultChan)
<1>1. /\ stage = "race" /\ mode = "concurrent" /\ hasAlt /\ ~ctxClosed /\ ret = "none"
      /\ UNCHANGED <<attributes, current, task, outcome, calls, parentDone>>
      /\ \A u \in Url : calls[u] = 1
  BY DEF ReceiveContent, ReceiveError, RaceCancelled, RaceInv
<1>2. resultChan \in Seq(Url) /\ n \in Nat /\ \A i \in 1..n : resultChan[i] \in Url
  BY ChannelType
<1>3. CASE RaceCancelled
  <2>1. /\ stage' = "returned" /\ ret' = "error" /\ ctxClosed' = TRUE
        /\ UNCHANGED <<resultChan, results>> /\ parentDone
    BY <1>1, <1>3 DEF RaceCancelled, Return, ctxDone
  <2>2. IncludeTypeOK'
    BY <1>1, <2>1 DEF IncludeTypeOK, attributes
  <2>3. ControlInv'
    BY <1>1, <2>1 DEF attributes, ControlInv, StartInv, AloneInv,
       FetchInv, RaceInv, FailedInv, FailureIsTotal
  <2> QED
    BY <2>2, <2>3 DEF ControlInv
<1>4. ASSUME resultChan # <<>>, resultChan' = Tail(resultChan)
      PROVE  /\ n \in Nat \ {0} /\ resultChan' \in Seq(Url) /\ Len(resultChan') = n - 1
             /\ Head(resultChan) = resultChan[1] /\ Head(resultChan) \in Url
             /\ \A i \in 1..(n - 1) : resultChan'[i] = resultChan[i + 1]
             /\ Len(resultChan') <= 2
  BY <1>2, <1>4, HeadTailProperties, EmptySeq DEF IncludeTypeOK
<1>5. CASE ReceiveContent
  <2>1. /\ resultChan # <<>> /\ resultChan' = Tail(resultChan)
        /\ stage' = "returned" /\ ret' = "content" /\ ctxClosed' = TRUE
        /\ UNCHANGED results
    BY <1>5 DEF ReceiveContent, Return
  <2>2. IncludeTypeOK'
    BY <1>1, <1>4, <2>1 DEF IncludeTypeOK, attributes
  <2>3. ControlInv'
    BY <1>1, <2>1 DEF attributes, ControlInv, StartInv, AloneInv,
       FetchInv, RaceInv, FailedInv, FailureIsTotal
  <2> QED
    BY <2>2, <2>3 DEF ControlInv
<1>6. CASE ReceiveError
  <2>1. /\ resultChan # <<>> /\ resultChan' = Tail(resultChan)
        /\ outcome[Head(resultChan)] = "error" /\ results' = results + 1
        /\ results \in {0, 1}
    BY <1>1, <1>6 DEF ReceiveError, RaceInv
  <2>2. /\ n \in Nat \ {0} /\ resultChan' \in Seq(Url) /\ Len(resultChan') = n - 1
        /\ Head(resultChan) = resultChan[1] /\ Head(resultChan) \in Url
        /\ \A i \in 1..(n - 1) : resultChan'[i] = resultChan[i + 1]
        /\ Len(resultChan') <= 2
    BY <1>4, <2>1
  <2>3. /\ \A i \in 1..n : task[resultChan[i]] = "exited"
        /\ \A i, j \in 1..n : resultChan[i] = resultChan[j] => i = j
    BY <1>1 DEF RaceInv
  <2>4. 1 \in 1..n /\ \A i \in 1..(n - 1) : i + 1 \in 1..n /\ i + 1 # 1
    BY <1>2, <2>2
  <2>5. task[Head(resultChan)] = "exited"
    BY <2>2, <2>3, <2>4
  <2>6. CASE results = 1
    <3>1. /\ results' = 2 /\ ctxClosed' = TRUE /\ stage' = "returned" /\ ret' = "error"
      BY <1>6, <2>1, <2>6 DEF ReceiveError, Return
    <3>2. IncludeTypeOK'
      BY <1>1, <2>2, <3>1 DEF IncludeTypeOK, attributes
    <3>3. PICK u \in Url : /\ outcome[u] = "error" /\ task[u] = "exited"
                           /\ \A i \in 1..n : resultChan[i] # u
      BY <1>1, <2>6 DEF RaceInv
    <3>4. u # Head(resultChan)
      BY <2>2, <2>4, <3>3
    <3>5. \A v \in Url : outcome[v] = "error" /\ task[v] = "exited"
      BY <2>1, <2>2, <2>5, <3>3, <3>4 DEF Url
    <3>6. FailedInv' /\ FailureIsTotal'
      BY <1>1, <3>1, <3>5 DEF FailedInv, FailureIsTotal, attributes, Url
    <3>7. ControlInv'
      BY <3>1, <3>6 DEF ControlInv, StartInv, AloneInv, FetchInv, RaceInv
    <3> QED
      BY <3>2, <3>7 DEF ControlInv
  <2>7. CASE results = 0
    <3>1. results' = 1 /\ UNCHANGED <<ctxClosed, stage, ret>>
      BY <1>6, <2>1, <2>7 DEF ReceiveError
    <3>2. IncludeTypeOK'
      BY <1>1, <2>2, <3>1 DEF IncludeTypeOK, attributes
    <3>3. \A i \in 1..(n - 1) : resultChan'[i] # Head(resultChan)
      BY <2>2, <2>3, <2>4
    <3>4. \A i \in 1..(n - 1) : task[resultChan'[i]] = "exited"
      BY <2>2, <2>3, <2>4
    <3>5. \A i, j \in 1..(n - 1) : resultChan'[i] = resultChan'[j] => i = j
      <4> SUFFICES ASSUME NEW i \in 1..(n - 1), NEW j \in 1..(n - 1),
                          resultChan'[i] = resultChan'[j]
                   PROVE  i = j
        OBVIOUS
      <4>1. resultChan[i + 1] = resultChan[j + 1]
        BY <2>2
      <4>2. i + 1 = j + 1
        BY <2>3, <2>4, <4>1
      <4> QED
        BY <1>2, <4>2
    <3>6. RaceInv'
      BY <1>1, <2>1, <2>2, <2>5, <3>1, <3>3, <3>4, <3>5 DEF RaceInv, attributes
    <3>7. ControlInv'
      BY <1>1, <3>1, <3>6 DEF ControlInv, StartInv, AloneInv, FetchInv, FailedInv,
                              FailureIsTotal
    <3> QED
      BY <3>2, <3>7 DEF ControlInv
  <2> QED
    BY <2>1, <2>6, <2>7
<1> QED
  BY <1>3, <1>5, <1>6

(* Every step keeps the invariant; a cancelled render promises nothing.    *)
LEMMA IncludeStepInv ==
    ASSUME IncludeInv, [IncludeNext]_includeVars
    PROVE  IncludeInv'
<1>1. CASE Main
  BY <1>1, StartKeeps, SingleEndsKeeps, ReceiveKeeps DEF Main
<1>2. CASE \E u \in Url : Task(u)
  BY <1>2, TaskWaitsKeeps, TaskSendsKeeps DEF Task
<1>3. CASE CancelRender
  <2>1. /\ parentDone' = TRUE
        /\ UNCHANGED <<attributes, stage, current, outcome, calls, race, ret>>
    BY <1>3 DEF CancelRender
  <2>2. IncludeTypeOK'
    BY <2>1 DEF IncludeInv, IncludeTypeOK, attributes, race
  <2>3. ControlInv'
    BY <2>1 DEF IncludeInv, ControlInv, attributes, race, StartInv, AloneInv, FetchInv,
                RaceInv, FailedInv, FailureIsTotal
  <2> QED
    BY <2>2, <2>3 DEF IncludeInv, ControlInv
<1>4. CASE UNCHANGED includeVars
  <2>1. IncludeTypeOK'
    BY <1>4 DEF IncludeInv, IncludeTypeOK, includeVars
  <2>2. ControlInv'
    BY <1>4 DEF IncludeInv, includeVars, ControlInv, StartInv, AloneInv, FetchInv,
                RaceInv, FailedInv, FailureIsTotal
  <2> QED
    BY <2>1, <2>2 DEF IncludeInv, ControlInv
<1> QED
  BY <1>1, <1>2, <1>3, <1>4 DEF IncludeNext

----------------------------------------------------------------------------
(* The invariant holds of every include, whatever its attributes.          *)
THEOREM FetchInvariant == IncludeSpec => []IncludeInv
<1>1. IncludeInit => IncludeInv
  BY IncludeInitInv
<1>2. IncludeInv /\ [IncludeNext]_includeVars => IncludeInv'
  BY IncludeStepInv
<1> QED
  BY <1>1, <1>2, PTL DEF IncludeSpec

(* Every variable keeps its type: no location is asked twice, and the      *)
(* channel never holds more than its two places.                           *)
THEOREM IncludeTypeCorrect == IncludeSpec => []IncludeTypeOK
<1>1. IncludeInv => IncludeTypeOK
  BY DEF IncludeInv
<1> QED
  BY <1>1, FetchInvariant, PTL

(* An include that fails, of a render that was not cancelled, has had no   *)
(* content from any request, and has tried alt when it was to.             *)
THEOREM FailureIsTotalAlways == IncludeSpec => []FailureIsTotal
<1>1. IncludeInv => FailureIsTotal
  BY DEF IncludeInv
<1> QED
  BY <1>1, FetchInvariant, PTL

(* Of A + B random values exactly A select src, for every accepted ratio.  *)
THEOREM ShareMatchesRatioAlways == IncludeSpec => []ShareMatchesRatio
<1>1. IncludeInv => ShareMatchesRatio
  <2> DEFINE ratio == parseAB(abRatio)
             Share == {r \in 0..(ratio[1] + ratio[2] - 1) : selectUrl(ratio, r) = "src"}
  <2> SUFFICES ASSUME IncludeInv, ratio # BadRatio
               PROVE  Cardinality(Share) = IF hasAlt THEN ratio[1] ELSE ratio[1] + ratio[2]
    BY DEF ShareMatchesRatio
  <2>1. ratio[1] \in Nat /\ ratio[2] \in Nat
    BY RatioType DEF IncludeInv, IncludeTypeOK
  <2> DEFINE a == ratio[1]
             b == ratio[2]
             k == IF hasAlt THEN a ELSE a + b
  <2>2. a \in Nat /\ b \in Nat
    BY <2>1
  <2>3. Share = {r \in 0..(a + b - 1) : hasAlt => r < a}
    BY DEF selectUrl
  <2> HIDE DEF a, b, Share, ratio
  <2>4. k \in Nat /\ Share = 0..(k - 1)
    BY <2>2, <2>3
  <2> HIDE DEF k
  <2>5. Cardinality(0..(k - 1)) = IF 0 > k - 1 THEN 0 ELSE k - 1 - 0 + 1
    BY <2>4, FS_Interval
  <2>6. Cardinality(Share) = k
    BY <2>4, <2>5
  <2> QED
    BY <2>6 DEF k, a, b
<1> QED
  BY <1>1, FetchInvariant, PTL
============================================================================
