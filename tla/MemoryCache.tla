---------------------------- MODULE MemoryCache ----------------------------
(***************************************************************************)
(* MemoryCache (mesi/cache_memory.go): a map of entries, a recency list    *)
(* and expiry times.  Every method runs under mu, so a call is one step.   *)
(* The list is modelled by the keys of its elements, front first: each     *)
(* entry's element field is its position in that list.                     *)
(***************************************************************************)
EXTENDS Integers, FiniteSets, SequencesExt

CONSTANTS Key, Body, NoBody,
          maxSize,       \* 0 and below: unlimited
          defaultTTL,    \* used when Set is given a ttl of 0
          TTL,           \* the ttl arguments of Set, negative: never expires
          MaxTime        \* bound on the clock

ASSUME CacheAssumption ==
    /\ NoBody \notin Body
    /\ maxSize \in Int
    /\ defaultTTL \in Int
    /\ TTL \subseteq Int
    /\ MaxTime \in Nat

VARIABLES
    items,       \* entry of each key; value NoBody: no entry
    lru,         \* keys of the list elements, most recently used first
    now,         \* time.Now()
    answer,      \* what the latest Get returned, NoBody: ok was false
    stored,      \* history: the body of the latest Set not deleted since
    usedBefore,  \* history: pairs <<j, k>> with k used after j's latest use
    left         \* history: the time for which the latest Set of each key not
                 \* deleted since still asks to be served, 0: it is up

vars == <<items, lru, now, answer, stored, usedBefore, left>>

Never == 0       \* the zero time.Time

Forever == -1    \* the time a Set asks for that has no ttl

Absent == [value |-> NoBody, expireAt |-> Never]

Present == {k \in Key : items[k] # Absent}

TypeOK ==
    /\ items \in [Key -> [value : Body, expireAt : Nat] \cup {Absent}]
    /\ lru \in Seq(Key)
    /\ now \in Nat \ {0}
    /\ answer \in Body \cup {NoBody}
    /\ stored \in [Key -> Body \cup {NoBody}]
    /\ usedBefore \subseteq Key \X Key
    /\ left \in [Key -> Nat \cup {Forever}]

(* NewMemoryCache.                                                         *)
Init ==
    /\ items = [k \in Key |-> Absent]
    /\ lru = <<>>
    /\ now = 1
    /\ answer = NoBody
    /\ stored = [k \in Key |-> NoBody]
    /\ usedBefore = {}
    /\ left = [k \in Key |-> 0]

----------------------------------------------------------------------------
(* container/list, an element being found by its key.                      *)
MoveToFront(s, k) == <<k>> \o RemoveFirst(s, k)

Expired(e) == e.expireAt # Never /\ now > e.expireAt

Live(k) == items[k] # Absent /\ ~Expired(items[k])

(* What the histories record of a use, and of a Set: the entry is to be    *)
(* served now and for ttl units of time more.                              *)
MarkUsed(k) ==
    usedBefore' = {p \in usedBefore : p[1] # k} \cup ((Key \ {k}) \X {k})

Promise(k, ttl) ==
    LET t == IF ttl = 0 THEN defaultTTL ELSE ttl
    IN  left' = [left EXCEPT ![k] = IF t > 0 THEN t + 1 ELSE Forever]

(* The expiry time of a new or overwritten entry.                          *)
ExpireAt(ttl) ==
    LET t == IF ttl = 0 THEN defaultTTL ELSE ttl
    IN  IF t > 0 THEN now + t ELSE Never

(* Mutant of removeEntry: the list element stays.                          *)
removeEntryKeepsElement(k) ==
    /\ items' = [items EXCEPT ![k] = Absent]
    /\ UNCHANGED lru

removeEntry(k) ==
    /\ items' = [items EXCEPT ![k] = Absent]
    /\ lru' = RemoveFirst(lru, k)

----------------------------------------------------------------------------
GetMiss(k) ==
    /\ items[k] = Absent
    /\ answer' = NoBody
    /\ UNCHANGED <<items, lru, now, stored, usedBefore, left>>

GetExpired(k) ==
    /\ items[k] # Absent /\ Expired(items[k])
    /\ removeEntry(k)
    /\ answer' = NoBody
    /\ UNCHANGED <<now, stored, usedBefore, left>>

GetHit(k) ==
    /\ Live(k)
    /\ lru' = MoveToFront(lru, k)
    /\ answer' = items[k].value
    /\ MarkUsed(k)
    /\ UNCHANGED <<items, now, stored, left>>

(* Mutants of SetExisting: only the expiry time is renewed; only the body. *)
SetExistingKeepsBody(k, b, ttl) ==
    /\ items[k] # Absent
    /\ items' = [items EXCEPT ![k].expireAt = ExpireAt(ttl)]
    /\ lru' = MoveToFront(lru, k)
    /\ MarkUsed(k)
    /\ stored' = [stored EXCEPT ![k] = b]
    /\ Promise(k, ttl)
    /\ UNCHANGED <<now, answer>>

SetExistingKeepsExpiry(k, b, ttl) ==
    /\ items[k] # Absent
    /\ items' = [items EXCEPT ![k].value = b]
    /\ lru' = MoveToFront(lru, k)
    /\ MarkUsed(k)
    /\ stored' = [stored EXCEPT ![k] = b]
    /\ Promise(k, ttl)
    /\ UNCHANGED <<now, answer>>

SetExisting(k, b, ttl) ==
    /\ items[k] # Absent
    /\ items' = [items EXCEPT ![k] = [value |-> b, expireAt |-> ExpireAt(ttl)]]
    /\ lru' = MoveToFront(lru, k)
    /\ MarkUsed(k)
    /\ stored' = [stored EXCEPT ![k] = b]
    /\ Promise(k, ttl)
    /\ UNCHANGED <<now, answer>>

(* Mutants of Evicting and Evicted: room is made one entry too late; the   *)
(* most recently used entry is evicted.                                    *)
EvictingLate == maxSize > 0 /\ Len(lru) > maxSize

EvictedFront == Head(lru)

(* The condition for evictLRU, and the entry it removes.                   *)
Evicting == maxSize > 0 /\ Len(lru) >= maxSize

Evicted == Last(lru)

(* evictLRU makes room first, then the entry goes to the front.            *)
SetNew(k, b, ttl) ==
    LET keptItems == IF Evicting THEN [items EXCEPT ![Evicted] = Absent] ELSE items
        keptKeys == IF Evicting THEN RemoveFirst(lru, Evicted) ELSE lru
    IN
    /\ items[k] = Absent
    /\ items' = [keptItems EXCEPT ![k] = [value |-> b, expireAt |-> ExpireAt(ttl)]]
    /\ lru' = <<k>> \o keptKeys
    /\ MarkUsed(k)
    /\ stored' = [stored EXCEPT ![k] = b]
    /\ Promise(k, ttl)
    /\ UNCHANGED <<now, answer>>

Delete(k) ==
    /\ IF items[k] # Absent THEN removeEntry(k) ELSE UNCHANGED <<items, lru>>
    /\ stored' = [stored EXCEPT ![k] = NoBody]
    /\ left' = [left EXCEPT ![k] = 0]
    /\ UNCHANGED <<now, answer, usedBefore>>

Tick ==
    /\ now < MaxTime
    /\ now' = now + 1
    /\ left' = [k \in Key |-> IF left[k] \in {0, Forever} THEN left[k] ELSE left[k] - 1]
    /\ UNCHANGED <<items, lru, answer, stored, usedBefore>>

Next ==
    \/ \E k \in Key : GetMiss(k) \/ GetExpired(k) \/ GetHit(k) \/ Delete(k)
    \/ \E k \in Key, b \in Body, ttl \in TTL :
          SetExisting(k, b, ttl) \/ SetNew(k, b, ttl)
    \/ Tick

Spec == Init /\ [][Next]_vars

----------------------------------------------------------------------------
(* The list and the map agree: exactly the stored keys are listed, once    *)
(* each, so no element is leaked and every entry can be evicted.           *)
ListMatchesMap ==
    /\ {lru[i] : i \in 1..Len(lru)} = Present
    /\ \A i, j \in 1..Len(lru) : lru[i] = lru[j] => i = j

(* A bounded cache never holds more than maxSize entries.                  *)
SizeBound == maxSize > 0 => Cardinality(Present) <= maxSize

(* A Set that stores a new key gives up at most one entry, and that one    *)
(* was used less recently than every entry that stays (evictLRU).          *)
EvictsLeastRecent ==
    [][ \A k \in Key : k \notin Present /\ k \in Present' =>
          \A gone \in Present \ Present', stays \in Present \cap Present' :
              /\ <<gone, stays>> \in usedBefore
              /\ Present \ Present' = {gone}
      ]_vars

(* A reader gets an entry for as long as its latest Set asked, and no      *)
(* longer: for ever when the ttl, or the default in the place of a 0, is   *)
(* not positive, and whatever ttl the entry had that was overwritten.      *)
TtlHonoured == \A k \in Present : Live(k) <=> left[k] # 0

(* Readers see the body of the latest Set, or nothing once it has expired, *)
(* been deleted or been evicted (mesi/cache.go).                           *)
Contract == INSTANCE CacheContract WITH
                copy <- [k \in Key |-> IF Live(k) THEN items[k].value ELSE NoBody]

ImplementsContract == Contract!Spec
============================================================================
