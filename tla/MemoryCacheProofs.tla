------------------------- MODULE MemoryCacheProofs -------------------------
(***************************************************************************)
(* Proofs about MemoryCache for any set of keys, any size and any ttl: the *)
(* recency list and the map agree, the list is in the order of use, an     *)
(* entry is served for its time, and the cache implements its contract.    *)
(* What container/list does to a list without duplicates is stated first,  *)
(* of any sequence.                                                        *)
(***************************************************************************)
EXTENDS MemoryCache, SequenceTheorems, FiniteSetTheorems, TLAPS

Elements(s) == {s[i] : i \in 1..Len(s)}

Distinct(s) == \A i, j \in 1..Len(s) : s[i] = s[j] => i = j

(* Of any two keys of the list the one nearer to the back was used less    *)
(* recently.                                                               *)
InOrder(s, before) ==
    \A i, j \in 1..Len(s) : i < j => <<s[j], s[i]>> \in before

----------------------------------------------------------------------------
(* Removing the only occurrence of e shifts what follows it.               *)
LEMMA RemoveFirstShifts ==
    ASSUME NEW S, NEW s \in Seq(S), Distinct(s), NEW p \in 1..Len(s)
    PROVE  LET r == RemoveFirst(s, s[p]) IN
           /\ r \in Seq(S)
           /\ Len(r) = Len(s) - 1
           /\ \A i \in 1..Len(r) : r[i] = IF i < p THEN s[i] ELSE s[i + 1]
<1> DEFINE e == s[p]
           I == {i \in 1..Len(s) : s[i] = e}
           n == Len(s)
           a == SubSeq(s, 1, p - 1)
           b == SubSeq(s, p + 1, n)
<1>1. n \in Nat /\ \A i \in 1..n : s[i] \in S
  BY LenProperties, ElementOfSeq
<1>2. I = {p}
  BY DEF Distinct
<1>3. Min({p}) = p
  BY DEF Min
<1>4. SelectInSeq(s, LAMBDA v : v = e) = p
  BY <1>2, <1>3 DEF SelectInSeq
<1>5. RemoveFirst(s, e) = a \o b
  BY <1>4 DEF RemoveFirst, RemoveAt
<1>6. /\ a \in Seq(S) /\ Len(a) = p - 1
      /\ \A i \in 1..(p - 1) : a[i] = s[i]
  <2>1. p - 1 \in Int /\ \A i \in 1..(p - 1) : s[i] \in S
    BY <1>1
  <2>2. /\ a \in Seq(S)
        /\ Len(a) = IF 1 <= p - 1 THEN p - 1 - 1 + 1 ELSE 0
        /\ \A i \in 1..(p - 1 - 1 + 1) : a[i] = s[1 + i - 1]
    BY <2>1, SubSeqProperties
  <2> HIDE DEF a
  <2> QED
    BY <1>1, <2>2
<1>7. /\ b \in Seq(S) /\ Len(b) = n - p
      /\ \A i \in 1..(n - p) : b[i] = s[p + i]
  <2>1. p + 1 \in Int /\ n \in Int /\ \A i \in (p + 1)..n : s[i] \in S
    BY <1>1
  <2>2. /\ b \in Seq(S)
        /\ Len(b) = IF p + 1 <= n THEN n - (p + 1) + 1 ELSE 0
        /\ \A i \in 1..(n - (p + 1) + 1) : b[i] = s[p + 1 + i - 1]
    BY <2>1, SubSeqProperties
  <2> HIDE DEF b
  <2> QED
    BY <1>1, <2>2
<1> HIDE DEF a, b
<1>8. /\ a \o b \in Seq(S) /\ Len(a \o b) = Len(a) + Len(b)
      /\ \A i \in 1..(Len(a) + Len(b)) :
           (a \o b)[i] = IF i <= Len(a) THEN a[i] ELSE b[i - Len(a)]
  BY <1>6, <1>7, ConcatProperties
<1>9. Len(a \o b) = n - 1
  BY <1>1, <1>6, <1>7, <1>8
<1>10. ASSUME NEW i \in 1..(n - 1)
       PROVE  (a \o b)[i] = IF i < p THEN s[i] ELSE s[i + 1]
  <2>1. i \in 1..(Len(a) + Len(b))
    BY <1>1, <1>6, <1>7
  <2>2. CASE i < p
    <3>1. i <= Len(a) /\ i \in 1..(p - 1)
      BY <1>1, <1>6, <2>2
    <3> QED
      BY <1>6, <1>8, <2>1, <2>2, <3>1
  <2>3. CASE ~(i < p)
    <3>1. /\ ~(i <= Len(a)) /\ i - Len(a) \in 1..(n - p)
          /\ p + (i - Len(a)) = i + 1
      BY <1>1, <1>6, <2>3
    <3>2. (a \o b)[i] = b[i - Len(a)]
      BY <1>8, <2>1, <3>1
    <3>3. b[i - Len(a)] = s[p + (i - Len(a))]
      BY <1>7, <3>1
    <3> QED
      BY <2>3, <3>1, <3>2, <3>3
  <2> QED
    BY <2>2, <2>3
<1> QED
  BY <1>5, <1>8, <1>9, <1>10

(* list.Remove: the other keys stay, once each and in their order.         *)
LEMMA RemoveFacts ==
    ASSUME NEW S, NEW s \in Seq(S), Distinct(s), NEW e \in Elements(s),
           NEW before, InOrder(s, before)
    PROVE  LET r == RemoveFirst(s, e) IN
           /\ r \in Seq(S) /\ Len(r) = Len(s) - 1
           /\ Elements(r) = Elements(s) \ {e}
           /\ Distinct(r) /\ InOrder(r, before)
<1> DEFINE r == RemoveFirst(s, e)
           n == Len(s)
<1>1. PICK p \in 1..n : s[p] = e
  BY DEF Elements
<1>2. /\ r \in Seq(S) /\ Len(r) = n - 1 /\ n \in Nat
      /\ \A i \in 1..(n - 1) : r[i] = IF i < p THEN s[i] ELSE s[i + 1]
  BY <1>1, RemoveFirstShifts, LenProperties
<1> HIDE DEF r
<1> DEFINE at(i) == IF i < p THEN i ELSE i + 1
<1>3. \A i \in 1..(n - 1) : at(i) \in 1..n /\ at(i) # p /\ r[i] = s[at(i)]
  BY <1>1, <1>2
<1>4. \A i, j \in 1..(n - 1) : (at(i) = at(j) => i = j) /\ (i < j => at(i) < at(j))
  BY <1>1, <1>2
<1>5. \A q \in 1..n : q # p => \E i \in 1..(n - 1) : at(i) = q
  <2> SUFFICES ASSUME NEW q \in 1..n, q # p
               PROVE  \E i \in 1..(n - 1) : at(i) = q
    OBVIOUS
  <2>1. CASE q < p
    <3>1. q \in 1..(n - 1) /\ at(q) = q
      BY <1>1, <1>2, <2>1
    <3> QED
      BY <3>1
  <2>2. CASE q > p
    <3>1. q - 1 \in 1..(n - 1) /\ at(q - 1) = q
      BY <1>1, <1>2, <2>2
    <3> QED
      BY <3>1
  <2> QED
    BY <1>1, <1>2, <2>1, <2>2
<1> HIDE DEF at
<1>6. Distinct(r)
  BY <1>2, <1>3, <1>4 DEF Distinct
<1>7. InOrder(r, before)
  BY <1>2, <1>3, <1>4 DEF InOrder
<1>8. Elements(r) = Elements(s) \ {e}
  <2>1. ASSUME NEW x \in Elements(r)
        PROVE  x \in Elements(s) \ {e}
    <3>1. PICK i \in 1..(n - 1) : x = r[i]
      BY <1>2 DEF Elements
    <3>2. x = s[at(i)] /\ at(i) \in 1..n /\ at(i) # p
      BY <1>3, <3>1
    <3> QED
      BY <1>1, <3>2 DEF Distinct, Elements
  <2>2. ASSUME NEW x \in Elements(s) \ {e}
        PROVE  x \in Elements(r)
    <3>1. PICK q \in 1..n : x = s[q] /\ q # p
      BY <1>1 DEF Elements
    <3>2. PICK i \in 1..(n - 1) : at(i) = q
      BY <1>5, <3>1
    <3> QED
      BY <1>2, <1>3, <3>1, <3>2 DEF Elements
  <2> QED
    BY <2>1, <2>2
<1> QED
  BY <1>2, <1>6, <1>7, <1>8 DEF r

(* list.PushFront of a key that is not in the list.                        *)
LEMMA PushFrontFacts ==
    ASSUME NEW S, NEW s \in Seq(S), Distinct(s), NEW k \in S, k \notin Elements(s),
           NEW before, InOrder(s, before), \A x \in Elements(s) : <<x, k>> \in before
    PROVE  LET r == <<k>> \o s IN
           /\ r \in Seq(S) /\ Len(r) = Len(s) + 1
           /\ Elements(r) = Elements(s) \cup {k}
           /\ Distinct(r) /\ InOrder(r, before)
<1> DEFINE r == <<k>> \o s
           n == Len(s)
<1>1. /\ <<k>> \in Seq(S) /\ Len(<<k>>) = 1 /\ <<k>>[1] = k /\ n \in Nat
  BY LenProperties
<1>2. /\ r \in Seq(S) /\ Len(r) = 1 + n
      /\ \A i \in 1..(1 + n) : r[i] = IF i <= 1 THEN <<k>>[i] ELSE s[i - 1]
  BY <1>1, ConcatProperties
<1> HIDE DEF r
<1>3. /\ r[1] = k /\ \A i \in 2..(n + 1) : i - 1 \in 1..n /\ r[i] = s[i - 1]
      /\ \A q \in 1..n : q + 1 \in 2..(n + 1) /\ r[q + 1] = s[q]
  BY <1>1, <1>2
<1>4. \A i \in 1..n : s[i] \in Elements(s) /\ s[i] # k /\ <<s[i], k>> \in before
  BY DEF Elements
<1>5. Distinct(r)
  <2> SUFFICES ASSUME NEW i \in 1..(n + 1), NEW j \in 1..(n + 1), r[i] = r[j]
               PROVE  i = j
    BY <1>1, <1>2 DEF Distinct
  <2>1. CASE i = 1 \/ j = 1
    <3>1. \A q \in 1..(n + 1) : q # 1 => r[q] # k
      <4> SUFFICES ASSUME NEW q \in 1..(n + 1), q # 1
                   PROVE  r[q] # k
        OBVIOUS
      <4>1. q \in 2..(n + 1)
        BY <1>1
      <4> QED
        BY <1>3, <1>4, <4>1
    <3> QED
      BY <1>3, <2>1, <3>1
  <2>2. CASE i # 1 /\ j # 1
    <3>1. i - 1 \in 1..n /\ j - 1 \in 1..n /\ s[i - 1] = s[j - 1]
      BY <1>1, <1>3, <2>2
    <3>2. i - 1 = j - 1
      BY <3>1 DEF Distinct
    <3> QED
      BY <3>2
  <2> QED
    BY <2>1, <2>2
<1>6. InOrder(r, before)
  <2> SUFFICES ASSUME NEW i \in 1..(n + 1), NEW j \in 1..(n + 1), i < j
               PROVE  <<r[j], r[i]>> \in before
    BY <1>1, <1>2 DEF InOrder
  <2>1. j - 1 \in 1..n /\ r[j] = s[j - 1]
    BY <1>1, <1>3
  <2>2. CASE i = 1
    BY <1>3, <1>4, <2>1, <2>2
  <2>3. CASE i # 1
    <3>1. i - 1 \in 1..n /\ r[i] = s[i - 1] /\ i - 1 < j - 1
      BY <1>1, <1>3, <2>3
    <3> QED
      BY <2>1, <3>1 DEF InOrder
  <2> QED
    BY <2>2, <2>3
<1>7. Elements(r) = Elements(s) \cup {k}
  <2>1. ASSUME NEW x \in Elements(r)
        PROVE  x \in Elements(s) \cup {k}
    <3>1. PICK i \in 1..(n + 1) : x = r[i]
      BY <1>1, <1>2 DEF Elements
    <3>2. CASE i = 1
      BY <1>3, <3>1, <3>2
    <3>3. CASE i # 1
      <4>1. i \in 2..(n + 1)
        BY <1>1, <3>3
      <4> QED
        BY <1>3, <1>4, <3>1, <4>1
    <3> QED
      BY <3>2, <3>3
  <2>2. ASSUME NEW x \in Elements(s) \cup {k}
        PROVE  x \in Elements(r)
    <3>1. CASE x = k
      <4>1. 1 \in 1..Len(r) /\ r[1] = x
        BY <1>1, <1>2, <1>3, <3>1
      <4> QED
        BY <4>1 DEF Elements
    <3>2. CASE x \in Elements(s)
      <4>1. PICK q \in 1..n : x = s[q]
        BY <3>2 DEF Elements
      <4>2. q + 1 \in 1..Len(r) /\ r[q + 1] = x
        BY <1>1, <1>2, <1>3, <4>1
      <4> QED
        BY <4>2 DEF Elements
    <3> QED
      BY <3>1, <3>2
  <2> QED
    BY <2>1, <2>2
<1> QED
  BY <1>1, <1>2, <1>5, <1>6, <1>7 DEF r

----------------------------------------------------------------------------
(* The list is in the order of use and within the size.                    *)
ListInv ==
    /\ InOrder(lru, usedBefore)
    /\ maxSize > 0 => Len(lru) <= maxSize

(* The time an entry with expiry time t is served for from now on.         *)
Remaining(t) ==
    IF t = Never THEN Forever ELSE IF now > t THEN 0 ELSE t - now + 1

(* It is what is left of the time the latest Set asked for.                *)
TtlInv == \A k \in Present : left[k] = Remaining(items[k].expireAt)

IInv == TypeOK /\ ListMatchesMap /\ ListInv /\ TtlInv

Entry == [value : Body, expireAt : Nat]

(* An entry is not the absence of one: its value is a body.                *)
LEMMA EntryPresent ==
    ASSUME NEW b \in Body, NEW ttl \in TTL, now \in Nat
    PROVE  /\ ExpireAt(ttl) \in Nat
           /\ [value |-> b, expireAt |-> ExpireAt(ttl)] \in Entry
           /\ [value |-> b, expireAt |-> ExpireAt(ttl)] # Absent
<1>1. ExpireAt(ttl) \in Nat
  BY CacheAssumption DEF ExpireAt, Never
<1>2. b # NoBody
  BY CacheAssumption
<1> QED
  BY <1>1, <1>2 DEF Entry, Absent

(* A step that neither stores an entry nor takes time keeps what is left.  *)
LEMMA TtlKept ==
    ASSUME TtlInv, UNCHANGED now,
           \A j \in Present' : /\ j \in Present
                              /\ items'[j] = items[j] /\ left'[j] = left[j]
    PROVE  TtlInv'
  BY DEF TtlInv, Remaining

(* The entry just stored is served for the time its Set asks for.          *)
LEMMA TtlPromised ==
    ASSUME TypeOK, TtlInv, UNCHANGED now,
           NEW k \in Key, NEW b \in Body, NEW ttl \in TTL, Promise(k, ttl),
           items'[k] = [value |-> b, expireAt |-> ExpireAt(ttl)],
           \A j \in Present' \ {k} : j \in Present /\ items'[j] = items[j]
    PROVE  left' \in [Key -> Nat \cup {Forever}] /\ TtlInv'
<1> DEFINE t == IF ttl = 0 THEN defaultTTL ELSE ttl
<1>1. now \in Nat \ {0} /\ left \in [Key -> Nat \cup {Forever}] /\ t \in Int
  BY CacheAssumption DEF TypeOK
<1>2. left' = [left EXCEPT ![k] = IF t > 0 THEN t + 1 ELSE Forever]
  BY DEF Promise
<1>3. ExpireAt(ttl) = IF t > 0 THEN now + t ELSE Never
  BY DEF ExpireAt
<1> HIDE DEF t
<1>4. left' \in [Key -> Nat \cup {Forever}]
  BY <1>1, <1>2
<1>5. ASSUME NEW j \in Present'
      PROVE  left'[j] = Remaining(items'[j].expireAt)
  <2>1. CASE j = k
    <3>1. items'[j].expireAt = ExpireAt(ttl)
      BY <2>1
    <3>2. left'[j] = IF t > 0 THEN t + 1 ELSE Forever
      BY <1>1, <1>2, <2>1
    <3> QED
      BY <1>1, <1>3, <3>1, <3>2 DEF Remaining, Never
  <2>2. CASE j # k
    <3>1. j \in Present /\ items'[j] = items[j] /\ left'[j] = left[j]
      BY <1>1, <1>2, <1>5, <2>2 DEF Present
    <3> QED
      BY <3>1 DEF TtlInv
  <2> QED
    BY <2>1, <2>2
<1> QED
  BY <1>4, <1>5 DEF TtlInv, Remaining

(* The key used now goes before the others, whose order is not affected.   *)
LEMMA MarkUsedFront ==
    ASSUME NEW s \in Seq(Key), Distinct(s), NEW k \in Key, k \notin Elements(s),
           InOrder(s, usedBefore), usedBefore \subseteq Key \X Key, MarkUsed(k)
    PROVE  LET r == <<k>> \o s IN
           /\ usedBefore' \subseteq Key \X Key
           /\ r \in Seq(Key) /\ Len(r) = Len(s) + 1
           /\ Elements(r) = Elements(s) \cup {k}
           /\ Distinct(r) /\ InOrder(r, usedBefore')
<1>1. usedBefore' = {p \in usedBefore : p[1] # k} \cup ((Key \ {k}) \X {k})
  BY DEF MarkUsed
<1>2. \A i \in 1..Len(s) : s[i] \in Elements(s) /\ s[i] \in Key /\ s[i] # k
  BY ElementOfSeq DEF Elements
<1>3. InOrder(s, usedBefore')
  <2> SUFFICES ASSUME NEW i \in 1..Len(s), NEW j \in 1..Len(s), i < j
               PROVE  <<s[j], s[i]>> \in usedBefore'
    BY DEF InOrder
  <2>1. <<s[j], s[i]>> \in usedBefore /\ s[j] # k
    BY <1>2 DEF InOrder
  <2>2. <<s[j], s[i]>>[1] = s[j]
    OBVIOUS
  <2> QED
    BY <1>1, <2>1, <2>2
<1>4. \A x \in Elements(s) : <<x, k>> \in usedBefore'
  BY <1>1, <1>2 DEF Elements
<1>5. usedBefore' \subseteq Key \X Key
  BY <1>1
<1> QED
  BY <1>3, <1>4, <1>5, PushFrontFacts

(* ListMatchesMap in terms of the operators above.                         *)
LEMMA ListMatches ==
    ListMatchesMap <=> Elements(lru) = Present /\ Distinct(lru)
  BY DEF ListMatchesMap, Elements, Distinct

(* A hit, and a Set of a stored key: its element goes to the front.        *)
LEMMA UseInv ==
    ASSUME IInv, NEW k \in Present, lru' = MoveToFront(lru, k), MarkUsed(k),
           Present' = Present
    PROVE  /\ lru' \in Seq(Key) /\ usedBefore' \subseteq Key \X Key
           /\ ListMatchesMap' /\ ListInv'
<1>1. /\ lru \in Seq(Key) /\ Distinct(lru) /\ Elements(lru) = Present
      /\ InOrder(lru, usedBefore) /\ usedBefore \subseteq Key \X Key
      /\ Len(lru) \in Nat /\ maxSize > 0 => Len(lru) <= maxSize
      /\ k \in Key /\ k \in Elements(lru)
  BY ListMatches, LenProperties DEF IInv, TypeOK, ListInv, Present
<1> DEFINE s == RemoveFirst(lru, k)
<1>2. /\ s \in Seq(Key) /\ Len(s) = Len(lru) - 1 /\ Elements(s) = Present \ {k}
      /\ Distinct(s) /\ InOrder(s, usedBefore)
  BY <1>1, RemoveFacts
<1> HIDE DEF s
<1>3. lru' = <<k>> \o s
  BY DEF MoveToFront, s
<1>4. /\ usedBefore' \subseteq Key \X Key
      /\ lru' \in Seq(Key) /\ Len(lru') = Len(s) + 1
      /\ Elements(lru') = (Present \ {k}) \cup {k}
      /\ Distinct(lru') /\ InOrder(lru', usedBefore')
  <2>1. k \notin Elements(s)
    BY <1>2
  <2> QED
    BY <1>1, <1>2, <1>3, <2>1, MarkUsedFront
<1>5. ListMatchesMap'
  BY <1>4 DEF ListMatchesMap, Elements, Distinct
<1>6. ListInv'
  BY <1>1, <1>2, <1>4 DEF ListInv
<1> QED
  BY <1>4, <1>5, <1>6

(* removeEntry: the entry and its element go together.                     *)
LEMMA RemoveInv ==
    ASSUME IInv, NEW k \in Present, removeEntry(k), UNCHANGED usedBefore
    PROVE  /\ items' \in [Key -> Entry \cup {Absent}]
           /\ Present' = Present \ {k}
           /\ lru' \in Seq(Key)
           /\ ListMatchesMap' /\ ListInv'
<1>1. /\ lru \in Seq(Key) /\ Distinct(lru) /\ Elements(lru) = Present
      /\ InOrder(lru, usedBefore) /\ items \in [Key -> Entry \cup {Absent}]
      /\ Len(lru) \in Nat /\ maxSize > 0 => Len(lru) <= maxSize
      /\ k \in Key /\ k \in Elements(lru)
  BY ListMatches, LenProperties DEF IInv, TypeOK, ListInv, Present, Entry
<1>2. /\ lru' \in Seq(Key) /\ Len(lru') = Len(lru) - 1
      /\ Elements(lru') = Present \ {k}
      /\ Distinct(lru') /\ InOrder(lru', usedBefore)
  BY <1>1, RemoveFacts DEF removeEntry
<1>3. items' \in [Key -> Entry \cup {Absent}] /\ Present' = Present \ {k}
  BY <1>1 DEF removeEntry, Present
<1>4. ListMatchesMap'
  BY <1>2, <1>3 DEF ListMatchesMap, Elements, Distinct
<1>5. ListInv'
  BY <1>1, <1>2, CacheAssumption DEF ListInv
<1> QED
  BY <1>2, <1>3, <1>4, <1>5

(* A Set of a new key: at most the least recently used entry goes, the     *)
(* last of the list, and the new one comes to the front.                   *)
LEMMA SetNewEffect ==
    ASSUME IInv, NEW k \in Key, NEW b \in Body, NEW ttl \in TTL, SetNew(k, b, ttl)
    PROVE  /\ items' \in [Key -> Entry \cup {Absent}]
           /\ usedBefore' \subseteq Key \X Key
           /\ k \notin Present
           /\ Evicting => /\ Evicted \in Present
                          /\ \A x \in Present \ {Evicted} : <<Evicted, x>> \in usedBefore
           /\ Present' = (IF Evicting THEN Present \ {Evicted} ELSE Present) \cup {k}
           /\ items' = [j \in Key |->
                          IF j = k THEN [value |-> b, expireAt |-> ExpireAt(ttl)]
                          ELSE IF Evicting /\ j = Evicted THEN Absent ELSE items[j]]
           /\ lru' \in Seq(Key)
           /\ ListMatchesMap' /\ ListInv'
<1> DEFINE n == Len(lru)
           e == [value |-> b, expireAt |-> ExpireAt(ttl)]
           keptItems == IF Evicting THEN [items EXCEPT ![Evicted] = Absent] ELSE items
           keptKeys == IF Evicting THEN RemoveFirst(lru, Evicted) ELSE lru
           kept == IF Evicting THEN Present \ {Evicted} ELSE Present
<1>1. /\ lru \in Seq(Key) /\ Distinct(lru) /\ Elements(lru) = Present
      /\ InOrder(lru, usedBefore) /\ items \in [Key -> Entry \cup {Absent}]
      /\ usedBefore \subseteq Key \X Key
      /\ n \in Nat /\ (maxSize > 0 => n <= maxSize)
      /\ now \in Nat
  BY ListMatches, LenProperties DEF IInv, TypeOK, ListInv, Present, Entry
<1>2. e \in Entry /\ e # Absent
  BY <1>1, EntryPresent
<1>3. /\ items[k] = Absent /\ items' = [keptItems EXCEPT ![k] = e]
      /\ lru' = <<k>> \o keptKeys /\ MarkUsed(k)
  BY DEF SetNew
<1>4. k \notin Present
  BY <1>3 DEF Present
<1>5. Evicting => /\ Evicted \in Present /\ Evicted \in Key /\ n >= 1 /\ Evicted = lru[n]
                  /\ \A x \in Present \ {Evicted} : <<Evicted, x>> \in usedBefore
  <2> SUFFICES ASSUME Evicting
               PROVE  /\ Evicted \in Present /\ Evicted \in Key /\ n >= 1
                      /\ Evicted = lru[n]
                      /\ \A x \in Present \ {Evicted} : <<Evicted, x>> \in usedBefore
    OBVIOUS
  <2>1. n >= 1 /\ n \in 1..n /\ Evicted = lru[n]
    BY <1>1, CacheAssumption DEF Evicting, Evicted, Last
  <2>2. Evicted \in Present /\ Evicted \in Key
    BY <1>1, <2>1 DEF Elements, Present
  <2>3. ASSUME NEW x \in Present \ {Evicted}
        PROVE  <<Evicted, x>> \in usedBefore
    <3>1. PICK i \in 1..n : x = lru[i]
      BY <1>1 DEF Elements
    <3>2. i < n
      BY <1>1, <2>1, <2>3, <3>1
    <3> QED
      BY <1>1, <2>1, <3>1, <3>2 DEF InOrder
  <2> QED
    BY <2>1, <2>2, <2>3
<1>6. /\ keptKeys \in Seq(Key) /\ Elements(keptKeys) = kept
      /\ Len(keptKeys) = IF Evicting THEN n - 1 ELSE n
      /\ Distinct(keptKeys) /\ InOrder(keptKeys, usedBefore)
  BY <1>1, <1>5, RemoveFacts
<1> HIDE DEF e, keptKeys
<1>7. /\ usedBefore' \subseteq Key \X Key
      /\ lru' \in Seq(Key) /\ Len(lru') = Len(keptKeys) + 1
      /\ Elements(lru') = kept \cup {k}
      /\ Distinct(lru') /\ InOrder(lru', usedBefore')
  <2>1. k \notin Elements(keptKeys)
    BY <1>4, <1>6
  <2> QED
    BY <1>1, <1>3, <1>6, <2>1, MarkUsedFront
<1>8. items' = [j \in Key |-> IF j = k THEN e
                              ELSE IF Evicting /\ j = Evicted THEN Absent ELSE items[j]]
  BY <1>1, <1>3
<1>9. /\ items' \in [Key -> Entry \cup {Absent}]
      /\ Present' = kept \cup {k}
  BY <1>1, <1>2, <1>5, <1>8 DEF Present
<1> HIDE DEF kept
<1>10. ListMatchesMap'
  BY <1>7, <1>9 DEF ListMatchesMap, Elements, Distinct
<1>11. ListInv'
  <2>1. maxSize > 0 => Len(lru') <= maxSize
    BY <1>1, <1>6, <1>7, CacheAssumption DEF Evicting
  <2> QED
    BY <1>7, <2>1 DEF ListInv
<1> QED
  BY <1>4, <1>5, <1>7, <1>8, <1>9, <1>10, <1>11 DEF e, kept

----------------------------------------------------------------------------
(* The list and the map agree, the list is in the order of use, and it is  *)
(* never longer than a positive maxSize: the inductive invariant.          *)
THEOREM CacheInvariant == Spec => []IInv
<1>1. Init => IInv
  <2> SUFFICES ASSUME Init
               PROVE  IInv
    OBVIOUS
  <2>1. lru = <<>> /\ lru \in Seq(Key) /\ Len(lru) = 0 /\ 1..Len(lru) = {}
    BY DEF Init
  <2>2. TypeOK
    BY <2>1 DEF Init, TypeOK
  <2>3. ListMatchesMap
    BY <2>1 DEF Init, ListMatchesMap, Present
  <2>4. ListInv
    BY <2>1, CacheAssumption DEF ListInv, InOrder
  <2>5. TtlInv
    BY DEF Init, TtlInv, Present
  <2> QED
    BY <2>2, <2>3, <2>4, <2>5 DEF IInv
<1>2. IInv /\ [Next]_vars => IInv'
  <2> SUFFICES ASSUME IInv, [Next]_vars
               PROVE  IInv'
    OBVIOUS
  <2> USE DEF Entry
  <2>0. /\ items \in [Key -> Entry \cup {Absent}] /\ lru \in Seq(Key)
        /\ now \in Nat /\ now # 0 /\ answer \in Body \cup {NoBody}
        /\ stored \in [Key -> Body \cup {NoBody}] /\ usedBefore \subseteq Key \X Key
        /\ left \in [Key -> Nat \cup {Forever}]
    BY DEF IInv, TypeOK
  <2>1. ASSUME NEW k \in Key, GetMiss(k)
        PROVE  IInv'
    BY <2>1 DEF GetMiss, IInv, TypeOK, ListMatchesMap, ListInv, TtlInv, Remaining, Present
  <2>2. ASSUME NEW k \in Key, GetExpired(k)
        PROVE  IInv'
    <3>1. k \in Present /\ removeEntry(k) /\ UNCHANGED usedBefore
      BY <2>2 DEF GetExpired, Present
    <3>2. /\ items' \in [Key -> Entry \cup {Absent}] /\ lru' \in Seq(Key)
          /\ ListMatchesMap' /\ ListInv'
      BY <3>1, RemoveInv
    <3>3. TtlInv'
      <4>1. \A j \in Present' : j \in Present /\ items'[j] = items[j]
        BY <2>0, <3>1 DEF removeEntry, Present
      <4> QED
        BY <2>2, <4>1, TtlKept DEF GetExpired, IInv
    <3> QED
      BY <2>0, <2>2, <3>2, <3>3 DEF GetExpired, IInv, TypeOK
  <2>3. ASSUME NEW k \in Key, GetHit(k)
        PROVE  IInv'
    <3>1. k \in Present /\ lru' = MoveToFront(lru, k) /\ MarkUsed(k) /\ Present' = Present
      BY <2>3 DEF GetHit, Live, Present
    <3>2. /\ lru' \in Seq(Key) /\ usedBefore' \subseteq Key \X Key
          /\ ListMatchesMap' /\ ListInv'
      BY <3>1, UseInv
    <3>3. answer' \in Body
      <4>1. items[k] \in Entry
        BY <2>0, <3>1 DEF Present
      <4> QED
        BY <2>3, <4>1 DEF GetHit
    <3>4. TtlInv'
      BY <2>3, <3>1, TtlKept DEF GetHit, IInv
    <3> QED
      BY <2>0, <2>3, <3>2, <3>3, <3>4 DEF GetHit, IInv, TypeOK
  <2>4. ASSUME NEW k \in Key, Delete(k)
        PROVE  IInv'
    <3>1. stored' \in [Key -> Body \cup {NoBody}] /\ UNCHANGED <<now, answer, usedBefore>>
      BY <2>0, <2>4 DEF Delete
    <3>2. /\ items' \in [Key -> Entry \cup {Absent}] /\ lru' \in Seq(Key)
          /\ ListMatchesMap' /\ ListInv'
      <4>1. CASE items[k] # Absent
        BY <2>4, <3>1, <4>1, RemoveInv DEF Delete, Present
      <4>2. CASE items[k] = Absent
        BY <2>0, <2>4, <3>1, <4>2 DEF Delete, IInv, ListMatchesMap, ListInv, Present
      <4> QED
        BY <4>1, <4>2
    <3>3. left' = [left EXCEPT ![k] = 0]
      BY <2>4 DEF Delete
    <3>4. TtlInv'
      <4>1. \A j \in Present' : j # k /\ j \in Present /\ items'[j] = items[j]
        BY <2>0, <2>4 DEF Delete, removeEntry, Present
      <4>2. \A j \in Present' : left'[j] = left[j]
        BY <2>0, <3>3, <4>1 DEF Present
      <4> QED
        BY <3>1, <4>1, <4>2, TtlKept DEF IInv
    <3>5. left' \in [Key -> Nat \cup {Forever}]
      BY <2>0, <3>3
    <3> QED
      BY <2>0, <3>1, <3>2, <3>4, <3>5 DEF IInv, TypeOK
  <2>5. ASSUME NEW k \in Key, NEW b \in Body, NEW ttl \in TTL, SetExisting(k, b, ttl)
        PROVE  IInv'
    <3> DEFINE e == [value |-> b, expireAt |-> ExpireAt(ttl)]
    <3>1. e \in Entry /\ e # Absent
      BY <2>0, EntryPresent
    <3>2. /\ items[k] # Absent /\ items' = [items EXCEPT ![k] = e]
          /\ lru' = MoveToFront(lru, k) /\ MarkUsed(k)
          /\ stored' = [stored EXCEPT ![k] = b] /\ UNCHANGED <<now, answer>>
      BY <2>5 DEF SetExisting
    <3> HIDE DEF e
    <3>3. items' \in [Key -> Entry \cup {Absent}] /\ k \in Present /\ Present' = Present
      BY <2>0, <3>1, <3>2 DEF Present
    <3>4. /\ lru' \in Seq(Key) /\ usedBefore' \subseteq Key \X Key
          /\ ListMatchesMap' /\ ListInv'
      BY <3>2, <3>3, UseInv
    <3>5. stored' \in [Key -> Body \cup {NoBody}]
      BY <2>0, <3>2
    <3>6. left' \in [Key -> Nat \cup {Forever}] /\ TtlInv'
      <4>1. items'[k] = e /\ \A j \in Present' \ {k} : j \in Present /\ items'[j] = items[j]
        BY <2>0, <3>2, <3>3 DEF Present
      <4>2. Promise(k, ttl)
        BY <2>5 DEF SetExisting
      <4> QED
        BY <3>2, <4>1, <4>2, TtlPromised DEF IInv, e
    <3> QED
      BY <2>0, <3>2, <3>3, <3>4, <3>5, <3>6 DEF IInv, TypeOK
  <2>6. ASSUME NEW k \in Key, NEW b \in Body, NEW ttl \in TTL, SetNew(k, b, ttl)
        PROVE  IInv'
    <3>1. stored' \in [Key -> Body \cup {NoBody}] /\ UNCHANGED <<now, answer>>
      BY <2>0, <2>6 DEF SetNew
    <3>2. /\ items' \in [Key -> Entry \cup {Absent}]
          /\ usedBefore' \subseteq Key \X Key /\ lru' \in Seq(Key)
          /\ ListMatchesMap' /\ ListInv'
      BY <2>6, SetNewEffect
    <3>3. left' \in [Key -> Nat \cup {Forever}] /\ TtlInv'
      <4>1. items' = [j \in Key |->
                        IF j = k THEN [value |-> b, expireAt |-> ExpireAt(ttl)]
                        ELSE IF Evicting /\ j = Evicted THEN Absent ELSE items[j]]
        BY <2>6, SetNewEffect
      <4>2. items'[k] = [value |-> b, expireAt |-> ExpireAt(ttl)]
        BY <4>1
      <4>3. \A j \in Present' \ {k} : j \in Present /\ items'[j] = items[j]
        BY <4>1 DEF Present
      <4>4. Promise(k, ttl)
        BY <2>6 DEF SetNew
      <4> QED
        BY <3>1, <4>2, <4>3, <4>4, TtlPromised DEF IInv
    <3> QED
      BY <2>0, <3>1, <3>2, <3>3 DEF IInv, TypeOK
  <2>7. CASE Tick
    <3>1. now' = now + 1 /\ UNCHANGED <<items, lru, answer, stored, usedBefore>>
      BY <2>7 DEF Tick
    <3>2. left' = [k \in Key |-> IF left[k] \in {0, Forever} THEN left[k] ELSE left[k] - 1]
      BY <2>7 DEF Tick
    <3>3. left' \in [Key -> Nat \cup {Forever}]
      BY <2>0, <3>2
    <3>4. ASSUME NEW k \in Present'
          PROVE  (left[k] = Remaining(items[k].expireAt))'
      <4>1. k \in Key /\ k \in Present /\ items'[k].expireAt = items[k].expireAt
        BY <3>1, <3>4 DEF Present
      <4>2. items[k].expireAt \in Nat /\ left[k] = Remaining(items[k].expireAt)
        BY <2>0, <4>1 DEF IInv, TtlInv, Present
      <4> DEFINE t == items[k].expireAt
      <4>3. left'[k] = IF left[k] \in {0, Forever} THEN left[k] ELSE left[k] - 1
        BY <3>2, <4>1
      <4> HIDE DEF t
      <4>4. left'[k] = IF t = Never THEN Forever ELSE IF now' > t THEN 0 ELSE t - now' + 1
        BY <2>0, <3>1, <4>2, <4>3 DEF Remaining, Never, Forever, t
      <4> QED
        BY <4>1, <4>4 DEF Remaining, t
    <3>5. TtlInv'
      BY <3>4 DEF TtlInv
    <3>6. now' \in Nat \ {0}
      BY <2>0, <3>1
    <3> QED
      BY <2>0, <3>1, <3>3, <3>5, <3>6 DEF IInv, TypeOK, ListMatchesMap, ListInv, Present
  <2>8. CASE UNCHANGED vars
    BY <2>8 DEF vars, IInv, TypeOK, ListMatchesMap, ListInv, TtlInv, Remaining, Present
  <2> QED
    BY <2>1, <2>2, <2>3, <2>4, <2>5, <2>6, <2>7, <2>8 DEF Next
<1> QED
  BY <1>1, <1>2, PTL DEF Spec

(* Entries are bodies with an expiry time, listed by key.                  *)
THEOREM TypeCorrect == Spec => []TypeOK
  BY CacheInvariant, PTL DEF IInv

(* No call leaks a list element or leaves an entry that evictLRU cannot    *)
(* reach.                                                                  *)
THEOREM ListMatchesMapAlways == Spec => []ListMatchesMap
  BY CacheInvariant, PTL DEF IInv

(* A bounded cache holds at most maxSize entries after every call: the     *)
(* list, which has one element per entry, is never longer.                 *)
THEOREM SizeBoundAlways == Spec => []SizeBound
<1>1. IInv => SizeBound
  <2> SUFFICES ASSUME IInv, maxSize > 0
               PROVE  Cardinality(Present) <= maxSize
    BY DEF SizeBound
  <2>1. /\ lru \in Seq(Key) /\ Elements(lru) = Present /\ Len(lru) \in Nat
        /\ Len(lru) <= maxSize
    BY ListMatches, LenProperties DEF IInv, TypeOK, ListInv
  <2>2. lru \in Surjection(1..Len(lru), Present)
    BY <2>1 DEF Surjection, Elements
  <2>3. Cardinality(Present) <= Len(lru)
    BY <2>1, <2>2, FS_SurjCardinalityBound DEF ExistsSurjection
  <2>4. Cardinality(Present) \in Nat
    <3>1. IsFiniteSet(1..Len(lru))
      BY <2>1, FS_Interval
    <3>2. IsFiniteSet(Present)
      BY <2>2, <3>1, FS_Surjection
    <3> QED
      BY <3>2, FS_CardinalityType
  <2> QED
    BY <2>1, <2>3, <2>4, CacheAssumption
<1> QED
  BY <1>1, CacheInvariant, PTL

(* An entry is served for exactly as long as its latest Set asked, the ttl *)
(* of an entry that was overwritten notwithstanding.                       *)
THEOREM TtlHonouredAlways == Spec => []TtlHonoured
<1>1. IInv => TtlHonoured
  <2> SUFFICES ASSUME IInv, NEW k \in Present
               PROVE  Live(k) <=> left[k] # 0
    BY DEF TtlHonoured
  <2> DEFINE t == items[k].expireAt
  <2>1. /\ now \in Nat /\ t \in Nat
        /\ left[k] = IF t = Never THEN Forever ELSE IF now > t THEN 0 ELSE t - now + 1
    BY DEF IInv, TypeOK, TtlInv, Remaining, Present
  <2>2. Live(k) <=> ~(t # Never /\ now > t)
    BY DEF Live, Expired, Present
  <2> HIDE DEF t
  <2> QED
    BY <2>1, <2>2 DEF Never, Forever
<1> QED
  BY <1>1, CacheInvariant, PTL

----------------------------------------------------------------------------
(* What a step does to the stored keys, other than a Set of a new one.     *)
LEMMA OtherStepsAddNothing ==
    ASSUME IInv, NEW k \in Key,
           \/ GetMiss(k) \/ GetExpired(k) \/ GetHit(k) \/ Delete(k) \/ Tick
           \/ \E b \in Body, ttl \in TTL : SetExisting(k, b, ttl)
    PROVE  Present' \subseteq Present
<1>1. items \in [Key -> Entry \cup {Absent}]
  BY DEF IInv, TypeOK, Entry
<1>2. CASE GetMiss(k) \/ GetHit(k) \/ Tick
  BY <1>2 DEF GetMiss, GetHit, Tick, Present
<1>3. CASE GetExpired(k) \/ Delete(k)
  BY <1>1, <1>3 DEF GetExpired, Delete, removeEntry, Present
<1>4. CASE \E b \in Body, ttl \in TTL : SetExisting(k, b, ttl)
  BY <1>1, <1>4 DEF SetExisting, Present
<1> QED
  BY <1>2, <1>3, <1>4

(* evictLRU gives up one entry at most, the one unused for longest.        *)
THEOREM EvictsLeastRecentAlways == Spec => EvictsLeastRecent
<1> DEFINE A == \A k \in Key : k \notin Present /\ k \in Present' =>
                  \A gone \in Present \ Present', stays \in Present \cap Present' :
                      /\ <<gone, stays>> \in usedBefore
                      /\ Present \ Present' = {gone}
<1>1. IInv /\ [Next]_vars => [A]_vars
  <2> SUFFICES ASSUME IInv, Next
               PROVE  A
    OBVIOUS
  <2>1. ASSUME NEW k \in Key, NEW b \in Body, NEW ttl \in TTL, SetNew(k, b, ttl)
        PROVE  A
    <3>1. /\ k \notin Present
          /\ Evicting => \A x \in Present \ {Evicted} : <<Evicted, x>> \in usedBefore
          /\ Present' = (IF Evicting THEN Present \ {Evicted} ELSE Present) \cup {k}
          /\ Evicting => Evicted \in Present
      BY <2>1, SetNewEffect
    <3> QED
      BY <3>1
  <2>2. ASSUME NEW k \in Key,
               \/ GetMiss(k) \/ GetExpired(k) \/ GetHit(k) \/ Delete(k) \/ Tick
               \/ \E b \in Body, ttl \in TTL : SetExisting(k, b, ttl)
        PROVE  A
    <3>1. Present' \subseteq Present
      BY <2>2, OtherStepsAddNothing
    <3> QED
      BY <3>1
  <2>3. CASE Tick
    BY <2>3 DEF Tick, Present
  <2> QED
    BY <2>1, <2>2, <2>3 DEF Next
<1>2. [][A]_vars => EvictsLeastRecent
  BY DEF EvictsLeastRecent
<1> HIDE DEF A
<1> QED
  BY <1>1, <1>2, CacheInvariant, PTL DEF Spec

----------------------------------------------------------------------------
(* What a Get of each key would answer.                                    *)
Copy == [k \in Key |-> IF Live(k) THEN items[k].value ELSE NoBody]

(* A step that leaves an entry and the clock alone leaves its answer.      *)
LEMMA CopyStep ==
    ASSUME UNCHANGED now, NEW K \in SUBSET Key, \A j \in Key \ K : items'[j] = items[j]
    PROVE  \A j \in Key \ K : Copy'[j] = Copy[j]
  BY DEF Copy, Live, Expired

(* The body just stored can be read: its expiry time is not in the past.   *)
LEMMA StoredIsLive ==
    ASSUME NEW k \in Key, NEW b \in Body, NEW ttl \in TTL, now \in Nat, UNCHANGED now,
           items'[k] = [value |-> b, expireAt |-> ExpireAt(ttl)]
    PROVE  Copy'[k] = b
<1> DEFINE e == [value |-> b, expireAt |-> ExpireAt(ttl)]
<1>1. e # Absent /\ ExpireAt(ttl) \in Nat
  BY EntryPresent
<1>2. ExpireAt(ttl) = Never \/ ~(now > ExpireAt(ttl))
  BY CacheAssumption DEF ExpireAt
<1>3. e.value = b /\ e.expireAt = ExpireAt(ttl)
  OBVIOUS
<1> HIDE DEF e
<1>4. items'[k] = e
  BY DEF e
<1>5. Live(k)'
  BY <1>1, <1>2, <1>3, <1>4 DEF Live, Expired
<1> QED
  BY <1>3, <1>4, <1>5 DEF Copy

(* A key without an entry is a miss.                                       *)
LEMMA AbsentIsMiss ==
    ASSUME NEW k \in Key
    PROVE  /\ items[k] = Absent => Copy[k] = NoBody
           /\ items'[k] = Absent => Copy'[k] = NoBody
  BY DEF Copy, Live

(* The memory cache is a Cache: each of its calls is the call of the       *)
(* contract, and what eviction and the passing of time remove is what the  *)
(* contract lets vanish.                                                   *)
THEOREM CacheImplementsContract == Spec => ImplementsContract
<1>1. Init => Contract!Init
  <2> SUFFICES ASSUME Init
               PROVE  Contract!Init
    OBVIOUS
  <2>1. \A k \in Key : ~Live(k)
    BY DEF Init, Live
  <2> QED
    BY <2>1 DEF Init, Contract!Init
<1>2. IInv /\ [Next]_vars => [Contract!Next]_Contract!vars
  <2> SUFFICES ASSUME IInv, [Next]_vars
               PROVE  Contract!Next \/ UNCHANGED <<stored, Copy, answer>>
    BY DEF Contract!vars, Copy
  <2>0. /\ items \in [Key -> Entry \cup {Absent}] /\ now \in Nat
        /\ stored \in [Key -> Body \cup {NoBody}]
    BY DEF IInv, TypeOK, Entry
  <2>a. /\ Copy = [j \in Key |-> Copy[j]] /\ Copy' = [j \in Key |-> Copy'[j]]
    BY DEF Copy
  <2>b. \A k \in Key : Contract!Get(k) <=>
          answer' = Copy[k] /\ UNCHANGED <<stored, Copy>>
    BY DEF Contract!Get, Copy
  <2>c. \A k \in Key : Contract!Delete(k) <=>
          /\ stored' = [stored EXCEPT ![k] = NoBody]
          /\ Copy' = [Copy EXCEPT ![k] = NoBody]
          /\ UNCHANGED answer
    BY DEF Contract!Delete, Copy
  <2>d. \A k \in Key, b \in Body : Contract!Set(k, b) <=>
          /\ stored' = [stored EXCEPT ![k] = b]
          /\ \E gone \in SUBSET (Key \ {k}) :
                Copy' = [j \in Key |-> IF j = k THEN b
                                       ELSE IF j \in gone THEN NoBody ELSE Copy[j]]
          /\ UNCHANGED answer
    BY DEF Contract!Set, Copy
  <2>e. Contract!Vanish <=>
          /\ \E gone \in SUBSET Key :
                Copy' = [j \in Key |-> IF j \in gone THEN NoBody ELSE Copy[j]]
          /\ UNCHANGED <<stored, answer>>
    BY DEF Contract!Vanish, Copy
  <2>1. ASSUME NEW k \in Key, GetMiss(k)
        PROVE  Contract!Get(k)
    <3>1. Copy' = Copy
      BY <2>1 DEF GetMiss, Copy, Live, Expired
    <3> QED
      BY <2>1, <2>b, <3>1, AbsentIsMiss DEF GetMiss
  <2>2. ASSUME NEW k \in Key, GetExpired(k)
        PROVE  Contract!Get(k)
    <3>1. Copy[k] = NoBody
      BY <2>2 DEF GetExpired, Copy, Live
    <3>2. items'[k] = Absent /\ \A j \in Key \ {k} : items'[j] = items[j]
      BY <2>0, <2>2 DEF GetExpired, removeEntry
    <3>3. \A j \in Key : Copy'[j] = Copy[j]
      BY <2>2, <3>1, <3>2, AbsentIsMiss, CopyStep DEF GetExpired
    <3>4. Copy' = Copy
      BY <2>a, <3>3
    <3> QED
      BY <2>2, <2>b, <3>1, <3>4 DEF GetExpired
  <2>3. ASSUME NEW k \in Key, GetHit(k)
        PROVE  Contract!Get(k)
    <3>1. Copy' = Copy
      BY <2>3 DEF GetHit, Copy, Live, Expired
    <3>2. answer' = Copy[k]
      BY <2>3 DEF GetHit, Copy
    <3> QED
      BY <2>3, <2>b, <3>1, <3>2 DEF GetHit
  <2>4. ASSUME NEW k \in Key, Delete(k)
        PROVE  Contract!Delete(k)
    <3>1. items'[k] = Absent /\ \A j \in Key \ {k} : items'[j] = items[j]
      BY <2>0, <2>4 DEF Delete, removeEntry
    <3>2. \A j \in Key : Copy'[j] = IF j = k THEN NoBody ELSE Copy[j]
      BY <2>4, <3>1, AbsentIsMiss, CopyStep DEF Delete
    <3>3. Copy' = [Copy EXCEPT ![k] = NoBody]
      BY <2>a, <3>2
    <3> QED
      BY <2>4, <2>c, <3>3 DEF Delete
  <2>5. ASSUME NEW k \in Key, NEW b \in Body, NEW ttl \in TTL,
               SetExisting(k, b, ttl) \/ SetNew(k, b, ttl)
        PROVE  Contract!Set(k, b)
    <3>1. /\ stored' = [stored EXCEPT ![k] = b] /\ UNCHANGED <<now, answer>>
      BY <2>5 DEF SetExisting, SetNew
    <3>2. PICK gone \in SUBSET (Key \ {k}) :
            \A j \in Key : items'[j] =
              IF j = k THEN [value |-> b, expireAt |-> ExpireAt(ttl)]
              ELSE IF j \in gone THEN Absent ELSE items[j]
      <4>1. CASE SetExisting(k, b, ttl)
        <5>1. \A j \in Key : items'[j] =
                IF j = k THEN [value |-> b, expireAt |-> ExpireAt(ttl)]
                ELSE IF j \in {} THEN Absent ELSE items[j]
          BY <2>0, <4>1 DEF SetExisting
        <5>2. {} \in SUBSET (Key \ {k})
          OBVIOUS
        <5> QED
          BY <5>1, <5>2, Zenon
      <4>2. CASE SetNew(k, b, ttl)
        <5> DEFINE gone == {j \in Key \ {k} : Evicting /\ j = Evicted}
        <5>1. \A j \in Key : items'[j] =
                IF j = k THEN [value |-> b, expireAt |-> ExpireAt(ttl)]
                ELSE IF j \in gone THEN Absent ELSE items[j]
          BY <4>2, SetNewEffect
        <5>2. gone \in SUBSET (Key \ {k})
          OBVIOUS
        <5> HIDE DEF gone
        <5> QED
          BY <5>1, <5>2
      <4> QED
        BY <2>5, <4>1, <4>2
    <3>3. Copy'[k] = b
      BY <2>0, <3>1, <3>2, StoredIsLive
    <3>4. \A j \in gone : Copy'[j] = NoBody
      BY <3>2, AbsentIsMiss
    <3>5. \A j \in Key \ (gone \cup {k}) : Copy'[j] = Copy[j]
      <4>1. /\ gone \cup {k} \in SUBSET Key
            /\ \A j \in Key \ (gone \cup {k}) : items'[j] = items[j]
        BY <3>2
      <4> QED
        BY <3>1, <4>1, CopyStep
    <3>6. Copy' = [j \in Key |-> IF j = k THEN b
                                 ELSE IF j \in gone THEN NoBody ELSE Copy[j]]
      BY <2>a, <3>3, <3>4, <3>5
    <3> QED
      BY <2>d, <3>1, <3>6
  <2>6. CASE Tick
    <3> DEFINE gone == {j \in Key : ~Live(j)'}
    <3>1. now' = now + 1 /\ UNCHANGED <<items, answer, stored>>
      BY <2>6 DEF Tick
    <3>2. \A j \in Key \ gone : Copy'[j] = Copy[j]
      <4> SUFFICES ASSUME NEW j \in Key, Live(j)'
                   PROVE  Copy'[j] = Copy[j]
        OBVIOUS
      <4>1. items[j] \in Entry /\ items'[j] = items[j]
        BY <2>0, <3>1 DEF Live
      <4>2. Live(j)
        BY <2>0, <3>1, <4>1 DEF Live, Expired, Entry
      <4> QED
        BY <4>1, <4>2 DEF Copy
    <3>3. \A j \in gone : Copy'[j] = NoBody
      BY DEF Copy
    <3>4. Copy' = [j \in Key |-> IF j \in gone THEN NoBody ELSE Copy[j]]
      BY <2>a, <3>2, <3>3
    <3>5. gone \in SUBSET Key
      OBVIOUS
    <3> HIDE DEF gone
    <3>6. Contract!Vanish
      BY <2>e, <3>1, <3>4, <3>5
    <3> QED
      BY <3>6 DEF Contract!Next
  <2>7. CASE UNCHANGED vars
    BY <2>7 DEF vars, Copy, Live, Expired
  <2> QED
    BY <2>1, <2>2, <2>3, <2>4, <2>5, <2>6, <2>7 DEF Next, Contract!Next
<1> QED
  BY <1>1, <1>2, CacheInvariant, PTL DEF Spec, Contract!Spec, ImplementsContract

============================================================================
