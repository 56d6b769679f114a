-------------------------- MODULE ParsePoolProofs --------------------------
(***************************************************************************)
(* Proofs about ParsePool for any number of tokens and of workers: every   *)
(* job is in one place, the page is complete and in document order, and no *)
(* send ever waits for room in its channel.  How often an element occurs   *)
(* in a sequence, and that a stable sort exists, is stated first, of any   *)
(* sequence.                                                               *)
(***************************************************************************)
EXTENDS ParsePool, SequenceTheorems, FiniteSetTheorems, FunctionTheorems, TLAPS

Positions(s, j) == {i \in 1..Len(s) : s[i] = j}

Same(x, j) == IF x = j THEN 1 ELSE 0

----------------------------------------------------------------------------
(* How often an element occurs is a number, and positive exactly when the  *)
(* element is in the sequence.                                             *)
LEMMA OccurrencesType ==
    ASSUME NEW S, NEW s \in Seq(S), NEW j
    PROVE  /\ IsFiniteSet(Positions(s, j))
           /\ Occurrences(s, j) = Cardinality(Positions(s, j))
           /\ Occurrences(s, j) \in Nat
           /\ Occurrences(s, j) # 0 <=> j \in ToSet(s)
<1>1. Len(s) \in Nat /\ DOMAIN s = 1..Len(s)
  BY LenProperties
<1>2. Positions(s, j) \in SUBSET (1..Len(s))
  BY DEF Positions
<1>3. IsFiniteSet(1..Len(s))
  BY <1>1, FS_Interval
<1>4. IsFiniteSet(Positions(s, j))
  BY <1>2, <1>3, FS_Subset
<1>5. Occurrences(s, j) = Cardinality(Positions(s, j))
  BY DEF Occurrences, Positions
<1>6. Cardinality(Positions(s, j)) \in Nat
  BY <1>4, FS_CardinalityType
<1>7. Cardinality(Positions(s, j)) = 0 <=> Positions(s, j) = {}
  BY <1>4, FS_EmptySet
<1>8. Positions(s, j) # {} <=> j \in ToSet(s)
  BY <1>1 DEF Positions, ToSet
<1> QED
  BY <1>4, <1>5, <1>6, <1>7, <1>8

(* An element that occurs at most once occurs at one position.             *)
LEMMA OccursOnce ==
    ASSUME NEW S, NEW s \in Seq(S), NEW j, Occurrences(s, j) <= 1,
           NEW i \in 1..Len(s), NEW k \in 1..Len(s), s[i] = j, s[k] = j
    PROVE  i = k
<1>1. /\ IsFiniteSet(Positions(s, j))
      /\ Cardinality(Positions(s, j)) \in Nat
      /\ Cardinality(Positions(s, j)) <= 1
  BY OccurrencesType
<1>2. i \in Positions(s, j) /\ k \in Positions(s, j)
  BY DEF Positions
<1>3. Cardinality(Positions(s, j)) # 0
  BY <1>1, <1>2, FS_EmptySet
<1>4. Cardinality(Positions(s, j)) = 1
  BY <1>1, <1>3
<1>5. PICK x : Positions(s, j) = {x}
  BY <1>1, <1>4, FS_Singleton
<1> QED
  BY <1>2, <1>5

(* Nothing occurs in the empty sequence.                                   *)
LEMMA OccurrencesEmpty ==
    ASSUME NEW j
    PROVE  Occurrences(<<>>, j) = 0
<1>1. {i \in 1..Len(<<>>) : <<>>[i] = j} = {}
  OBVIOUS
<1> QED
  BY <1>1, FS_EmptySet DEF Occurrences

(* A sent element occurs once more.                                        *)
LEMMA OccurrencesAppend ==
    ASSUME NEW S, NEW s \in Seq(S), NEW x \in S, NEW j
    PROVE  Occurrences(Append(s, x), j) = Occurrences(s, j) + Same(x, j)
<1> DEFINE t == Append(s, x)
           n == Len(s)
<1>1. /\ t \in Seq(S) /\ n \in Nat /\ Len(t) = n + 1
      /\ t[n + 1] = x /\ \A i \in 1..n : t[i] = s[i]
  BY AppendProperties, LenProperties
<1>2. /\ IsFiniteSet(Positions(s, j))
      /\ Occurrences(s, j) = Cardinality(Positions(s, j))
      /\ Occurrences(s, j) \in Nat
      /\ Occurrences(t, j) = Cardinality(Positions(t, j))
  BY <1>1, OccurrencesType
<1>3. n + 1 \notin Positions(s, j)
  BY <1>1 DEF Positions
<1> HIDE DEF t, n
<1>4. CASE x = j
  <2>1. Positions(t, j) = Positions(s, j) \union {n + 1}
    BY <1>1, <1>4 DEF Positions, n
  <2>2. Cardinality(Positions(s, j) \union {n + 1}) = Cardinality(Positions(s, j)) + 1
    BY <1>2, <1>3, FS_AddElement
  <2> QED
    BY <1>2, <1>4, <2>1, <2>2 DEF Same, t
<1>5. CASE x # j
  <2>1. Positions(t, j) = Positions(s, j)
    BY <1>1, <1>5 DEF Positions, n
  <2> QED
    BY <1>2, <1>5, <2>1 DEF Same, t
<1> QED
  BY <1>4, <1>5

(* A received element occurs once less.                                    *)
LEMMA OccurrencesTail ==
    ASSUME NEW S, NEW s \in Seq(S), s # <<>>, NEW j
    PROVE  Occurrences(s, j) = Occurrences(Tail(s), j) + Same(Head(s), j)
<1> DEFINE t == Tail(s)
           n == Len(s)
           P == Positions(t, j)
           Q == Positions(s, j)
           f == [i \in P |-> i + 1]
<1>1. /\ t \in Seq(S) /\ n \in Nat \ {0} /\ Len(t) = n - 1 /\ Head(s) = s[1]
      /\ \A i \in 1..(n - 1) : t[i] = s[i + 1]
  BY HeadTailProperties, LenProperties, EmptySeq
<1>2. /\ IsFiniteSet(P) /\ IsFiniteSet(Q)
      /\ Occurrences(s, j) = Cardinality(Q) /\ Occurrences(s, j) \in Nat
      /\ Occurrences(t, j) = Cardinality(P) /\ Occurrences(t, j) \in Nat
  BY <1>1, OccurrencesType
<1>3. P \subseteq 1..(n - 1)
  BY <1>1 DEF Positions
<1>4. \A i \in P : i + 1 \in Q \ {1}
  BY <1>1 DEF Positions
<1>5. \A k \in Q \ {1} : k - 1 \in P /\ (k - 1) + 1 = k
  BY <1>1 DEF Positions
<1> HIDE DEF P, Q, n, t
<1>6. f \in [P -> Q \ {1}]
  BY <1>4
<1>7. \A i, k \in P : f[i] = f[k] => i = k
  BY <1>1, <1>3 DEF n
<1>8. \A k \in Q \ {1} : \E i \in P : f[i] = k
  BY <1>5
<1> HIDE DEF f
<1>9. f \in Bijection(P, Q \ {1})
  BY <1>6, <1>7, <1>8, Fun_IsBij
<1>10. Cardinality(Q \ {1}) = Cardinality(P)
  BY <1>2, <1>9, FS_Bijection DEF ExistsBijection
<1>11. Cardinality(Q \ {1}) = IF 1 \in Q THEN Cardinality(Q) - 1 ELSE Cardinality(Q)
  BY <1>2, FS_RemoveElement
<1>12. 1 \in Q <=> Head(s) = j
  BY <1>1 DEF Q, Positions, n
<1> QED
  BY <1>2, <1>10, <1>11, <1>12 DEF Same, t

(* Putting x in the place of an element changes the counts of the two.     *)
LEMMA OccurrencesExcept ==
    ASSUME NEW S, NEW n \in Nat, NEW f \in [1..n -> S], NEW w \in 1..n,
           NEW x \in S, NEW g \in [1..n -> S], NEW j,
           g[w] = x, \A i \in 1..n : i # w => g[i] = f[i]
    PROVE  Occurrences(g, j) + Same(f[w], j) = Occurrences(f, j) + Same(x, j)
<1> DEFINE P == Positions(f, j)
           Q == Positions(g, j)
<1>1. /\ f \in Seq(S) /\ g \in Seq(S) /\ Len(f) = n /\ Len(g) = n
      /\ g[w] = x /\ \A i \in 1..n : i # w => g[i] = f[i]
  <2>1. f \in Seq(S) /\ g \in Seq(S) /\ Len(f) = n /\ Len(g) = n
    BY IsASeq, LenProperties
  <2> QED
    BY <2>1
<1>2. /\ IsFiniteSet(P) /\ IsFiniteSet(Q)
      /\ Occurrences(f, j) = Cardinality(P) /\ Occurrences(f, j) \in Nat
      /\ Occurrences(g, j) = Cardinality(Q) /\ Occurrences(g, j) \in Nat
  BY <1>1, OccurrencesType
<1>3. P \ {w} = Q \ {w}
  BY <1>1 DEF Positions
<1>4. (w \in P <=> f[w] = j) /\ (w \in Q <=> x = j)
  BY <1>1 DEF Positions
<1> HIDE DEF P, Q
<1>5. /\ Cardinality(P \ {w}) = IF w \in P THEN Cardinality(P) - 1 ELSE Cardinality(P)
      /\ Cardinality(Q \ {w}) = IF w \in Q THEN Cardinality(Q) - 1 ELSE Cardinality(Q)
  BY <1>2, FS_RemoveElement
<1>6. /\ Cardinality(P \ {w}) = Cardinality(P) - Same(f[w], j)
      /\ Cardinality(Q \ {w}) = Cardinality(Q) - Same(x, j)
      /\ Same(f[w], j) \in Nat /\ Same(x, j) \in Nat
  BY <1>2, <1>4, <1>5 DEF Same
<1>7. Cardinality(P) - Same(f[w], j) = Cardinality(Q) - Same(x, j)
  BY <1>3, <1>6
<1> QED
  BY <1>2, <1>6, <1>7

----------------------------------------------------------------------------
(* Before is a strict total order on the positions of a sequence of        *)
(* numbers.                                                                *)
LEMMA BeforeTotal ==
    ASSUME NEW rs \in Seq(Nat)
    PROVE  /\ \A i \in 1..Len(rs) : ~Before(rs, i, i)
           /\ \A i, j \in 1..Len(rs) : i = j \/ Before(rs, i, j) \/ Before(rs, j, i)
           /\ \A i, j, k \in 1..Len(rs) :
                 Before(rs, i, j) /\ Before(rs, j, k) => Before(rs, i, k)
<1>1. Len(rs) \in Nat /\ \A i \in 1..Len(rs) : i \in Nat /\ rs[i] \in Nat
  BY LenProperties, ElementOfSeq
<1> QED
  BY <1>1 DEF Before

(* The position of an element in the sorted sequence: as many as are not   *)
(* behind it.                                                              *)
UpTo(rs, i) == {k \in 1..Len(rs) : k = i \/ Before(rs, k, i)}

Rank(rs) == [i \in 1..Len(rs) |-> Cardinality(UpTo(rs, i))]

(* Ranks are positions, and follow the order.                              *)
LEMMA RankFollowsOrder ==
    ASSUME NEW rs \in Seq(Nat)
    PROVE  /\ Rank(rs) \in [1..Len(rs) -> 1..Len(rs)]
           /\ \A i, j \in 1..Len(rs) : Before(rs, i, j) => Rank(rs)[i] < Rank(rs)[j]
<1> DEFINE n == Len(rs)
           I == 1..n
<1>1. n \in Nat
  BY LenProperties
<1>2. IsFiniteSet(I) /\ Cardinality(I) = n
  <2>1. /\ IsFiniteSet(I)
        /\ Cardinality(I) = IF 1 > n THEN 0 ELSE n - 1 + 1
    BY <1>1, FS_Interval
  <2> QED
    BY <1>1, <2>1
<1>3. ASSUME NEW i \in I
      PROVE  /\ IsFiniteSet(UpTo(rs, i)) /\ UpTo(rs, i) \in SUBSET I
             /\ Cardinality(UpTo(rs, i)) \in I
  <2>1. UpTo(rs, i) \in SUBSET I /\ i \in UpTo(rs, i)
    BY <1>3 DEF UpTo
  <2>2. IsFiniteSet(UpTo(rs, i)) /\ Cardinality(UpTo(rs, i)) <= Cardinality(I)
    BY <1>2, <2>1, FS_Subset
  <2>3. Cardinality(UpTo(rs, i)) \in Nat
    BY <2>2, FS_CardinalityType
  <2>4. Cardinality(UpTo(rs, i)) # 0
    BY <2>1, <2>2, FS_EmptySet
  <2> QED
    BY <1>1, <1>2, <2>1, <2>2, <2>3, <2>4
<1>4. ASSUME NEW i \in I, NEW j \in I, Before(rs, i, j)
      PROVE  Cardinality(UpTo(rs, i)) < Cardinality(UpTo(rs, j))
  <2>1. UpTo(rs, i) \in SUBSET UpTo(rs, j)
    BY <1>4, BeforeTotal DEF UpTo
  <2>2. j \in UpTo(rs, j)
    BY DEF UpTo
  <2>3. j \notin UpTo(rs, i)
    <3>1. ~Before(rs, j, i) /\ i # j
      BY <1>4, BeforeTotal
    <3> QED
      BY <3>1 DEF UpTo
  <2>4. /\ Cardinality(UpTo(rs, i)) <= Cardinality(UpTo(rs, j))
        /\ Cardinality(UpTo(rs, j)) # Cardinality(UpTo(rs, i))
    BY <1>3, <2>1, <2>2, <2>3, FS_Subset
  <2>5. Cardinality(UpTo(rs, i)) \in I /\ Cardinality(UpTo(rs, j)) \in I
    BY <1>3
  <2> QED
    BY <1>1, <2>4, <2>5
<1> QED
  BY <1>3, <1>4 DEF Rank

(* A sequence of numbers can be sorted stably: by the inverse of the       *)
(* ranks.                                                                  *)
LEMMA StableOrderExists ==
    ASSUME NEW rs \in Seq(Nat)
    PROVE  \E p : p \in StableOrders(rs)
<1> DEFINE n == Len(rs)
           I == 1..n
           r == Rank(rs)
           p == Inverse(r, I, I)
<1>1. n \in Nat /\ IsFiniteSet(I)
  BY LenProperties, FS_Interval
<1>2. /\ r \in [I -> I]
      /\ \A i, j \in I : Before(rs, i, j) => r[i] < r[j]
  BY RankFollowsOrder
<1> HIDE DEF r
<1>3. \A i, j \in I : r[i] = r[j] => i = j
  <2> SUFFICES ASSUME NEW i \in I, NEW j \in I, i # j
               PROVE  r[i] # r[j]
    OBVIOUS
  <2>1. Before(rs, i, j) \/ Before(rs, j, i)
    BY BeforeTotal
  <2>2. r[i] \in I /\ r[j] \in I /\ (r[i] < r[j] \/ r[j] < r[i])
    BY <1>2, <2>1
  <2> QED
    BY <1>1, <2>2
<1>4. r \in Injection(I, I)
  BY <1>2, <1>3, Fun_IsInj
<1>5. r \in Surjection(I, I)
  BY <1>1, <1>4, FS_Injection
<1>6. r \in Bijection(I, I)
  BY <1>4, <1>5 DEF Bijection
<1>7. p \in Bijection(I, I) /\ \A i \in I : p[r[i]] = i
  BY <1>6, Fun_BijInverse
<1> HIDE DEF p
<1>8. p \in [I -> I] /\ \A i \in I : r[p[i]] = i
  <2>1. p \in [I -> I]
    BY <1>7, Fun_BijectionProperties
  <2>2. \A i \in I : \E k \in I : r[k] = i
    BY <1>6, Fun_BijectionProperties
  <2> QED
    BY <1>7, <2>1, <2>2
<1>9. ASSUME NEW i \in I, NEW j \in I, i < j
      PROVE  Before(rs, p[i], p[j])
  <2>1. p[i] \in I /\ p[j] \in I /\ r[p[i]] = i /\ r[p[j]] = j
    BY <1>8
  <2>2. p[i] # p[j]
    BY <1>1, <1>9, <2>1
  <2>3. ~Before(rs, p[j], p[i])
    <3>1. ~(j < i)
      BY <1>1, <1>9
    <3> QED
      BY <1>2, <2>1, <3>1
  <2> QED
    BY <2>1, <2>2, <2>3, BeforeTotal
<1>10. p \in StableOrders(rs)
  BY <1>7, <1>9 DEF StableOrders
<1> QED
  BY <1>10

(* In out the elements of rs follow each other in order: any two of them   *)
(* are elements of rs from different positions, the smaller one first.     *)
InOrderOf(out, rs) ==
    \A i, j \in 1..Len(rs) :
        i < j => \E a, b \in 1..Len(rs) :
                    /\ out[i] = rs[a] /\ out[j] = rs[b]
                    /\ a # b /\ rs[a] <= rs[b]

(* What assembleResults returns: the same responses, sorted.               *)
LEMMA Assembled ==
    ASSUME NEW rs \in Seq(Nat), NEW S, rs \in Seq(S),
           NEW out, out = assembleResults(rs)
    PROVE  /\ out \in Seq(S) /\ Len(out) = Len(rs)
           /\ ToSet(out) = ToSet(rs)
           /\ InOrderOf(out, rs)
<1> DEFINE n == Len(rs)
           I == 1..n
           p == CHOOSE q \in StableOrders(rs) : TRUE
<1>1. n \in Nat /\ DOMAIN rs = I /\ \A i \in I : rs[i] \in S /\ rs[i] \in Nat
  BY LenProperties, ElementOfSeq
<1>2. p \in StableOrders(rs)
  BY StableOrderExists
<1>3. out = [i \in I |-> rs[p[i]]]
  BY DEF assembleResults
<1> HIDE DEF p
<1>4. /\ p \in Bijection(I, I)
      /\ \A i, j \in I : i < j => Before(rs, p[i], p[j])
  BY <1>2 DEF StableOrders
<1>5. p \in [I -> I] /\ \A a \in I : \E i \in I : p[i] = a
  <2>1. p \in Bijection(I, I)
    BY <1>4
  <2> HIDE DEF I
  <2> QED
    BY <2>1, Fun_BijectionProperties
<1>6. DOMAIN out = I /\ \A i \in I : out[i] = rs[p[i]] /\ out[i] \in S
  BY <1>1, <1>3, <1>5
<1>7. out \in Seq(S) /\ Len(out) = n
  <2>1. out \in [1..n -> S]
    BY <1>1, <1>3, <1>5
  <2>2. out \in UNION {[1..m -> S] : m \in Nat}
    BY <1>1, <2>1
  <2>3. out \in Seq(S)
    BY <2>2, SeqDef
  <2> QED
    BY <1>1, <1>6, <2>3, LenProperties
<1>8. ToSet(out) = ToSet(rs)
  <2>1. ToSet(out) = {out[i] : i \in I} /\ ToSet(rs) = {rs[i] : i \in I}
    BY <1>1, <1>6 DEF ToSet
  <2>2. \A i \in I : p[i] \in I /\ out[i] = rs[p[i]]
    BY <1>5, <1>6
  <2>3. ASSUME NEW a \in I
        PROVE  \E i \in I : out[i] = rs[a]
    <3>1. PICK i \in I : p[i] = a
      BY <1>5
    <3>2. out[i] = rs[p[i]]
      BY <2>2
    <3> QED
      BY <3>1, <3>2
  <2> HIDE DEF I
  <2> QED
    BY <2>1, <2>2, <2>3
<1>9. ASSUME NEW i \in I, NEW j \in I, i < j
      PROVE  \E a, b \in I : /\ out[i] = rs[a] /\ out[j] = rs[b]
                             /\ a # b /\ rs[a] <= rs[b]
  <2>1. p[i] \in I /\ p[j] \in I /\ Before(rs, p[i], p[j])
    BY <1>4, <1>5, <1>9
  <2>2. p[i] # p[j]
    BY <2>1, BeforeTotal
  <2>3. rs[p[i]] <= rs[p[j]]
    BY <1>1, <2>1 DEF Before
  <2> QED
    BY <1>6, <2>1, <2>2, <2>3
<1>10. InOrderOf(out, rs)
  BY <1>9 DEF InOrderOf
<1> QED
  BY <1>7, <1>8, <1>10

----------------------------------------------------------------------------
Page == 1..Tokens

Slot == 0..Tokens

Places(j) ==
    Occurrences(Unfed, j) + Occurrences(jobs, j) + Occurrences(ch, j)
    + Occurrences(results, j) + Occurrences(job, j)

(* Every token scanned so far is in one place, every other in none.        *)
OnceEach ==
    \A j \in Page : Places(j) = IF main = "scan" /\ j >= next THEN 0 ELSE 1

Busy == {w \in Worker : worker[w] = "busy"}

(* The jobs add up: unfed, queued, at a worker, answered and received.     *)
Accounted ==
    Len(Unfed) + Len(jobs) + Len(ch) + received + Cardinality(Busy)
    = Len(esiJobs)

(* What the scan has passed is rendered inline or left for the pool.       *)
InlineRendered ==
    \A j \in Page :
        (main = "scan" => j < next) => j \in ToSet(esiJobs) \union ToSet(results)

(* Where the calling goroutine is tells what the pool may be doing.        *)
ScanInv ==
    main = "scan" =>
        /\ Len(esiJobs) < next /\ ~closed
        /\ \A w \in Worker : worker[w] = "unborn"

FeedInv == main = "feed" => next <= Len(esiJobs) + 1 /\ ~closed

PoolInv ==
    /\ Len(esiJobs) <= Tokens
    /\ \A w \in Worker : worker[w] = "busy" <=> job[w] # 0
    /\ \A w \in Worker : worker[w] = "exited" => closed /\ jobs = <<>>
    /\ main \in {"feed", "collect", "wait"} => worker[1] # "unborn"

ReturnInv ==
    main = "returned" => \A w \in Worker : worker[w] \in {"unborn", "exited"}

WaitInv == main = "wait" /\ ~cancelled => received = Len(esiJobs)

IInv ==
    /\ TypeOK
    /\ OnceEach /\ Accounted /\ InlineRendered
    /\ ScanInv /\ FeedInv /\ PoolInv /\ WaitInv
    /\ ReturnInv /\ PageInOrder

----------------------------------------------------------------------------
(* The workers' jobs, read as a sequence.                                  *)
LEMMA JobSequence ==
    ASSUME TypeOK
    PROVE  job \in Seq(Slot) /\ Len(job) = MaxWorkers
<1>1. job \in [1..MaxWorkers -> Slot] /\ MaxWorkers \in Nat
  BY PoolAssumption DEF TypeOK, Worker, Slot
<1>2. job \in UNION {[1..n -> Slot] : n \in Nat}
  BY <1>1
<1>3. job \in Seq(Slot)
  BY <1>2, SeqDef
<1> QED
  BY <1>1, <1>3, LenProperties

(* A worker gets job x in the place of the one it had.                     *)
LEMMA JobReplaced ==
    ASSUME TypeOK, NEW w \in Worker, NEW x \in Slot, NEW j,
           job' \in [Worker -> Slot], job'[w] = x,
           \A v \in Worker : v # w => job'[v] = job[v]
    PROVE  /\ Occurrences(job', j) \in Nat
           /\ Occurrences(job', j) + Same(job[w], j) = Occurrences(job, j) + Same(x, j)
<1>1. job \in [1..MaxWorkers -> Slot] /\ MaxWorkers \in Nat /\ w \in 1..MaxWorkers
  BY PoolAssumption DEF TypeOK, Worker, Slot
<1>2. /\ job' \in [1..MaxWorkers -> Slot]
      /\ \A v \in 1..MaxWorkers : v # w => job'[v] = job[v]
  BY DEF Worker
<1>3. Occurrences(job', j) + Same(job[w], j) = Occurrences(job, j) + Same(x, j)
  BY <1>1, <1>2, OccurrencesExcept
<1>4. job' \in UNION {[1..n -> Slot] : n \in Nat}
  BY <1>1, <1>2
<1>5. job' \in Seq(Slot)
  BY <1>4, SeqDef
<1>6. Occurrences(job', j) \in Nat
  BY <1>5, OccurrencesType
<1> QED
  BY <1>3, <1>6

(* The jobs not fed yet are tokens of the page; what feeding one does.     *)
LEMMA UnfedFacts ==
    ASSUME TypeOK, FeedInv
    PROVE  /\ Unfed \in Seq(Page)
           /\ main = "feed" /\ next <= Len(esiJobs) =>
                /\ Unfed # <<>> /\ Head(Unfed) = esiJobs[next]
                /\ Tail(Unfed) = SubSeq(esiJobs, next + 1, Len(esiJobs))
           /\ main = "feed" /\ next > Len(esiJobs) => Unfed = <<>>
<1> DEFINE n == Len(esiJobs)
<1>1. /\ esiJobs \in Seq(Page) /\ n \in Nat /\ next \in Nat /\ next >= 1
      /\ \A i \in 1..n : esiJobs[i] \in Page
  <2>1. esiJobs \in Seq(Page) /\ next \in Nat /\ next >= 1
    BY PoolAssumption DEF TypeOK, Page
  <2> QED
    BY <2>1, LenProperties, ElementOfSeq
<1>2. CASE main = "feed"
  <2>1. Unfed = SubSeq(esiJobs, next, n)
    BY <1>2 DEF Unfed
  <2>2. \A i \in next..n : esiJobs[i] \in Page
    BY <1>1
  <2>3. SubSeq(esiJobs, next, n) \in Seq(Page)
    BY <1>1, <2>2, SubSeqProperties
  <2>4. CASE next <= n
    <3>1. next \in 1..n /\ n \in next..n
      BY <1>1, <2>4
    <3>2. /\ Head(SubSeq(esiJobs, next, n)) = esiJobs[next]
          /\ Tail(SubSeq(esiJobs, next, n)) = SubSeq(esiJobs, next + 1, n)
      BY <1>1, <3>1, HeadTailOfSubSeq
    <3>3. Len(SubSeq(esiJobs, next, n)) = IF next <= n THEN n - next + 1 ELSE 0
      BY <1>1, <2>2, SubSeqProperties
    <3>4. Len(SubSeq(esiJobs, next, n)) # 0 /\ Len(<<>>) = 0
      BY <1>1, <2>4, <3>3, EmptySeq
    <3>5. SubSeq(esiJobs, next, n) # <<>>
      BY <3>4, Zenon
    <3>6. ~(next > n)
      BY <1>1, <2>4
    <3> QED
      BY <2>1, <2>3, <3>2, <3>5, <3>6
  <2>5. CASE ~(next <= n)
    <3>1. SubSeq(esiJobs, next, n) = <<>>
      BY <1>1, <2>5, SubSeqEmpty
    <3> QED
      BY <2>1, <2>3, <2>5, <3>1
  <2> QED
    BY <2>4, <2>5
<1>3. CASE main # "feed"
  BY <1>1, <1>3, EmptySeq DEF Unfed
<1> QED
  BY <1>2, <1>3

(* All the counts are numbers.                                             *)
LEMMA CountTypes ==
    ASSUME TypeOK, FeedInv
    PROVE  /\ \A j : /\ Occurrences(Unfed, j) \in Nat
                     /\ Occurrences(jobs, j) \in Nat
                     /\ Occurrences(ch, j) \in Nat
                     /\ Occurrences(results, j) \in Nat
                     /\ Occurrences(job, j) \in Nat
           /\ Len(Unfed) \in Nat /\ Len(jobs) \in Nat /\ Len(ch) \in Nat
           /\ received \in Nat /\ Len(esiJobs) \in Nat
           /\ IsFiniteSet(Busy) /\ Cardinality(Busy) \in Nat
<1>1. /\ Unfed \in Seq(Page) /\ jobs \in Seq(Page) /\ ch \in Seq(Page)
      /\ results \in Seq(Page) /\ esiJobs \in Seq(Page) /\ job \in Seq(Slot)
  BY UnfedFacts, JobSequence DEF TypeOK, Page
<1>2. \A j : /\ Occurrences(Unfed, j) \in Nat
             /\ Occurrences(jobs, j) \in Nat
             /\ Occurrences(ch, j) \in Nat
             /\ Occurrences(results, j) \in Nat
             /\ Occurrences(job, j) \in Nat
  BY <1>1, OccurrencesType
<1>3. Len(Unfed) \in Nat /\ Len(jobs) \in Nat /\ Len(ch) \in Nat /\ Len(esiJobs) \in Nat
  BY <1>1, LenProperties
<1>4. received \in Nat
  BY <1>3 DEF TypeOK
<1>5. Busy \in SUBSET (1..MaxWorkers) /\ IsFiniteSet(1..MaxWorkers)
  BY PoolAssumption, FS_Interval DEF Busy, Worker
<1>6. IsFiniteSet(Busy) /\ Cardinality(Busy) \in Nat
  BY <1>5, FS_Subset, FS_CardinalityType
<1> QED
  BY <1>2, <1>3, <1>4, <1>6

----------------------------------------------------------------------------
(* Initially nothing has been scanned.                                     *)
LEMMA InitInv ==
    ASSUME Init
    PROVE  IInv
<1>1. Tokens \in Nat /\ MaxWorkers \in Nat \ {0}
  BY PoolAssumption
<1>2. <<>> \in Seq(1..Tokens) /\ Len(<<>>) = 0
  BY EmptySeq
<1>3. TypeOK
  <2>1. 1 \in 1..(Tokens + 1) /\ 0 \in 0..Len(<<>>) /\ 0 \in 0..Tokens
    BY <1>1, <1>2
  <2>2. Len(<<>>) <= Len(<<>>)
    BY <1>2
  <2> QED
    BY <1>2, <2>1, <2>2 DEF Init, TypeOK
<1>4. FeedInv /\ ScanInv /\ PoolInv /\ WaitInv /\ ReturnInv /\ PageInOrder
  BY <1>1, <1>2 DEF Init, FeedInv, ScanInv, PoolInv, WaitInv, ReturnInv,
                    PageInOrder, Worker
<1>5. InlineRendered
  BY <1>1 DEF Init, InlineRendered, Page
<1>6. Unfed = <<>> /\ jobs = <<>> /\ ch = <<>> /\ results = <<>>
  BY DEF Init, Unfed
<1>7. \A j \in Page : Occurrences(job, j) = 0
  <2> SUFFICES ASSUME NEW j \in Page PROVE Occurrences(job, j) = 0
    OBVIOUS
  <2>1. job \in Seq(Slot) /\ DOMAIN job = Worker
    BY <1>3, JobSequence DEF TypeOK
  <2>2. j \notin ToSet(job)
    BY <1>1, <2>1 DEF ToSet, Init, Page
  <2> QED
    BY <2>1, <2>2, OccurrencesType
<1>8. OnceEach
  <2> SUFFICES ASSUME NEW j \in Page PROVE Places(j) = 0 /\ j >= next /\ main = "scan"
    BY DEF OnceEach
  <2> QED
    BY <1>1, <1>6, <1>7, OccurrencesEmpty DEF Places, Init, Page
<1>9. Accounted
  <2>1. Busy = {}
    BY DEF Busy, Init
  <2>2. esiJobs = <<>> /\ received = 0
    BY DEF Init
  <2> QED
    BY <1>2, <1>6, <2>1, <2>2, FS_EmptySet DEF Accounted
<1> QED
  BY <1>3, <1>4, <1>5, <1>8, <1>9 DEF IInv

----------------------------------------------------------------------------
(* Each of the actions moves at most one job, from one place to another.   *)

(* The scan puts a token into the results or among the jobs.               *)
LEMMA ScanMoves ==
    ASSUME IInv, ScanInline \/ ScanJob
    PROVE  OnceEach' /\ Accounted'
<1> USE DEF IInv
<1>1. /\ main = "scan" /\ main' = "scan" /\ next' = next + 1
      /\ next \in Page /\ next \in Nat /\ Tokens \in Nat
      /\ jobs' = jobs /\ ch' = ch /\ job' = job /\ received' = received
      /\ worker' = worker
  BY PoolAssumption DEF ScanInline, ScanJob, TypeOK, Page
<1>2. Unfed = esiJobs /\ Unfed' = esiJobs'
  BY <1>1 DEF Unfed
<1>3. esiJobs \in Seq(Page) /\ results \in Seq(Page)
  BY DEF TypeOK, Page
<1>4. OnceEach'
  <2> SUFFICES ASSUME NEW j \in Page
               PROVE  Places(j)' = IF j >= next + 1 THEN 0 ELSE 1
    BY <1>1 DEF OnceEach, Page
  <2>1. \/ Occurrences(esiJobs, j)' = Occurrences(esiJobs, j) + Same(next, j)
            /\ Occurrences(results, j)' = Occurrences(results, j)
        \/ Occurrences(results, j)' = Occurrences(results, j) + Same(next, j)
            /\ Occurrences(esiJobs, j)' = Occurrences(esiJobs, j)
    BY <1>1, <1>3, OccurrencesAppend DEF ScanInline, ScanJob
  <2>2. Same(next, j) \in Nat
    BY DEF Same
  <2>3. /\ Occurrences(jobs, j)' = Occurrences(jobs, j)
        /\ Occurrences(ch, j)' = Occurrences(ch, j)
        /\ Occurrences(job, j)' = Occurrences(job, j)
    BY <1>1
  <2>4. Places(j)' = Places(j) + Same(next, j)
    <3>1. /\ Occurrences(esiJobs, j) \in Nat /\ Occurrences(jobs, j) \in Nat
          /\ Occurrences(ch, j) \in Nat /\ Occurrences(results, j) \in Nat
          /\ Occurrences(job, j) \in Nat
      BY <1>2, CountTypes
    <3>2. /\ Occurrences(Unfed, j) = Occurrences(esiJobs, j)
          /\ Occurrences(Unfed, j)' = Occurrences(esiJobs, j)'
      BY <1>2
    <3> QED
      BY <2>1, <2>2, <2>3, <3>1, <3>2 DEF Places
  <2>5. j \in Nat /\ Places(j) = IF j >= next THEN 0 ELSE 1
    BY <1>1 DEF OnceEach, Page
  <2> QED
    BY <1>1, <2>4, <2>5 DEF Same
<1>5. Accounted'
  <2>1. Busy' = Busy
    BY <1>1 DEF Busy
  <2>2. Unfed' = esiJobs' /\ Len(esiJobs) \in Nat /\ Len(esiJobs') \in Nat
    BY <1>1, <1>2, <1>3, AppendProperties, LenProperties DEF ScanInline, ScanJob
  <2> QED
    BY <1>1, <1>2, <2>1, <2>2, CountTypes DEF Accounted
<1> QED
  BY <1>4, <1>5

(* The pool starts with all the jobs unfed, and is fed one after another.  *)
LEMMA FeedMoves ==
    ASSUME IInv, StartPool \/ Feed \/ CloseJobs
    PROVE  OnceEach' /\ Accounted'
<1> USE DEF IInv
<1> DEFINE n == Len(esiJobs)
<1>1. /\ esiJobs' = esiJobs /\ ch' = ch /\ job' = job /\ received' = received
      /\ results' = results /\ main' # "scan"
      /\ esiJobs \in Seq(Page) /\ jobs \in Seq(Page) /\ n \in Nat
  BY CountTypes DEF StartPool, Feed, CloseJobs, TypeOK, Page
<1>2. \A j \in Page : Places(j) = 1
  BY PoolAssumption DEF StartPool, Feed, CloseJobs, OnceEach, Page, TypeOK
<1>3. Busy' = Busy
  BY DEF StartPool, Feed, CloseJobs, ScanInv, Busy
<1>4. SUFFICES /\ \A j \in Page : Places(j)' = Places(j)
               /\ (Len(Unfed) + Len(jobs))' = Len(Unfed) + Len(jobs)
  <2>1. \A j \in Page : Places(j)' = 1
    BY <1>2, <1>4
  <2>2. OnceEach'
    BY <1>1, <2>1 DEF OnceEach, Page
  <2>3. Accounted'
    BY <1>1, <1>3, <1>4, CountTypes DEF Accounted
  <2> QED
    BY <2>2, <2>3
<1>5. CASE StartPool
  <2>1. Unfed = esiJobs /\ Unfed' = SubSeq(esiJobs, 1, n) /\ jobs' = jobs
    BY <1>1, <1>5 DEF StartPool, Unfed
  <2>2. Unfed' = Unfed
    BY <1>1, <2>1, SubSeqFull
  <2> QED
    BY <1>1, <2>1, <2>2 DEF Places
<1>6. CASE Feed
  <2>1. /\ Unfed # <<>> /\ Head(Unfed) = esiJobs[next] /\ Unfed' = Tail(Unfed)
        /\ Unfed \in Seq(Page) /\ jobs' = Append(jobs, Head(Unfed))
    BY <1>1, <1>6, UnfedFacts DEF Feed, Unfed
  <2>2. Head(Unfed) \in Page /\ Len(Unfed') = Len(Unfed) - 1
    BY <2>1, HeadTailProperties
  <2>3. Len(jobs') = Len(jobs) + 1
    BY <1>1, <2>1, <2>2, AppendProperties
  <2>4. ASSUME NEW j \in Page
        PROVE  /\ Occurrences(Unfed, j) = Occurrences(Unfed, j)' + Same(Head(Unfed), j)
               /\ Occurrences(jobs, j)' = Occurrences(jobs, j) + Same(Head(Unfed), j)
    BY <1>1, <2>1, <2>2, OccurrencesTail, OccurrencesAppend
  <2>5. ASSUME NEW j \in Page
        PROVE  Places(j)' = Places(j)
    <3>1. Same(Head(Unfed), j) \in Nat
      BY DEF Same
    <3>2. Occurrences(Unfed, j)' \in Nat /\ Occurrences(jobs, j)' \in Nat
      <4>1. Unfed' \in Seq(Page) /\ jobs' \in Seq(Page)
        BY <1>1, <2>1, <2>2, HeadTailProperties, AppendProperties
      <4> QED
        BY <4>1, OccurrencesType
    <3> QED
      BY <1>1, <2>4, <3>1, <3>2, CountTypes DEF Places
  <2>6. Len(Unfed') \in Nat
    BY <2>1, HeadTailProperties, LenProperties
  <2> QED
    BY <2>2, <2>3, <2>5, <2>6, CountTypes
<1>7. CASE CloseJobs
  <2>1. Unfed = <<>> /\ Unfed' = <<>> /\ jobs' = jobs
    BY <1>7, UnfedFacts DEF CloseJobs, Unfed
  <2> QED
    BY <1>1, <2>1 DEF Places
<1> QED
  BY <1>5, <1>6, <1>7

(* A worker takes a job, or sends its response.                            *)
LEMMA PoolMoves ==
    ASSUME IInv, NEW w \in Worker, Pool(w)
    PROVE  OnceEach' /\ Accounted'
<1> USE DEF IInv
<1>1. /\ main' = main /\ next' = next /\ esiJobs' = esiJobs
      /\ results' = results /\ received' = received /\ Unfed' = Unfed
  BY DEF Pool, TakeJob, SendResponse, WorkerExits, Unfed
<1>2. /\ jobs \in Seq(Page) /\ ch \in Seq(Page)
      /\ job \in [1..MaxWorkers -> 0..Tokens] /\ w \in 1..MaxWorkers
      /\ worker \in [Worker -> {"unborn", "idle", "busy", "exited"}]
      /\ Tokens \in Nat /\ MaxWorkers \in Nat
  BY PoolAssumption DEF TypeOK, Page, Worker
<1>3. ASSUME \A j \in Page : Places(j)' = Places(j),
             (Len(jobs) + Len(ch) + Cardinality(Busy))'
             = Len(jobs) + Len(ch) + Cardinality(Busy),
             Len(jobs') \in Nat, Len(ch') \in Nat, Cardinality(Busy') \in Nat
      PROVE  OnceEach' /\ Accounted'
  <2>1. OnceEach'
    BY <1>1, <1>3 DEF OnceEach, Page
  <2>2. /\ Len(Unfed) \in Nat /\ Len(jobs) \in Nat /\ Len(ch) \in Nat
        /\ received \in Nat /\ Cardinality(Busy) \in Nat
    BY CountTypes
  <2>3. Len(Unfed)' = Len(Unfed) /\ Len(esiJobs)' = Len(esiJobs)
    BY <1>1
  <2>4. Len(Unfed) + Len(jobs) + Len(ch) + received + Cardinality(Busy) = Len(esiJobs)
    BY DEF Accounted
  <2>5. Len(Unfed)' + Len(jobs)' + Len(ch)' + received' + Cardinality(Busy)' = Len(esiJobs)'
    BY <1>1, <1>3, <2>2, <2>3, <2>4
  <2>6. Accounted'
    BY <2>5 DEF Accounted
  <2> QED
    BY <2>1, <2>6
<1>4. IsFiniteSet(Busy) /\ Cardinality(Busy) \in Nat
  BY CountTypes
<1>5. CASE TakeJob(w)
  <2>1. /\ jobs # <<>> /\ jobs' = Tail(jobs) /\ ch' = ch /\ job[w] = 0
        /\ job' = [job EXCEPT ![w] = Head(jobs)]
        /\ worker[w] = "idle" /\ worker' = [worker EXCEPT ![w] = "busy"]
    BY <1>5 DEF TakeJob, PoolInv
  <2>2. /\ Head(jobs) \in Page /\ Head(jobs) \in Slot /\ jobs' \in Seq(Page)
        /\ Len(jobs') = Len(jobs) - 1
    <3>1. Head(jobs) \in Page /\ jobs' \in Seq(Page) /\ Len(jobs') = Len(jobs) - 1
      BY <1>2, <2>1, HeadTailProperties
    <3> QED
      BY <1>2, <3>1 DEF Page, Slot
  <2>3. ASSUME NEW j \in Page
        PROVE  Places(j)' = Places(j)
    <3>1. Occurrences(jobs, j) = Occurrences(jobs', j) + Same(Head(jobs), j)
      BY <1>2, <2>1, OccurrencesTail
    <3>2. /\ Occurrences(job', j) + Same(job[w], j) = Occurrences(job, j) + Same(Head(jobs), j)
          /\ Occurrences(job', j) \in Nat
      <4>1. /\ job' \in [Worker -> Slot] /\ job'[w] = Head(jobs)
            /\ \A v \in Worker : v # w => job'[v] = job[v]
        BY <1>2, <2>1, <2>2 DEF Worker, Slot
      <4> QED
        BY <2>2, <4>1, JobReplaced
    <3>3. Same(job[w], j) = 0 /\ Same(Head(jobs), j) \in Nat
      BY <1>2, <2>1 DEF Same, Page
    <3>4. Occurrences(jobs', j) \in Nat
      BY <2>2, OccurrencesType
    <3>5. Occurrences(jobs', j) + Occurrences(job', j) = Occurrences(jobs, j) + Occurrences(job, j)
      BY <3>1, <3>2, <3>3, <3>4, CountTypes
    <3>6. /\ Occurrences(Unfed, j)' = Occurrences(Unfed, j)
          /\ Occurrences(ch, j)' = Occurrences(ch, j)
          /\ Occurrences(results, j)' = Occurrences(results, j)
      BY <1>1, <2>1
    <3> QED
      <4>1. /\ Occurrences(Unfed, j) \in Nat /\ Occurrences(jobs, j) \in Nat
            /\ Occurrences(ch, j) \in Nat /\ Occurrences(results, j) \in Nat
            /\ Occurrences(job, j) \in Nat
        BY CountTypes
      <4> QED
        BY <3>2, <3>4, <3>5, <3>6, <4>1 DEF Places
  <2>4. Busy' = Busy \union {w} /\ w \notin Busy
    BY <1>2, <2>1 DEF Busy
  <2>5. Cardinality(Busy') = Cardinality(Busy) + 1
    BY <1>4, <2>4, FS_AddElement
  <2>6. Len(jobs') \in Nat /\ Len(ch') \in Nat
    BY <1>2, <2>1, <2>2, LenProperties
  <2>7. (Len(jobs) + Len(ch) + Cardinality(Busy))' = Len(jobs) + Len(ch) + Cardinality(Busy)
    BY <1>4, <2>1, <2>2, <2>5, <2>6, CountTypes
  <2> QED
    BY <1>3, <1>4, <2>3, <2>5, <2>6, <2>7
<1>6. CASE SendResponse(w)
  <2>1. /\ jobs' = jobs /\ ch' = Append(ch, job[w]) /\ job[w] # 0
        /\ job' = [job EXCEPT ![w] = 0]
        /\ worker[w] = "busy" /\ worker' = [worker EXCEPT ![w] = "idle"]
    BY <1>6 DEF SendResponse, PoolInv
  <2>2. job[w] \in Page /\ 0 \in Slot
    BY <1>2, <2>1 DEF Page, Slot
  <2>3. ch' \in Seq(Page) /\ Len(ch') = Len(ch) + 1
    BY <1>2, <2>1, <2>2, AppendProperties
  <2>4. ASSUME NEW j \in Page
        PROVE  Places(j)' = Places(j)
    <3>1. Occurrences(ch', j) = Occurrences(ch, j) + Same(job[w], j)
      BY <1>2, <2>1, <2>2, OccurrencesAppend
    <3>2. /\ Occurrences(job', j) + Same(job[w], j) = Occurrences(job, j) + Same(0, j)
          /\ Occurrences(job', j) \in Nat
      <4>1. /\ job' \in [Worker -> Slot] /\ job'[w] = 0
            /\ \A v \in Worker : v # w => job'[v] = job[v]
        BY <1>2, <2>1, <2>2 DEF Worker, Slot
      <4> QED
        BY <2>2, <4>1, JobReplaced
    <3>3. Same(0, j) = 0 /\ Same(job[w], j) \in Nat
      BY <1>2, <2>1 DEF Same, Page
    <3>4. Occurrences(ch', j) \in Nat
      BY <2>3, OccurrencesType
    <3>5. Occurrences(ch', j) + Occurrences(job', j) = Occurrences(ch, j) + Occurrences(job, j)
      BY <3>1, <3>2, <3>3, <3>4, CountTypes
    <3>6. /\ Occurrences(Unfed, j)' = Occurrences(Unfed, j)
          /\ Occurrences(jobs, j)' = Occurrences(jobs, j)
          /\ Occurrences(results, j)' = Occurrences(results, j)
      BY <1>1, <2>1
    <3> QED
      <4>1. /\ Occurrences(Unfed, j) \in Nat /\ Occurrences(jobs, j) \in Nat
            /\ Occurrences(ch, j) \in Nat /\ Occurrences(results, j) \in Nat
            /\ Occurrences(job, j) \in Nat
        BY CountTypes
      <4> QED
        BY <3>2, <3>4, <3>5, <3>6, <4>1 DEF Places
  <2>5. Busy' = Busy \ {w} /\ w \in Busy
    BY <1>2, <2>1 DEF Busy
  <2>6. Cardinality(Busy') = Cardinality(Busy) - 1 /\ IsFiniteSet(Busy')
    BY <1>4, <2>5, FS_RemoveElement
  <2>7. Cardinality(Busy') \in Nat
    BY <2>6, FS_CardinalityType
  <2>8. Len(jobs') \in Nat /\ Len(ch') \in Nat
    BY <1>2, <2>1, <2>3, LenProperties
  <2>9. (Len(jobs) + Len(ch) + Cardinality(Busy))' = Len(jobs) + Len(ch) + Cardinality(Busy)
    BY <1>4, <2>1, <2>3, <2>6, <2>8, CountTypes
  <2> QED
    BY <1>3, <2>4, <2>7, <2>8, <2>9
<1>7. CASE WorkerExits(w)
  <2>1. jobs' = jobs /\ ch' = ch /\ job' = job
    BY <1>7 DEF WorkerExits
  <2>2. Busy' = Busy
    BY <1>2, <1>7 DEF WorkerExits, Busy
  <2>3. \A j \in Page : Places(j)' = Places(j)
    BY <1>1, <2>1 DEF Places
  <2> QED
    BY <1>3, <1>4, <2>1, <2>2, <2>3, CountTypes
<1> QED
  BY <1>5, <1>6, <1>7 DEF Pool

(* The collecting loop moves a response; the steps after it move nothing.  *)
LEMMA CollectMoves ==
    ASSUME IInv, Receive \/ GiveUp \/ CollectEnds \/ NoJobs \/ Finish
    PROVE  OnceEach' /\ Accounted'
<1> USE DEF IInv
<1>1. /\ jobs' = jobs /\ job' = job /\ worker' = worker /\ main' \notin {"scan", "feed"}
      /\ esiJobs' = esiJobs
  BY DEF Receive, GiveUp, CollectEnds, NoJobs, Finish
<1>2. \A j \in Page : Places(j) = 1
  BY PoolAssumption DEF Receive, GiveUp, CollectEnds, NoJobs, Finish, OnceEach, Page, TypeOK
<1>3. Busy' = Busy
  BY <1>1 DEF Busy
<1>4. Unfed' = Unfed
  BY <1>1 DEF Receive, GiveUp, CollectEnds, NoJobs, Finish, Unfed
<1>5. CASE Receive
  <2>1. /\ ch \in Seq(Page) /\ ch # <<>> /\ ch' = Tail(ch) /\ received' = received + 1
        /\ results \in Seq(Page) /\ results' = Append(results, Head(ch))
    BY <1>5 DEF Receive, TypeOK, Page
  <2>2. Head(ch) \in Page /\ ch' \in Seq(Page) /\ Len(ch') = Len(ch) - 1
    BY <2>1, HeadTailProperties
  <2>3. ASSUME NEW j \in Page
        PROVE  Places(j)' = Places(j)
    <3>1. Occurrences(ch, j) = Occurrences(ch', j) + Same(Head(ch), j)
      BY <2>1, OccurrencesTail
    <3>2. Occurrences(results', j) = Occurrences(results, j) + Same(Head(ch), j)
      BY <2>1, <2>2, OccurrencesAppend
    <3>3. Same(Head(ch), j) \in Nat /\ Occurrences(ch', j) \in Nat
      BY <2>2, OccurrencesType DEF Same
    <3> QED
      BY <1>1, <1>4, <3>1, <3>2, <3>3, CountTypes DEF Places
  <2>4. OnceEach'
    BY <1>1, <1>2, <2>3 DEF OnceEach, Page
  <2>5. Accounted'
    BY <1>1, <1>3, <1>4, <2>1, <2>2, CountTypes DEF Accounted
  <2> QED
    BY <2>4, <2>5
<1>6. CASE GiveUp \/ CollectEnds \/ NoJobs \/ Finish
  <2>1. ch' = ch /\ results' = results /\ received' = received
    BY <1>6 DEF GiveUp, CollectEnds, NoJobs, Finish
  <2>2. \A j \in Page : Places(j)' = 1
    BY <1>1, <1>2, <1>4, <2>1 DEF Places
  <2>3. OnceEach'
    BY <1>1, <2>2 DEF OnceEach, Page
  <2>4. Accounted'
    BY <1>1, <1>3, <1>4, <2>1 DEF Accounted
  <2> QED
    BY <2>3, <2>4
<1> QED
  BY <1>5, <1>6

----------------------------------------------------------------------------
(* An appended element joins those of the sequence.                        *)
LEMMA ToSetAppend ==
    ASSUME NEW S, NEW s \in Seq(S), NEW x \in S
    PROVE  ToSet(Append(s, x)) = ToSet(s) \union {x}
<1>1. /\ Len(s) \in Nat /\ DOMAIN s = 1..Len(s)
      /\ Append(s, x) \in Seq(S) /\ Len(Append(s, x)) = Len(s) + 1
      /\ Append(s, x)[Len(s) + 1] = x
      /\ \A i \in 1..Len(s) : Append(s, x)[i] = s[i]
  BY LenProperties, AppendProperties
<1>2. DOMAIN Append(s, x) = 1..(Len(s) + 1)
  BY <1>1, LenProperties
<1> QED
  BY <1>1, <1>2 DEF ToSet

(* What holds of the calling goroutine and of its workers.                 *)
Control == ScanInv /\ FeedInv /\ PoolInv /\ WaitInv /\ ReturnInv

(* Scanning a token changes what is scanned and nothing of the pool.       *)
LEMMA ScanKeeps ==
    ASSUME IInv, ScanInline \/ ScanJob
    PROVE  TypeOK' /\ Control' /\ InlineRendered'
<1> USE DEF IInv
<1>1. /\ main = "scan" /\ main' = "scan" /\ next' = next + 1 /\ next \in Page
      /\ next \in Nat /\ Tokens \in Nat /\ next <= Tokens
      /\ jobs' = jobs /\ ch' = ch /\ job' = job /\ received' = received
      /\ worker' = worker /\ closed' = closed /\ cancelled' = cancelled
      /\ output' = output
  BY PoolAssumption DEF ScanInline, ScanJob, TypeOK, Page
<1>2. esiJobs \in Seq(Page) /\ results \in Seq(Page) /\ Len(esiJobs) \in Nat
  BY CountTypes DEF TypeOK, Page
<1>3. \/ /\ esiJobs' = esiJobs /\ results' = Append(results, next)
      \/ /\ esiJobs' = Append(esiJobs, next) /\ results' = results
  BY DEF ScanInline, ScanJob
<1>4. /\ esiJobs' \in Seq(Page) /\ results' \in Seq(Page)
      /\ Len(esiJobs') = Len(esiJobs) \/ Len(esiJobs') = Len(esiJobs) + 1
  <2>1. /\ Append(results, next) \in Seq(Page) /\ Append(esiJobs, next) \in Seq(Page)
        /\ Len(Append(esiJobs, next)) = Len(esiJobs) + 1
    BY <1>1, <1>2, AppendProperties
  <2> QED
    BY <1>2, <1>3, <2>1
<1>5. ToSet(esiJobs') \union ToSet(results') = (ToSet(esiJobs) \union ToSet(results)) \union {next}
  <2>1. /\ ToSet(Append(results, next)) = ToSet(results) \union {next}
        /\ ToSet(Append(esiJobs, next)) = ToSet(esiJobs) \union {next}
    BY <1>1, <1>2, ToSetAppend
  <2> QED
    BY <1>3, <2>1
<1>6. Len(jobs) <= Len(esiJobs') /\ Len(ch) <= Len(esiJobs') /\ received \in 0..Len(esiJobs')
  BY <1>2, <1>4, CountTypes DEF TypeOK
<1>7. TypeOK'
  BY <1>1, <1>4, <1>6 DEF TypeOK, Page
<1>8. Control'
  BY <1>1, <1>2, <1>4 DEF Control, ScanInv, FeedInv, PoolInv, WaitInv, ReturnInv
<1>9. InlineRendered'
  BY <1>1, <1>5 DEF InlineRendered, Page
<1> QED
  BY <1>7, <1>8, <1>9

(* Jobs go from the list to the channel, which is closed after the last.   *)
LEMMA FeedKeeps ==
    ASSUME IInv, StartPool \/ Feed \/ CloseJobs
    PROVE  TypeOK' /\ Control' /\ InlineRendered'
<1> USE DEF IInv
<1> DEFINE n == Len(esiJobs)
<1>1. /\ esiJobs' = esiJobs /\ ch' = ch /\ job' = job /\ received' = received
      /\ results' = results /\ main' # "scan" /\ cancelled' = cancelled
      /\ output' = output /\ main' \in {"feed", "collect"}
      /\ esiJobs \in Seq(Page) /\ jobs \in Seq(Page) /\ n \in Nat /\ n <= Tokens
      /\ Tokens \in Nat /\ 1 \in Worker
      /\ worker \in [Worker -> {"unborn", "idle", "busy", "exited"}]
  <2>1. /\ esiJobs' = esiJobs /\ ch' = ch /\ job' = job /\ received' = received
        /\ results' = results /\ main' # "scan" /\ cancelled' = cancelled
        /\ output' = output /\ main' \in {"feed", "collect"}
    BY DEF StartPool, Feed, CloseJobs
  <2>2. /\ esiJobs \in Seq(Page) /\ jobs \in Seq(Page)
        /\ worker \in [Worker -> {"unborn", "idle", "busy", "exited"}]
    BY DEF TypeOK, Page
  <2>3. n \in Nat /\ n <= Tokens
    BY CountTypes DEF PoolInv
  <2>4. Tokens \in Nat /\ 1 \in Worker
    BY PoolAssumption DEF Worker
  <2> QED
    BY <2>1, <2>2, <2>3, <2>4
<1>2. InlineRendered'
  <2>1. main = "scan" => \A j \in Page : j < next
    BY <1>1 DEF StartPool, Feed, CloseJobs, TypeOK, Page
  <2> QED
    BY <1>1, <2>1 DEF InlineRendered, Page
<1>3. CASE StartPool
  <2>1. /\ main = "scan" /\ main' = "feed" /\ next' = 1 /\ esiJobs # <<>>
        /\ jobs' = jobs /\ closed' = closed
        /\ worker' = [w \in Worker |-> IF w <= n THEN "idle" ELSE "unborn"]
    BY <1>3 DEF StartPool
  <2>2. n # 0
    BY <1>1, <2>1, EmptySeq
  <2>3. worker'[1] = "idle"
    BY <1>1, <2>1, <2>2
  <2>4. TypeOK'
    BY <1>1, <2>1 DEF TypeOK, Page
  <2>5. \A w \in Worker : worker[w] = "unborn" /\ worker'[w] \in {"idle", "unborn"}
    BY <2>1 DEF ScanInv
  <2>6. Control'
    BY <1>1, <2>1, <2>3, <2>5
       DEF Control, ScanInv, FeedInv, PoolInv, WaitInv, ReturnInv
  <2> QED
    BY <1>2, <2>4, <2>6
<1>4. CASE Feed
  <2>1. /\ main = "feed" /\ main' = "feed" /\ next' = next + 1 /\ next <= n
        /\ jobs' = Append(jobs, esiJobs[next]) /\ Len(jobs) < n
        /\ closed' = closed /\ worker' = worker /\ next \in Nat /\ next >= 1
    BY <1>1, <1>4 DEF Feed, TypeOK
  <2>2. esiJobs[next] \in Page
    BY <1>1, <2>1, ElementOfSeq
  <2>3. jobs' \in Seq(Page) /\ Len(jobs') = Len(jobs) + 1
    BY <1>1, <2>1, <2>2, AppendProperties
  <2>4. Len(jobs') <= n
    BY <1>1, <2>1, <2>3, CountTypes
  <2>5. TypeOK'
    BY <1>1, <2>1, <2>3, <2>4 DEF TypeOK, Page
  <2>6. ~closed
    BY <2>1 DEF FeedInv
  <2>7. Control'
    BY <1>1, <2>1, <2>6
       DEF Control, ScanInv, FeedInv, PoolInv, WaitInv, ReturnInv
  <2> QED
    BY <1>2, <2>5, <2>7
<1>5. CASE CloseJobs
  <2>1. /\ main = "feed" /\ main' = "collect" /\ next' = next
        /\ jobs' = jobs /\ closed' = TRUE /\ worker' = worker
    BY <1>5 DEF CloseJobs
  <2>2. TypeOK'
    BY <1>1, <2>1 DEF TypeOK
  <2>3. Control'
    BY <1>1, <2>1
       DEF Control, ScanInv, FeedInv, PoolInv, WaitInv, ReturnInv
  <2> QED
    BY <1>2, <2>2, <2>3
<1> QED
  BY <1>3, <1>4, <1>5

(* A worker takes a job, sends its response or ends.                       *)
LEMMA PoolKeeps ==
    ASSUME IInv, NEW w \in Worker, Pool(w)
    PROVE  TypeOK' /\ Control' /\ InlineRendered'
<1> USE DEF IInv
<1>1. /\ main' = main /\ next' = next /\ esiJobs' = esiJobs /\ closed' = closed
      /\ results' = results /\ received' = received /\ cancelled' = cancelled
      /\ output' = output
  BY DEF Pool, TakeJob, SendResponse, WorkerExits
<1>2. /\ jobs \in Seq(Page) /\ ch \in Seq(Page)
      /\ job \in [Worker -> 0..Tokens]
      /\ worker \in [Worker -> {"unborn", "idle", "busy", "exited"}]
      /\ Tokens \in Nat /\ Len(jobs) \in Nat /\ Len(ch) \in Nat /\ Len(esiJobs) \in Nat
  BY PoolAssumption, CountTypes DEF TypeOK, Page
<1>3. InlineRendered'
  BY <1>1 DEF InlineRendered
<1>4. /\ worker[w] \in {"idle", "busy"} /\ main # "scan" /\ main # "returned"
  BY DEF Pool, TakeJob, SendResponse, WorkerExits, ScanInv, ReturnInv
<1>5. CASE TakeJob(w)
  <2>1. /\ worker[w] = "idle" /\ jobs # <<>> /\ jobs' = Tail(jobs) /\ ch' = ch
        /\ job' = [job EXCEPT ![w] = Head(jobs)]
        /\ worker' = [worker EXCEPT ![w] = "busy"]
    BY <1>5 DEF TakeJob
  <2>2. Head(jobs) \in Page /\ jobs' \in Seq(Page) /\ Len(jobs') = Len(jobs) - 1
    BY <1>2, <2>1, HeadTailProperties
  <2>3. Head(jobs) \in 0..Tokens /\ Head(jobs) # 0
    BY <1>2, <2>2 DEF Page
  <2>4. Len(jobs') <= Len(esiJobs)
    BY <1>2, <2>2 DEF TypeOK
  <2>5. job' \in [Worker -> 0..Tokens]
        /\ worker' \in [Worker -> {"unborn", "idle", "busy", "exited"}]
    BY <1>2, <2>1, <2>3
  <2>6. TypeOK'
    BY <1>1, <2>1, <2>2, <2>4, <2>5 DEF TypeOK, Page
  <2>7. \A v \in Worker : v # w => worker'[v] = worker[v] /\ job'[v] = job[v]
    BY <1>2, <2>1
  <2>8. worker'[w] = "busy" /\ job'[w] # 0
    BY <1>2, <2>1, <2>3
  <2>9. \A v \in Worker : worker[v] # "exited"
    BY <2>1 DEF PoolInv
  <2>10. worker[1] # "unborn" => worker'[1] # "unborn"
    BY <1>2, <2>1
  <2>11. Control'
    BY <1>1, <1>4, <2>7, <2>8, <2>9, <2>10
       DEF Control, ScanInv, FeedInv, PoolInv, WaitInv, ReturnInv
  <2> QED
    BY <1>3, <2>6, <2>11
<1>6. CASE SendResponse(w)
  <2>1. /\ jobs' = jobs /\ ch' = Append(ch, job[w]) /\ job[w] # 0
        /\ Len(ch) < Len(esiJobs) /\ job' = [job EXCEPT ![w] = 0]
        /\ worker[w] = "busy" /\ worker' = [worker EXCEPT ![w] = "idle"]
    BY <1>6 DEF SendResponse, PoolInv, responseCap
  <2>2. job[w] \in Page
    BY <1>2, <2>1 DEF Page
  <2>3. ch' \in Seq(Page) /\ Len(ch') = Len(ch) + 1
    BY <1>2, <2>1, <2>2, AppendProperties
  <2>4. Len(ch') <= Len(esiJobs)
    BY <1>2, <2>1, <2>3
  <2>5. job' \in [Worker -> 0..Tokens]
        /\ worker' \in [Worker -> {"unborn", "idle", "busy", "exited"}]
    BY <1>2, <2>1
  <2>6. TypeOK'
    BY <1>1, <2>1, <2>3, <2>4, <2>5 DEF TypeOK, Page
  <2>7. \A v \in Worker : v # w => worker'[v] = worker[v] /\ job'[v] = job[v]
    BY <1>2, <2>1
  <2>8. worker'[w] = "idle" /\ job'[w] = 0
    BY <1>2, <2>1
  <2>9. worker[1] # "unborn" => worker'[1] # "unborn"
    BY <1>2, <2>1
  <2>10. Control'
    BY <1>1, <1>4, <2>1, <2>7, <2>8, <2>9
       DEF Control, ScanInv, FeedInv, PoolInv, WaitInv, ReturnInv
  <2> QED
    BY <1>3, <2>6, <2>10
<1>7. CASE WorkerExits(w)
  <2>1. /\ jobs' = jobs /\ ch' = ch /\ job' = job /\ jobs = <<>> /\ closed
        /\ worker[w] = "idle" /\ worker' = [worker EXCEPT ![w] = "exited"]
    BY <1>7 DEF WorkerExits
  <2>2. TypeOK'
    <3>1. worker' \in [Worker -> {"unborn", "idle", "busy", "exited"}]
      BY <1>2, <2>1
    <3> QED
      BY <1>1, <2>1, <3>1 DEF TypeOK
  <2>3. \A v \in Worker : v # w => worker'[v] = worker[v]
    BY <1>2, <2>1
  <2>4. worker'[w] = "exited" /\ job[w] = 0
    BY <1>2, <2>1 DEF PoolInv
  <2>5. worker[1] # "unborn" => worker'[1] # "unborn"
    BY <1>2, <2>1
  <2>6. Control'
    BY <1>1, <1>4, <2>1, <2>3, <2>4, <2>5
       DEF Control, ScanInv, FeedInv, PoolInv, WaitInv, ReturnInv
  <2> QED
    BY <1>3, <2>2, <2>6
<1> QED
  BY <1>5, <1>6, <1>7 DEF Pool

(* The page put together from the results is one of tokens.                *)
LEMMA OutputType ==
    ASSUME TypeOK
    PROVE  /\ results \in Seq(Nat) /\ results \in Seq(Page)
           /\ assembleResults(results) \in Seq(Page)
<1>1. results \in Seq(Page) /\ Page \subseteq Nat
  BY PoolAssumption DEF TypeOK, Page
<1>2. results \in Seq(Nat)
  BY <1>1, SeqMonotonic
<1> QED
  BY <1>1, <1>2, Assembled

(* The call collects, gives up, or returns its page.                       *)
LEMMA CollectKeeps ==
    ASSUME IInv, Receive \/ GiveUp \/ CollectEnds \/ NoJobs \/ Finish
    PROVE  TypeOK' /\ Control' /\ InlineRendered'
<1> USE DEF IInv
<1>1. /\ jobs' = jobs /\ job' = job /\ worker' = worker /\ esiJobs' = esiJobs
      /\ next' = next /\ closed' = closed /\ cancelled' = cancelled
  BY DEF Receive, GiveUp, CollectEnds, NoJobs, Finish
<1>2. \A j \in Page : j \in ToSet(esiJobs) \union ToSet(results)
  BY PoolAssumption
     DEF Receive, GiveUp, CollectEnds, NoJobs, Finish, InlineRendered, Page, TypeOK
<1>3. CASE Receive
  <2>1. /\ ch \in Seq(Page) /\ ch # <<>> /\ ch' = Tail(ch) /\ received' = received + 1
        /\ results \in Seq(Page) /\ results' = Append(results, Head(ch))
        /\ main = "collect" /\ main' = "collect" /\ received < Len(esiJobs)
        /\ output' = output
    BY <1>3 DEF Receive, TypeOK, Page
  <2>2. Head(ch) \in Page /\ ch' \in Seq(Page) /\ Len(ch') = Len(ch) - 1
    BY <2>1, HeadTailProperties
  <2>3. results' \in Seq(Page) /\ ToSet(results') = ToSet(results) \union {Head(ch)}
    BY <2>1, <2>2, AppendProperties, ToSetAppend
  <2>4. received' \in 0..Len(esiJobs) /\ Len(ch') <= Len(esiJobs)
    BY <2>1, <2>2, CountTypes DEF TypeOK
  <2>5. TypeOK'
    BY <1>1, <2>1, <2>2, <2>3, <2>4 DEF TypeOK, Page
  <2>6. Control'
    BY <1>1, <2>1 DEF Control, ScanInv, FeedInv, PoolInv, WaitInv, ReturnInv
  <2>7. InlineRendered'
    BY <1>1, <1>2, <2>3 DEF InlineRendered, Page
  <2> QED
    BY <2>5, <2>6, <2>7
<1>4. CASE GiveUp \/ CollectEnds \/ NoJobs \/ Finish
  <2>1. /\ ch' = ch /\ results' = results /\ received' = received
        /\ main' \in {"wait", "returned"}
        /\ output' \in {output, assembleResults(results)}
    BY <1>4 DEF GiveUp, CollectEnds, NoJobs, Finish
  <2>2. output' \in Seq(1..Tokens)
    BY <2>1, OutputType DEF TypeOK, Page
  <2>3. TypeOK'
    BY <1>1, <2>1, <2>2 DEF TypeOK
  <2>4. Control'
    BY <1>1, <1>4, <2>1 DEF GiveUp, CollectEnds, NoJobs, Finish,
                            Control, ScanInv, FeedInv, PoolInv, WaitInv, ReturnInv
  <2>5. InlineRendered'
    BY <1>1, <1>2, <2>1 DEF InlineRendered, Page
  <2> QED
    BY <2>3, <2>4, <2>5
<1> QED
  BY <1>3, <1>4

----------------------------------------------------------------------------
(* The page that the call returns is complete and sorted, because by then  *)
(* every token is in one place and the other places are empty, or the      *)
(* request was cancelled.                                                  *)
LEMMA PageReturned ==
    ASSUME IInv, NoJobs \/ Finish
    PROVE  PageInOrder'
<1> USE DEF IInv
<1>1. /\ results' = results /\ esiJobs' = esiJobs /\ cancelled' = cancelled
      /\ output' = assembleResults(results)
  BY DEF NoJobs, Finish
<1>2. results \in Seq(Nat) /\ results \in Seq(Page) /\ Len(results) \in Nat
  BY OutputType, LenProperties
<1>3. /\ output' \in Seq(Page) /\ Len(output') = Len(results)
      /\ ToSet(output') = ToSet(results)
      /\ \A i, j \in 1..Len(results) :
           i < j => \E a, b \in 1..Len(results) :
                       /\ output'[i] = results[a] /\ output'[j] = results[b]
                       /\ a # b /\ results[a] <= results[b]
  <2> DEFINE out == output'
             S == Page
  <2>1. out = assembleResults(results) /\ results \in Seq(Nat) /\ results \in Seq(S)
    BY <1>1, <1>2
  <2> HIDE DEF out, S
  <2>2. /\ out \in Seq(S) /\ Len(out) = Len(results)
        /\ ToSet(out) = ToSet(results)
        /\ InOrderOf(out, results)
    BY <2>1, Assembled
  <2> QED
    BY <2>2 DEF out, S, InOrderOf
<1>4. \A j \in Page : Places(j) = 1
  BY PoolAssumption DEF NoJobs, Finish, OnceEach, Page, TypeOK
<1>5. \A j \in Page : Occurrences(results, j) <= 1
  <2> SUFFICES ASSUME NEW j \in Page PROVE Occurrences(results, j) <= 1
    OBVIOUS
  <2>1. /\ Occurrences(Unfed, j) \in Nat /\ Occurrences(jobs, j) \in Nat
        /\ Occurrences(ch, j) \in Nat /\ Occurrences(results, j) \in Nat
        /\ Occurrences(job, j) \in Nat
    BY CountTypes
  <2> QED
    BY <1>4, <2>1 DEF Places
<1>6. \A a, b \in 1..Len(results) : results[a] = results[b] => a = b
  <2> SUFFICES ASSUME NEW a \in 1..Len(results), NEW b \in 1..Len(results),
                      results[a] = results[b]
               PROVE  a = b
    OBVIOUS
  <2>1. results[b] \in Page
    BY <1>2, ElementOfSeq
  <2>2. Occurrences(results, results[b]) <= 1
    BY <1>5, <2>1
  <2> QED
    BY <1>2, <2>2, OccursOnce
<1>7. \A i, j \in 1..Len(output') : i < j => output'[i] < output'[j]
  <2> SUFFICES ASSUME NEW i \in 1..Len(results), NEW j \in 1..Len(results), i < j
               PROVE  output'[i] < output'[j]
    BY <1>3
  <2>1. PICK a \in 1..Len(results), b \in 1..Len(results) :
               /\ output'[i] = results[a] /\ output'[j] = results[b]
               /\ a # b /\ results[a] <= results[b]
    BY <1>3
  <2>2. results[a] \in Nat /\ results[b] \in Nat
    BY <1>2, ElementOfSeq
  <2> QED
    BY <1>6, <2>1, <2>2
<1>8. Page \ ToSet(esiJobs) \subseteq ToSet(results)
  BY PoolAssumption DEF NoJobs, Finish, InlineRendered, Page, TypeOK
<1>9. ASSUME ~cancelled
      PROVE  Unfed = <<>> /\ jobs = <<>> /\ ch = <<>> /\ \A w \in Worker : job[w] = 0
  <2>1. /\ Len(Unfed) \in Nat /\ Len(jobs) \in Nat /\ Len(ch) \in Nat
        /\ received \in Nat /\ Len(esiJobs) \in Nat /\ Cardinality(Busy) \in Nat
    BY CountTypes
  <2>2. Len(Unfed) + Len(jobs) + Len(ch) + received + Cardinality(Busy) = Len(esiJobs)
    BY DEF Accounted
  <2>3. jobs \in Seq(Page) /\ ch \in Seq(Page)
    BY DEF TypeOK, Page
  <2>4. \A w \in Worker : job[w] = 0
    BY DEF NoJobs, Finish, ScanInv, PoolInv
  <2>5. CASE NoJobs
    <3>1. esiJobs = <<>> /\ Unfed = <<>> /\ Len(esiJobs) = 0
      BY <2>5 DEF NoJobs, Unfed
    <3>2. Len(jobs) = 0 /\ Len(ch) = 0
      BY <2>1, <2>2, <3>1
    <3> QED
      BY <2>3, <2>4, <3>1, <3>2, EmptySeq
  <2>6. CASE Finish
    <3>1. Unfed = <<>> /\ received = Len(esiJobs)
      BY <1>9, <2>6 DEF Finish, Unfed, WaitInv
    <3>2. Len(ch) = 0
      BY <2>1, <2>2, <3>1
    <3>3. worker[1] = "exited"
      BY <2>6, PoolAssumption DEF Finish, PoolInv, Worker
    <3>4. jobs = <<>>
      BY <3>3, PoolAssumption DEF PoolInv, Worker
    <3> QED
      BY <2>3, <2>4, <3>1, <3>2, <3>4, EmptySeq
  <2> QED
    BY <2>5, <2>6
<1>10. ASSUME ~cancelled
       PROVE  ToSet(results) = Page
  <2>1. ToSet(results) \subseteq Page
    BY <1>2, LenProperties, ElementOfSeq DEF ToSet
  <2>2. ASSUME NEW j \in Page
        PROVE  j \in ToSet(results)
    <3>1. /\ Occurrences(Unfed, j) = 0 /\ Occurrences(jobs, j) = 0
          /\ Occurrences(ch, j) = 0
      BY <1>9, <1>10, OccurrencesEmpty
    <3>2. Occurrences(job, j) = 0
      <4>1. job \in Seq(Slot) /\ DOMAIN job = Worker
        BY JobSequence DEF TypeOK
      <4>2. j # 0
        BY PoolAssumption DEF Page
      <4>3. j \notin ToSet(job)
        BY <1>9, <1>10, <4>1, <4>2 DEF ToSet
      <4> QED
        BY <4>1, <4>3, OccurrencesType
    <3>3. Occurrences(results, j) = 1
      <4>1. Occurrences(results, j) \in Nat
        BY CountTypes
      <4> QED
        BY <1>4, <3>1, <3>2, <4>1 DEF Places
    <3> QED
      BY <1>2, <3>3, OccurrencesType
  <2> QED
    BY <2>1, <2>2
<1> QED
  BY <1>1, <1>3, <1>7, <1>8, <1>10 DEF PageInOrder, Page

(* Every step keeps the invariant.                                         *)
LEMMA StepInv ==
    ASSUME IInv, [Next]_vars
    PROVE  IInv'
<1>1. CASE Main
  <2>1. TypeOK' /\ Control' /\ InlineRendered' /\ OnceEach' /\ Accounted'
    BY <1>1, ScanMoves, FeedMoves, CollectMoves, ScanKeeps, FeedKeeps, CollectKeeps
       DEF Main
  <2>2. PageInOrder'
    <3>1. CASE NoJobs \/ Finish
      BY <3>1, PageReturned
    <3>2. CASE ~(NoJobs \/ Finish)
      <4>1. main' # "returned"
        BY <1>1, <3>2 DEF Main, ScanInline, ScanJob, StartPool, Feed, CloseJobs,
                          Receive, GiveUp, CollectEnds
      <4> QED
        BY <4>1 DEF PageInOrder
    <3> QED
      BY <3>1, <3>2
  <2> QED
    BY <2>1, <2>2 DEF IInv, Control
<1>2. CASE \E w \in Worker : Pool(w)
  <2>1. PICK w \in Worker : Pool(w)
    BY <1>2
  <2>2. TypeOK' /\ Control' /\ InlineRendered' /\ OnceEach' /\ Accounted'
    BY <2>1, PoolMoves, PoolKeeps
  <2>3. main # "returned" /\ main' = main
    BY <2>1 DEF Pool, TakeJob, SendResponse, WorkerExits, IInv, ReturnInv
  <2> QED
    BY <2>2, <2>3 DEF IInv, Control, PageInOrder
<1>3. CASE Cancel \/ UNCHANGED vars
  <2>1. /\ UNCHANGED <<main, next, esiJobs, results, jobs, closed, worker, job,
                       ch, received, output>>
        /\ cancelled' \in BOOLEAN
        /\ cancelled' = cancelled \/ (cancelled' /\ main # "returned")
    BY <1>3 DEF Cancel, vars, IInv, TypeOK
  <2>2. Unfed' = Unfed /\ Busy' = Busy
    BY <2>1 DEF Unfed, Busy
  <2>3. TypeOK'
    BY <2>1 DEF IInv, TypeOK
  <2>4. OnceEach' /\ Accounted' /\ InlineRendered'
    BY <2>1, <2>2 DEF IInv, OnceEach, Places, Accounted, InlineRendered
  <2>5. Control'
    BY <2>1 DEF IInv, Control, ScanInv, FeedInv, PoolInv, WaitInv, ReturnInv
  <2>6. PageInOrder'
    BY <2>1 DEF IInv, PageInOrder
  <2> QED
    BY <2>3, <2>4, <2>5, <2>6 DEF IInv, Control
<1> QED
  BY <1>1, <1>2, <1>3 DEF Next

----------------------------------------------------------------------------
(* The invariant holds of every MESIParse call, whatever the page, the     *)
(* number of workers and the order in which they are scheduled.            *)
THEOREM PoolInvariant == Spec => []IInv
<1>1. Init => IInv
  BY InitInv
<1>2. IInv /\ [Next]_vars => IInv'
  BY StepInv
<1> QED
  BY <1>1, <1>2, PTL DEF Spec

(* The channels never hold more than their capacity, and every variable    *)
(* keeps its type.                                                         *)
THEOREM TypeCorrect == Spec => []TypeOK
<1>1. IInv => TypeOK
  BY DEF IInv
<1> QED
  BY <1>1, PoolInvariant, PTL

(* The page is complete and in document order whatever the order in which  *)
(* the workers finished; a cancelled call still has its inline content.    *)
THEOREM PageInOrderAlways == Spec => []PageInOrder
<1>1. IInv => PageInOrder
  BY DEF IInv
<1> QED
  BY <1>1, PoolInvariant, PTL

(* No job is rendered twice or dropped between the channels.               *)
THEOREM EveryJobOnceAlways == Spec => []EveryJobOnce
<1>1. IInv => EveryJobOnce
  <2> SUFFICES ASSUME IInv, NEW j \in ToSet(esiJobs)
               PROVE  Places(j) = 1
    BY DEF EveryJobOnce, Places
  <2>1. esiJobs \in Seq(Page)
    BY DEF IInv, TypeOK, Page
  <2>2. j \in Page
    BY <2>1, LenProperties, ElementOfSeq DEF ToSet
  <2>3. Occurrences(esiJobs, j) \in Nat /\ Occurrences(esiJobs, j) # 0
    BY <2>1, OccurrencesType
  <2>4. main = "scan" => Places(j) # 0
    <3> SUFFICES ASSUME main = "scan" PROVE Places(j) # 0
      OBVIOUS
    <3>1. Occurrences(Unfed, j) = Occurrences(esiJobs, j)
      BY DEF Unfed
    <3>2. /\ Occurrences(jobs, j) \in Nat /\ Occurrences(ch, j) \in Nat
          /\ Occurrences(results, j) \in Nat /\ Occurrences(job, j) \in Nat
      BY CountTypes DEF IInv
    <3> QED
      BY <2>3, <3>1, <3>2 DEF Places
  <2> QED
    BY <2>2, <2>4 DEF IInv, OnceEach
<1> QED
  BY <1>1, PoolInvariant, PTL

(* The counts leave room in both channels: a job still to feed, or one at  *)
(* a worker, is not in the channel it is going to.                         *)
THEOREM SendsNeverBlockAlways == Spec => []SendsNeverBlock
<1>1. IInv => SendsNeverBlock
  <2> SUFFICES ASSUME IInv
               PROVE  SendsNeverBlock
    OBVIOUS
  <2>1. /\ Len(Unfed) \in Nat /\ Len(jobs) \in Nat /\ Len(ch) \in Nat
        /\ received \in Nat /\ Len(esiJobs) \in Nat
        /\ IsFiniteSet(Busy) /\ Cardinality(Busy) \in Nat
    BY CountTypes DEF IInv
  <2>2. Len(Unfed) + Len(jobs) + Len(ch) + received + Cardinality(Busy) = Len(esiJobs)
    BY DEF IInv, Accounted
  <2>3. ASSUME main = "feed", next <= Len(esiJobs)
        PROVE  Len(jobs) < Len(esiJobs)
    <3>1. Unfed \in Seq(Page) /\ Unfed # <<>>
      BY <2>3, UnfedFacts DEF IInv
    <3>2. Len(Unfed) # 0
      BY <3>1, EmptySeq
    <3> QED
      BY <2>1, <2>2, <3>2
  <2>4. ASSUME NEW w \in Worker, worker[w] = "busy"
        PROVE  Len(ch) < responseCap
    <3>1. w \in Busy
      BY <2>4 DEF Busy
    <3>2. Cardinality(Busy) # 0
      BY <2>1, <3>1, FS_EmptySet
    <3> QED
      BY <2>1, <2>2, <3>2 DEF responseCap
  <2> QED
    BY <2>3, <2>4 DEF SendsNeverBlock
<1> QED
  BY <1>1, PoolInvariant, PTL
============================================================================
