-------------------------- MODULE NginxFilterProofs --------------------------
(***************************************************************************)
(* Proofs about NginxFilter for any length of a body and of a page, any    *)
(* limit, any pool of proxy buffers and any client: the module keeps the   *)
(* promise of PageFilter, tells the length it sends, applies the limit to  *)
(* exactly the bodies that exceed it, and leaves other responses alone.    *)
(*                                                                         *)
(* The capacity of the buffer, a recursion over the buffers of a chain and *)
(* over the rounds of doubling, comes last.                                *)
(***************************************************************************)
EXTENDS NginxFilter, FiniteSetTheorems, SequenceTheorems, WellFoundedInduction,
        TLAPS

AnswerByte == 0..MaxBytes

(* What the filters below have been given for the client.                  *)
Answer == sent \o out

CtxFields == {"exists", "accumulated", "capacity", "done", "passthrough"}

Typed ==
    /\ lcf \in Confs /\ rsp \in Responses
    /\ conn \in {"head", "body", "refused", "aborted"}
    /\ head \in Header
    /\ DOMAIN ctx = CtxFields
    /\ ctx.exists \in BOOLEAN /\ ctx.done \in BOOLEAN
    /\ ctx.passthrough \in BOOLEAN
    /\ read \in 0..MaxBytes /\ eof \in BOOLEAN
    /\ busy \subseteq 1..MaxBytes
    /\ out \in Seq(AnswerByte) /\ lastOut \in BOOLEAN
    /\ sent \in Seq(AnswerByte)

(* Nothing has happened before the header filter.                          *)
StartInv ==
    conn = "head" =>
        /\ ctx = NoCtx /\ read = 0 /\ ~eof /\ ~lastOut
        /\ out = <<>> /\ sent = <<>>

(* Which responses the module takes, and what it makes of their header.    *)
RouteInv ==
    /\ ~ctx.exists => ctx = NoCtx
    /\ ctx.exists => ~Skipped
    /\ conn # "head" /\ Skipped => conn = "body" /\ ~head.surrogate /\ ~head.error500
    /\ conn = "body" =>
         head.length = IF ctx.exists /\ rsp.main THEN Unknown ELSE ContentLength

(* Every byte that came is held back, or every one has been passed on, or  *)
(* a page has been sent in their place.                                    *)
BytesInv ==
    conn = "body" =>
        /\ Accumulating /\ ~ctx.done =>
             ctx.accumulated = Raw(1, read) /\ Answer = <<>> /\ ~lastOut
        /\ ctx.done => Accumulating /\ eof /\ lastOut
        /\ ~Accumulating =>
             Answer = Raw(1, read) /\ (lastOut <=> eof /\ (rsp.main \/ rsp.headerOnly))

(* The upstream module hands down the response and then its end.           *)
ReadInv ==
    /\ read <= rsp.len
    /\ rsp.headerOnly => read = 0
    /\ eof /\ ~rsp.headerOnly => read = rsp.len

Fits == lcf.limit = 0 \/ rsp.len <= lcf.limit

(* Why a page is not processed, or a request ends without an answer.       *)
LimitInv ==
    /\ conn = "body" /\ Accumulating /\ lcf.limit > 0 => read <= lcf.limit
    /\ ctx.passthrough => ctx.exists /\ ~ctx.done /\ ~Fits /\ lcf.onOversize = "pass"
    /\ conn = "body" /\ ~ctx.exists /\ ~Skipped /\ ~lcf.unenforceable /\ ~lcf.lowMemory
         => ~Fits /\ lcf.onOversize = "pass"
    /\ conn \in {"refused", "aborted"} /\ ~lcf.lowMemory
         => ~Fits /\ lcf.onOversize = "error"

IInv ==
    Typed /\ StartInv /\ RouteInv /\ BytesInv /\ ReadInv /\ LimitInv

----------------------------------------------------------------------------
(* A function on 1..n is a sequence of length n.                           *)
LEMMA FunctionIsSeq ==
    ASSUME NEW S, NEW n \in Nat, NEW f \in [1..n -> S]
    PROVE  f \in Seq(S) /\ Len(f) = n
<1>1. f \in UNION {[1..m -> S] : m \in Nat}
  OBVIOUS
<1>2. f \in Seq(S)
  BY <1>1, SeqDef
<1> QED
  BY <1>2, LenProperties

(* The bytes that came between two points, and up to one.                  *)
LEMMA RawFacts ==
    ASSUME NEW r \in Nat, NEW e \in Nat, r <= e
    PROVE  /\ Raw(r + 1, e) \in Seq(Nat) /\ Len(Raw(r + 1, e)) = e - r
           /\ \A k \in 1..(e - r) : Raw(r + 1, e)[k] = r + k
<1>1. e - r \in Nat /\ e - (r + 1) + 1 = e - r
  OBVIOUS
<1>2. Raw(r + 1, e) = [k \in 1..(e - r) |-> r + 1 + k - 1]
  BY <1>1 DEF Raw
<1>3. \A k \in 1..(e - r) : r + 1 + k - 1 = r + k /\ r + k \in Nat
  OBVIOUS
<1>4. Raw(r + 1, e) \in [1..(e - r) -> Nat]
  BY <1>2, <1>3
<1>5. Raw(r + 1, e) \in Seq(Nat) /\ Len(Raw(r + 1, e)) = e - r
  BY <1>1, <1>4, FunctionIsSeq
<1> QED
  BY <1>2, <1>3, <1>5

(* The bytes that came up to a point.                                      *)
LEMMA RawUpTo ==
    ASSUME NEW e \in Nat
    PROVE  /\ Raw(1, e) \in Seq(Nat) /\ Len(Raw(1, e)) = e
           /\ \A k \in 1..e : Raw(1, e)[k] = k
<1>1. /\ Raw(0 + 1, e) \in Seq(Nat) /\ Len(Raw(0 + 1, e)) = e - 0
      /\ \A k \in 1..(e - 0) : Raw(0 + 1, e)[k] = 0 + k
  BY RawFacts
<1>2. 0 + 1 = 1 /\ e - 0 = e /\ \A k \in 1..e : 0 + k = k
  OBVIOUS
<1> QED
  BY <1>1, <1>2

(* No byte came between a point and itself.                                *)
LEMMA RawNone ==
    ASSUME NEW r \in Nat
    PROVE  Raw(r + 1, r) = <<>> /\ Raw(1, 0) = <<>>
<1>1. Len(Raw(r + 1, r)) = r - r /\ Raw(r + 1, r) \in Seq(Nat)
  BY RawFacts
<1>2. Len(Raw(1, 0)) = 0 /\ Raw(1, 0) \in Seq(Nat)
  BY RawUpTo
<1>3. r - r = 0
  OBVIOUS
<1> QED
  BY <1>1, <1>2, <1>3, EmptySeq

(* What came before and what comes now is what came up to now.             *)
LEMMA RawConcat ==
    ASSUME NEW r \in Nat, NEW e \in Nat, r <= e
    PROVE  Raw(1, r) \o Raw(r + 1, e) = Raw(1, e)
<1> DEFINE a == Raw(1, r)
           b == Raw(r + 1, e)
           c == Raw(1, e)
<1>1. /\ a \in Seq(Nat) /\ Len(a) = r /\ \A k \in 1..r : a[k] = k
      /\ c \in Seq(Nat) /\ Len(c) = e /\ \A k \in 1..e : c[k] = k
  BY RawUpTo
<1>2. b \in Seq(Nat) /\ Len(b) = e - r /\ \A k \in 1..(e - r) : b[k] = r + k
  BY RawFacts
<1> HIDE DEF a, b, c
<1>3. /\ a \o b \in Seq(Nat) /\ Len(a \o b) = Len(a) + Len(b)
      /\ \A k \in 1..(Len(a) + Len(b)) :
            (a \o b)[k] = IF k <= Len(a) THEN a[k] ELSE b[k - Len(a)]
  <2> DEFINE S == Nat
  <2>1. a \in Seq(S) /\ b \in Seq(S)
    BY <1>1, <1>2
  <2> HIDE DEF S
  <2>2. /\ a \o b \in Seq(S) /\ Len(a \o b) = Len(a) + Len(b)
        /\ \A k \in 1..(Len(a) + Len(b)) :
              (a \o b)[k] = IF k <= Len(a) THEN a[k] ELSE b[k - Len(a)]
    BY <2>1, ConcatProperties
  <2> QED
    BY <2>2 DEF S
<1>4. Len(a \o b) = e
  BY <1>1, <1>2, <1>3
<1>5. ASSUME NEW k \in 1..e
      PROVE  (a \o b)[k] = c[k]
  <2>1. CASE k <= r
    <3>1. k \in 1..r /\ k \in 1..(Len(a) + Len(b)) /\ k <= Len(a)
      BY <1>1, <1>2, <2>1
    <3>2. (a \o b)[k] = a[k]
      BY <1>3, <3>1
    <3> QED
      BY <1>1, <3>1, <3>2
  <2>2. CASE ~(k <= r)
    <3>1. /\ k - r \in 1..(e - r) /\ r + (k - r) = k
          /\ k \in 1..(Len(a) + Len(b)) /\ ~(k <= Len(a)) /\ k - Len(a) = k - r
      BY <1>1, <1>2, <2>2
    <3>2. (a \o b)[k] = b[k - r]
      BY <1>3, <3>1
    <3> QED
      BY <1>1, <1>2, <3>1, <3>2
  <2> QED
    BY <2>1, <2>2
<1>6. a \o b = c
  BY <1>1, <1>3, <1>4, <1>5, SeqEqual
<1> QED
  BY <1>6 DEF a, b, c

(* What came up to a point begins what came up to a later one.             *)
LEMMA RawPrefix ==
    ASSUME NEW r \in Nat, NEW e \in Nat, r <= e
    PROVE  IsPrefix(Raw(1, r), Raw(1, e))
<1> DEFINE a == Raw(1, r)
           c == Raw(1, e)
<1>1. /\ a \in Seq(Nat) /\ Len(a) = r /\ \A k \in 1..r : a[k] = k
      /\ c \in Seq(Nat) /\ Len(c) = e /\ \A k \in 1..e : c[k] = k
  BY RawUpTo
<1> HIDE DEF a, c
<1>2. SubSeq(a, 1, r) = a
  BY <1>1, SubSeqFull
<1>3. /\ SubSeq(c, 1, r) \in Seq(Nat)
      /\ Len(SubSeq(c, 1, r)) = IF 1 <= r THEN r - 1 + 1 ELSE 0
      /\ \A k \in 1..(r - 1 + 1) : SubSeq(c, 1, r)[k] = c[1 + k - 1]
  <2>1. \A k \in 1..r : c[k] \in Nat
    BY <1>1
  <2> QED
    BY <2>1, SubSeqProperties
<1>4. Len(SubSeq(c, 1, r)) = r /\ \A k \in 1..r : SubSeq(c, 1, r)[k] = a[k]
  BY <1>1, <1>3
<1>5. SubSeq(c, 1, r) = a
  BY <1>1, <1>3, <1>4, SeqEqual
<1>6. IsPrefix(a, c)
  BY <1>1, <1>2, <1>5 DEF IsPrefix
<1> QED
  BY <1>6 DEF a, c

(* Of bytes that exist, a sequence of bytes is sent.                       *)
LEMMA RawBytes ==
    ASSUME NEW r \in Nat, NEW e \in Nat, r <= e, e <= MaxBytes
    PROVE  Raw(r + 1, e) \in Seq(AnswerByte) /\ Raw(1, e) \in Seq(AnswerByte)
<1>1. /\ Raw(r + 1, e) \in Seq(Nat) /\ Len(Raw(r + 1, e)) = e - r
      /\ \A k \in 1..(e - r) : Raw(r + 1, e)[k] = r + k
  BY RawFacts
<1>2. /\ Raw(1, e) \in Seq(Nat) /\ Len(Raw(1, e)) = e
      /\ \A k \in 1..e : Raw(1, e)[k] = k
  BY RawUpTo
<1>3. /\ \A k \in 1..(e - r) : r + k \in AnswerByte
      /\ \A k \in 1..e : k \in AnswerByte
  BY FilterAssumption DEF AnswerByte
<1>4. /\ Raw(r + 1, e) \in [1..(e - r) -> AnswerByte]
      /\ Raw(1, e) \in [1..e -> AnswerByte]
  BY <1>1, <1>2, <1>3, LenProperties
<1>5. e - r \in Nat
  OBVIOUS
<1> QED
  BY <1>4, <1>5, FunctionIsSeq

(* A page is a sequence of bytes.                                          *)
LEMMA PageBytes ==
    ASSUME NEW n \in Nat
    PROVE  Page(n) \in Seq(AnswerByte)
<1>1. 0 \in AnswerByte
  BY FilterAssumption DEF AnswerByte
<1>2. Page(n) \in [1..n -> AnswerByte]
  BY <1>1 DEF Page
<1> QED
  BY <1>2, FunctionIsSeq

(* Every sequence begins with the empty one, and with itself.              *)
LEMMA PrefixFacts ==
    ASSUME NEW S, NEW s \in Seq(S)
    PROVE  IsPrefix(<<>>, s) /\ IsPrefix(s, s)
<1>1. Len(s) \in Nat /\ Len(<<>>) = 0
  BY LenProperties, EmptySeq
<1>2. SubSeq(<<>>, 1, 0) = <<>> /\ SubSeq(s, 1, 0) = <<>>
  BY SubSeqEmpty
<1> QED
  BY <1>1, <1>2 DEF IsPrefix

----------------------------------------------------------------------------
(* What the types say of the fields that the invariant speaks of.          *)
LEMMA FieldTypes ==
    ASSUME Typed
    PROVE  /\ lcf.limit \in Nat /\ lcf.onOversize \in {"pass", "error"}
           /\ lcf.enable \in BOOLEAN /\ lcf.lowMemory \in BOOLEAN
           /\ rsp.main \in BOOLEAN /\ rsp.headerOnly \in BOOLEAN
           /\ rsp.len \in Nat /\ rsp.len <= MaxBytes /\ MaxBytes \in Nat
           /\ read \in Nat /\ read <= MaxBytes
           /\ Answer \in Seq(AnswerByte)
<1>1. lcf \in Confs /\ rsp \in Responses /\ read \in 0..MaxBytes
  BY DEF Typed
<1>2. /\ lcf.limit \in Nat /\ lcf.onOversize \in {"pass", "error"}
      /\ lcf.enable \in BOOLEAN /\ lcf.lowMemory \in BOOLEAN
  BY <1>1, FilterAssumption DEF Confs
<1>3. /\ rsp.main \in BOOLEAN /\ rsp.headerOnly \in BOOLEAN
      /\ rsp.len \in 0..MaxBytes
  BY <1>1 DEF Responses
<1>4. Answer \in Seq(AnswerByte)
  <2>1. sent \in Seq(AnswerByte) /\ out \in Seq(AnswerByte)
    BY DEF Typed
  <2> QED
    BY <2>1, ConcatProperties DEF Answer
<1> QED
  BY <1>1, <1>2, <1>3, <1>4, FilterAssumption

(* Whatever the client takes, the write filter adds what it is given to    *)
(* the end of the answer.                                                  *)
LEMMA WriteFilterAdds ==
    ASSUME Typed, NEW bytes \in Seq(AnswerByte), NEW last \in BOOLEAN,
           NEW held \in SUBSET (1..MaxBytes), WriteFilter(bytes, last, held)
    PROVE  /\ Answer' = Answer \o bytes
           /\ out' \in Seq(AnswerByte) /\ sent' \in Seq(AnswerByte)
           /\ busy' \subseteq 1..MaxBytes
           /\ lastOut' = (lastOut \/ last)
<1> DEFINE S == AnswerByte
           pending == out \o bytes
<1>1. out \in Seq(S) /\ sent \in Seq(S) /\ bytes \in Seq(S)
  BY DEF Typed
<1> HIDE DEF S
<1>2. pending \in Seq(S)
  BY <1>1, ConcatProperties
<1>3. PICK n \in 0..Chunk :
        /\ n <= Len(pending)
        /\ sent' = sent \o SubSeq(pending, 1, n)
        /\ out' = SubSeq(pending, n + 1, Len(pending))
  BY DEF WriteFilter
<1>4. /\ busy' \subseteq busy \union held
      /\ lastOut' = (lastOut \/ last)
  BY DEF WriteFilter
<1> HIDE DEF pending
<1>5. Len(pending) \in Nat /\ n \in Nat /\ n <= Len(pending)
  BY <1>2, <1>3, LenProperties, FilterAssumption
<1>6. /\ SubSeq(pending, 1, n) \in Seq(S)
      /\ SubSeq(pending, n + 1, Len(pending)) \in Seq(S)
  <2>1. \A i \in 1..Len(pending) : pending[i] \in S
    BY <1>2, ElementOfSeq
  <2>2. /\ \A i \in 1..n : pending[i] \in S
        /\ \A i \in (n + 1)..Len(pending) : pending[i] \in S
    BY <1>5, <2>1
  <2>3. n \in Int /\ n + 1 \in Int /\ Len(pending) \in Int /\ 1 \in Int
    BY <1>5
  <2> QED
    BY <2>2, <2>3, SubSeqProperties
<1>7. SubSeq(pending, 1, n) \o SubSeq(pending, n + 1, Len(pending)) = pending
  <2>1. /\ 1 \in 1..(Len(pending) + 1) /\ n \in (1 - 1)..Len(pending)
        /\ Len(pending) \in n..Len(pending)
    BY <1>5
  <2>2. SubSeq(pending, 1, n) \o SubSeq(pending, n + 1, Len(pending))
          = SubSeq(pending, 1, Len(pending))
    BY <1>2, <2>1, ConcatAdjacentSubSeq
  <2> QED
    BY <1>2, <2>2, SubSeqFull
<1>8. sent' \in Seq(S) /\ out' \in Seq(S)
  BY <1>1, <1>3, <1>6, ConcatProperties
<1>9. Answer' = Answer \o bytes
  <2>1. sent' \o out' = sent \o pending
    <3> DEFINE p == SubSeq(pending, 1, n)
               q == SubSeq(pending, n + 1, Len(pending))
    <3>1. p \o q = pending /\ sent' = sent \o p /\ out' = q
      BY <1>3, <1>7
    <3>2. p \in Seq(S) /\ q \in Seq(S) /\ sent \in Seq(S)
      BY <1>1, <1>6
    <3> HIDE DEF p, q
    <3>3. (sent \o p) \o q = sent \o (p \o q)
      BY <3>2, ConcatAssociative
    <3> QED
      BY <3>1, <3>3
  <2>2. sent \o pending = (sent \o out) \o bytes
    BY <1>1, ConcatAssociative DEF pending
  <2> QED
    BY <2>1, <2>2 DEF Answer
<1> QED
  BY <1>4, <1>8, <1>9 DEF S, Typed

----------------------------------------------------------------------------
(* A chain brings new bytes of the response, in order.                     *)
Ordered(chain) ==
    /\ chain \in Seq((read + 1)..rsp.len)
    /\ \A i, j \in 1..Len(chain) : i < j => chain[i] < chain[j]

(* The chains the upstream module hands down are such chains, and so is    *)
(* one that only carries the end.                                          *)
LEMMA ChainsOrdered ==
    ASSUME Typed
    PROVE  Ordered(<<>>) /\ \A chain \in Chains : Ordered(chain)
<1>1. Ordered(<<>>)
  BY EmptySeq DEF Ordered
<1>2. ASSUME NEW chain \in Chains
      PROVE  Ordered(chain)
  <2> DEFINE S == (read + 1)..rsp.len
  <2>1. PICK n \in 1..Free : chain \in [1..n -> S]
    BY DEF Chains
  <2>2. \A i, j \in DOMAIN chain : i < j => chain[i] < chain[j]
    BY DEF Chains
  <2>3. Cardinality(busy) \in Nat
    <3>1. IsFiniteSet(1..MaxBytes)
      BY FilterAssumption, FS_Interval
    <3>2. IsFiniteSet(busy)
      BY <3>1, FS_Subset DEF Typed
    <3> QED
      BY <3>2, FS_CardinalityType
  <2>4. n \in Nat
    <3>1. Free \in Int
      BY <2>3, FilterAssumption DEF Free
    <3> QED
      BY <2>1, <3>1
  <2> HIDE DEF S
  <2>5. chain \in Seq(S) /\ Len(chain) = n
    BY <2>1, <2>4, FunctionIsSeq
  <2>6. DOMAIN chain = 1..n
    BY <2>1
  <2> QED
    BY <2>2, <2>5, <2>6 DEF Ordered, S
<1> QED
  BY <1>1, <1>2

(* Where a chain ends, and what it brings.                                 *)
LEMMA ChainFacts ==
    ASSUME Typed, read <= rsp.len, NEW chain, Ordered(chain)
    PROVE  /\ End(chain) \in Nat /\ read <= End(chain) /\ End(chain) <= rsp.len
           /\ Len(chain) \in Nat
           /\ \A k \in 1..Len(chain) :
                 /\ chain[k] \in Nat /\ read <= chain[k]
                 /\ chain[k] <= End(chain)
           /\ chain # <<>> => \E k \in 1..Len(chain) : End(chain) = chain[k]
           /\ chain = <<>> => End(chain) = read
           /\ BufsOf(chain) \subseteq 1..MaxBytes
<1> DEFINE S == (read + 1)..rsp.len
<1>1. /\ read \in Nat /\ rsp.len \in Nat /\ rsp.len <= MaxBytes /\ MaxBytes \in Nat
  BY FieldTypes
<1>2. \A s \in S : s \in Nat /\ read <= s /\ s <= rsp.len /\ s \in 1..MaxBytes
  BY <1>1
<1>3. chain \in Seq(S) /\ Len(chain) \in Nat
  BY LenProperties DEF Ordered
<1>4. \A i, j \in 1..Len(chain) : i < j => chain[i] < chain[j]
  BY DEF Ordered
<1> HIDE DEF S
<1>5. \A k \in 1..Len(chain) : chain[k] \in S
  BY <1>3, ElementOfSeq
<1>6. BufsOf(chain) \subseteq 1..MaxBytes
  BY <1>2, <1>5 DEF BufsOf
<1>7. CASE chain = <<>>
  <2>1. Len(chain) = 0 /\ End(chain) = read
    BY <1>7, EmptySeq DEF End
  <2> QED
    BY <1>1, <1>6, <1>7, <2>1
<1>8. CASE chain # <<>>
  <2>1. End(chain) = chain[Len(chain)]
    BY <1>8 DEF End
  <2>2. Len(chain) \in 1..Len(chain)
    <3>1. Len(chain) # 0
      BY <1>3, <1>8, EmptySeq
    <3> QED
      BY <1>3, <3>1
  <2>3. End(chain) \in S
    BY <1>5, <2>1, <2>2
  <2>4. ASSUME NEW k \in 1..Len(chain)
        PROVE  chain[k] <= End(chain)
    <3>1. CASE k = Len(chain)
      BY <1>2, <2>1, <2>3, <3>1
    <3>2. CASE k # Len(chain)
      <4>1. k < Len(chain)
        BY <1>3, <3>2
      <4>2. chain[k] < chain[Len(chain)]
        BY <1>4, <2>2, <4>1
      <4>3. chain[k] \in Nat /\ chain[Len(chain)] \in Nat
        BY <1>2, <1>5, <2>2
      <4> QED
        BY <2>1, <4>2, <4>3
    <3> QED
      BY <3>1, <3>2
  <2> QED
    BY <1>2, <1>3, <1>5, <1>6, <1>8, <2>1, <2>2, <2>3, <2>4
<1> QED
  BY <1>7, <1>8

(* A body that is found too long does not fit, and a chain that is not     *)
(* keeps what is held within the limit.                                    *)
LEMMA TooLongExact ==
    ASSUME Typed, read <= rsp.len, NEW chain, Ordered(chain)
    PROVE  /\ TooLong(chain) => ~Fits
           /\ lcf.limit > 0 /\ read <= lcf.limit /\ ~TooLong(chain)
                => End(chain) <= lcf.limit
<1>1. /\ End(chain) \in Nat /\ End(chain) <= rsp.len
      /\ \A k \in 1..Len(chain) : chain[k] \in Nat /\ chain[k] <= End(chain)
      /\ chain # <<>> => \E k \in 1..Len(chain) : End(chain) = chain[k]
      /\ chain = <<>> => End(chain) = read
  BY ChainFacts
<1>2. lcf.limit \in Nat /\ rsp.len \in Nat
  BY FieldTypes
<1> QED
  BY <1>1, <1>2 DEF TooLong, Over, Fits

----------------------------------------------------------------------------
(* What the upstream module does around a call of the body filter, with or *)
(* without the end of the response.                                        *)
Given(chain, final) ==
    /\ Streaming /\ Ordered(chain) /\ final \in BOOLEAN
    /\ final => End(chain) = rsp.len
    /\ read' = End(chain) /\ eof' = final
    /\ UNCHANGED <<lcf, rsp, head>>

Ended == lastOut \/ conn \in {"refused", "aborted"}

Body == IF rsp.headerOnly THEN <<>> ELSE Raw(1, rsp.len)

(* The step the promise sees.                                              *)
PromisedStep ==
    \/ Answer' = Answer /\ Ended' = Ended
    \/ /\ ~Ended
       /\ \/ /\ IsPrefix(Answer, Answer') /\ IsPrefix(Answer', Body)
             /\ Ended' => Answer' = Body
          \/ Answer = <<>> /\ Answer' \in {Page(n) : n \in 0..MaxPage} /\ Ended'
          \/ Answer = <<>> /\ Answer' = <<>> /\ Ended'

(* The state a call of the body filter comes to.                           *)
LEMMA BeforeCall ==
    ASSUME IInv, NEW chain, NEW final, Given(chain, final)
    PROVE  /\ conn = "body" /\ ~eof /\ ~rsp.headerOnly /\ final \in BOOLEAN
           /\ rsp.main \in BOOLEAN
           /\ ~lastOut /\ ~ctx.done
           /\ read \in Nat /\ End(chain) \in Nat /\ rsp.len \in Nat
           /\ lcf.limit \in Nat /\ MaxBytes \in Nat
           /\ read <= End(chain) /\ End(chain) <= rsp.len
           /\ rsp.len <= MaxBytes /\ read <= rsp.len
           /\ Accumulating => ctx.accumulated = Raw(1, read) /\ Answer = <<>>
           /\ ~Accumulating => Answer = Raw(1, read)
           /\ lcf' = lcf /\ rsp' = rsp /\ head' = head
<1>1. Typed /\ BytesInv /\ ReadInv
  BY DEF IInv
<1>2. conn = "body" /\ ~eof /\ ~rsp.headerOnly /\ Ordered(chain) /\ final \in BOOLEAN
  BY DEF Given, Streaming
<1>3. /\ read \in Nat /\ rsp.len \in Nat /\ rsp.len <= MaxBytes
      /\ lcf.limit \in Nat /\ MaxBytes \in Nat /\ rsp.main \in BOOLEAN
  BY <1>1, FieldTypes
<1>4. read <= rsp.len
  BY <1>1 DEF ReadInv
<1>5. End(chain) \in Nat /\ read <= End(chain) /\ End(chain) <= rsp.len
  BY <1>1, <1>2, <1>4, ChainFacts
<1>6. /\ ~ctx.done /\ ~lastOut
      /\ Accumulating => ctx.accumulated = Raw(1, read) /\ Answer = <<>>
      /\ ~Accumulating => Answer = Raw(1, read)
  BY <1>1, <1>2 DEF BytesInv
<1>7. lcf' = lcf /\ rsp' = rsp /\ head' = head
  BY DEF Given
<1> QED
  BY <1>2, <1>3, <1>4, <1>5, <1>6, <1>7

(* What a call leaves of the types, and of what the upstream module did.   *)
LEMMA AfterCall ==
    ASSUME IInv, NEW chain, NEW final, Given(chain, final),
           conn' \in {"body", "aborted"},
           DOMAIN ctx' = CtxFields, ctx'.exists \in BOOLEAN,
           ctx'.done \in BOOLEAN, ctx'.passthrough \in BOOLEAN,
           out' \in Seq(AnswerByte), sent' \in Seq(AnswerByte),
           busy' \subseteq 1..MaxBytes, lastOut' \in BOOLEAN
    PROVE  Typed' /\ StartInv' /\ ReadInv'
<1>1. /\ read \in Nat /\ End(chain) \in Nat /\ rsp.len \in Nat
      /\ End(chain) <= rsp.len /\ rsp.len <= MaxBytes /\ MaxBytes \in Nat
      /\ lcf' = lcf /\ rsp' = rsp /\ head' = head
      /\ ~rsp.headerOnly /\ final \in BOOLEAN
  BY BeforeCall
<1>2. read' = End(chain) /\ eof' = final /\ (final => End(chain) = rsp.len)
  BY DEF Given
<1>3. Typed'
  <2>1. lcf \in Confs /\ rsp \in Responses /\ head \in Header
    BY DEF IInv, Typed
  <2>2. read' \in 0..MaxBytes
    BY <1>1, <1>2
  <2>3. eof' \in BOOLEAN
    BY <1>1, <1>2
  <2>4. conn' \in {"head", "body", "refused", "aborted"}
    OBVIOUS
  <2> QED
    BY <1>1, <2>1, <2>2, <2>3, <2>4
       DEF Typed, Header, AnswerByte, CtxFields, Unknown
<1>4. StartInv'
  <2>1. conn' # "head"
    OBVIOUS
  <2> QED
    BY <2>1 DEF StartInv
<1>5. ReadInv'
  BY <1>1, <1>2 DEF ReadInv
<1> QED
  BY <1>3, <1>4, <1>5

(* What the request and its location decide stays decided.                 *)
LEMMA SameRequest ==
    ASSUME lcf' = lcf, rsp' = rsp
    PROVE  /\ Skipped' = Skipped /\ Fits' = Fits
           /\ ContentLength' = ContentLength /\ Body' = Body
BY DEF Skipped, Unsignalled, Fits, ContentLength, Body, Unknown, Raw

(* The ends of the answer as a step of the promise.                        *)
LEMMA PassPromised ==
    ASSUME NEW r \in Nat, NEW e \in Nat, r <= e, e <= MaxBytes,
           rsp.len \in Nat, e <= rsp.len, rsp.len <= MaxBytes,
           ~rsp.headerOnly, ~Ended,
           Answer = <<>> \/ Answer = Raw(1, r), Answer' = Raw(1, e),
           Ended' => e = rsp.len
    PROVE  PromisedStep
<1>1. Body = Raw(1, rsp.len)
  BY DEF Body
<1>2. IsPrefix(Answer, Answer')
  <2>1. IsPrefix(Raw(1, r), Raw(1, e))
    BY RawPrefix
  <2>2. Raw(1, e) \in Seq(AnswerByte)
    BY RawBytes
  <2>3. IsPrefix(<<>>, Raw(1, e))
    BY <2>2, PrefixFacts
  <2> QED
    BY <2>1, <2>3
<1>3. IsPrefix(Answer', Body)
  BY <1>1, RawPrefix
<1>4. Ended' => Answer' = Body
  BY <1>1
<1> QED
  BY <1>2, <1>3, <1>4 DEF PromisedStep

(* Everything that came has been passed on.                                *)
LEMMA AfterPass ==
    ASSUME IInv, NEW chain, NEW final, Given(chain, final),
           conn' = "body",
           DOMAIN ctx' = CtxFields, ctx'.exists \in BOOLEAN,
           ctx'.done = FALSE, ctx'.passthrough \in BOOLEAN,
           out' \in Seq(AnswerByte), sent' \in Seq(AnswerByte),
           busy' \subseteq 1..MaxBytes,
           ~Accumulating', Answer' = Raw(1, End(chain)),
           lastOut' = (final /\ rsp.main),
           RouteInv', LimitInv'
    PROVE  IInv' /\ PromisedStep
<1> DEFINE e == End(chain)
<1>1. /\ conn = "body" /\ ~rsp.headerOnly /\ final \in BOOLEAN /\ ~lastOut
      /\ rsp.main \in BOOLEAN
      /\ read \in Nat /\ e \in Nat /\ rsp.len \in Nat /\ MaxBytes \in Nat
      /\ read <= e /\ e <= rsp.len /\ rsp.len <= MaxBytes
      /\ Accumulating => Answer = <<>>
      /\ ~Accumulating => Answer = Raw(1, read)
      /\ lcf' = lcf /\ rsp' = rsp
  BY BeforeCall
<1>2. read' = e /\ eof' = final /\ (final => e = rsp.len)
  BY DEF Given
<1>3. Answer' = Raw(1, e)
  OBVIOUS
<1> HIDE DEF e
<1>4. lastOut' \in BOOLEAN /\ ctx'.done \in BOOLEAN
  BY <1>1
<1>5. Typed' /\ StartInv' /\ ReadInv'
  BY <1>4, AfterCall
<1>6. BytesInv'
  <2>1. Answer' = Raw(1, read)'
    BY <1>2, <1>3 DEF Raw
  <2>2. lastOut' <=> eof' /\ (rsp'.main \/ rsp'.headerOnly)
    BY <1>1, <1>2
  <2> QED
    BY <2>1, <2>2 DEF BytesInv
<1>7. PromisedStep
  <2>1. ~Ended /\ (Ended' => e = rsp.len)
    BY <1>1, <1>2 DEF Ended
  <2>2. e <= MaxBytes
    BY <1>1
  <2> QED
    BY <1>1, <1>3, <2>1, <2>2, PassPromised
<1> QED
  BY <1>5, <1>6, <1>7 DEF IInv

(* No context, or a body found too long: the chain goes on.                *)
LEMMA ForwardKeeps ==
    ASSUME IInv, NEW chain, NEW final, Given(chain, final),
           Forward(chain, final /\ rsp.main)
    PROVE  IInv' /\ PromisedStep
<1>1. /\ conn = "body" /\ final \in BOOLEAN /\ ~lastOut /\ ~ctx.done
      /\ rsp.main \in BOOLEAN
      /\ read \in Nat /\ End(chain) \in Nat /\ rsp.len \in Nat
      /\ MaxBytes \in Nat
      /\ read <= End(chain) /\ End(chain) <= rsp.len /\ rsp.len <= MaxBytes
      /\ ~Accumulating => Answer = Raw(1, read)
      /\ lcf' = lcf /\ rsp' = rsp /\ head' = head /\ read <= rsp.len
  BY BeforeCall
<1>2. /\ ~Accumulating /\ conn' = conn /\ ctx' = ctx
      /\ WriteFilter(Raw(read + 1, End(chain)), final /\ rsp.main, BufsOf(chain))
  BY DEF Forward
<1>3. Typed /\ RouteInv /\ LimitInv
  BY DEF IInv
<1>4. /\ Raw(read + 1, End(chain)) \in Seq(AnswerByte)
      /\ (final /\ rsp.main) \in BOOLEAN
      /\ BufsOf(chain) \in SUBSET (1..MaxBytes)
  <2>1. End(chain) <= MaxBytes
    BY <1>1
  <2>2. BufsOf(chain) \subseteq 1..MaxBytes
    BY <1>1, <1>3, ChainFacts DEF Given
  <2> QED
    BY <1>1, <2>1, <2>2, RawBytes
<1>5. /\ Answer' = Answer \o Raw(read + 1, End(chain))
      /\ out' \in Seq(AnswerByte) /\ sent' \in Seq(AnswerByte)
      /\ busy' \subseteq 1..MaxBytes
      /\ lastOut' = (lastOut \/ (final /\ rsp.main))
  BY <1>2, <1>3, <1>4, WriteFilterAdds
<1>6. Answer' = Raw(1, End(chain))
  BY <1>1, <1>2, <1>5, RawConcat
<1>7. ~Accumulating'
  BY <1>1, <1>2 DEF Accumulating
<1>8. RouteInv' /\ LimitInv'
  <2>1. /\ Skipped' = Skipped /\ Fits' = Fits
        /\ ContentLength' = ContentLength
    BY <1>1, SameRequest
  <2>2. RouteInv'
    BY <1>1, <1>2, <1>3, <2>1 DEF RouteInv, NoCtx
  <2>3. LimitInv'
    BY <1>1, <1>2, <1>3, <1>7, <2>1 DEF LimitInv
  <2> QED
    BY <2>2, <2>3
<1>9. /\ DOMAIN ctx' = CtxFields /\ ctx'.exists \in BOOLEAN
      /\ ctx'.done = FALSE /\ ctx'.passthrough \in BOOLEAN
  BY <1>1, <1>2, <1>3 DEF Typed
<1>10. lastOut' = (final /\ rsp.main) /\ conn' = "body"
  BY <1>1, <1>2, <1>5
<1> QED
  BY <1>5, <1>6, <1>7, <1>8, <1>9, <1>10, AfterPass

(* The part of a chain before its k-th buffer ends within the chain.       *)
LEMMA WithinFacts ==
    ASSUME Typed, read <= rsp.len, NEW chain, Ordered(chain),
           NEW k \in 1..Len(chain)
    PROVE  /\ End(SubSeq(chain, 1, k - 1)) \in Nat
           /\ read <= End(SubSeq(chain, 1, k - 1))
           /\ End(SubSeq(chain, 1, k - 1)) <= End(chain)
<1> DEFINE within == SubSeq(chain, 1, k - 1)
<1>1. /\ End(chain) \in Nat /\ read <= End(chain) /\ read \in Nat
      /\ Len(chain) \in Nat
      /\ \A i \in 1..Len(chain) :
           chain[i] \in Nat /\ read <= chain[i] /\ chain[i] <= End(chain)
  BY ChainFacts, FieldTypes
<1>2. k - 1 \in Nat /\ \A i \in 1..(k - 1) : i \in 1..Len(chain)
  BY <1>1
<1>3. /\ Len(within) = k - 1
      /\ \A i \in 1..(k - 1) : within[i] = chain[i]
  <2>1. \A i \in 1..(k - 1) : chain[i] \in Nat
    BY <1>1, <1>2
  <2>2. /\ Len(within) = IF 1 <= k - 1 THEN (k - 1) - 1 + 1 ELSE 0
        /\ \A i \in 1..((k - 1) - 1 + 1) : within[i] = chain[1 + i - 1]
    BY <1>2, <2>1, SubSeqProperties
  <2>3. Len(within) = k - 1
    BY <1>2, <2>2
  <2>4. (k - 1) - 1 + 1 = k - 1 /\ \A i \in 1..(k - 1) : 1 + i - 1 = i
    BY <1>2
  <2> QED
    BY <2>2, <2>3, <2>4
<1> HIDE DEF within
<1>4. End(within) = read \/ \E i \in 1..Len(chain) : End(within) = chain[i]
  <2>1. CASE within = <<>>
    BY <2>1 DEF End
  <2>2. CASE within # <<>> /\ k - 1 # 0
    <3>1. k - 1 \in 1..(k - 1)
      BY <1>2, <2>2
    <3>2. End(within) = chain[k - 1] /\ k - 1 \in 1..Len(chain)
      BY <1>2, <1>3, <2>2, <3>1 DEF End
    <3> QED
      BY <3>2
  <2>3. CASE k - 1 = 0
    <3>1. within = <<>>
      BY <1>2, <2>3, SubSeqEmpty DEF within
    <3> QED
      BY <3>1 DEF End
  <2> QED
    BY <2>1, <2>2, <2>3
<1>5. End(within) \in Nat /\ read <= End(within) /\ End(within) <= End(chain)
  BY <1>1, <1>4
<1> QED
  BY <1>5 DEF within

(* A body found too long is sent on as it is, what was held back first.    *)
LEMMA GiveUpKeeps ==
    ASSUME IInv, NEW chain, NEW final, Given(chain, final),
           GiveUp(chain, final /\ rsp.main)
    PROVE  IInv' /\ PromisedStep
<1>1. /\ conn = "body" /\ final \in BOOLEAN /\ ~lastOut /\ ~ctx.done
      /\ rsp.main \in BOOLEAN
      /\ read \in Nat /\ End(chain) \in Nat /\ rsp.len \in Nat
      /\ MaxBytes \in Nat
      /\ read <= End(chain) /\ End(chain) <= rsp.len /\ rsp.len <= MaxBytes
      /\ Accumulating => ctx.accumulated = Raw(1, read) /\ Answer = <<>>
      /\ lcf' = lcf /\ rsp' = rsp /\ head' = head /\ read <= rsp.len
  BY BeforeCall
<1>2. PICK k \in 1..Len(chain) :
        /\ Over(k, chain)
        /\ LET within == SubSeq(chain, 1, k - 1)
               copied == Raw(read + 1, End(within))
           IN /\ ctx' = [ctx EXCEPT !.passthrough = TRUE,
                                    !.accumulated = @ \o copied,
                                    !.capacity = Capacity(@, within)]
              /\ WriteFilter(ctx'.accumulated \o Raw(End(within) + 1, End(chain)),
                             final /\ rsp.main, BufsOf(chain) \ BufsOf(within))
  BY DEF GiveUp
<1> DEFINE within == SubSeq(chain, 1, k - 1)
           m == End(within)
           grown == Capacity(ctx.capacity, within)
           held == BufsOf(chain) \ BufsOf(within)
<1>3. Typed /\ RouteInv /\ Ordered(chain)
  BY DEF IInv, Given
<1>4. m \in Nat /\ read <= m /\ m <= End(chain)
  BY <1>1, <1>3, WithinFacts
<1>5. /\ ctx' = [ctx EXCEPT !.passthrough = TRUE,
                            !.accumulated = ctx.accumulated \o Raw(read + 1, m),
                            !.capacity = grown]
      /\ WriteFilter(ctx'.accumulated \o Raw(m + 1, End(chain)),
                     final /\ rsp.main, held)
  BY <1>2
<1>6. held \in SUBSET (1..MaxBytes)
  <2>1. BufsOf(chain) \subseteq 1..MaxBytes
    BY <1>1, <1>3, ChainFacts
  <2> QED
    BY <2>1
<1> HIDE DEF within, m, grown, held
<1>7. /\ Accumulating /\ lcf.onOversize = "pass" /\ conn' = conn
  BY DEF GiveUp
<1>8. /\ DOMAIN ctx' = CtxFields /\ ctx'.exists = ctx.exists
      /\ ctx'.done = ctx.done /\ ctx'.passthrough = TRUE
      /\ ctx'.accumulated = ctx.accumulated \o Raw(read + 1, m)
  <2>1. DOMAIN ctx = CtxFields
    BY <1>3 DEF Typed
  <2> QED
    BY <1>5, <2>1 DEF CtxFields
<1>9. ctx'.accumulated \o Raw(m + 1, End(chain)) = Raw(1, End(chain))
  <2>1. Raw(1, read) \o Raw(read + 1, m) = Raw(1, m)
    BY <1>1, <1>4, RawConcat
  <2>2. Raw(1, m) \o Raw(m + 1, End(chain)) = Raw(1, End(chain))
    BY <1>1, <1>4, RawConcat
  <2> QED
    BY <1>1, <1>7, <1>8, <2>1, <2>2
<1>10. Raw(1, End(chain)) \in Seq(AnswerByte) /\ (final /\ rsp.main) \in BOOLEAN
  <2>1. End(chain) <= MaxBytes
    BY <1>1
  <2> QED
    BY <1>1, <2>1, RawBytes
<1>11. /\ Answer' = Answer \o Raw(1, End(chain))
       /\ out' \in Seq(AnswerByte) /\ sent' \in Seq(AnswerByte)
       /\ busy' \subseteq 1..MaxBytes
       /\ lastOut' = (lastOut \/ (final /\ rsp.main))
  <2>1. WriteFilter(Raw(1, End(chain)), final /\ rsp.main, held)
    BY <1>5, <1>9
  <2> QED
    BY <1>3, <1>6, <1>10, <2>1, WriteFilterAdds
<1>12. Answer' = Raw(1, End(chain))
  BY <1>1, <1>7, <1>10, <1>11, ConcatEmptySeq
<1>13. ctx.exists /\ ~Accumulating'
  BY <1>7, <1>8 DEF Accumulating
<1>14. RouteInv' /\ LimitInv'
  <2>1. /\ Skipped' = Skipped /\ Fits' = Fits
        /\ ContentLength' = ContentLength
    BY <1>1, SameRequest
  <2>2. RouteInv'
    BY <1>1, <1>3, <1>7, <1>8, <1>13, <2>1 DEF RouteInv
  <2>3. ~Fits
    <3>1. TooLong(chain)
      BY <1>2 DEF TooLong
    <3> QED
      BY <1>1, <1>3, <3>1, TooLongExact
  <2>4. LimitInv'
    BY <1>1, <1>7, <1>8, <1>13, <2>1, <2>3 DEF LimitInv
  <2> QED
    BY <2>2, <2>4
<1>15. /\ ctx'.exists \in BOOLEAN /\ ctx'.done = FALSE
       /\ ctx'.passthrough \in BOOLEAN
  BY <1>1, <1>3, <1>8 DEF Typed
<1>16. lastOut' = (final /\ rsp.main) /\ conn' = "body"
  BY <1>1, <1>7, <1>11
<1> QED
  BY <1>8, <1>11, <1>12, <1>13, <1>14, <1>15, <1>16, AfterPass

(* The buffer after a chain that is not found too long.                    *)
LEMMA AccumulatedBytes ==
    ASSUME IInv, NEW chain, NEW final, Given(chain, final),
           Accumulating, ~TooLong(chain)
    PROVE  /\ ctx.accumulated \o Raw(read + 1, End(chain)) = Raw(1, End(chain))
           /\ lcf.limit > 0 => End(chain) <= lcf.limit
           /\ Answer = <<>> /\ DOMAIN ctx = CtxFields
           /\ ctx.exists = TRUE /\ ctx.passthrough = FALSE /\ ~Skipped
<1>1. /\ conn = "body" /\ read \in Nat /\ End(chain) \in Nat
      /\ read <= End(chain) /\ read <= rsp.len
      /\ ctx.accumulated = Raw(1, read) /\ Answer = <<>>
  BY BeforeCall
<1>2. Typed /\ RouteInv /\ LimitInv /\ Ordered(chain)
  BY DEF IInv, Given
<1>3. ctx.accumulated \o Raw(read + 1, End(chain)) = Raw(1, End(chain))
  BY <1>1, RawConcat
<1>4. lcf.limit > 0 => read <= lcf.limit
  BY <1>1, <1>2 DEF LimitInv
<1>5. lcf.limit > 0 => End(chain) <= lcf.limit
  BY <1>1, <1>2, <1>4, TooLongExact
<1>6. DOMAIN ctx = CtxFields /\ ctx.exists = TRUE /\ ctx.passthrough = FALSE
  BY <1>2 DEF Accumulating, Typed
<1>7. ~Skipped
  BY <1>2, <1>6 DEF RouteInv
<1> QED
  BY <1>1, <1>3, <1>5, <1>6, <1>7

(* A chain that is held back.                                              *)
LEMMA AccumulateKeeps ==
    ASSUME IInv, NEW chain, NEW final, Given(chain, final),
           ~(final /\ rsp.main), Accumulate(chain)
    PROVE  IInv' /\ PromisedStep
<1> DEFINE grown == Capacity(ctx.capacity, chain)
<1>1. /\ conn = "body" /\ final \in BOOLEAN /\ ~lastOut /\ ~ctx.done
      /\ End(chain) \in Nat
      /\ lcf' = lcf /\ rsp' = rsp /\ head' = head
  BY BeforeCall
<1>2. /\ Accumulating /\ ~TooLong(chain)
      /\ ctx' = [ctx EXCEPT !.accumulated = ctx.accumulated
                                              \o Raw(read + 1, End(chain)),
                            !.capacity = grown]
      /\ conn' = conn /\ out' = out /\ sent' = sent /\ lastOut' = lastOut
      /\ busy' = busy
  BY DEF Accumulate, NotForwarded
<1> HIDE DEF grown
<1>3. Typed /\ RouteInv
  BY DEF IInv
<1>4. /\ ctx.accumulated \o Raw(read + 1, End(chain)) = Raw(1, End(chain))
      /\ lcf.limit > 0 => End(chain) <= lcf.limit
      /\ Answer = <<>> /\ DOMAIN ctx = CtxFields
      /\ ctx.exists = TRUE /\ ctx.passthrough = FALSE /\ ~Skipped
  BY <1>2, AccumulatedBytes
<1>5. /\ DOMAIN ctx' = CtxFields /\ ctx'.exists = TRUE
      /\ ctx'.done = ctx.done /\ ctx'.passthrough = FALSE
      /\ ctx'.accumulated = Raw(1, End(chain))
  BY <1>2, <1>4 DEF CtxFields
<1>6. Typed' /\ StartInv' /\ ReadInv'
  <2>1. /\ out' \in Seq(AnswerByte) /\ sent' \in Seq(AnswerByte)
        /\ busy' \subseteq 1..MaxBytes /\ lastOut' \in BOOLEAN
        /\ ctx'.exists \in BOOLEAN /\ ctx'.done \in BOOLEAN
        /\ ctx'.passthrough \in BOOLEAN
    BY <1>2, <1>3, <1>5 DEF Typed
  <2>2. conn' \in {"body", "aborted"}
    BY <1>1, <1>2
  <2> QED
    BY <1>5, <2>1, <2>2, AfterCall
<1>7. /\ Skipped' = Skipped /\ Fits' = Fits /\ ContentLength' = ContentLength
  BY <1>1, SameRequest
<1>8. Answer' = Answer
  BY <1>2 DEF Answer
<1>9. read' = End(chain)
  BY DEF Given
<1>10. RouteInv'
  BY <1>1, <1>2, <1>3, <1>4, <1>5, <1>7 DEF RouteInv
<1>11. BytesInv'
  <2>1. Accumulating'
    BY <1>1, <1>2, <1>5 DEF Accumulating
  <2>2. Raw(1, read)' = Raw(1, End(chain))
    BY <1>9 DEF Raw
  <2> QED
    BY <1>1, <1>2, <1>4, <1>5, <1>8, <2>1, <2>2 DEF BytesInv
<1>12. LimitInv'
  BY <1>1, <1>2, <1>4, <1>5, <1>7, <1>9 DEF LimitInv
<1>13. PromisedStep
  BY <1>2, <1>8 DEF PromisedStep, Ended
<1> QED
  BY <1>6, <1>10, <1>11, <1>12, <1>13 DEF IInv

(* The last buffer: the parsed page is sent in place of what was held.     *)
LEMMA ParseAndSendKeeps ==
    ASSUME IInv, NEW chain, NEW final, Given(chain, final),
           final /\ rsp.main, ParseAndSend(chain)
    PROVE  IInv' /\ PromisedStep
<1> DEFINE grown == Capacity(ctx.capacity, chain)
<1>1. /\ conn = "body" /\ ~lastOut /\ ~ctx.done /\ End(chain) \in Nat
      /\ lcf' = lcf /\ rsp' = rsp /\ head' = head
  BY BeforeCall
<1>2. /\ Accumulating /\ ~TooLong(chain)
      /\ ctx' = [ctx EXCEPT !.accumulated = ctx.accumulated
                                              \o Raw(read + 1, End(chain)),
                            !.capacity = grown, !.done = TRUE]
      /\ conn' = conn
  BY DEF ParseAndSend
<1> HIDE DEF grown
<1>3. PICK n \in 0..MaxPage : WriteFilter(Page(n), TRUE, {})
  BY DEF ParseAndSend
<1>4. Typed /\ RouteInv
  BY DEF IInv
<1>5. /\ lcf.limit > 0 => End(chain) <= lcf.limit
      /\ Answer = <<>> /\ DOMAIN ctx = CtxFields
      /\ ctx.exists = TRUE /\ ctx.passthrough = FALSE /\ ~Skipped
  BY <1>2, AccumulatedBytes
<1>6. /\ DOMAIN ctx' = CtxFields /\ ctx'.exists = TRUE
      /\ ctx'.done = TRUE /\ ctx'.passthrough = FALSE
  BY <1>2, <1>5 DEF CtxFields
<1>7. Page(n) \in Seq(AnswerByte)
  BY PageBytes, FilterAssumption
<1>8. /\ Answer' = Answer \o Page(n)
      /\ out' \in Seq(AnswerByte) /\ sent' \in Seq(AnswerByte)
      /\ busy' \subseteq 1..MaxBytes /\ lastOut' = (lastOut \/ TRUE)
  <2>1. {} \in SUBSET (1..MaxBytes) /\ TRUE \in BOOLEAN
    OBVIOUS
  <2> QED
    BY <1>3, <1>4, <1>7, <2>1, WriteFilterAdds
<1>9. Answer' = Page(n)
  BY <1>5, <1>7, <1>8, ConcatEmptySeq
<1>10. Typed' /\ StartInv' /\ ReadInv'
  <2>1. /\ lastOut' \in BOOLEAN /\ ctx'.exists \in BOOLEAN
        /\ ctx'.done \in BOOLEAN /\ ctx'.passthrough \in BOOLEAN
    BY <1>6, <1>8
  <2>2. conn' \in {"body", "aborted"}
    BY <1>1, <1>2
  <2> QED
    BY <1>6, <1>8, <2>1, <2>2, AfterCall
<1>11. /\ Skipped' = Skipped /\ Fits' = Fits /\ ContentLength' = ContentLength
  BY <1>1, SameRequest
<1>12. read' = End(chain) /\ eof'
  BY DEF Given
<1>13. RouteInv'
  BY <1>1, <1>2, <1>4, <1>5, <1>6, <1>11 DEF RouteInv
<1>14. BytesInv'
  <2>1. Accumulating'
    BY <1>1, <1>2, <1>6 DEF Accumulating
  <2> QED
    BY <1>6, <1>8, <1>12, <2>1 DEF BytesInv
<1>15. LimitInv'
  BY <1>1, <1>2, <1>5, <1>6, <1>11, <1>12 DEF LimitInv
<1>16. PromisedStep
  <2>1. ~Ended /\ Ended'
    BY <1>1, <1>8 DEF Ended
  <2> QED
    BY <1>5, <1>9, <2>1 DEF PromisedStep
<1> QED
  BY <1>10, <1>13, <1>14, <1>15, <1>16 DEF IInv

(* The request is given up while everything is held back: a body found too *)
(* long, or no memory.                                                     *)
LEMMA AbortKeeps ==
    ASSUME IInv, NEW chain, NEW final, Given(chain, final),
           Abort(chain) \/ NoMemory(chain)
    PROVE  IInv' /\ PromisedStep
<1>1. /\ conn = "body" /\ ~lastOut /\ ~ctx.done /\ read <= rsp.len
      /\ Accumulating => Answer = <<>>
      /\ lcf' = lcf /\ rsp' = rsp /\ head' = head
  BY BeforeCall
<1>2. /\ Accumulating /\ conn' = "aborted" /\ ctx' = ctx
      /\ out' = out /\ sent' = sent /\ lastOut' = lastOut
      /\ busy' = busy \union BufsOf(chain)
      /\ lcf.lowMemory \/ (TooLong(chain) /\ lcf.onOversize = "error")
  BY DEF Abort, NoMemory, NotForwarded
<1>3. Typed /\ RouteInv /\ LimitInv /\ Ordered(chain)
  BY DEF IInv, Given
<1>4. Typed' /\ StartInv' /\ ReadInv'
  <2>1. BufsOf(chain) \subseteq 1..MaxBytes
    BY <1>1, <1>3, ChainFacts
  <2>2. /\ out' \in Seq(AnswerByte) /\ sent' \in Seq(AnswerByte)
        /\ busy' \subseteq 1..MaxBytes /\ lastOut' \in BOOLEAN
        /\ DOMAIN ctx' = CtxFields /\ ctx'.exists \in BOOLEAN
        /\ ctx'.done \in BOOLEAN /\ ctx'.passthrough \in BOOLEAN
    BY <1>2, <1>3, <2>1 DEF Typed
  <2>3. conn' \in {"body", "aborted"}
    BY <1>2
  <2> QED
    BY <2>2, <2>3, AfterCall
<1>5. /\ Skipped' = Skipped /\ Fits' = Fits /\ ContentLength' = ContentLength
  BY <1>1, SameRequest
<1>6. ctx.exists /\ ~ctx.passthrough /\ ~Skipped
  BY <1>2, <1>3 DEF Accumulating, RouteInv
<1>7. RouteInv' /\ BytesInv'
  BY <1>2, <1>3, <1>5, <1>6 DEF RouteInv, BytesInv
<1>8. LimitInv'
  <2>1. TooLong(chain) => ~Fits
    BY <1>1, <1>3, TooLongExact
  <2> QED
    BY <1>1, <1>2, <1>5, <1>6, <2>1 DEF LimitInv
<1>9. PromisedStep
  <2>1. ~Ended /\ Ended' /\ Answer' = Answer
    BY <1>1, <1>2 DEF Ended, Answer
  <2> QED
    BY <1>1, <1>2, <2>1 DEF PromisedStep
<1> QED
  BY <1>4, <1>7, <1>8, <1>9 DEF IInv

(* A call of the body filter, whatever the filter does of it.              *)
LEMMA BodyFilterKeeps ==
    ASSUME IInv, NEW chain, NEW final, Given(chain, final),
           NEW last, last = (final /\ rsp.main), BodyFilter(chain, last)
    PROVE  IInv' /\ PromisedStep
<1>1. CASE Forward(chain, last)
  BY <1>1, ForwardKeeps
<1>2. CASE last /\ ParseAndSend(chain)
  BY <1>2, ParseAndSendKeeps
<1>3. CASE ~last /\ Accumulate(chain)
  BY <1>3, AccumulateKeeps
<1>4. CASE GiveUp(chain, last)
  BY <1>4, GiveUpKeeps
<1>5. CASE Abort(chain) \/ NoMemory(chain)
  BY <1>5, AbortKeeps
<1> QED
  BY <1>1, <1>2, <1>3, <1>4, <1>5 DEF BodyFilter

(* The upstream module hands down a chain.                                 *)
LEMMA ReceiveKeeps ==
    ASSUME IInv, Receive
    PROVE  IInv' /\ PromisedStep
<1>1. PICK chain \in Chains, final \in BOOLEAN :
         /\ final => End(chain) = rsp.len
         /\ BodyFilter(chain, final /\ rsp.main)
         /\ read' = End(chain)
         /\ eof' = final
  BY DEF Receive
<1>2. Ordered(chain)
  BY ChainsOrdered DEF IInv
<1>3. Given(chain, final)
  BY <1>1, <1>2 DEF Given, Receive
<1> QED
  BY <1>1, <1>3, BodyFilterKeeps

(* The upstream module hands down the end.                                 *)
LEMMA FinishKeeps ==
    ASSUME IInv, Finish
    PROVE  IInv' /\ PromisedStep
<1>1. Ordered(<<>>)
  BY ChainsOrdered DEF IInv
<1>2. End(<<>>) = read
  BY DEF End
<1>3. Given(<<>>, TRUE)
  BY <1>1, <1>2 DEF Given, Finish
<1>4. rsp.main = (TRUE /\ rsp.main)
  BY FieldTypes DEF IInv
<1>5. BodyFilter(<<>>, rsp.main)
  BY DEF Finish
<1> QED
  BY <1>3, <1>4, <1>5, BodyFilterKeeps

(* A header-only answer was never taken, and ends as it is.                *)
LEMMA FinishHeadKeeps ==
    ASSUME IInv, FinishHead
    PROVE  IInv' /\ PromisedStep
<1>1. /\ conn = "body" /\ rsp.headerOnly /\ ~eof /\ eof' = TRUE /\ lastOut' = TRUE
      /\ lcf' = lcf /\ rsp' = rsp /\ conn' = conn /\ head' = head /\ ctx' = ctx
      /\ read' = read /\ busy' = busy /\ out' = out /\ sent' = sent
  BY DEF FinishHead
<1>2. ctx = NoCtx /\ read = 0
  BY <1>1 DEF IInv, RouteInv, ReadInv, Skipped
<1>3. ~Accumulating /\ ~Accumulating'
  BY <1>1, <1>2 DEF Accumulating, NoCtx
<1>4. Answer = Raw(1, read) /\ ~lastOut /\ Answer' = Answer
  BY <1>1, <1>3 DEF IInv, BytesInv, Answer
<1>5. Typed' /\ StartInv' /\ ReadInv'
  BY <1>1, <1>2 DEF IInv, Typed, StartInv, ReadInv, Header, AnswerByte
<1>6. /\ Skipped' = Skipped /\ Fits' = Fits /\ ContentLength' = ContentLength
  BY <1>1, SameRequest
<1>7. RouteInv' /\ LimitInv'
  BY <1>1, <1>3, <1>6 DEF IInv, RouteInv, LimitInv, NoCtx
<1>8. BytesInv'
  <2>1. Answer' = Raw(1, read)'
    BY <1>1, <1>4 DEF Raw
  <2>2. ctx'.done = FALSE
    BY <1>1, <1>2 DEF NoCtx
  <2> QED
    BY <1>1, <1>3, <2>1, <2>2 DEF BytesInv
<1>9. PromisedStep
  <2>1. Answer = <<>> /\ Body = <<>>
    <3>1. Raw(1, 0) = <<>>
      BY RawNone
    <3> QED
      BY <1>1, <1>2, <1>4, <3>1 DEF Body
  <2>2. IsPrefix(Answer, Answer') /\ IsPrefix(Answer', Body)
    <3>1. <<>> \in Seq(AnswerByte)
      BY EmptySeq
    <3> QED
      BY <1>4, <2>1, <3>1, PrefixFacts
  <2>3. ~Ended
    BY <1>1, <1>4 DEF Ended
  <2> QED
    BY <1>4, <2>1, <2>2, <2>3 DEF PromisedStep
<1> QED
  BY <1>5, <1>7, <1>8, <1>9 DEF IInv

(* The writer sends on what the filters below hold, and nothing else.      *)
LEMMA WakeKeeps ==
    ASSUME IInv, Wake
    PROVE  IInv' /\ PromisedStep
<1>1. /\ conn = "body" /\ WriteFilter(<<>>, FALSE, {})
      /\ lcf' = lcf /\ rsp' = rsp /\ conn' = conn /\ head' = head /\ ctx' = ctx
      /\ read' = read /\ eof' = eof
  BY DEF Wake, BodyFilterNull
<1>2. /\ Answer' = Answer \o <<>>
      /\ out' \in Seq(AnswerByte) /\ sent' \in Seq(AnswerByte)
      /\ busy' \subseteq 1..MaxBytes
      /\ lastOut' = (lastOut \/ FALSE)
  <2>1. /\ <<>> \in Seq(AnswerByte) /\ FALSE \in BOOLEAN
        /\ {} \in SUBSET (1..MaxBytes)
    BY EmptySeq
  <2> QED
    BY <1>1, <2>1, WriteFilterAdds DEF IInv
<1>3. Answer' = Answer /\ lastOut' = lastOut
  <2>1. Answer \in Seq(AnswerByte) /\ lastOut \in BOOLEAN
    BY FieldTypes DEF IInv, Typed
  <2> QED
    BY <1>2, <2>1, ConcatEmptySeq
<1>4. Typed'
  BY <1>1, <1>2, <1>3 DEF IInv, Typed, Header, AnswerByte
<1>5. StartInv' /\ ReadInv'
  BY <1>1 DEF IInv, StartInv, ReadInv
<1>6. /\ Skipped' = Skipped /\ Fits' = Fits /\ ContentLength' = ContentLength
      /\ Accumulating' = Accumulating
  BY <1>1, SameRequest DEF Accumulating
<1>7. RouteInv' /\ LimitInv'
  BY <1>1, <1>6 DEF IInv, RouteInv, LimitInv, NoCtx
<1>8. BytesInv'
  <2>1. Raw(1, read)' = Raw(1, read)
    BY <1>1 DEF Raw
  <2> QED
    BY <1>1, <1>3, <1>6, <2>1 DEF IInv, BytesInv
<1>9. PromisedStep
  BY <1>1, <1>3 DEF PromisedStep, Ended
<1> QED
  BY <1>4, <1>5, <1>7, <1>8, <1>9 DEF IInv

(* What every step of the header filter starts from and leaves.            *)
LEMMA HeadKeeps ==
    ASSUME IInv, conn = "head", UNCHANGED <<lcf, rsp, tail>>,
           conn' \in {"body", "refused", "aborted"},
           head' \in Header, ctx' = NoCtx \/ ctx' = [NoCtx EXCEPT !.exists = TRUE],
           ctx'.exists => ~Skipped /\ ~KnownTooLong /\ conn' = "body",
           Skipped => conn' = "body" /\ ~head'.surrogate /\ ~head'.error500,
           conn' = "body" =>
             head'.length = IF ctx'.exists /\ rsp.main THEN Unknown
                            ELSE ContentLength,
           conn' = "body" /\ ~ctx'.exists /\ ~Skipped
               /\ ~lcf.unenforceable /\ ~lcf.lowMemory
             => KnownTooLong /\ lcf.onOversize = "pass",
           conn' \in {"refused", "aborted"} /\ ~lcf.lowMemory
             => KnownTooLong /\ lcf.onOversize = "error"
    PROVE  IInv' /\ PromisedStep
<1>1. /\ read = 0 /\ ~eof /\ ~lastOut /\ out = <<>> /\ sent = <<>>
      /\ ctx = NoCtx
  BY DEF IInv, StartInv
<1>2. /\ lcf' = lcf /\ rsp' = rsp /\ read' = read /\ eof' = eof /\ busy' = busy
      /\ out' = out /\ lastOut' = lastOut /\ sent' = sent
  BY DEF tail
<1>3. /\ ctx'.accumulated = <<>> /\ ctx'.done = FALSE /\ ctx'.passthrough = FALSE
      /\ ctx'.exists \in BOOLEAN /\ DOMAIN ctx' = CtxFields
      /\ ~ctx'.exists => ctx' = NoCtx
  <2>1. CASE ctx' = NoCtx
    BY <2>1 DEF NoCtx, CtxFields
  <2>2. CASE ctx' = [NoCtx EXCEPT !.exists = TRUE]
    BY <2>2 DEF NoCtx, CtxFields
  <2> QED
    BY <2>1, <2>2
<1>4. Typed'
  BY <1>2, <1>3 DEF IInv, Typed, Header, AnswerByte, CtxFields
<1>5. StartInv' /\ ReadInv'
  BY <1>2 DEF IInv, StartInv, ReadInv
<1>6. /\ Skipped' = Skipped /\ Fits' = Fits /\ ContentLength' = ContentLength
  BY <1>2, SameRequest
<1>7. RouteInv'
  BY <1>2, <1>3, <1>6 DEF RouteInv, NoCtx
<1>8. Answer = <<>> /\ Answer' = <<>> /\ Raw(1, read)' = <<>>
  <2>1. <<>> \o <<>> = <<>>
    BY EmptySeq, ConcatEmptySeq
  <2>2. Raw(1, 0) = <<>>
    BY RawNone
  <2>3. Raw(1, read)' = Raw(1, 0)
    BY <1>1, <1>2 DEF Raw
  <2> QED
    BY <1>1, <1>2, <2>1, <2>2, <2>3 DEF Answer
<1>9. BytesInv'
  BY <1>1, <1>2, <1>3, <1>8 DEF BytesInv
<1>10. KnownTooLong => ~Fits
  <2>1. /\ lcf.limit \in Nat /\ rsp.len \in Nat
    BY FieldTypes DEF IInv
  <2> QED
    BY <2>1 DEF KnownTooLong, ContentLength, Unknown, Fits
<1>11. LimitInv'
  <2>1. lcf.limit \in Nat
    BY FieldTypes DEF IInv
  <2> QED
    BY <1>1, <1>2, <1>3, <1>6, <1>10, <2>1 DEF LimitInv
<1>12. PromisedStep
  <2>1. ~Ended
    BY <1>1 DEF Ended
  <2>2. CASE Ended'
    BY <1>8, <2>1, <2>2 DEF PromisedStep
  <2>3. CASE ~Ended'
    <3>1. Ended' = Ended
      BY <2>1, <2>3 DEF Ended
    <3> QED
      BY <1>8, <3>1 DEF PromisedStep
  <2> QED
    BY <2>2, <2>3
<1> QED
  BY <1>4, <1>5, <1>7, <1>9, <1>11, <1>12 DEF IInv

(* The length that the header may tell.                                    *)
LEMMA LengthType ==
    ASSUME Typed
    PROVE  /\ ContentLength \in Unknown..MaxBytes
           /\ Unknown \in Unknown..MaxBytes
<1>1. rsp.len \in Nat /\ rsp.len <= MaxBytes /\ MaxBytes \in Nat
  BY FieldTypes
<1> QED
  BY <1>1 DEF ContentLength, Unknown

(* The header filter, whatever it decides.                                 *)
LEMMA HeadFilterKeeps ==
    ASSUME IInv, HeadFilter
    PROVE  IInv' /\ PromisedStep
<1>1. conn = "head"
  BY DEF HeadFilter, HeadPass, HeadRefuse, HeadUnenforceable, HeadNoContext,
         HeadProcess
<1>2. ctx = NoCtx /\ head \in Header
  BY <1>1 DEF IInv, StartInv, Typed
<1>3. ContentLength \in Unknown..MaxBytes /\ Unknown \in Unknown..MaxBytes
  BY LengthType DEF IInv
<1>4. ~NoCtx.exists
  BY DEF NoCtx
<1>5. lcf.lowMemory \in BOOLEAN /\ lcf.onOversize \in {"pass", "error"}
  BY FieldTypes DEF IInv
<1>6. CASE HeadPass
  <2>1. /\ UNCHANGED <<lcf, rsp, tail>> /\ conn' = "body" /\ ctx' = NoCtx
        /\ head' = [sent |-> TRUE, length |-> ContentLength,
                    surrogate |-> FALSE, error500 |-> FALSE]
    BY <1>2, <1>6 DEF HeadPass, SendHeader
  <2>2. head' \in Header
    BY <1>3, <2>1 DEF Header
  <2>3. \/ Skipped
        \/ KnownTooLong /\ lcf.onOversize = "pass"
        \/ lcf.lowMemory
    BY <1>6 DEF HeadPass
  <2> QED
    BY <1>1, <1>4, <2>1, <2>2, <2>3, HeadKeeps
<1>7. CASE HeadRefuse
  <2>1. /\ UNCHANGED <<lcf, rsp, tail>> /\ conn' = "refused" /\ ctx' = NoCtx
        /\ head' = head /\ ~Skipped /\ KnownTooLong /\ lcf.onOversize = "error"
    BY <1>2, <1>7 DEF HeadRefuse
  <2> QED
    BY <1>1, <1>2, <1>4, <2>1, HeadKeeps
<1>8. CASE HeadUnenforceable
  <2>1. /\ UNCHANGED <<lcf, rsp, tail>> /\ conn' = "body" /\ ctx' = NoCtx
        /\ head' = [sent |-> TRUE, length |-> ContentLength,
                    surrogate |-> FALSE, error500 |-> TRUE]
        /\ ~Skipped /\ lcf.unenforceable
    BY <1>2, <1>8 DEF HeadUnenforceable, SendHeader
  <2>2. head' \in Header
    BY <1>3, <2>1 DEF Header
  <2> QED
    BY <1>1, <1>4, <2>1, <2>2, HeadKeeps
<1>9. CASE HeadNoContext
  <2>1. /\ UNCHANGED <<lcf, rsp, tail>> /\ conn' = "aborted" /\ ctx' = NoCtx
        /\ head' = head /\ ~Skipped /\ lcf.lowMemory
    BY <1>2, <1>9 DEF HeadNoContext
  <2> QED
    BY <1>1, <1>2, <1>4, <2>1, HeadKeeps
<1>10. CASE HeadProcess
  <2>1. /\ UNCHANGED <<lcf, rsp, tail>> /\ conn' = "body"
        /\ ctx' = [NoCtx EXCEPT !.exists = TRUE]
        /\ head' = [sent |-> TRUE,
                    length |-> IF rsp.main THEN Unknown ELSE ContentLength,
                    surrogate |-> TRUE, error500 |-> FALSE]
        /\ ~Skipped /\ ~KnownTooLong
    BY <1>2, <1>10 DEF HeadProcess, SendHeader
  <2>2. head' \in Header
    BY <1>3, <2>1 DEF Header
  <2>3. ctx'.exists
    BY <2>1 DEF NoCtx
  <2> QED
    BY <1>1, <2>1, <2>2, <2>3, HeadKeeps
<1> QED
  BY <1>6, <1>7, <1>8, <1>9, <1>10 DEF HeadFilter

(* The invariant holds before anything happens.                            *)
LEMMA InitInv ==
    ASSUME Init
    PROVE  IInv
<1>1. /\ lcf \in Confs /\ rsp \in Responses /\ conn = "head"
      /\ head = [sent |-> FALSE, length |-> Unknown, surrogate |-> FALSE,
                 error500 |-> FALSE]
      /\ ctx = NoCtx /\ read = 0 /\ eof = FALSE /\ busy = {}
      /\ out = <<>> /\ lastOut = FALSE /\ sent = <<>>
  BY DEF Init
<1>2. /\ DOMAIN ctx = CtxFields /\ ctx.exists = FALSE /\ ctx.done = FALSE
      /\ ctx.passthrough = FALSE
  BY <1>1 DEF NoCtx, CtxFields
<1>3. Typed
  <2>1. Unknown \in Unknown..MaxBytes /\ 0 \in 0..MaxBytes
    BY FilterAssumption DEF Unknown
  <2>2. head \in Header
    BY <1>1, <2>1 DEF Header
  <2>3. <<>> \in Seq(AnswerByte)
    BY EmptySeq
  <2> QED
    BY <1>1, <1>2, <2>1, <2>2, <2>3 DEF Typed
<1>4. 0 <= rsp.len
  BY <1>3, FieldTypes
<1> QED
  BY <1>1, <1>2, <1>3, <1>4
     DEF IInv, StartInv, RouteInv, BytesInv, ReadInv, LimitInv

(* The invariant and the promise are kept by every step.                   *)
LEMMA NextKeeps ==
    ASSUME IInv, [Next]_vars
    PROVE  IInv' /\ PromisedStep /\ rsp' = rsp
<1>1. CASE HeadFilter
  BY <1>1, HeadFilterKeeps
     DEF HeadFilter, HeadPass, HeadRefuse, HeadUnenforceable, HeadNoContext,
         HeadProcess
<1>2. CASE Receive
  BY <1>2, ReceiveKeeps DEF Receive
<1>3. CASE Finish
  BY <1>3, FinishKeeps DEF Finish
<1>4. CASE FinishHead
  BY <1>4, FinishHeadKeeps DEF FinishHead
<1>5. CASE Wake
  BY <1>5, WakeKeeps DEF Wake
<1>6. CASE UNCHANGED vars
  <2>1. /\ Skipped' = Skipped /\ Fits' = Fits /\ ContentLength' = ContentLength
        /\ Accumulating' = Accumulating /\ Answer' = Answer /\ Ended' = Ended
    BY <1>6, SameRequest DEF vars, Accumulating, Answer, Ended
  <2>2. Typed' /\ StartInv' /\ ReadInv'
    BY <1>6 DEF vars, IInv, Typed, StartInv, ReadInv, NoCtx, Header, AnswerByte
  <2>3. RouteInv' /\ LimitInv'
    BY <1>6, <2>1 DEF vars, IInv, RouteInv, LimitInv, NoCtx
  <2>4. BytesInv'
    BY <1>6, <2>1 DEF vars, IInv, BytesInv, Raw
  <2> QED
    BY <1>6, <2>1, <2>2, <2>3, <2>4 DEF vars, IInv, PromisedStep
<1> QED
  BY <1>1, <1>2, <1>3, <1>4, <1>5, <1>6 DEF Next

----------------------------------------------------------------------------
(* While a page comes in, every byte of it is held back or sent, and what  *)
(* the client and the filters below have together is the body so far, a    *)
(* page or nothing; see the conjuncts of IInv.                             *)
THEOREM NginxInvariant == Spec => []IInv
BY InitInv, NextKeeps, PTL DEF Spec

(* The header filter clears Content-Length before a page that may be       *)
(* replaced: a length the client has been told is that of the body it gets.*)
THEOREM LengthHonestAlways == Spec => []LengthHonest
<1>1. IInv => LengthHonest
  <2> SUFFICES ASSUME IInv, Completed, rsp.main, ~rsp.headerOnly,
                      head.length # Unknown
               PROVE  Len(sent) = head.length
    BY DEF LengthHonest
  <2>1. conn = "body" /\ eof /\ lastOut /\ out = <<>>
    BY DEF Completed
  <2>2. ~ctx.exists /\ head.length = ContentLength
    BY <2>1 DEF IInv, RouteInv
  <2>3. Answer = Raw(1, read)
    BY <2>1, <2>2 DEF IInv, BytesInv, Accumulating
  <2>4. Answer = sent
    <3>1. sent \in Seq(AnswerByte)
      BY DEF IInv, Typed
    <3> QED
      BY <2>1, <3>1, ConcatEmptySeq DEF Answer
  <2>5. read = rsp.len /\ rsp.len \in Nat
    BY <2>1, FieldTypes DEF IInv, ReadInv
  <2>6. head.length = rsp.len
    BY <2>2 DEF ContentLength
  <2> QED
    BY <2>3, <2>4, <2>5, <2>6, RawUpTo
<1> QED
  BY <1>1, NginxInvariant, PTL

(* mesi_max_body_size is applied to exactly the pages that exceed it,      *)
(* whether the header or a chain tells, and however the body is cut.       *)
THEOREM LimitExactAlways == Spec => []LimitExact
<1>1. IInv => LimitExact
  <2> SUFFICES ASSUME IInv, rsp.main, ~Skipped, ~lcf.unenforceable,
                      ~lcf.lowMemory
               PROVE  /\ Completed /\ lcf.onOversize = "error" => Fits
                      /\ Completed => (ctx.done <=> Fits)
                      /\ conn \in {"refused", "aborted"} =>
                           ~Fits /\ lcf.onOversize = "error"
    BY DEF LimitExact, Fits
  <2>1. conn \in {"refused", "aborted"} => ~Fits /\ lcf.onOversize = "error"
    BY DEF IInv, LimitInv
  <2>2. ASSUME Completed
        PROVE  /\ lcf.onOversize = "error" => Fits
               /\ ctx.done <=> Fits
    <3>1. conn = "body" /\ eof /\ lastOut
      BY <2>2 DEF Completed
    <3>2. ~rsp.headerOnly /\ lcf.enable
      BY DEF Skipped
    <3>3. read = rsp.len
      BY <3>1, <3>2 DEF IInv, ReadInv
    <3>4. Accumulating => ctx.done
      BY <3>1 DEF IInv, BytesInv
    <3>5. ctx.done => Accumulating
      BY <3>1 DEF IInv, BytesInv
    <3>6. lcf.limit \in Nat
      BY FieldTypes DEF IInv
    <3>7. Accumulating => Fits
      BY <3>1, <3>3, <3>6 DEF IInv, LimitInv, Fits
    <3>8. ~Accumulating => ~Fits /\ lcf.onOversize = "pass"
      BY <3>1, <3>2 DEF IInv, LimitInv, Accumulating
    <3> QED
      BY <3>4, <3>5, <3>7, <3>8
  <2> QED
    BY <2>1, <2>2
<1> QED
  BY <1>1, NginxInvariant, PTL

(* A response that the header filter returns early for is passed on with   *)
(* the header it came with, no context, no limit and no Surrogate header.  *)
THEOREM OthersUntouchedAlways == Spec => []OthersUntouched
<1>1. IInv => OthersUntouched
  <2> SUFFICES ASSUME IInv, conn # "head",
                      ~lcf.enable \/ ~rsp.parsable \/ Unsignalled
               PROVE  /\ conn = "body" /\ ctx = NoCtx
                      /\ ~head.surrogate /\ ~head.error500
                      /\ head.length = ContentLength
    BY DEF OthersUntouched
  <2>1. Skipped
    BY DEF Skipped
  <2> QED
    BY <2>1 DEF IInv, RouteInv
<1> QED
  BY <1>1, NginxInvariant, PTL

(* A step of the filters is a step of the promise, or none.                *)
LEMMA StepPromised ==
    ASSUME PromisedStep, rsp' = rsp
    PROVE  [Promise!Next]_<<IF rsp.headerOnly THEN <<>> ELSE Raw(1, rsp.len),
                            sent \o out,
                            lastOut \/ conn \in {"refused", "aborted"}>>
<1> DEFINE page == IF rsp.headerOnly THEN <<>> ELSE Raw(1, rsp.len)
           end == lastOut \/ conn \in {"refused", "aborted"}
<1>1. page' = page /\ page = Body
  BY DEF Raw, Body
<1>2. CASE Answer' = Answer /\ Ended' = Ended
  BY <1>1, <1>2 DEF Answer, Ended
<1>3. CASE /\ ~Ended
           /\ IsPrefix(Answer, Answer') /\ IsPrefix(Answer', Body)
           /\ Ended' => Answer' = Body
  <2>1. Promise!Pass
    BY <1>3 DEF Promise!Pass, Promise!IsPrefix, IsPrefix, Answer, Ended, Body
  <2> QED
    BY <1>1, <1>3, <2>1 DEF Promise!Next, Ended
<1>4. CASE /\ ~Ended /\ Answer = <<>> /\ Ended'
           /\ Answer' \in {Page(n) : n \in 0..MaxPage}
  <2>1. Promise!Replace
    BY <1>4 DEF Promise!Replace, Answer, Ended
  <2> QED
    BY <1>1, <1>4, <2>1 DEF Promise!Next, Ended
<1>5. CASE ~Ended /\ Answer = <<>> /\ Answer' = <<>> /\ Ended'
  <2>1. Promise!Fail
    BY <1>5 DEF Promise!Fail, Answer, Ended
  <2> QED
    BY <1>1, <1>5, <2>1 DEF Promise!Next, Ended
<1> QED
  BY <1>2, <1>3, <1>4, <1>5 DEF PromisedStep

(* The module implements PageFilter: across the chains it is handed and    *)
(* the passes of the writer, the client gets the body as it is, one parsed *)
(* page, or nothing, and nothing after the last buffer.                    *)
THEOREM KeepsPromise == Spec => ImplementsPageFilter
<1>1. Init => Promise!Init
  <2>1. <<>> \o <<>> = <<>>
    BY EmptySeq, ConcatEmptySeq
  <2> QED
    BY <2>1 DEF Init, Promise!Init
<1>2. IInv /\ [Next]_vars
        => [Promise!Next]_<<IF rsp.headerOnly THEN <<>> ELSE Raw(1, rsp.len),
                            sent \o out,
                            lastOut \/ conn \in {"refused", "aborted"}>>
  BY NextKeeps, StepPromised
<1> QED
  BY <1>1, <1>2, NginxInvariant, PTL DEF Spec, ImplementsPageFilter, Promise!Spec

----------------------------------------------------------------------------
(* A set of numbers has a smallest one.                                    *)
LEMMA LeastNumber ==
    ASSUME NEW T, T \subseteq Nat, T # {}
    PROVE  \E x \in T : \A y \in T : x <= y
<1> DEFINE R == OpToRel(<, Nat)
<1>1. IsWellFoundedOn(R, Nat)
  BY NatLessThanWellFounded
<1>2. \A x, y \in Nat : y < x => <<y, x>> \in R
  BY DEF OpToRel
<1> HIDE DEF R
<1>3. PICK x \in T : \A y \in T : ~(<<y, x>> \in R)
  BY <1>1, WFMin
<1>4. \A y \in T : ~(y < x)
  BY <1>2, <1>3
<1>5. \A y \in T : x <= y
  BY <1>4
<1> QED
  BY <1>5

(* A set of numbers that holds 0 and, with every number, the next up to n, *)
(* holds all numbers up to n.                                              *)
LEMMA CountUp ==
    ASSUME NEW n \in Nat, NEW S, 0 \in S,
           \A i \in 1..n : i - 1 \in S => i \in S
    PROVE  \A i \in 0..n : i \in S
<1> DEFINE T == {i \in Nat : i <= n /\ i \notin S}
<1>1. SUFFICES ASSUME T # {} PROVE FALSE
  OBVIOUS
<1>2. T \subseteq Nat
  OBVIOUS
<1>3. PICK m \in T : \A y \in T : m <= y
  <2> HIDE DEF T
  <2> QED
    BY <1>1, <1>2, LeastNumber
<1>4. m \in 1..n /\ m \notin S
  BY <1>3
<1>5. m - 1 \in S
  BY <1>3, <1>4
<1> QED
  BY <1>4, <1>5

(* From a first value and what each step makes of a value one gets a       *)
(* function: what a recursive definition over 0..n needs to make sense.    *)
Runs(first, step, V, n) ==
    {g \in [0..n -> V] : g[0] = first /\ \A i \in 1..n : g[i] = step[i][g[i - 1]]}

LEMMA RunExists ==
    ASSUME NEW V, NEW first \in V, NEW n \in Nat, NEW step \in [1..n -> [V -> V]]
    PROVE  Runs(first, step, V, n) # {}
<1> DEFINE S == {m \in 0..n : Runs(first, step, V, m) # {}}
<1>1. 0 \in S
  <2>1. [i \in 0..0 |-> first] \in Runs(first, step, V, 0)
    BY DEF Runs
  <2> QED
    BY <2>1
<1>2. ASSUME NEW m \in 1..n, m - 1 \in S
      PROVE  m \in S
  <2>1. PICK g : g \in Runs(first, step, V, m - 1)
    BY <1>2
  <2>2. /\ g \in [0..(m - 1) -> V] /\ g[0] = first
        /\ \A i \in 1..(m - 1) : g[i] = step[i][g[i - 1]]
    BY <2>1 DEF Runs
  <2> DEFINE h == [i \in 0..m |-> IF i = m THEN step[m][g[m - 1]] ELSE g[i]]
  <2>3. step[m] \in [V -> V] /\ m - 1 \in 0..(m - 1)
    OBVIOUS
  <2>4. h \in [0..m -> V]
    <3>1. g[m - 1] \in V /\ step[m][g[m - 1]] \in V
      BY <2>2, <2>3
    <3>2. \A i \in 0..m : i # m => i \in 0..(m - 1) /\ g[i] \in V
      BY <2>2
    <3> QED
      BY <3>1, <3>2
  <2>5. h[0] = first
    BY <2>2
  <2>6. ASSUME NEW i \in 1..m
        PROVE  h[i] = step[i][h[i - 1]]
    <3>1. h[i - 1] = g[i - 1]
      OBVIOUS
    <3>2. CASE i = m
      BY <3>1, <3>2
    <3>3. CASE i # m
      BY <2>2, <3>1, <3>3
    <3> QED
      BY <3>2, <3>3
  <2>7. h \in Runs(first, step, V, m)
    BY <2>4, <2>5, <2>6 DEF Runs
  <2> QED
    BY <2>7
<1> HIDE DEF S
<1>3. \A i \in 0..n : i \in S
  BY <1>1, <1>2, CountUp
<1> QED
  BY <1>3 DEF S

LEMMA DoubledFacts ==
    ASSUME NEW first \in Nat, NEW n \in Nat
    PROVE  /\ Doubled(first, n) \in [0..n -> Nat]
           /\ Doubled(first, n)[0] = first
           /\ \A j \in 1..n : Doubled(first, n)[j] = 2 * Doubled(first, n)[j - 1]
<1> DEFINE step == [j \in 1..n |-> [c \in Nat |-> 2 * c]]
           F(f) == [j \in 0..n |-> IF j = 0 THEN first ELSE 2 * f[j - 1]]
<1>1. step \in [1..n -> [Nat -> Nat]]
  OBVIOUS
<1>2. PICK g : g \in Runs(first, step, Nat, n)
  <2> HIDE DEF step
  <2>1. Runs(first, step, Nat, n) # {}
    BY <1>1, RunExists
  <2> QED
    BY <2>1
<1>3. /\ g \in [0..n -> Nat] /\ g[0] = first
      /\ \A j \in 1..n : g[j] = 2 * g[j - 1]
  <2>1. /\ g \in [0..n -> Nat] /\ g[0] = first
        /\ \A j \in 1..n : g[j] = step[j][g[j - 1]]
    <3> HIDE DEF step
    <3> QED
      BY <1>2 DEF Runs
  <2>2. \A j \in 1..n : g[j - 1] \in Nat
    BY <2>1
  <2> QED
    BY <2>1, <2>2
<1>4. g = F(g)
  BY <1>3
<1>5. Doubled(first, n) = CHOOSE f : f = F(f)
  BY DEF Doubled
<1>6. Doubled(first, n) = F(Doubled(first, n))
  <2> HIDE DEF F
  <2> QED
    BY <1>4, <1>5
<1> DEFINE c == Doubled(first, n)
<1> HIDE DEF c
<1>7. c = F(c)
  BY <1>6 DEF c
<1>8. c[0] = first /\ \A j \in 1..n : c[j] = 2 * c[j - 1]
  BY <1>7
<1>9. \A j \in 0..n : j \in {i \in 0..n : c[i] \in Nat}
  <2> DEFINE S == {i \in 0..n : c[i] \in Nat}
  <2>1. 0 \in S
    BY <1>8
  <2>2. \A j \in 1..n : j - 1 \in S => j \in S
    BY <1>8
  <2> HIDE DEF S
  <2>3. \A j \in 0..n : j \in S
    BY <2>1, <2>2, CountUp
  <2> QED
    BY <2>3 DEF S
<1>10. c \in [0..n -> Nat]
  BY <1>7, <1>9
<1> QED
  BY <1>8, <1>10 DEF c

(* Doubling from a capacity above 0 gets to any length in as many rounds;  *)
(* the first capacity that is enough is the one the loop stops with.       *)
LEMMA EnoughIsEnough ==
    ASSUME NEW cap \in Nat, NEW newLen \in Nat
    PROVE  Enough(cap, newLen) \in Nat /\ Enough(cap, newLen) >= newLen
<1> DEFINE first == IF cap = 0 THEN PageSize ELSE cap
           c == Doubled(first, newLen)
           Stops(j) == c[j] >= newLen /\ \A i \in 0..(j - 1) : c[i] < newLen
           S == {j \in 0..newLen : c[j] > j}
           T == {j \in 0..newLen : c[j] >= newLen}
<1>1. first \in Nat /\ first > 0
  BY FilterAssumption
<1> HIDE DEF first
<1>2. /\ c \in [0..newLen -> Nat] /\ c[0] = first
      /\ \A j \in 1..newLen : c[j] = 2 * c[j - 1]
  BY <1>1, DoubledFacts
<1>3. Enough(cap, newLen) = c[CHOOSE j \in 0..newLen : Stops(j)]
  BY DEF Enough, first
<1> HIDE DEF c
<1>4. newLen \in S
  <2>1. 0 \in S
    BY <1>1, <1>2
  <2>2. ASSUME NEW j \in 1..newLen, j - 1 \in S
        PROVE  j \in S
    <3>1. c[j - 1] > j - 1 /\ c[j - 1] \in Nat /\ c[j] = 2 * c[j - 1]
      BY <1>2, <2>2
    <3> QED
      BY <3>1
  <2> HIDE DEF S
  <2>3. \A j \in 0..newLen : j \in S
    BY <2>1, <2>2, CountUp
  <2> QED
    BY <2>3
<1>5. newLen \in T
  BY <1>2, <1>4
<1>6. PICK j \in T : \A i \in T : j <= i
  <2>1. T \subseteq Nat
    OBVIOUS
  <2> HIDE DEF T
  <2> QED
    BY <1>5, <2>1, LeastNumber
<1>7. j \in 0..newLen /\ Stops(j)
  <2>1. j \in 0..newLen /\ c[j] >= newLen
    BY <1>6
  <2>2. ASSUME NEW i \in 0..(j - 1)
        PROVE  c[i] < newLen
    <3>1. i \in 0..newLen /\ i < j /\ i \in Nat /\ j \in Nat
      BY <2>1
    <3>2. i \notin T
      BY <1>6, <3>1
    <3>3. c[i] \in Nat
      BY <1>2, <3>1
    <3> QED
      BY <3>1, <3>2, <3>3
  <2> QED
    BY <2>1, <2>2
<1> DEFINE k == CHOOSE i \in 0..newLen : Stops(i)
<1>8. k \in 0..newLen /\ Stops(k)
  <2> HIDE DEF Stops
  <2> QED
    BY <1>7
<1> HIDE DEF k
<1>9. c[k] \in Nat /\ c[k] >= newLen
  BY <1>2, <1>8
<1> QED
  BY <1>3, <1>9 DEF k

(* What the capacity has to be, for a length of data in the buffer.        *)
Roomy(cap, len) ==
    cap \in Nat /\ len <= cap /\ (lcf.limit > 0 => cap <= lcf.limit)

LEMMA GrownFacts ==
    ASSUME Typed, NEW cap \in Nat, NEW newLen \in Nat
    PROVE  /\ Grown(cap, newLen) \in Nat
           /\ /\ lcf.limit > 0 => cap <= lcf.limit /\ newLen <= lcf.limit
              => Roomy(Grown(cap, newLen), newLen)
<1>1. Enough(cap, newLen) \in Nat /\ Enough(cap, newLen) >= newLen
  BY EnoughIsEnough
<1>2. lcf.limit \in Nat
  BY FieldTypes
<1> QED
  BY <1>1, <1>2 DEF Grown, Roomy

(* The buffers of a chain, one after the other.                            *)
LEMMA CapacityFacts ==
    ASSUME Typed, NEW cap, NEW chain \in Seq(Nat), NEW held \in Nat,
           Roomy(cap, held),
           lcf.limit > 0 => \A i \in 1..Len(chain) : chain[i] <= lcf.limit
    PROVE  Roomy(Capacity(cap, chain),
                 IF chain = <<>> THEN held ELSE chain[Len(chain)])
<1> DEFINE n == Len(chain)
           step == [i \in 1..n |-> [c \in Nat |-> Grown(c, chain[i])]]
           F(f) == [i \in 0..n |-> IF i = 0 THEN cap ELSE Grown(f[i - 1], chain[i])]
<1>1. n \in Nat /\ \A i \in 1..n : chain[i] \in Nat
  BY LenProperties, ElementOfSeq
<1>2. cap \in Nat
  BY DEF Roomy
<1>3. chain = <<>> <=> n = 0
  BY EmptySeq
<1> HIDE DEF n
<1>4. step \in [1..n -> [Nat -> Nat]]
  BY <1>1, GrownFacts
<1>5. PICK g : g \in Runs(cap, step, Nat, n)
  <2> HIDE DEF step
  <2>1. Runs(cap, step, Nat, n) # {}
    BY <1>1, <1>2, <1>4, RunExists
  <2> QED
    BY <2>1
<1>6. /\ g \in [0..n -> Nat] /\ g[0] = cap
      /\ \A i \in 1..n : g[i] = Grown(g[i - 1], chain[i])
  <2>1. /\ g \in [0..n -> Nat] /\ g[0] = cap
        /\ \A i \in 1..n : g[i] = step[i][g[i - 1]]
    <3> HIDE DEF step
    <3> QED
      BY <1>5 DEF Runs
  <2>2. \A i \in 1..n : g[i - 1] \in Nat
    BY <1>1, <2>1
  <2> QED
    BY <2>1, <2>2
<1>7. g = F(g)
  BY <1>1, <1>6
<1> DEFINE c == CHOOSE f : f = F(f)
<1>8. Capacity(cap, chain) = c[n]
  BY DEF Capacity, n
<1>9. c = F(c)
  <2> HIDE DEF F
  <2> QED
    BY <1>7
<1> HIDE DEF c
<1>10. c[0] = cap /\ \A i \in 1..n : c[i] = Grown(c[i - 1], chain[i])
  BY <1>1, <1>9
<1> DEFINE S == {i \in 0..n : Roomy(c[i], IF i = 0 THEN held ELSE chain[i])}
<1>11. 0 \in S
  BY <1>1, <1>10
<1>12. ASSUME NEW i \in 1..n, i - 1 \in S
       PROVE  i \in S
  <2>1. Roomy(c[i - 1], IF i - 1 = 0 THEN held ELSE chain[i - 1])
    BY <1>12
  <2>2. c[i - 1] \in Nat /\ (lcf.limit > 0 => c[i - 1] <= lcf.limit)
    BY <2>1 DEF Roomy
  <2>3. lcf.limit > 0 => chain[i] <= lcf.limit
    BY DEF n
  <2>4. Roomy(Grown(c[i - 1], chain[i]), chain[i])
    BY <1>1, <2>2, <2>3, GrownFacts
  <2> QED
    BY <1>1, <1>10, <2>4
<1> HIDE DEF S
<1>13. n \in S
  <2>1. \A i \in 0..n : i \in S
    BY <1>1, <1>11, <1>12, CountUp
  <2> QED
    BY <1>1, <2>1
<1>14. Roomy(c[n], IF n = 0 THEN held ELSE chain[n])
  BY <1>13 DEF S
<1> QED
  BY <1>3, <1>8, <1>14 DEF n

----------------------------------------------------------------------------
(* The buffer holds bytes of the response and has room for them, within    *)
(* the limit.                                                              *)
Context == [exists : BOOLEAN, accumulated : Seq(1..MaxBytes), capacity : Nat,
            done : BOOLEAN, passthrough : BOOLEAN]

HeldInv ==
    /\ ctx \in Context
    /\ Roomy(ctx.capacity, Len(ctx.accumulated))

(* A part of a chain that is within the limit is copied.                   *)
LEMMA CopyKeepsHeld ==
    ASSUME IInv, HeldInv, NEW chain, NEW final, Given(chain, final), Accumulating,
           NEW part \in Seq(Nat), End(part) \in Nat,
           read <= End(part), End(part) <= End(chain),
           lcf.limit > 0 => \A i \in 1..Len(part) : part[i] <= lcf.limit,
           ctx'.accumulated = ctx.accumulated \o Raw(read + 1, End(part)),
           ctx'.capacity = Capacity(ctx.capacity, part)
    PROVE  /\ ctx'.accumulated \in Seq(1..MaxBytes) /\ ctx'.capacity \in Nat
           /\ Roomy(ctx'.capacity, Len(ctx'.accumulated))
<1>1. /\ read \in Nat /\ lcf' = lcf /\ MaxBytes \in Nat
      /\ End(chain) \in Nat /\ End(chain) <= rsp.len /\ rsp.len <= MaxBytes
      /\ rsp.len \in Nat /\ ctx.accumulated = Raw(1, read)
  BY BeforeCall
<1>2. ctx'.accumulated = Raw(1, End(part))
  BY <1>1, RawConcat
<1>3. /\ Len(Raw(1, read)) = read
      /\ Raw(1, End(part)) \in Seq(Nat) /\ Len(Raw(1, End(part))) = End(part)
      /\ \A k \in 1..End(part) : Raw(1, End(part))[k] = k
  BY <1>1, RawUpTo
<1>4. Raw(1, End(part)) \in Seq(1..MaxBytes)
  <2>1. \A k \in 1..End(part) : k \in 1..MaxBytes
    BY <1>1
  <2>2. Raw(1, End(part)) \in [1..End(part) -> 1..MaxBytes]
    BY <1>3, <2>1, LenProperties
  <2> QED
    BY <2>2, FunctionIsSeq
<1>5. Roomy(ctx.capacity, read)
  BY <1>1, <1>3 DEF HeldInv
<1>6. Roomy(Capacity(ctx.capacity, part),
            IF part = <<>> THEN read ELSE part[Len(part)])
  <2>1. Typed
    BY DEF IInv
  <2> QED
    BY <1>1, <1>5, <2>1, CapacityFacts
<1>7. Roomy(Capacity(ctx.capacity, part), End(part))
  BY <1>6 DEF End
<1>8. Roomy(ctx'.capacity, Len(ctx'.accumulated))
  BY <1>2, <1>3, <1>7
<1> QED
  BY <1>1, <1>2, <1>4, <1>8 DEF Roomy

(* The context with other contents of the buffer.                          *)
LEMMA CopiedContext ==
    ASSUME NEW c \in Context, NEW bytes \in Seq(1..MaxBytes), NEW cap \in Nat
    PROVE  /\ [c EXCEPT !.accumulated = bytes, !.capacity = cap] \in Context
           /\ [c EXCEPT !.accumulated = bytes, !.capacity = cap, !.done = TRUE]
                \in Context
           /\ [c EXCEPT !.passthrough = TRUE, !.accumulated = bytes,
                        !.capacity = cap] \in Context
BY DEF Context

(* Nothing is copied.                                                      *)
LEMMA UncopiedKeepsHeld ==
    ASSUME HeldInv, lcf' = lcf,
           ctx' = ctx \/ ctx' = [ctx EXCEPT !.exists = TRUE]
    PROVE  HeldInv'
<1>1. /\ ctx' \in Context /\ ctx'.capacity = ctx.capacity
      /\ ctx'.accumulated = ctx.accumulated
  BY DEF HeldInv, Context
<1> QED
  BY <1>1 DEF HeldInv, Roomy, Context

(* A call of the body filter copies a chain, or the part of it before the  *)
(* limit, or nothing.                                                      *)
LEMMA BodyFilterKeepsHeld ==
    ASSUME IInv, HeldInv, NEW chain, NEW final, Given(chain, final),
           NEW last, BodyFilter(chain, last)
    PROVE  HeldInv'
<1>1. /\ Typed /\ Ordered(chain) /\ read <= rsp.len /\ DOMAIN ctx = CtxFields
      /\ read \in Nat /\ lcf.limit \in Nat /\ lcf' = lcf
  BY BeforeCall DEF IInv, Given, Typed
<1>2. /\ End(chain) \in Nat /\ read <= End(chain) /\ Len(chain) \in Nat
      /\ \A i \in 1..Len(chain) : chain[i] \in Nat
  BY <1>1, ChainFacts
<1>3. chain \in Seq(Nat)
  <2>1. chain \in [1..Len(chain) -> (read + 1)..rsp.len]
    BY LenProperties, <1>1 DEF Ordered
  <2>2. chain \in [1..Len(chain) -> Nat]
    BY <1>2, <2>1
  <2> QED
    BY <1>2, <2>2, FunctionIsSeq
<1>4. CASE Forward(chain, last) \/ Abort(chain) \/ NoMemory(chain)
  <2>1. ctx' = ctx
    BY <1>4 DEF Forward, Abort, NoMemory
  <2> QED
    BY <1>1, <2>1, UncopiedKeepsHeld
<1>5. CASE ParseAndSend(chain) \/ Accumulate(chain)
  <2>1. /\ Accumulating /\ ~TooLong(chain)
        /\ ctx'.accumulated = ctx.accumulated \o Raw(read + 1, End(chain))
        /\ ctx'.capacity = Capacity(ctx.capacity, chain)
    BY <1>1, <1>5 DEF ParseAndSend, Accumulate, CtxFields
  <2>2. /\ lcf.limit > 0 => \A i \in 1..Len(chain) : chain[i] <= lcf.limit
        /\ End(chain) <= End(chain)
    BY <1>1, <1>2, <2>1 DEF TooLong, Over
  <2>3. /\ ctx'.accumulated \in Seq(1..MaxBytes) /\ ctx'.capacity \in Nat
        /\ Roomy(ctx'.capacity, Len(ctx'.accumulated))
    BY <1>2, <1>3, <2>1, <2>2, CopyKeepsHeld
  <2>4. \/ ctx' = [ctx EXCEPT !.accumulated = ctx'.accumulated,
                              !.capacity = ctx'.capacity]
        \/ ctx' = [ctx EXCEPT !.accumulated = ctx'.accumulated,
                              !.capacity = ctx'.capacity, !.done = TRUE]
    BY <1>5, <2>1 DEF ParseAndSend, Accumulate
  <2>5. ctx' \in Context
    <3>1. ctx \in Context
      BY DEF HeldInv
    <3>2. /\ [ctx EXCEPT !.accumulated = ctx'.accumulated,
                         !.capacity = ctx'.capacity] \in Context
          /\ [ctx EXCEPT !.accumulated = ctx'.accumulated,
                         !.capacity = ctx'.capacity, !.done = TRUE] \in Context
      BY <2>3, <3>1, CopiedContext, Zenon
    <3> QED
      BY <2>4, <3>2, Zenon
  <2> QED
    BY <1>1, <2>3, <2>5 DEF HeldInv, Roomy
<1>6. CASE GiveUp(chain, last)
  <2>1. PICK k \in 1..Len(chain) :
          /\ \A j \in 1..(k - 1) : ~Over(j, chain)
          /\ ctx' = [ctx EXCEPT !.passthrough = TRUE,
                                !.accumulated = @ \o Raw(read + 1,
                                                   End(SubSeq(chain, 1, k - 1))),
                                !.capacity = Capacity(@, SubSeq(chain, 1, k - 1))]
    BY <1>6 DEF GiveUp
  <2> DEFINE within == SubSeq(chain, 1, k - 1)
  <2>2. /\ Accumulating
        /\ ctx'.accumulated = ctx.accumulated \o Raw(read + 1, End(within))
        /\ ctx'.capacity = Capacity(ctx.capacity, within)
    BY <1>1, <1>6, <2>1 DEF GiveUp, CtxFields
  <2>3. /\ End(within) \in Nat /\ read <= End(within)
        /\ End(within) <= End(chain)
    BY <1>1, WithinFacts
  <2>4. /\ within \in Seq(Nat) /\ Len(within) = k - 1
        /\ \A i \in 1..(k - 1) : within[i] = chain[i] /\ i \in 1..Len(chain)
    <3>1. k - 1 \in Nat /\ \A i \in 1..(k - 1) : i \in 1..Len(chain)
      BY <1>2
    <3>2. /\ within \in Seq(Nat)
          /\ Len(within) = IF 1 <= k - 1 THEN (k - 1) - 1 + 1 ELSE 0
          /\ \A i \in 1..((k - 1) - 1 + 1) : within[i] = chain[1 + i - 1]
      BY <1>2, <3>1, SubSeqProperties
    <3>3. (k - 1) - 1 + 1 = k - 1 /\ \A i \in 1..(k - 1) : 1 + i - 1 = i
      BY <3>1
    <3>4. Len(within) = k - 1
      BY <3>1, <3>2
    <3> QED
      BY <3>1, <3>2, <3>3, <3>4
  <2> HIDE DEF within
  <2>5. lcf.limit > 0 => \A i \in 1..Len(within) : within[i] <= lcf.limit
    BY <1>1, <1>2, <2>1, <2>4 DEF Over
  <2>6. /\ ctx'.accumulated \in Seq(1..MaxBytes) /\ ctx'.capacity \in Nat
        /\ Roomy(ctx'.capacity, Len(ctx'.accumulated))
    BY <2>2, <2>3, <2>4, <2>5, CopyKeepsHeld
  <2>7. ctx' = [ctx EXCEPT !.passthrough = TRUE,
                           !.accumulated = ctx'.accumulated,
                           !.capacity = ctx'.capacity]
    BY <2>1, <2>2 DEF within
  <2>8. ctx' \in Context
    <3>1. ctx \in Context
      BY DEF HeldInv
    <3> QED
      BY <2>6, <2>7, <3>1, CopiedContext
  <2> QED
    BY <1>1, <2>6, <2>8 DEF HeldInv, Roomy
<1> QED
  BY <1>4, <1>5, <1>6 DEF BodyFilter

(* Every step keeps the buffer as it has to be.                            *)
LEMMA NextKeepsHeld ==
    ASSUME IInv, HeldInv, [Next]_vars
    PROVE  HeldInv'
<1>2. CASE HeadFilter
  <2>1. lcf' = lcf /\ (ctx' = ctx \/ ctx' = [ctx EXCEPT !.exists = TRUE])
    BY <1>2 DEF HeadFilter, HeadPass, HeadRefuse, HeadUnenforceable,
                HeadNoContext, HeadProcess
  <2> QED
    BY <2>1, UncopiedKeepsHeld
<1>3. CASE Receive
  <2>1. PICK chain \in Chains, final \in BOOLEAN :
          /\ final => End(chain) = rsp.len
          /\ BodyFilter(chain, final /\ rsp.main)
          /\ read' = End(chain)
          /\ eof' = final
    BY <1>3 DEF Receive
  <2>2. Ordered(chain)
    BY ChainsOrdered DEF IInv
  <2>3. Given(chain, final)
    BY <1>3, <2>1, <2>2 DEF Given, Receive
  <2> QED
    BY <2>1, <2>3, BodyFilterKeepsHeld
<1>4. CASE Finish
  <2>1. Ordered(<<>>) /\ End(<<>>) = read
    BY ChainsOrdered DEF IInv, End
  <2>2. Given(<<>>, TRUE)
    BY <1>4, <2>1 DEF Given, Finish
  <2>3. BodyFilter(<<>>, rsp.main)
    BY <1>4 DEF Finish
  <2> QED
    BY <2>2, <2>3, BodyFilterKeepsHeld
<1>5. CASE FinishHead \/ Wake \/ UNCHANGED vars
  BY <1>5, UncopiedKeepsHeld DEF FinishHead, Wake, vars
<1> QED
  BY <1>2, <1>3, <1>4, <1>5 DEF Next

(* The invariant of the buffer, for chains of any buffers from upstream.   *)
THEOREM HeldInvariant == Spec => []HeldInv
<1>1. Init => HeldInv
  <2> SUFFICES ASSUME Init
               PROVE  HeldInv
    OBVIOUS
  <2>1. <<>> \in Seq(1..MaxBytes) /\ Len(<<>>) = 0
    BY EmptySeq
  <2>2. lcf.limit \in Nat
    BY FilterAssumption DEF Init, Confs
  <2> QED
    BY <2>1, <2>2 DEF Init, NoCtx, HeldInv, Context, Roomy
<1>2. IInv /\ HeldInv /\ [Next]_vars => HeldInv'
  BY NextKeepsHeld
<1> QED
  BY <1>1, <1>2, NginxInvariant, PTL DEF Spec

(* The buffer grows by doubling, is cut to mesi_max_body_size and always   *)
(* has room for what is in it (#483): no copy goes past its end, and the   *)
(* limit bounds what is allocated, not only what is used.                  *)
THEOREM BufferWithinLimitAlways == Spec => []BufferWithinLimit
<1>1. HeldInv => BufferWithinLimit
  BY DEF HeldInv, Roomy, BufferWithinLimit
<1> QED
  BY <1>1, HeldInvariant, PTL

(* Types of all variables, those of the buffer among them.                 *)
THEOREM TypeCorrect == Spec => []TypeOK
<1>1. IInv /\ HeldInv => TypeOK
  BY DEF IInv, Typed, TypeOK, HeldInv, Context, AnswerByte
<1> QED
  BY <1>1, NginxInvariant, HeldInvariant, PTL
============================================================================
