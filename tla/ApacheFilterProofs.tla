------------------------- MODULE ApacheFilterProofs -------------------------
(***************************************************************************)
(* Proofs about ApacheFilter for any length of a body and of a page and    *)
(* any limit: the filter keeps the promise of PageFilter, tells the length *)
(* it sends, and applies the limit to exactly the bodies that exceed it.   *)
(***************************************************************************)
EXTENDS ApacheFilter, SequenceTheorems, TLAPS

(* What a client has of the first n bytes once they are passed on.         *)
Sent(n) == IF rsp.bodiless THEN <<>> ELSE Raw(1, n)

(* The response is a page of a virtual host that has the filter enabled.   *)
Ours == conf.enable /\ rsp.html /\ ~Unsignalled

(* The filter is inserted before any handler runs.                         *)
NotYetInv ==
    installed = "not yet" =>
        /\ read = 0 /\ ~ended /\ ~ctx.passthrough /\ ctx.bb = <<>>
        /\ answer = <<>> /\ ~head.sent

(* The handler's end is passed on as it comes, and nothing is then held.   *)
EndedInv ==
    /\ ended <=> eof
    /\ ended => ctx.bb = <<>>
    /\ head.status = "502" => ended
    /\ ctx.lent = {}

(* Every byte that came is held back, or every one has been passed on.     *)
BytesInv ==
    /\ read <= rsp.len
    /\ ~ended => IF Buffering
                 THEN ctx.bb = Raw(1, read) /\ answer = <<>> /\ ~head.sent
                 ELSE ctx.bb = <<>> /\ answer = Sent(read)

(* Why the filter is not in the way of a response.                         *)
RouteInv ==
    /\ installed = "yes" => conf.enable
    /\ installed = "no" => ~Ours \/ ended
    /\ ctx.passthrough => Ours /\ conf.onOversize = "pass"

FitsInv ==
    Limited /\ rsp.len <= conf.limit => head.status # "502" /\ ~ctx.passthrough

(* A length that is still told is the body's, and the body is what goes.   *)
LengthInv ==
    ~rsp.bodiless =>
        /\ head.length \in {Unknown, rsp.len}
        /\ ended /\ head.length # Unknown => answer = Raw(1, rsp.len)

IInv ==
    /\ TypeOK
    /\ NotYetInv /\ EndedInv /\ BytesInv /\ RouteInv /\ FitsInv /\ LengthInv
    /\ LimitExact
Byte == 1..Garbage

AnswerByte == 0..Garbage

Lengths == Unknown..MaxBytes

Header == [sent : BOOLEAN, status : {"ok", "500", "502"}, length : Lengths,
         surrogate : BOOLEAN]

Context == [bb : Seq(Byte), lent : SUBSET (1..MaxBytes), passthrough : BOOLEAN]

----------------------------------------------------------------------------
(* No Content-Length is not a length.                                      *)
LEMMA UnknownLength ==
    /\ Unknown \in Lengths
    /\ \A n \in Nat : n # Unknown /\ (n <= MaxBytes => n \in Lengths)
BY FilterAssumption DEF Unknown, Lengths

(* A function on 1..n is a sequence of length n.                           *)
LEMMA FunctionIsSeq ==
    ASSUME NEW S, NEW n \in Nat, NEW f \in [1..n -> S]
    PROVE  f \in Seq(S) /\ Len(f) = n
<1>1. f \in UNION {[1..m -> S] : m \in Nat}
  OBVIOUS
<1>2. f \in Seq(S)
  BY <1>1, SeqDef
<1> QED
  BY <1>2, LenProperties

(* The bytes that came between two points, and up to one.                  *)
LEMMA RawFacts ==
    ASSUME NEW r \in Nat, NEW e \in Nat, r <= e
    PROVE  /\ Raw(r + 1, e) \in Seq(Nat) /\ Len(Raw(r + 1, e)) = e - r
           /\ \A k \in 1..(e - r) : Raw(r + 1, e)[k] = r + k
<1>1. e - r \in Nat /\ e - (r + 1) + 1 = e - r
  OBVIOUS
<1>2. Raw(r + 1, e) = [k \in 1..(e - r) |-> r + 1 + k - 1]
  BY <1>1 DEF Raw
<1>3. \A k \in 1..(e - r) : r + 1 + k - 1 = r + k /\ r + k \in Nat
  OBVIOUS
<1>4. Raw(r + 1, e) \in [1..(e - r) -> Nat]
  BY <1>2, <1>3
<1>5. Raw(r + 1, e) \in Seq(Nat) /\ Len(Raw(r + 1, e)) = e - r
  BY <1>1, <1>4, FunctionIsSeq
<1> QED
  BY <1>2, <1>3, <1>5

(* The bytes that came up to a point.                                      *)
LEMMA RawUpTo ==
    ASSUME NEW e \in Nat
    PROVE  /\ Raw(1, e) \in Seq(Nat) /\ Len(Raw(1, e)) = e
           /\ \A k \in 1..e : Raw(1, e)[k] = k
<1>1. /\ Raw(0 + 1, e) \in Seq(Nat) /\ Len(Raw(0 + 1, e)) = e - 0
      /\ \A k \in 1..(e - 0) : Raw(0 + 1, e)[k] = 0 + k
  BY RawFacts
<1>2. 0 + 1 = 1 /\ e - 0 = e /\ \A k \in 1..e : 0 + k = k
  OBVIOUS
<1> QED
  BY <1>1, <1>2

(* No byte came between a point and itself.                                *)
LEMMA RawNone ==
    ASSUME NEW r \in Nat
    PROVE  Raw(r + 1, r) = <<>> /\ Raw(1, 0) = <<>>
<1>1. Len(Raw(r + 1, r)) = r - r /\ Raw(r + 1, r) \in Seq(Nat)
  BY RawFacts
<1>2. Len(Raw(1, 0)) = 0 /\ Raw(1, 0) \in Seq(Nat)
  BY RawUpTo
<1>3. r - r = 0
  OBVIOUS
<1> QED
  BY <1>1, <1>2, <1>3, EmptySeq

(* What came before and what comes now is what came up to now.             *)
LEMMA RawConcat ==
    ASSUME NEW r \in Nat, NEW e \in Nat, r <= e
    PROVE  Raw(1, r) \o Raw(r + 1, e) = Raw(1, e)
<1> DEFINE a == Raw(1, r)
           b == Raw(r + 1, e)
           c == Raw(1, e)
<1>1. /\ a \in Seq(Nat) /\ Len(a) = r /\ \A k \in 1..r : a[k] = k
      /\ c \in Seq(Nat) /\ Len(c) = e /\ \A k \in 1..e : c[k] = k
  BY RawUpTo
<1>2. b \in Seq(Nat) /\ Len(b) = e - r /\ \A k \in 1..(e - r) : b[k] = r + k
  BY RawFacts
<1> HIDE DEF a, b, c
<1>3. /\ a \o b \in Seq(Nat) /\ Len(a \o b) = Len(a) + Len(b)
      /\ \A k \in 1..(Len(a) + Len(b)) :
            (a \o b)[k] = IF k <= Len(a) THEN a[k] ELSE b[k - Len(a)]
  <2> DEFINE S == Nat
  <2>1. a \in Seq(S) /\ b \in Seq(S)
    BY <1>1, <1>2
  <2> HIDE DEF S
  <2>2. /\ a \o b \in Seq(S) /\ Len(a \o b) = Len(a) + Len(b)
        /\ \A k \in 1..(Len(a) + Len(b)) :
              (a \o b)[k] = IF k <= Len(a) THEN a[k] ELSE b[k - Len(a)]
    BY <2>1, ConcatProperties
  <2> QED
    BY <2>2 DEF S
<1>4. Len(a \o b) = e
  BY <1>1, <1>2, <1>3
<1>5. ASSUME NEW k \in 1..e
      PROVE  (a \o b)[k] = c[k]
  <2>1. CASE k <= r
    <3>1. k \in 1..r /\ k \in 1..(Len(a) + Len(b)) /\ k <= Len(a)
      BY <1>1, <1>2, <2>1
    <3>2. (a \o b)[k] = a[k]
      BY <1>3, <3>1
    <3> QED
      BY <1>1, <3>1, <3>2
  <2>2. CASE ~(k <= r)
    <3>1. /\ k - r \in 1..(e - r) /\ r + (k - r) = k
          /\ k \in 1..(Len(a) + Len(b)) /\ ~(k <= Len(a)) /\ k - Len(a) = k - r
      BY <1>1, <1>2, <2>2
    <3>2. (a \o b)[k] = b[k - r]
      BY <1>3, <3>1
    <3> QED
      BY <1>1, <1>2, <3>1, <3>2
  <2> QED
    BY <2>1, <2>2
<1>6. a \o b = c
  BY <1>1, <1>3, <1>4, <1>5, SeqEqual
<1> QED
  BY <1>6 DEF a, b, c

(* What came up to a point begins what came up to a later one.             *)
LEMMA RawPrefix ==
    ASSUME NEW r \in Nat, NEW e \in Nat, r <= e
    PROVE  IsPrefix(Raw(1, r), Raw(1, e))
<1> DEFINE a == Raw(1, r)
           c == Raw(1, e)
<1>1. /\ a \in Seq(Nat) /\ Len(a) = r /\ \A k \in 1..r : a[k] = k
      /\ c \in Seq(Nat) /\ Len(c) = e /\ \A k \in 1..e : c[k] = k
  BY RawUpTo
<1> HIDE DEF a, c
<1>2. SubSeq(a, 1, r) = a
  BY <1>1, SubSeqFull
<1>3. /\ SubSeq(c, 1, r) \in Seq(Nat)
      /\ Len(SubSeq(c, 1, r)) = IF 1 <= r THEN r - 1 + 1 ELSE 0
      /\ \A k \in 1..(r - 1 + 1) : SubSeq(c, 1, r)[k] = c[1 + k - 1]
  <2>1. \A k \in 1..r : c[k] \in Nat
    BY <1>1
  <2> QED
    BY <2>1, SubSeqProperties
<1>4. Len(SubSeq(c, 1, r)) = r /\ \A k \in 1..r : SubSeq(c, 1, r)[k] = a[k]
  BY <1>1, <1>3
<1>5. SubSeq(c, 1, r) = a
  BY <1>1, <1>3, <1>4, SeqEqual
<1>6. IsPrefix(a, c)
  BY <1>1, <1>2, <1>5 DEF IsPrefix
<1> QED
  BY <1>6 DEF a, c

(* Of bytes that exist, a sequence of bytes is held or sent.               *)
LEMMA RawBytes ==
    ASSUME NEW e \in Nat, e <= MaxBytes
    PROVE  Raw(1, e) \in Seq(Byte) /\ Raw(1, e) \in Seq(AnswerByte)
<1>1. /\ Raw(1, e) \in Seq(Nat) /\ Len(Raw(1, e)) = e
      /\ \A k \in 1..e : Raw(1, e)[k] = k
  BY RawUpTo
<1>2. DOMAIN Raw(1, e) = 1..e
  BY <1>1, LenProperties
<1>3. \A k \in 1..e : k \in Byte /\ k \in AnswerByte
  BY FilterAssumption DEF Byte, AnswerByte, Garbage
<1>4. Raw(1, e) \in [1..e -> Byte] /\ Raw(1, e) \in [1..e -> AnswerByte]
  BY <1>1, <1>2, <1>3, LenProperties
<1> QED
  BY <1>4, FunctionIsSeq

(* A page is a sequence of bytes, as long as it says.                      *)
LEMMA PageBytes ==
    ASSUME NEW n \in Nat
    PROVE  Page(n) \in Seq(AnswerByte) /\ Len(Page(n)) = n
<1>1. 0 \in AnswerByte
  BY FilterAssumption DEF AnswerByte, Garbage
<1>2. Page(n) \in [1..n -> AnswerByte]
  BY <1>1 DEF Page
<1> QED
  BY <1>2, FunctionIsSeq

(* Every sequence begins with the empty one, and with itself.              *)
LEMMA PrefixFacts ==
    ASSUME NEW S, NEW s \in Seq(S)
    PROVE  IsPrefix(<<>>, s) /\ IsPrefix(s, s)
<1>1. Len(s) \in Nat /\ Len(<<>>) = 0
  BY LenProperties, EmptySeq
<1>2. SubSeq(<<>>, 1, 0) = <<>> /\ SubSeq(s, 1, 0) = <<>>
  BY SubSeqEmpty
<1> QED
  BY <1>1, <1>2 DEF IsPrefix

----------------------------------------------------------------------------
(* Where a brigade ends.                                                   *)
LEMMA BrigadeFacts ==
    ASSUME read \in Nat, rsp.len \in Nat, read <= rsp.len, NEW brigade \in Brigades
    PROVE  /\ End(brigade) \in Nat /\ read <= End(brigade) /\ End(brigade) <= rsp.len
           /\ Len(brigade) \in Nat
           /\ \A k \in 1..Len(brigade) : brigade[k] \in Nat /\ brigade[k] <= rsp.len
           /\ brigade # <<>> => \E k \in 1..Len(brigade) : End(brigade) = brigade[k]
           /\ brigade = <<>> => End(brigade) = read
<1> DEFINE S == (read + 1)..rsp.len
<1>1. PICK n \in 0..MaxBytes : brigade \in [1..n -> S]
  BY DEF Brigades
<1>2. n \in Nat
  BY FilterAssumption
<1>3. \A s \in S : s \in Nat /\ read <= s /\ s <= rsp.len
  OBVIOUS
<1> HIDE DEF S
<1>4. brigade \in Seq(S) /\ Len(brigade) = n
  BY <1>1, <1>2, FunctionIsSeq
<1>5. \A k \in 1..n : brigade[k] \in S
  BY <1>1
<1>6. CASE brigade = <<>>
  <2>1. End(brigade) = read
    BY <1>6 DEF End
  <2> QED
    BY <1>2, <1>3, <1>4, <1>5, <1>6, <2>1
<1>7. CASE brigade # <<>>
  <2>1. End(brigade) = brigade[n]
    BY <1>4, <1>7 DEF End
  <2>2. n \in 1..n
    <3>1. n # 0
      BY <1>4, <1>7, EmptySeq
    <3> QED
      BY <1>2, <3>1
  <2> QED
    BY <1>2, <1>3, <1>4, <1>5, <1>7, <2>1, <2>2
<1> QED
  BY <1>6, <1>7

(* What the types say of the fields that the invariant speaks of.          *)
LEMMA FieldTypes ==
    ASSUME TypeOK
    PROVE  /\ conf.enable \in BOOLEAN /\ conf.limit \in Nat
           /\ conf.onOversize \in {"pass", "error"}
           /\ rsp.len \in Nat /\ rsp.len <= MaxBytes /\ MaxBytes \in Nat
           /\ read \in Nat /\ read <= MaxBytes
           /\ ~rsp.bodiless => rsp.declared \in {Unknown, rsp.len}
           /\ head \in Header /\ ctx.lent \in SUBSET (1..MaxBytes)
           /\ ctx.passthrough \in BOOLEAN
<1>1. /\ conf \in Confs /\ rsp \in Responses /\ head \in Header /\ ctx \in Context
      /\ read \in 0..MaxBytes
  BY DEF TypeOK, Header, Lengths, Context, Byte
<1>2. /\ conf.enable \in BOOLEAN /\ conf.limit \in Nat
      /\ conf.onOversize \in {"pass", "error"}
  BY <1>1, FilterAssumption DEF Confs
<1>3. rsp.len \in 0..MaxBytes
  BY <1>1 DEF Responses
<1>4. ~rsp.bodiless => rsp.declared \in {Unknown, rsp.len}
  BY <1>1 DEF Responses
<1>5. ctx.lent \in SUBSET (1..MaxBytes) /\ ctx.passthrough \in BOOLEAN
  BY <1>1 DEF Context
<1>6. /\ rsp.len \in Nat /\ rsp.len <= MaxBytes /\ MaxBytes \in Nat
      /\ read \in Nat /\ read <= MaxBytes
  BY <1>1, <1>3, FilterAssumption
<1> QED
  BY <1>1, <1>2, <1>4, <1>5, <1>6

(* What an answer has is a sequence of bytes.                              *)
LEMMA SentBytes ==
    ASSUME NEW e \in Nat, e <= MaxBytes
    PROVE  Sent(e) \in Seq(AnswerByte)
<1>1. Raw(1, e) \in Seq(AnswerByte) /\ <<>> \in Seq(AnswerByte)
  BY RawBytes, EmptySeq
<1> QED
  BY <1>1 DEF Sent

(* Passing on what comes after what has been passed on.                    *)
LEMMA SentOn ==
    ASSUME NEW r \in Nat, NEW e \in Nat, r <= e
    PROVE  Sent(r) \o (IF rsp.bodiless THEN <<>> ELSE Raw(r + 1, e)) = Sent(e)
<1>1. Raw(1, r) \o Raw(r + 1, e) = Raw(1, e)
  BY RawConcat
<1>2. <<>> \o <<>> = <<>>
  BY EmptySeq, ConcatEmptySeq
<1> QED
  BY <1>1, <1>2 DEF Sent

(* A body that fits is never found too long, and a brigade that is not     *)
(* found too long keeps what is held within the limit.                     *)
LEMMA TooLongExact ==
    ASSUME TypeOK, read <= rsp.len, NEW brigade \in Brigades
    PROVE  /\ Limited /\ rsp.len <= conf.limit => ~TooLong(brigade)
           /\ Limited /\ ~TooLong(brigade) /\ read <= conf.limit
                => End(brigade) <= conf.limit
<1>1. /\ End(brigade) \in Nat /\ Len(brigade) \in Nat
      /\ \A k \in 1..Len(brigade) : brigade[k] \in Nat /\ brigade[k] <= rsp.len
      /\ brigade # <<>> => \E k \in 1..Len(brigade) : End(brigade) = brigade[k]
      /\ brigade = <<>> => End(brigade) = read
  BY FieldTypes, BrigadeFacts
<1>2. rsp.len \in Nat /\ conf.limit \in Nat /\ rsp.len <= MaxBytes
  BY FieldTypes
<1>3. Limited /\ rsp.len <= conf.limit => ~DeclaredTooLong
  <2> SUFFICES ASSUME Limited, rsp.len <= conf.limit, rsp.declared > conf.limit
               PROVE  FALSE
    BY DEF DeclaredTooLong
  <2>1. rsp.declared \in {Unknown, rsp.len}
    BY FieldTypes DEF Limited
  <2>2. ~(Unknown > conf.limit)
    BY <1>2 DEF Unknown
  <2> QED
    BY <1>2, <2>1, <2>2
<1>4. Limited /\ rsp.len <= conf.limit => ~TooLong(brigade)
  BY <1>1, <1>2, <1>3 DEF TooLong
<1>5. Limited /\ ~TooLong(brigade) /\ read <= conf.limit
        => End(brigade) <= conf.limit
  <2> SUFFICES ASSUME Limited, ~TooLong(brigade), read <= conf.limit
               PROVE  End(brigade) <= conf.limit
    OBVIOUS
  <2>1. \A k \in 1..Len(brigade) : brigade[k] <= conf.limit
    BY <1>1, <1>2 DEF TooLong
  <2> QED
    BY <1>1, <2>1
<1> QED
  BY <1>4, <1>5

----------------------------------------------------------------------------
(* The brigade that is passed down, as Deliver chooses it, and what        *)
(* Deliver does around the filter.                                         *)
Given(brigade, eos) ==
    /\ installed # "not yet" /\ ~eof
    /\ brigade \in Brigades /\ eos \in BOOLEAN
    /\ eos => End(brigade) = rsp.len
    /\ read' = End(brigade)
    /\ eof' = (eos \/ head'.status = "502")
    /\ UNCHANGED <<conf, rsp>>

(* The step the promise sees.                                              *)
PromisedStep ==
    \/ UNCHANGED <<answer, ended>>
    \/ /\ ~ended
       /\ \/ /\ IsPrefix(answer, answer') /\ IsPrefix(answer', Sent(rsp.len))
             /\ ended' => answer' = Sent(rsp.len)
          \/ answer = <<>> /\ answer' \in {Page(n) : n \in 0..MaxPage} /\ ended'
          \/ answer = <<>> /\ answer' = <<>> /\ ended'

(* The state a brigade comes to.                                           *)
LEMMA BeforeStep ==
    ASSUME IInv, NEW brigade, NEW eos, Given(brigade, eos)
    PROVE  /\ ~ended /\ ctx.lent = {} /\ head.status # "502"
           /\ installed \in {"yes", "no"}
           /\ read \in Nat /\ End(brigade) \in Nat /\ rsp.len \in Nat
           /\ conf.limit \in Nat
           /\ read <= End(brigade) /\ End(brigade) <= rsp.len
           /\ rsp.len <= MaxBytes /\ read <= rsp.len
           /\ IF Buffering
              THEN ctx.bb = Raw(1, read) /\ answer = <<>> /\ ~head.sent
              ELSE ctx.bb = <<>> /\ answer = Sent(read)
           /\ conf' = conf /\ rsp' = rsp
           /\ head \in Header /\ ctx \in Context
<1>1. TypeOK /\ NotYetInv /\ EndedInv /\ BytesInv
  BY DEF IInv
<1>2. installed # "not yet" /\ ~eof /\ brigade \in Brigades
  BY DEF Given
<1>3. ~ended /\ ctx.lent = {} /\ head.status # "502"
  BY <1>1, <1>2 DEF EndedInv
<1>4. /\ read \in Nat /\ rsp.len \in Nat /\ rsp.len <= MaxBytes
      /\ conf.limit \in Nat /\ head \in Header
  BY <1>1, FieldTypes
<1>5. /\ read <= rsp.len
      /\ IF Buffering
         THEN ctx.bb = Raw(1, read) /\ answer = <<>> /\ ~head.sent
         ELSE ctx.bb = <<>> /\ answer = Sent(read)
  BY <1>1, <1>3 DEF BytesInv
<1>6. End(brigade) \in Nat /\ read <= End(brigade) /\ End(brigade) <= rsp.len
  BY <1>2, <1>4, <1>5, BrigadeFacts
<1>7. installed \in {"yes", "no"} /\ ctx \in Context
  BY <1>1, <1>2 DEF TypeOK, Context, Byte
<1>8. conf' = conf /\ rsp' = rsp
  BY DEF Given
<1> QED
  BY <1>3, <1>4, <1>5, <1>6, <1>7, <1>8

(* What a step changes of the types.                                       *)
LEMMA TypeAfter ==
    ASSUME IInv, NEW brigade, NEW eos, Given(brigade, eos),
           installed' \in {"yes", "no"}, head' \in Header, ctx' \in Context,
           answer' \in Seq(AnswerByte), ended' \in BOOLEAN
    PROVE  TypeOK'
<1>1. /\ read \in Nat /\ End(brigade) \in Nat /\ End(brigade) <= rsp.len
      /\ rsp.len \in Nat /\ rsp.len <= MaxBytes
      /\ conf' = conf /\ rsp' = rsp
  BY BeforeStep
<1>2. conf' \in Confs /\ rsp' \in Responses
  BY <1>1 DEF IInv, TypeOK
<1>3. read' \in 0..MaxBytes
  <2>1. read' = End(brigade)
    BY DEF Given
  <2> QED
    BY <1>1, <2>1, FilterAssumption
<1>4. eof' \in BOOLEAN
  <2>1. eos \in BOOLEAN /\ eof' = (eos \/ head'.status = "502")
    BY DEF Given
  <2> QED
    BY <2>1
<1>5. installed' \in {"not yet", "yes", "no"}
  OBVIOUS
<1> QED
  BY <1>2, <1>3, <1>4, <1>5 DEF TypeOK, Header, Lengths, Byte, AnswerByte, Context

(* The limit holds after a step that passes everything on, when no body    *)
(* that fits was found too long, and a body that does not fit is passed    *)
(* on only as configured.                                                  *)
LEMMA AfterPass ==
    ASSUME IInv, NEW brigade, NEW eos, Given(brigade, eos),
           installed' \in {"yes", "no"}, head' \in Header, ctx' \in Context,
           ctx'.bb = <<>>, ctx'.lent = {},
           answer' = Sent(End(brigade)), ended' = eos,
           head'.status = head.status, head'.length = head.length,
           eos \/ ~Buffering',
           RouteInv',
           Limited /\ rsp.len <= conf.limit => ~ctx'.passthrough,
           eos /\ Ours /\ Limited /\ rsp.len > conf.limit
             => conf.onOversize = "pass"
    PROVE  IInv' /\ PromisedStep
<1> DEFINE e == End(brigade)
<1>1. /\ ~ended /\ head.status # "502"
      /\ read \in Nat /\ e \in Nat /\ rsp.len \in Nat /\ conf.limit \in Nat
      /\ read <= e /\ e <= rsp.len /\ rsp.len <= MaxBytes
      /\ IF Buffering
         THEN ctx.bb = Raw(1, read) /\ answer = <<>> /\ ~head.sent
         ELSE ctx.bb = <<>> /\ answer = Sent(read)
      /\ conf' = conf /\ rsp' = rsp
  BY BeforeStep
<1>2. /\ read' = e /\ eof' = (eos \/ head'.status = "502")
      /\ eos => e = rsp.len
      /\ eos \in BOOLEAN
  BY DEF Given
<1>3. answer' = Sent(e)
  OBVIOUS
<1> HIDE DEF e
<1>4. e <= MaxBytes /\ answer' = Sent(e)
  BY <1>1, <1>3, FilterAssumption
<1>5. TypeOK'
  <2>1. answer' \in Seq(AnswerByte)
    BY <1>1, <1>4, SentBytes
  <2>2. ended' \in BOOLEAN
    BY <1>2
  <2> QED
    BY <2>1, <2>2, TypeAfter
<1>6. NotYetInv'
  BY DEF NotYetInv
<1>7. EndedInv'
  BY <1>1, <1>2 DEF EndedInv
<1>8. BytesInv'
  <2>1. read' <= rsp'.len
    BY <1>1, <1>2
  <2>2. ~ended' => ~Buffering' /\ ctx'.bb = <<>> /\ answer' = Sent(read)'
    BY <1>1, <1>2, <1>4 DEF Sent, Raw
  <2> QED
    BY <2>1, <2>2 DEF BytesInv
<1>9. FitsInv'
  BY <1>1 DEF FitsInv, Limited
<1>10. LengthInv'
  <2>1. LengthInv
    BY DEF IInv
  <2>2. ended' /\ ~rsp.bodiless => answer' = Raw(1, rsp.len)
    BY <1>2, <1>4 DEF Sent
  <2> QED
    BY <1>1, <2>1, <2>2 DEF LengthInv, Raw
<1>11. LimitExact'
  <2>1. Len(ctx'.bb) <= conf'.limit
    BY <1>1, EmptySeq
  <2>2. Limited' = Limited /\ Ours' = Ours
    BY <1>1 DEF Limited, Ours, Unsignalled
  <2>3. Ours' /\ Limited' /\ ended' /\ rsp'.len <= conf'.limit
          => head'.status # "502" /\ ~ctx'.passthrough
    BY <1>1, <2>2
  <2>4. Ours' /\ Limited' /\ ended' /\ ~(rsp'.len <= conf'.limit)
          => conf'.onOversize # "error" /\ answer' = Raw(1, rsp'.len)
    <3>1. Limited => ~rsp.bodiless
      BY DEF Limited
    <3>2. ended' /\ ~rsp.bodiless => answer' = Raw(1, rsp.len)
      BY <1>2, <1>4 DEF Sent
    <3>3. "pass" # "error"
      OBVIOUS
    <3> QED
      BY <1>1, <2>2, <3>1, <3>2, <3>3
  <2>5. Ours' /\ Limited' /\ ended' /\ ~(rsp'.len <= conf'.limit)
          => answer' = Raw(1, rsp.len)'
    BY <2>4 DEF Raw
  <2> QED
    BY <2>1, <2>3, <2>4, <2>5 DEF LimitExact, Ours
<1>12. PromisedStep
  <2>1. IsPrefix(answer, answer')
    <3>1. IsPrefix(Raw(1, read), Raw(1, e))
      BY <1>1, RawPrefix
    <3>2. IsPrefix(<<>>, Sent(e)) /\ IsPrefix(<<>>, <<>>)
      BY <1>1, <1>4, SentBytes, PrefixFacts, EmptySeq
    <3> QED
      BY <1>1, <1>4, <3>1, <3>2 DEF Sent
  <2>2. IsPrefix(answer', Sent(rsp.len))
    <3>1. IsPrefix(Raw(1, e), Raw(1, rsp.len))
      BY <1>1, RawPrefix
    <3>2. IsPrefix(<<>>, <<>>)
      BY PrefixFacts, EmptySeq
    <3> QED
      BY <1>4, <3>1, <3>2 DEF Sent
  <2>3. ended' => answer' = Sent(rsp.len)
    BY <1>2, <1>4
  <2> QED
    BY <1>1, <2>1, <2>2, <2>3 DEF PromisedStep
<1> QED
  BY <1>5, <1>6, <1>7, <1>8, <1>9, <1>10, <1>11, <1>12 DEF IInv

(* A brigade that goes past a filter that is not in the way.               *)
LEMMA PassOnKeeps ==
    ASSUME IInv, NEW brigade, NEW eos, Given(brigade, eos), PassOn(brigade, eos)
    PROVE  IInv' /\ PromisedStep
<1>1. /\ ~ended /\ ctx.lent = {} /\ installed \in {"yes", "no"}
      /\ read \in Nat /\ End(brigade) \in Nat /\ read <= End(brigade)
      /\ IF Buffering
         THEN ctx.bb = Raw(1, read) /\ answer = <<>> /\ ~head.sent
         ELSE ctx.bb = <<>> /\ answer = Sent(read)
      /\ conf' = conf /\ rsp' = rsp /\ head \in Header /\ ctx \in Context
  BY BeforeStep
<1>2. /\ installed = "no" \/ ctx.passthrough
      /\ installed' = installed /\ ctx' = ctx
      /\ answer' = answer \o (IF rsp.bodiless THEN <<>>
                              ELSE Raw(read + 1, End(brigade)))
      /\ ended' = (ended \/ eos)
      /\ head' = IF head.sent THEN head ELSE [head EXCEPT !.sent = TRUE]
  BY DEF PassOn, PassBrigade
<1>3. eos \in BOOLEAN
  BY DEF Given
<1>4. ~Buffering /\ ~Buffering'
  BY <1>2 DEF Buffering
<1>5. answer' = Sent(End(brigade))
  BY <1>1, <1>2, <1>4, SentOn
<1>6. /\ head' \in Header /\ head'.status = head.status
      /\ head'.length = head.length
  BY <1>1, <1>2 DEF Header
<1>7. RouteInv /\ FitsInv
  BY DEF IInv
<1>8. RouteInv'
  <2>1. Ours' = Ours
    BY <1>1 DEF Ours, Unsignalled
  <2> QED
    BY <1>1, <1>2, <1>7, <2>1 DEF RouteInv
<1>9. Limited /\ rsp.len <= conf.limit => ~ctx'.passthrough
  BY <1>2, <1>7 DEF FitsInv
<1>10. Ours => conf.onOversize = "pass"
  BY <1>1, <1>2, <1>7 DEF RouteInv
<1>11. ended' = eos
  BY <1>1, <1>2, <1>3
<1>12. ctx'.bb = <<>> /\ ctx'.lent = {} /\ ctx' \in Context
  BY <1>1, <1>2, <1>4
<1> QED
  BY <1>1, <1>2, <1>4, <1>5, <1>6, <1>8, <1>9, <1>10, <1>11, <1>12, AfterPass

(* A response that is not for the filter.                                  *)
LEMMA SkipKeeps ==
    ASSUME IInv, NEW brigade, NEW eos, Given(brigade, eos), Skip(brigade, eos)
    PROVE  IInv' /\ PromisedStep
<1> DEFINE header == IF rsp.html THEN [head EXCEPT !.surrogate = FALSE] ELSE head
<1>1. /\ ~ended /\ ctx.lent = {}
      /\ read \in Nat /\ End(brigade) \in Nat /\ read <= End(brigade)
      /\ IF Buffering
         THEN ctx.bb = Raw(1, read) /\ answer = <<>> /\ ~head.sent
         ELSE ctx.bb = <<>> /\ answer = Sent(read)
      /\ conf' = conf /\ rsp' = rsp /\ head \in Header /\ ctx \in Context
  BY BeforeStep
<1>2. /\ installed = "yes" /\ (~rsp.html \/ Unsignalled)
      /\ installed' = "no" /\ ctx' = ctx
      /\ answer' = answer \o (IF rsp.bodiless THEN <<>>
                              ELSE Raw(read + 1, End(brigade)))
      /\ ended' = (ended \/ eos)
      /\ head' = IF head.sent THEN head ELSE [header EXCEPT !.sent = TRUE]
  BY DEF Skip, PassBrigade
<1>3. eos \in BOOLEAN
  BY DEF Given
<1>4. ~Buffering /\ ~Buffering' /\ ~Ours
  BY <1>2 DEF Buffering, Ours
<1>5. answer' = Sent(End(brigade))
  BY <1>1, <1>2, <1>4, SentOn
<1>6. /\ head' \in Header /\ head'.status = head.status
      /\ head'.length = head.length
  <2>1. /\ header \in Header /\ header.status = head.status
        /\ header.length = head.length
    BY <1>1 DEF Header
  <2> HIDE DEF header
  <2> QED
    BY <1>1, <1>2, <2>1 DEF Header
<1> HIDE DEF header
<1>7. RouteInv /\ FitsInv
  BY DEF IInv
<1>8. RouteInv'
  <2>1. Ours' = Ours
    BY <1>1 DEF Ours, Unsignalled
  <2> QED
    BY <1>1, <1>2, <1>4, <1>7, <2>1 DEF RouteInv
<1>9. Limited /\ rsp.len <= conf.limit => ~ctx'.passthrough
  BY <1>2, <1>7 DEF FitsInv
<1>10. installed' \in {"yes", "no"}
  BY <1>2
<1>11. ended' = eos
  BY <1>1, <1>2, <1>3
<1>12. ctx'.bb = <<>> /\ ctx'.lent = {} /\ ctx' \in Context
  BY <1>1, <1>2, <1>4
<1> QED
  BY <1>4, <1>5, <1>6, <1>8, <1>9, <1>10, <1>11, <1>12, AfterPass

(* While the filter holds back, it holds every byte that came, unharmed,   *)
(* and nothing has been sent.                                              *)
LEMMA HeldBytes ==
    ASSUME IInv, NEW brigade, NEW eos, Given(brigade, eos), Buffering
    PROVE  /\ Held \o Raw(read + 1, End(brigade)) = Raw(1, End(brigade))
           /\ Moved(brigade) = [ctx EXCEPT !.bb = Raw(1, End(brigade))]
           /\ answer = <<>> /\ ~head.sent /\ ~ctx.passthrough
           /\ installed = "yes" /\ Ours
<1>1. /\ ctx.lent = {} /\ read \in Nat /\ End(brigade) \in Nat
      /\ read <= End(brigade)
      /\ ctx.bb = Raw(1, read) /\ answer = <<>> /\ ~head.sent
  BY BeforeStep
<1>2. Held = ctx.bb
  <2>1. ctx.bb = [k \in 1..(read - 1 + 1) |-> 1 + k - 1]
    BY <1>1 DEF Raw
  <2>2. Held = [i \in DOMAIN ctx.bb |-> ctx.bb[i]]
    BY <1>1 DEF Held
  <2> QED
    BY <2>1, <2>2
<1>3. Held \o Raw(read + 1, End(brigade)) = Raw(1, End(brigade))
  BY <1>1, <1>2, RawConcat
<1>4. Ours /\ installed = "yes" /\ ~ctx.passthrough
  BY DEF Buffering, Ours, IInv, RouteInv
<1> QED
  BY <1>1, <1>3, <1>4 DEF Moved

(* A body too long for the limit, sent on as it is.                        *)
LEMMA GiveUpKeeps ==
    ASSUME IInv, NEW brigade, NEW eos, Given(brigade, eos), GiveUp(brigade, eos)
    PROVE  IInv' /\ PromisedStep
<1>1. /\ ~ended /\ ctx.lent = {}
      /\ read \in Nat /\ End(brigade) \in Nat /\ read <= rsp.len
      /\ conf' = conf /\ rsp' = rsp /\ head \in Header /\ ctx \in Context
  BY BeforeStep
<1>2. /\ Buffering /\ TooLong(brigade) /\ conf.onOversize = "pass"
      /\ ctx' = [ctx EXCEPT !.bb = <<>>, !.passthrough = TRUE]
      /\ answer' = answer \o (IF rsp.bodiless THEN <<>>
                              ELSE Held \o Raw(read + 1, End(brigade)))
      /\ ended' = (ended \/ eos)
      /\ head' = IF head.sent THEN head ELSE [head EXCEPT !.sent = TRUE]
      /\ installed' = installed
  BY DEF GiveUp, PassBrigade
<1>3. eos \in BOOLEAN /\ brigade \in Brigades
  BY DEF Given
<1>4. /\ Held \o Raw(read + 1, End(brigade)) = Raw(1, End(brigade))
      /\ answer = <<>> /\ installed = "yes" /\ Ours
  BY <1>2, HeldBytes
<1>5. answer' = Sent(End(brigade))
  <2>1. /\ Raw(1, End(brigade)) \in Seq(Nat)
        /\ <<>> \o <<>> = <<>>
    BY <1>1, RawUpTo, ConcatEmptySeq, EmptySeq
  <2>2. <<>> \o Raw(1, End(brigade)) = Raw(1, End(brigade))
    BY <2>1, ConcatEmptySeq
  <2> QED
    BY <1>2, <1>4, <2>1, <2>2 DEF Sent
<1>6. /\ head' \in Header /\ head'.status = head.status
      /\ head'.length = head.length
  BY <1>1, <1>2 DEF Header
<1>7. /\ ctx' \in Context /\ ctx'.bb = <<>> /\ ctx'.lent = {}
      /\ ctx'.passthrough
  <2>1. <<>> \in Seq(Byte)
    BY EmptySeq
  <2> QED
    BY <1>1, <1>2, <2>1 DEF Context
<1>8. ~Buffering'
  BY <1>7 DEF Buffering
<1>9. RouteInv'
  <2>1. Ours' = Ours
    BY <1>1 DEF Ours, Unsignalled
  <2> QED
    BY <1>1, <1>2, <1>4, <2>1 DEF RouteInv, Ours
<1>10. ~(Limited /\ rsp.len <= conf.limit)
  <2>1. TypeOK
    BY DEF IInv
  <2> QED
    BY <1>1, <1>2, <1>3, <2>1, TooLongExact
<1>11. ended' = eos /\ installed' \in {"yes", "no"}
  BY <1>1, <1>2, <1>3, <1>4
<1> QED
  BY <1>2, <1>5, <1>6, <1>7, <1>8, <1>9, <1>10, <1>11, AfterPass

(* What is held back stays within the limit, unless it is found too long.  *)
LEMMA WithinLimit ==
    ASSUME IInv, NEW brigade, NEW eos, Given(brigade, eos),
           Buffering, ~TooLong(brigade)
    PROVE  Ours /\ Limited => End(brigade) <= conf.limit
<1>1. brigade \in Brigades /\ TypeOK /\ LimitExact
  BY DEF IInv, Given
<1>2. Ours /\ Limited => Len(ctx.bb) <= conf.limit
  BY <1>1 DEF LimitExact, Ours
<1>3. Len(ctx.bb) = read /\ read <= rsp.len
  BY BeforeStep, RawUpTo
<1> QED
  BY <1>1, <1>2, <1>3, TooLongExact

(* A complete page that no parse is tried on.                              *)
LEMMA EndRawKeeps ==
    ASSUME IInv, NEW brigade, Given(brigade, TRUE), EndRaw(brigade)
    PROVE  IInv' /\ PromisedStep
<1>1. /\ ~ended /\ ctx.lent = {}
      /\ read \in Nat /\ End(brigade) \in Nat /\ read <= rsp.len
      /\ rsp.len \in Nat /\ conf.limit \in Nat
      /\ conf' = conf /\ rsp' = rsp /\ head \in Header /\ ctx \in Context
  BY BeforeStep
<1>2. /\ Buffering /\ ~TooLong(brigade)
      /\ ctx' = [ctx EXCEPT !.bb = <<>>]
      /\ answer' = answer \o (IF rsp.bodiless THEN <<>> ELSE Moved(brigade).bb)
      /\ ended'
      /\ head' = IF head.sent THEN head ELSE [head EXCEPT !.sent = TRUE]
      /\ installed' = installed
  BY DEF EndRaw, PassBrigade
<1>3. brigade \in Brigades /\ End(brigade) = rsp.len
  BY DEF Given
<1>4. /\ Moved(brigade) = [ctx EXCEPT !.bb = Raw(1, End(brigade))]
      /\ answer = <<>> /\ installed = "yes" /\ Ours /\ ~ctx.passthrough
  BY <1>2, HeldBytes
<1>5. answer' = Sent(End(brigade))
  <2>1. /\ Raw(1, End(brigade)) \in Seq(Nat)
        /\ <<>> \o <<>> = <<>>
    BY <1>1, RawUpTo, ConcatEmptySeq, EmptySeq
  <2>2. <<>> \o Raw(1, End(brigade)) = Raw(1, End(brigade))
    BY <2>1, ConcatEmptySeq
  <2>3. Moved(brigade).bb = Raw(1, End(brigade))
    BY <1>1, <1>4 DEF Context
  <2> QED
    BY <1>2, <1>4, <2>1, <2>2, <2>3 DEF Sent
<1>6. /\ head' \in Header /\ head'.status = head.status
      /\ head'.length = head.length
  BY <1>1, <1>2 DEF Header
<1>7. /\ ctx' \in Context /\ ctx'.bb = <<>> /\ ctx'.lent = {}
      /\ ~ctx'.passthrough
  <2>1. <<>> \in Seq(Byte)
    BY EmptySeq
  <2> QED
    BY <1>1, <1>2, <1>4, <2>1 DEF Context
<1>8. RouteInv'
  <2>1. Ours' = Ours
    BY <1>1 DEF Ours, Unsignalled
  <2> QED
    BY <1>1, <1>2, <1>4, <1>7, <2>1 DEF RouteInv, Ours
<1>9. Ours /\ Limited => rsp.len <= conf.limit
  BY <1>2, <1>3, WithinLimit
<1>10. ended' = TRUE /\ installed' \in {"yes", "no"}
  BY <1>2, <1>4
<1>11. ~(Ours /\ Limited /\ rsp.len > conf.limit)
  BY <1>1, <1>9
<1> QED
  BY <1>5, <1>6, <1>7, <1>8, <1>10, <1>11, AfterPass

(* A brigade that is not the last is held back.                            *)
LEMMA HoldKeeps ==
    ASSUME IInv, NEW brigade, Given(brigade, FALSE), Hold(brigade)
    PROVE  IInv' /\ PromisedStep
<1> DEFINE e == End(brigade)
<1>1. /\ ~ended /\ ctx.lent = {} /\ head.status # "502"
      /\ e \in Nat /\ e <= rsp.len /\ rsp.len \in Nat /\ rsp.len <= MaxBytes
      /\ conf' = conf /\ rsp' = rsp /\ head \in Header /\ ctx \in Context
  BY BeforeStep
<1>2. /\ Buffering /\ ~TooLong(brigade) /\ ctx' = Moved(brigade)
      /\ installed' = installed /\ head' = head /\ answer' = answer
      /\ ended' = ended
  BY DEF Hold
<1>3. read' = e /\ eof' = (head'.status = "502")
  BY DEF Given
<1>4. /\ Moved(brigade) = [ctx EXCEPT !.bb = Raw(1, e)]
      /\ answer = <<>> /\ installed = "yes" /\ Ours /\ ~ctx.passthrough
      /\ ~head.sent
  BY <1>2, HeldBytes
<1>5. Limited => e <= conf.limit
  BY <1>2, <1>4, WithinLimit
<1> HIDE DEF e
<1>6. e <= MaxBytes
  BY <1>1, FilterAssumption
<1>7. /\ ctx' \in Context /\ ctx'.bb = Raw(1, e) /\ ctx'.lent = {}
      /\ ~ctx'.passthrough
  <2>1. Raw(1, e) \in Seq(Byte)
    BY <1>1, <1>6, RawBytes
  <2> QED
    BY <1>1, <1>2, <1>4, <2>1 DEF Context
<1>8. TypeOK'
  <2>1. answer' \in Seq(AnswerByte)
    BY <1>2, <1>4, EmptySeq
  <2>2. ended' \in BOOLEAN
    BY <1>2 DEF IInv, TypeOK
  <2>3. head' \in Header /\ installed' \in {"yes", "no"}
    BY <1>1, <1>2, <1>4
  <2> QED
    BY <1>7, <2>1, <2>2, <2>3, TypeAfter
<1>9. NotYetInv' /\ EndedInv'
  BY <1>1, <1>2, <1>3, <1>4, <1>7 DEF NotYetInv, EndedInv
<1>10. Ours' = Ours /\ Limited' = Limited /\ Unsignalled' = Unsignalled
  BY <1>1 DEF Ours, Limited, Unsignalled
<1>11. BytesInv'
  <2>1. Buffering'
    BY <1>1, <1>2, <1>7, <1>10 DEF Buffering
  <2>2. ctx'.bb = Raw(1, read)' /\ read' <= rsp'.len
    BY <1>1, <1>3, <1>7 DEF Raw
  <2> QED
    BY <1>2, <1>4, <2>1, <2>2 DEF BytesInv
<1>12. RouteInv'
  BY <1>2, <1>4, <1>7, <1>10 DEF RouteInv, Ours
<1>13. FitsInv'
  BY <1>1, <1>2, <1>7 DEF FitsInv
<1>14. LengthInv'
  BY <1>1, <1>2 DEF LengthInv, IInv
<1>15. LimitExact'
  <2>1. Len(ctx'.bb) = e
    BY <1>1, <1>7, RawUpTo
  <2> QED
    BY <1>1, <1>2, <1>5, <1>10, <2>1 DEF LimitExact
<1>16. PromisedStep
  BY <1>2 DEF PromisedStep
<1> QED
  BY <1>8, <1>9, <1>11, <1>12, <1>13, <1>14, <1>15, <1>16 DEF IInv

(* After a page, or a failure, in place of the body.                       *)
LEMMA AfterReplace ==
    ASSUME IInv, NEW brigade, NEW eos, Given(brigade, eos),
           installed' \in {"yes", "no"}, head' \in Header, ctx' \in Context,
           ctx'.bb = <<>>, ctx'.lent = {}, ctx'.passthrough = ctx.passthrough,
           answer = <<>>,
           answer' = <<>> \/ \E n \in 0..MaxPage : answer' = Page(n),
           ended' = TRUE, eof' = TRUE,
           head'.length = Unknown,
           RouteInv',
           Limited /\ rsp.len <= conf.limit => head'.status # "502",
           Ours /\ Limited /\ rsp.len > conf.limit
             => conf.onOversize = "error" /\ head'.status = "502"
    PROVE  IInv' /\ PromisedStep
<1>1. /\ ~ended /\ read \in Nat /\ End(brigade) \in Nat
      /\ rsp.len \in Nat /\ conf.limit \in Nat
      /\ End(brigade) <= rsp.len /\ rsp.len <= MaxBytes
      /\ conf' = conf /\ rsp' = rsp
  BY BeforeStep
<1>2. read' = End(brigade)
  BY DEF Given
<1>3. TypeOK'
  <2>1. \A n \in 0..MaxPage : n \in Nat
    BY FilterAssumption
  <2>2. answer' \in Seq(AnswerByte)
    BY <2>1, PageBytes, EmptySeq
  <2> QED
    BY <2>2, TypeAfter
<1>4. NotYetInv' /\ EndedInv'
  BY DEF NotYetInv, EndedInv
<1>5. BytesInv'
  BY <1>1, <1>2 DEF BytesInv
<1>6. Ours' = Ours /\ Limited' = Limited
  BY <1>1 DEF Ours, Limited, Unsignalled
<1>7. FitsInv'
  BY <1>1, <1>6 DEF FitsInv, IInv
<1>8. LengthInv'
  BY DEF LengthInv
<1>9. LimitExact'
  <2>1. Len(ctx'.bb) = 0
    BY EmptySeq
  <2>2. Limited' /\ rsp'.len <= conf'.limit
          => head'.status # "502" /\ ~ctx'.passthrough
    BY <1>7 DEF FitsInv
  <2>3. Ours' /\ Limited' /\ ~(rsp'.len <= conf'.limit)
          => conf'.onOversize = "error" /\ head'.status = "502"
    BY <1>1, <1>6
  <2> QED
    BY <1>1, <2>1, <2>2, <2>3 DEF LimitExact, Ours
<1>10. PromisedStep
  BY <1>1 DEF PromisedStep
<1> QED
  BY <1>3, <1>4, <1>5, <1>7, <1>8, <1>9, <1>10 DEF IInv

(* A body too long for the limit, refused.                                 *)
LEMMA RefuseKeeps ==
    ASSUME IInv, NEW brigade, NEW eos, Given(brigade, eos), Refuse(brigade)
    PROVE  IInv' /\ PromisedStep
<1>1. /\ ~ended /\ ctx.lent = {} /\ read <= rsp.len
      /\ conf' = conf /\ rsp' = rsp /\ head \in Header /\ ctx \in Context
  BY BeforeStep
<1>2. /\ Buffering /\ TooLong(brigade) /\ conf.onOversize = "error"
      /\ installed' = "no"
      /\ ctx' = [ctx EXCEPT !.bb = <<>>]
      /\ answer' = answer \o (IF rsp.bodiless THEN <<>> ELSE <<>>)
      /\ ended'= (ended \/ TRUE)
      /\ head' = IF head.sent THEN head
                 ELSE [[head EXCEPT !.status = "502", !.length = Unknown]
                         EXCEPT !.sent = TRUE]
  BY DEF Refuse, PassBrigade
<1>3. answer = <<>> /\ ~head.sent /\ ~ctx.passthrough
  BY <1>2, HeldBytes
<1>4. answer' = <<>>
  BY <1>2, <1>3, ConcatEmptySeq, EmptySeq
<1>5. /\ head' \in Header /\ head'.status = "502" /\ head'.length = Unknown
  BY <1>1, <1>2, <1>3, UnknownLength DEF Header
<1>6. /\ ctx' \in Context /\ ctx'.bb = <<>> /\ ctx'.lent = {}
      /\ ctx'.passthrough = ctx.passthrough
  <2>1. <<>> \in Seq(Byte)
    BY EmptySeq
  <2> QED
    BY <1>1, <1>2, <2>1 DEF Context
<1>7. RouteInv'
  BY <1>2, <1>3, <1>6 DEF RouteInv
<1>8. ~(Limited /\ rsp.len <= conf.limit)
  <2>1. TypeOK /\ brigade \in Brigades
    BY DEF IInv, Given
  <2> QED
    BY <1>1, <1>2, <2>1, TooLongExact
<1>9. ended' = TRUE /\ eof' = TRUE
  BY <1>2, <1>5 DEF Given
<1>10. installed' \in {"yes", "no"}
  BY <1>2
<1> QED
  BY <1>2, <1>3, <1>4, <1>5, <1>6, <1>7, <1>8, <1>9, <1>10, AfterReplace

(* A parse is tried on a body that fits.                                   *)
LEMMA ParsesFit ==
    ASSUME IInv, NEW brigade, Given(brigade, TRUE), Parses(brigade)
    PROVE  /\ answer = <<>> /\ ~head.sent /\ installed = "yes" /\ Ours
           /\ ~ctx.passthrough /\ ctx.lent = {} /\ ctx \in Context
           /\ head \in Header /\ head.status # "502"
           /\ ~(Ours /\ Limited /\ rsp.len > conf.limit)
<1>1. Buffering /\ ~TooLong(brigade)
  BY DEF Parses
<1>2. /\ ctx.lent = {} /\ ctx \in Context /\ head \in Header
      /\ rsp.len \in Nat /\ conf.limit \in Nat /\ head.status # "502"
  BY BeforeStep
<1>3. /\ answer = <<>> /\ ~head.sent /\ installed = "yes" /\ Ours
      /\ ~ctx.passthrough
  BY <1>1, HeldBytes
<1>4. End(brigade) = rsp.len
  BY DEF Given
<1>5. Ours /\ Limited => rsp.len <= conf.limit
  BY <1>1, <1>4, WithinLimit
<1> QED
  BY <1>2, <1>3, <1>5

(* The parsed page takes the place of the body.                            *)
LEMMA EndParsedKeeps ==
    ASSUME IInv, NEW brigade, Given(brigade, TRUE), EndParsed(brigade)
    PROVE  IInv' /\ PromisedStep
<1>1. PICK n \in 0..MaxPage :
        PassBrigade(Page(n), TRUE, [head EXCEPT !.length = Unknown])
  BY DEF EndParsed
<1>2. /\ answer' = answer \o (IF rsp.bodiless THEN <<>> ELSE Page(n))
      /\ ended' = (ended \/ TRUE)
      /\ head' = IF head.sent THEN head
                 ELSE [[head EXCEPT !.length = Unknown] EXCEPT !.sent = TRUE]
  BY <1>1 DEF PassBrigade
<1>3. ctx' = [ctx EXCEPT !.bb = <<>>] /\ installed' = installed /\ Parses(brigade)
  BY DEF EndParsed
<1>4. /\ answer = <<>> /\ ~head.sent /\ installed = "yes" /\ Ours
      /\ ~ctx.passthrough /\ ctx.lent = {} /\ ctx \in Context
      /\ head \in Header /\ head.status # "502"
      /\ ~(Ours /\ Limited /\ rsp.len > conf.limit)
  BY <1>3, ParsesFit
<1>5. answer' = <<>> \/ answer' = Page(n)
  <2>1. Page(n) \in Seq(AnswerByte)
    BY PageBytes, FilterAssumption
  <2>2. <<>> \o <<>> = <<>> /\ <<>> \o Page(n) = Page(n)
    BY <2>1, ConcatEmptySeq, EmptySeq
  <2> QED
    BY <1>2, <1>4, <2>2
<1>6. head' \in Header /\ head'.status # "502" /\ head'.length = Unknown
  BY <1>2, <1>4, UnknownLength DEF Header
<1>7. /\ ctx' \in Context /\ ctx'.bb = <<>> /\ ctx'.lent = {}
      /\ ctx'.passthrough = ctx.passthrough
  <2>1. <<>> \in Seq(Byte)
    BY EmptySeq
  <2> QED
    BY <1>3, <1>4, <2>1 DEF Context
<1>8. RouteInv'
  <2>1. conf.enable /\ conf' = conf
    BY <1>4 DEF Ours, Given
  <2> QED
    BY <1>3, <1>4, <1>7, <2>1 DEF RouteInv
<1>9. ended' = TRUE /\ eof' = TRUE
  BY <1>2 DEF Given
<1>10. installed' \in {"yes", "no"}
  BY <1>3, <1>4
<1> QED
  BY <1>4, <1>5, <1>6, <1>7, <1>8, <1>9, <1>10, AfterReplace

(* The library answers NULL, and the page fails.                           *)
LEMMA EndFailedKeeps ==
    ASSUME IInv, NEW brigade, Given(brigade, TRUE), EndFailed(brigade)
    PROVE  IInv' /\ PromisedStep
<1>1. /\ answer' = answer \o (IF rsp.bodiless THEN <<>> ELSE <<>>)
      /\ ended' = (ended \/ TRUE)
      /\ head' = IF head.sent THEN head
                 ELSE [[head EXCEPT !.status = "500", !.length = Unknown]
                         EXCEPT !.sent = TRUE]
  BY DEF EndFailed, PassBrigade
<1>2. ctx' = [ctx EXCEPT !.bb = <<>>] /\ installed' = installed /\ Parses(brigade)
  BY DEF EndFailed
<1>3. /\ answer = <<>> /\ ~head.sent /\ installed = "yes" /\ Ours
      /\ ~ctx.passthrough /\ ctx.lent = {} /\ ctx \in Context
      /\ head \in Header /\ head.status # "502"
      /\ ~(Ours /\ Limited /\ rsp.len > conf.limit)
  BY <1>2, ParsesFit
<1>4. answer' = <<>>
  BY <1>1, <1>3, ConcatEmptySeq, EmptySeq
<1>5. head' \in Header /\ head'.status # "502" /\ head'.length = Unknown
  BY <1>1, <1>3, UnknownLength DEF Header
<1>6. /\ ctx' \in Context /\ ctx'.bb = <<>> /\ ctx'.lent = {}
      /\ ctx'.passthrough = ctx.passthrough
  <2>1. <<>> \in Seq(Byte)
    BY EmptySeq
  <2> QED
    BY <1>2, <1>3, <2>1 DEF Context
<1>7. RouteInv'
  <2>1. conf.enable /\ conf' = conf
    BY <1>3 DEF Ours, Given
  <2> QED
    BY <1>2, <1>3, <1>6, <2>1 DEF RouteInv
<1>8. ended' = TRUE /\ eof' = TRUE
  BY <1>1 DEF Given
<1>9. installed' \in {"yes", "no"}
  BY <1>2, <1>3
<1> QED
  BY <1>3, <1>4, <1>5, <1>6, <1>7, <1>8, <1>9, AfterReplace

(* Every brigade, whatever the filter does of it.                          *)
LEMMA DeliverKeeps ==
    ASSUME IInv, Deliver
    PROVE  IInv' /\ PromisedStep
<1>1. PICK brigade \in Brigades, eos \in BOOLEAN :
         /\ eos => End(brigade) = rsp.len
         /\ mesi_response_filter(brigade, eos)
         /\ read' = End(brigade)
         /\ eof' = (eos \/ head'.status = "502")
  BY DEF Deliver
<1>2. Given(brigade, eos)
  BY <1>1 DEF Given, Deliver
<1>3. CASE PassOn(brigade, eos)
  BY <1>2, <1>3, PassOnKeeps
<1>4. CASE Skip(brigade, eos)
  BY <1>2, <1>4, SkipKeeps
<1>5. CASE Refuse(brigade)
  BY <1>2, <1>5, RefuseKeeps
<1>6. CASE GiveUp(brigade, eos)
  BY <1>2, <1>6, GiveUpKeeps
<1>7. CASE ~eos /\ Hold(brigade)
  <2>1. eos = FALSE
    BY <1>7
  <2> QED
    BY <1>2, <1>7, <2>1, HoldKeeps
<1>8. CASE eos /\ (EndRaw(brigade) \/ EndParsed(brigade) \/ EndFailed(brigade))
  <2>1. eos = TRUE
    BY <1>8
  <2>2. Given(brigade, TRUE)
    BY <1>2, <2>1
  <2> QED
    BY <1>8, <2>2, EndRawKeeps, EndParsedKeeps, EndFailedKeeps
<1> QED
  BY <1>1, <1>3, <1>4, <1>5, <1>6, <1>7, <1>8 DEF mesi_response_filter

(* The filter is inserted, or not, before anything is passed down.         *)
LEMMA HandlerKeeps ==
    ASSUME IInv, mesi_request_handler
    PROVE  IInv' /\ PromisedStep
<1>1. /\ installed = "not yet"
      /\ installed' = IF conf.enable THEN "yes" ELSE "no"
      /\ head' = [head EXCEPT !.surrogate = conf.enable]
      /\ conf' = conf /\ rsp' = rsp /\ ctx' = ctx /\ read' = read
      /\ eof' = eof /\ answer' = answer /\ ended' = ended
  BY DEF mesi_request_handler
<1>2. /\ read = 0 /\ ~ended /\ ~ctx.passthrough /\ ctx.bb = <<>>
      /\ answer = <<>> /\ ~head.sent /\ head \in Header
      /\ conf.enable \in BOOLEAN
  BY <1>1, FieldTypes DEF IInv, NotYetInv
<1>3. /\ head' \in Header /\ head'.sent = head.sent
      /\ head'.status = head.status /\ head'.length = head.length
  BY <1>1, <1>2 DEF Header
<1>4. TypeOK'
  <2>1. installed' \in {"not yet", "yes", "no"}
    BY <1>1
  <2> QED
    BY <1>1, <1>3, <2>1 DEF IInv, TypeOK, Header, Lengths
<1>5. NotYetInv'
  BY <1>1 DEF NotYetInv
<1>6. EndedInv'
  BY <1>1, <1>3 DEF IInv, EndedInv
<1>7. /\ Ours' = Ours /\ Limited' = Limited /\ Unsignalled' = Unsignalled
      /\ Sent(0)' = Sent(0)
  BY <1>1 DEF Ours, Limited, Unsignalled, Sent, Raw
<1>8. BytesInv'
  <2>1. Raw(1, 0) = <<>> /\ Sent(0) = <<>>
    BY RawNone DEF Sent
  <2>2. answer' = Sent(read)' /\ ctx'.bb = Raw(1, read)'
    BY <1>1, <1>2, <1>7, <2>1 DEF Sent, Raw
  <2> QED
    BY <1>1, <1>2, <1>3, <2>1, <2>2 DEF IInv, BytesInv
<1>9. RouteInv'
  <2>1. installed' = "yes" => conf.enable
    BY <1>1
  <2>2. installed' = "no" => ~Ours
    BY <1>1 DEF Ours
  <2> QED
    BY <1>1, <1>2, <1>7, <2>1, <2>2 DEF RouteInv
<1>10. FitsInv' /\ LengthInv'
  BY <1>1, <1>3, <1>7 DEF IInv, FitsInv, LengthInv
<1>11. LimitExact'
  BY <1>1, <1>3, <1>7 DEF IInv, LimitExact
<1>12. PromisedStep
  BY <1>1 DEF PromisedStep
<1> QED
  BY <1>4, <1>5, <1>6, <1>8, <1>9, <1>10, <1>11, <1>12 DEF IInv

(* The invariant holds before anything happens.                            *)
LEMMA InitInv ==
    ASSUME Init
    PROVE  IInv
<1>1. /\ conf \in Confs /\ rsp \in Responses
      /\ installed = "not yet"
      /\ head = [sent |-> FALSE, status |-> "ok", length |-> rsp.declared,
                 surrogate |-> FALSE]
      /\ ctx = [bb |-> <<>>, lent |-> {}, passthrough |-> FALSE]
      /\ read = 0 /\ eof = FALSE /\ answer = <<>> /\ ended = FALSE
  BY DEF Init, NoCtx
<1>2. TypeOK
  <2>1. rsp.declared \in Lengths
    BY <1>1 DEF Responses, Lengths
  <2>2. head \in Header
    BY <1>1, <2>1 DEF Header
  <2>3. ctx \in Context
    <3>1. <<>> \in Seq(Byte)
      BY EmptySeq
    <3> QED
      BY <1>1, <3>1 DEF Context
  <2>4. read \in 0..MaxBytes
    <3>1. read = 0
      BY <1>1
    <3> QED
      BY <3>1, FilterAssumption
  <2>5. answer \in Seq(AnswerByte)
    BY <1>1, EmptySeq
  <2> QED
    BY <1>1, <2>2, <2>3, <2>4, <2>5
       DEF TypeOK, Header, Lengths, Context, Byte, AnswerByte
<1>3. rsp.len \in Nat /\ conf.limit \in Nat
      /\ (~rsp.bodiless => rsp.declared \in {Unknown, rsp.len})
  BY <1>2, FieldTypes
<1>4. NotYetInv /\ EndedInv /\ RouteInv /\ FitsInv /\ LengthInv
  BY <1>1, <1>3 DEF NotYetInv, EndedInv, RouteInv, FitsInv, LengthInv
<1>5. BytesInv
  <2>1. Sent(0) = <<>>
    BY RawNone DEF Sent
  <2>2. /\ read = 0 /\ installed = "not yet" /\ ctx.bb = <<>>
        /\ answer = <<>>
    BY <1>1
  <2>3. ~Buffering
    BY <2>2 DEF Buffering
  <2>4. 0 <= rsp.len
    BY <1>3
  <2> QED
    BY <2>1, <2>2, <2>3, <2>4 DEF BytesInv
<1>6. LimitExact
  <2>1. Len(ctx.bb) = 0 /\ ~ended
    BY <1>1, EmptySeq
  <2>2. 0 <= conf.limit
    BY <1>3
  <2> QED
    BY <2>1, <2>2 DEF LimitExact
<1> QED
  BY <1>2, <1>4, <1>5, <1>6 DEF IInv

(* The invariant and the promise are kept by every step.                   *)
LEMMA NextKeeps ==
    ASSUME IInv, [Next]_vars
    PROVE  IInv' /\ PromisedStep /\ rsp' = rsp
<1>1. CASE mesi_request_handler
  BY <1>1, HandlerKeeps DEF mesi_request_handler
<1>2. CASE Deliver
  BY <1>2, DeliverKeeps DEF Deliver
<1>3. CASE UNCHANGED vars
  <2>1. TypeOK' /\ NotYetInv' /\ EndedInv'
    BY <1>3 DEF vars, IInv, TypeOK, NotYetInv, EndedInv
  <2>2. /\ Unsignalled' = Unsignalled /\ Limited' = Limited
        /\ Ours' = Ours /\ Buffering' = Buffering
    BY <1>3 DEF vars, Unsignalled, Limited, Ours, Buffering
  <2>3. BytesInv' /\ LengthInv' /\ LimitExact'
    BY <1>3, <2>2 DEF vars, IInv, BytesInv, LengthInv, LimitExact, Sent, Raw
  <2>4. RouteInv' /\ FitsInv'
    BY <1>3, <2>2 DEF vars, IInv, RouteInv, FitsInv
  <2>5. IInv'
    BY <2>1, <2>3, <2>4 DEF IInv
  <2> QED
    BY <1>3, <2>5 DEF vars, PromisedStep
<1> QED
  BY <1>1, <1>2, <1>3 DEF Next

----------------------------------------------------------------------------
(* While a page of ours comes in, every byte of it is either held back or  *)
(* sent, the limit has been applied, and a length is told only of the body *)
(* itself; see the conjuncts of IInv.                                      *)
THEOREM ApacheInvariant == Spec => []IInv
BY InitInv, NextKeeps, PTL DEF Spec

(* Every variable has its type: no buffer holds bytes that were never sent *)
(* down.                                                                   *)
THEOREM TypeCorrect == Spec => []TypeOK
<1>1. IInv => TypeOK
  BY DEF IInv
<1> QED
  BY <1>1, ApacheInvariant, PTL

(* mesi_response_filter takes Content-Length down before a page, and only  *)
(* then: a length the client has been told is that of the body it gets.    *)
THEOREM LengthHonestAlways == Spec => []LengthHonest
<1>1. IInv => LengthHonest
  <2> SUFFICES ASSUME IInv, ended, ~rsp.bodiless, head.length # Unknown
               PROVE  Len(answer) = head.length
    BY DEF LengthHonest
  <2>1. head.length = rsp.len /\ answer = Raw(1, rsp.len)
    BY DEF IInv, LengthInv
  <2>2. rsp.len \in Nat
    BY FieldTypes DEF IInv
  <2> QED
    BY <2>1, <2>2, RawUpTo
<1> QED
  BY <1>1, ApacheInvariant, PTL

(* MesiMaxBodySize is applied to exactly the bodies that exceed it, and    *)
(* bounds what is held, however the body is cut into brigades.             *)
THEOREM LimitExactAlways == Spec => []LimitExact
<1>1. IInv => LimitExact
  BY DEF IInv
<1> QED
  BY <1>1, ApacheInvariant, PTL

(* A step of the filter is a step of the promise, or none.                 *)
LEMMA StepPromised ==
    ASSUME PromisedStep, rsp' = rsp
    PROVE  [Promise!Next]_<<IF rsp.bodiless THEN <<>> ELSE Raw(1, rsp.len),
                            answer, ended>>
<1> DEFINE page == IF rsp.bodiless THEN <<>> ELSE Raw(1, rsp.len)
<1>1. page' = page /\ page = Sent(rsp.len)
  BY DEF Raw, Sent
<1>2. CASE UNCHANGED <<answer, ended>>
  BY <1>1, <1>2
<1>3. CASE /\ ~ended
           /\ IsPrefix(answer, answer') /\ IsPrefix(answer', Sent(rsp.len))
           /\ ended' => answer' = Sent(rsp.len)
  <2>1. Promise!Pass
    BY <1>3 DEF Promise!Pass, Promise!IsPrefix, IsPrefix, Sent
  <2> QED
    BY <1>1, <1>3, <2>1 DEF Promise!Next
<1>4. CASE /\ ~ended /\ answer = <<>> /\ ended'
           /\ answer' \in {Page(n) : n \in 0..MaxPage}
  <2>1. Promise!Replace
    BY <1>4 DEF Promise!Replace
  <2> QED
    BY <1>1, <1>4, <2>1 DEF Promise!Next
<1>5. CASE ~ended /\ answer = <<>> /\ answer' = <<>> /\ ended'
  <2>1. Promise!Fail
    BY <1>5 DEF Promise!Fail
  <2> QED
    BY <1>1, <1>5, <2>1 DEF Promise!Next
<1> QED
  BY <1>2, <1>3, <1>4, <1>5 DEF PromisedStep

(* The filter implements PageFilter: the client gets the body as it is,    *)
(* one parsed page, or nothing, and nothing after the end of the stream.   *)
THEOREM KeepsPromise == Spec => ImplementsPageFilter
<1>1. Init => Promise!Init
  BY DEF Init, Promise!Init
<1>2. IInv /\ [Next]_vars
        => [Promise!Next]_<<IF rsp.bodiless THEN <<>> ELSE Raw(1, rsp.len),
                            answer, ended>>
  BY NextKeeps, StepPromised
<1> QED
  BY <1>1, <1>2, ApacheInvariant, PTL DEF Spec, ImplementsPageFilter, Promise!Spec
=============================================================================
