----------------------------- MODULE PageProofs -----------------------------
(***************************************************************************)
(* Proofs about a page of a Go integration: first Render, how MESIParse    *)
(* calls itself for the includes of the page, then ResponseBuffer, how the *)
(* integration holds the page back and answers with it.                    *)
(*                                                                         *)
(* The theorems of Render hold for every MaxDepth and Timeout, every set   *)
(* of attributes and every nesting.  The invariants of the stack are       *)
(* stated of any sequence of frames, so that what entering and leaving a   *)
(* call do to them is shown once.                                          *)
(***************************************************************************)
EXTENDS Render, ResponseBuffer, SequenceTheorems, TLAPS

(* The end of a call's time budget.                                        *)
Ends(f) == f.start + f.timeout

(* What is left of MaxDepth, plus the includes already on the path, stays  *)
(* within what the page and the max-depth attributes allow.                *)
FrameInv(f, t) ==
    /\ f.depth + f.level <= f.cap
    /\ f.cap <= MaxDepth
    /\ f.start <= t

(* The budget of a call ends within that of each call around it, up to the *)
(* innermost choose or except branch.                                      *)
Nested(s) ==
    \A k \in 1..Len(s) : \A i \in 1..k :
        (\A j \in (i + 1)..k : s[j].via # "block") => Ends(s[k]) <= Ends(s[i])

(* The page's own call is at the bottom and never ends.                    *)
StackInv(s, t) ==
    /\ s \in Seq(Frame)
    /\ Len(s) >= 1 /\ s[1].via = "page"
    /\ \A i \in 1..Len(s) : FrameInv(s[i], t)
    /\ Nested(s)

(* The config derived for the include being processed, against that of the *)
(* call it is in.                                                          *)
IncludeInv ==
    inc # NoInclude =>
        /\ inc.depth + Top.level <= inc.cap /\ inc.cap <= Top.cap
        /\ inc.depth = 0 => Top.depth = 0
        /\ inc.timeout <= Top.timeout
        /\ inc.began <= now
        /\ inc.phase \in {"src", "alt"} =>
             /\ inc.depth > 0 /\ inc.timeout > 0
             /\ inc.deadline = inc.began + inc.timeout
             /\ inc.deadline <= Ends(Top)

RenderInv == TypeOK /\ StackInv(stack, now) /\ IncludeInv

----------------------------------------------------------------------------
(* A budget ends at some time.                                             *)
LEMMA EndsType ==
    ASSUME NEW f \in Frame
    PROVE  Ends(f) \in Nat
  BY DEF Ends, Frame

(* The innermost call is a frame.                                          *)
LEMMA TopFrame ==
    ASSUME NEW t, StackInv(stack, t)
    PROVE  Top \in Frame /\ Top = stack[Len(stack)] /\ FrameInv(Top, t)
  BY DEF StackInv, Top, Last

(* Leaving a call: the calls around it are what they were.                 *)
LEMMA FrontFacts ==
    ASSUME NEW S, NEW s \in Seq(S), Len(s) >= 1
    PROVE  /\ Front(s) \in Seq(S)
           /\ Len(Front(s)) = Len(s) - 1
           /\ \A i \in 1..(Len(s) - 1) : Front(s)[i] = s[i]
<1> DEFINE n == Len(s) - 1
<1>1. n \in Nat /\ \A i \in 1..n : s[i] \in S
  BY LenProperties, ElementOfSeq
<1> HIDE DEF n
<1>2. /\ SubSeq(s, 1, n) \in Seq(S)
      /\ Len(SubSeq(s, 1, n)) = IF 1 <= n THEN n - 1 + 1 ELSE 0
      /\ \A i \in 1..(n - 1 + 1) : SubSeq(s, 1, n)[i] = s[1 + i - 1]
  BY <1>1, SubSeqProperties
<1>3. /\ Len(SubSeq(s, 1, n)) = n
      /\ \A i \in 1..n : SubSeq(s, 1, n)[i] = s[i]
  BY <1>1, <1>2
<1> QED
  BY <1>2, <1>3 DEF Front, n

(* A call that returns leaves the calls around it as they were.            *)
LEMMA PopKeeps ==
    ASSUME NEW s, NEW t, StackInv(s, t), Len(s) > 1
    PROVE  StackInv(Front(s), t)
<1> DEFINE r == Front(s)
<1>1. s \in Seq(Frame) /\ Len(s) \in Nat
  BY LenProperties DEF StackInv
<1>2. /\ r \in Seq(Frame) /\ Len(r) = Len(s) - 1
      /\ \A i \in 1..Len(r) : r[i] = s[i]
  BY <1>1, FrontFacts
<1> HIDE DEF r
<1>3. \A i \in 1..Len(r) : FrameInv(r[i], t)
  BY <1>1, <1>2 DEF StackInv
<1>4. Nested(r)
  <2> SUFFICES ASSUME NEW k \in 1..Len(r), NEW i \in 1..k,
                      \A j \in (i + 1)..k : r[j].via # "block"
               PROVE  Ends(r[k]) <= Ends(r[i])
    BY DEF Nested
  <2>1. /\ k \in 1..Len(s) /\ r[k] = s[k] /\ r[i] = s[i]
        /\ \A j \in (i + 1)..k : s[j].via # "block"
    BY <1>1, <1>2
  <2> QED
    BY <2>1 DEF StackInv, Nested
<1> QED
  BY <1>1, <1>2, <1>3, <1>4 DEF StackInv, r

(* Entering a call: its frame obeys the bounds, and unless it is a branch  *)
(* its budget ends within that of the caller.                              *)
LEMMA PushKeeps ==
    ASSUME NEW s, NEW t, StackInv(s, t), NEW f \in Frame, FrameInv(f, t),
           f.via # "block" => Ends(f) <= Ends(s[Len(s)])
    PROVE  StackInv(Append(s, f), t)
<1> DEFINE r == Append(s, f)
           n == Len(s)
<1>1. s \in Seq(Frame) /\ n \in Nat /\ n >= 1
  BY LenProperties DEF StackInv
<1>2. /\ r \in Seq(Frame) /\ Len(r) = n + 1
      /\ \A i \in 1..n : r[i] = s[i]
      /\ r[n + 1] = f
  BY <1>1, AppendProperties
<1> HIDE DEF r
<1>3. r[1].via = "page"
  BY <1>1, <1>2 DEF StackInv
<1>4. \A i \in 1..Len(r) : FrameInv(r[i], t)
  BY <1>1, <1>2 DEF StackInv
<1>5. Nested(r)
  <2> SUFFICES ASSUME NEW k \in 1..Len(r), NEW i \in 1..k,
                      \A j \in (i + 1)..k : r[j].via # "block"
               PROVE  Ends(r[k]) <= Ends(r[i])
    BY DEF Nested
  <2> HIDE DEF n
  <2>1. CASE k <= n
    <3>1. /\ k \in 1..n /\ r[k] = s[k] /\ r[i] = s[i]
          /\ \A j \in (i + 1)..k : s[j].via # "block"
      BY <1>1, <1>2, <2>1
    <3> QED
      BY <3>1 DEF StackInv, Nested, n
  <2>2. CASE k = n + 1 /\ i = n + 1
    <3>1. Ends(f) \in Nat
      BY EndsType
    <3> QED
      BY <1>2, <2>2, <3>1
  <2>3. CASE k = n + 1 /\ i <= n
    <3>1. n + 1 \in (i + 1)..k
      BY <1>1, <2>3
    <3>2. f.via # "block"
      BY <1>2, <3>1
    <3>3. /\ n \in 1..n /\ i \in 1..n
          /\ \A j \in (i + 1)..n : s[j].via # "block"
      BY <1>1, <1>2, <2>3
    <3>4. Ends(s[n]) <= Ends(s[i])
      BY <3>3 DEF StackInv, Nested, n
    <3>5. Ends(f) \in Nat /\ Ends(s[n]) \in Nat /\ Ends(s[i]) \in Nat
      <4>1. s[n] \in Frame /\ s[i] \in Frame
        BY <1>1, <3>3 DEF n
      <4> QED
        BY <4>1, EndsType
    <3>6. r[k] = f /\ r[i] = s[i]
      BY <1>2, <2>3, <3>3
    <3> QED
      BY <3>2, <3>4, <3>5, <3>6 DEF n
  <2> QED
    BY <1>1, <1>2, <2>1, <2>2, <2>3
<1> QED
  BY <1>1, <1>2, <1>3, <1>4, <1>5 DEF StackInv, r

----------------------------------------------------------------------------
(* The config of an include: no attribute widens what the call has.        *)
LEMMA StartIncludeInv ==
    ASSUME RenderInv, NEW t \in TimeoutAttr, NEW d \in DepthAttr, NEW hasAlt \in BOOLEAN,
           StartInclude(t, d, hasAlt)
    PROVE  RenderInv'
<1> DEFINE depth == OverrideDepth(d)
           over == OverrideTimeout(t)
           timeout == WithElapsedTime(over, Elapsed)
           cap == IF d = NoAttr THEN Top.cap ELSE Smaller(Top.cap, Top.level + 1 + d)
<1>1. /\ StackInv(stack, now) /\ now \in Nat /\ Top \in Frame /\ FrameInv(Top, now)
      /\ UNCHANGED <<now, stack>>
  BY TopFrame DEF RenderInv, TypeOK, StartInclude
<1>2. inc' = [phase |-> IF depth = 0 \/ timeout = 0 THEN "failed" ELSE "src",
              depth |-> depth, timeout |-> timeout,
              began |-> now, deadline |-> now + timeout,
              hasAlt |-> hasAlt, cap |-> cap]
  BY DEF StartInclude
<1>3. /\ Top.depth \in Nat /\ Top.timeout \in Nat /\ Top.start \in Nat
      /\ Top.level \in Nat /\ Top.cap \in Nat
      /\ Top.depth + Top.level <= Top.cap /\ Top.start <= now
  BY <1>1 DEF Frame, FrameInv
<1>4. /\ depth \in Nat /\ cap \in Nat
      /\ depth + Top.level <= cap /\ cap <= Top.cap
      /\ depth = 0 => Top.depth = 0
  <2>1. CASE d = NoAttr
    BY <1>3, <2>1 DEF OverrideDepth
  <2>2. CASE d # NoAttr
    <3>1. d \in Nat
      BY <2>2, RenderAssumption
    <3> QED
      BY <1>3, <2>2, <3>1 DEF OverrideDepth, Smaller
  <2> QED
    BY <2>1, <2>2
<1>5. over \in Nat /\ over <= Top.timeout
  <2>1. CASE t = NoAttr
    BY <1>3, <2>1 DEF OverrideTimeout
  <2>2. CASE t # NoAttr
    <3>1. t \in Nat
      BY <2>2, RenderAssumption
    <3> QED
      BY <1>3, <2>2, <3>1 DEF OverrideTimeout, Smaller
  <2> QED
    BY <2>1, <2>2
<1> HIDE DEF over
<1>6. /\ timeout \in Nat /\ timeout <= Top.timeout
      /\ timeout # 0 => now + timeout <= Top.start + Top.timeout
  BY <1>1, <1>3, <1>5 DEF WithElapsedTime, Elapsed
<1> HIDE DEF depth, timeout, cap
<1>7. TypeOK'
  <2>1. inc' \in Include
    BY <1>1, <1>2, <1>4, <1>6 DEF Include
  <2> QED
    BY <1>1, <2>1 DEF RenderInv, TypeOK
<1>8. StackInv(stack, now)'
  BY <1>1
<1>9. IncludeInv'
  <2>1. Top' = Top
    BY <1>1 DEF Top
  <2>2. /\ inc'.depth = depth /\ inc'.timeout = timeout /\ inc'.began = now
        /\ inc'.deadline = now + timeout /\ inc'.cap = cap
        /\ inc'.phase \in {"src", "alt"} => depth # 0 /\ timeout # 0
    BY <1>2
  <2> QED
    BY <1>1, <1>4, <1>6, <2>1, <2>2 DEF IncludeInv, Ends
<1> QED
  BY <1>7, <1>8, <1>9 DEF RenderInv

(* A failed fetch: what is left for alt ends when src would have ended.    *)
LEMMA FetchFailsInv ==
    ASSUME RenderInv, SrcFails \/ AltFails
    PROVE  RenderInv'
<1>1. /\ StackInv(stack, now) /\ now \in Nat /\ UNCHANGED <<now, stack>>
      /\ inc.phase \in {"src", "alt"}
  BY DEF RenderInv, TypeOK, SrcFails, AltFails
<1>2. inc \in Include /\ inc # NoInclude
  BY <1>1 DEF RenderInv, TypeOK, NoInclude
<1>3. inc.timeout \in Nat /\ inc.began \in Nat /\ inc.deadline \in Nat /\ inc.began <= now
  BY <1>2 DEF RenderInv, IncludeInv, Include
<1>4. \/ inc' = [inc EXCEPT !.phase = "failed"]
      \/ /\ inc.timeout > now - inc.began
         /\ inc' = [inc EXCEPT !.phase = "alt",
                               !.deadline = now + (inc.timeout - (now - inc.began))]
  <2>1. CASE AltFails
    BY <2>1 DEF AltFails
  <2>2. CASE SrcFails
    <3> DEFINE left == WithElapsedTime(inc.timeout, now - inc.began)
    <3>1. left > 0 => /\ inc.timeout > now - inc.began
                      /\ left = inc.timeout - (now - inc.began)
      BY <1>1, <1>3 DEF WithElapsedTime
    <3>2. \/ inc' = [inc EXCEPT !.phase = "failed"]
          \/ left > 0 /\ inc' = [inc EXCEPT !.phase = "alt", !.deadline = now + left]
      BY <2>2 DEF SrcFails
    <3> HIDE DEF left
    <3> QED
      BY <3>1, <3>2
  <2> QED
    BY <2>1, <2>2
<1>5. /\ inc' \in Include
      /\ inc'.depth = inc.depth /\ inc'.timeout = inc.timeout
      /\ inc'.began = inc.began /\ inc'.cap = inc.cap
      /\ inc'.phase = "failed" \/ inc'.deadline = inc.began + inc.timeout
  <2>1. CASE inc' = [inc EXCEPT !.phase = "failed"]
    BY <1>2, <2>1 DEF Include
  <2>2. CASE /\ inc.timeout > now - inc.began
             /\ inc' = [inc EXCEPT !.phase = "alt",
                            !.deadline = now + (inc.timeout - (now - inc.began))]
    <3> DEFINE e == now + (inc.timeout - (now - inc.began))
    <3>1. e \in Nat /\ e = inc.began + inc.timeout
      BY <1>1, <1>3
    <3> HIDE DEF e
    <3>2. inc' = [inc EXCEPT !.phase = "alt", !.deadline = e]
      BY <2>2 DEF e
    <3> QED
      BY <1>2, <3>1, <3>2 DEF Include
  <2> QED
    BY <1>4, <2>1, <2>2
<1>6. TypeOK' /\ StackInv(stack, now)'
  BY <1>1, <1>5 DEF RenderInv, TypeOK
<1>7. IncludeInv'
  <2>1. Top' = Top
    BY <1>1 DEF Top
  <2>2. /\ inc.depth + Top.level <= inc.cap /\ inc.cap <= Top.cap
        /\ inc.depth = 0 => Top.depth = 0
        /\ inc.timeout <= Top.timeout /\ inc.began <= now
        /\ inc.depth > 0 /\ inc.timeout > 0
        /\ inc.deadline = inc.began + inc.timeout /\ inc.deadline <= Ends(Top)
    BY <1>1, <1>2 DEF RenderInv, IncludeInv
  <2> QED
    BY <1>1, <1>5, <2>1, <2>2 DEF IncludeInv
<1> QED
  BY <1>6, <1>7 DEF RenderInv

(* What is left of a lower budget ends before the higher one.              *)
LEMMA TimeLeft ==
    ASSUME NEW t \in Nat, NEW start \in Nat, NEW low \in Nat, NEW high \in Nat,
           start <= t, low <= high, low > t - start
    PROVE  /\ low - (t - start) \in Nat
           /\ t + (low - (t - start)) <= start + high
  OBVIOUS

(* Going down into the content of an include: one level and one level of   *)
(* depth more, and a budget that ends within the caller's.                 *)
LEMMA DescendInv ==
    ASSUME RenderInv, inc # NoInclude, NEW isEsiResponse \in BOOLEAN, Descend(isEsiResponse)
    PROVE  RenderInv'
<1>1. /\ StackInv(stack, now) /\ now \in Nat /\ Top \in Frame /\ FrameInv(Top, now)
      /\ now' = now /\ inc' = NoInclude /\ inc \in Include
      /\ Top = stack[Len(stack)]
  BY TopFrame DEF RenderInv, TypeOK, Descend
<1>2. /\ Top.depth \in Nat /\ Top.timeout \in Nat /\ Top.start \in Nat
      /\ Top.level \in Nat /\ Top.cap \in Nat /\ Top.cap <= MaxDepth
      /\ Top.depth + Top.level <= Top.cap /\ Top.start <= now
  BY <1>1 DEF Frame, FrameInv
<1>3. /\ inc.depth \in Nat /\ inc.timeout \in Nat /\ inc.cap \in Nat
      /\ inc.depth + Top.level <= inc.cap /\ inc.cap <= Top.cap
      /\ inc.depth = 0 => Top.depth = 0
      /\ inc.timeout <= Top.timeout
  BY <1>1 DEF Include, RenderInv, IncludeInv
<1> DEFINE f == [via |-> "include", depth |-> DecreaseMaxDepth(inc.depth),
                 timeout |-> WithElapsedTime(inc.timeout, Elapsed),
                 start |-> now, level |-> Top.level + 1, cap |-> inc.cap]
<1>4. stack' = stack \/ (CanGoDeeper /\ stack' = Append(stack, f))
  BY DEF Descend, Push
<1>5. CASE CanGoDeeper /\ stack' = Append(stack, f)
  <2>1. Top.depth >= 1 /\ Top.timeout > now - Top.start
    BY <1>5 DEF CanGoDeeper, Elapsed
  <2>2. /\ f.depth = inc.depth - 1 /\ f.depth \in Nat
        /\ f.timeout \in Nat /\ now + f.timeout <= Top.start + Top.timeout
    <3>1. DecreaseMaxDepth(inc.depth) = inc.depth - 1 /\ inc.depth - 1 \in Nat
      BY <1>3, <2>1 DEF DecreaseMaxDepth
    <3> DEFINE left == WithElapsedTime(inc.timeout, Elapsed)
    <3>2. left \in Nat /\ now + left <= Top.start + Top.timeout
      <4>1. left = IF inc.timeout > now - Top.start
                   THEN inc.timeout - (now - Top.start) ELSE 0
        BY DEF WithElapsedTime, Elapsed
      <4> HIDE DEF left
      <4>2. CASE inc.timeout > now - Top.start
        <5>1. left = inc.timeout - (now - Top.start)
          BY <4>1, <4>2
        <5>2. /\ inc.timeout - (now - Top.start) \in Nat
              /\ now + (inc.timeout - (now - Top.start)) <= Top.start + Top.timeout
          BY <1>1, <1>2, <1>3, <4>2, TimeLeft
        <5> QED
          BY <5>1, <5>2
      <4>3. CASE ~(inc.timeout > now - Top.start)
        BY <1>1, <1>2, <2>1, <4>1, <4>3
      <4> QED
        BY <4>2, <4>3
    <3>3. f.depth = DecreaseMaxDepth(inc.depth) /\ f.timeout = left
      OBVIOUS
    <3> HIDE DEF f, left
    <3> QED
      BY <3>1, <3>2, <3>3
  <2>3. f.via = "include" /\ f.start = now /\ f.level = Top.level + 1 /\ f.cap = inc.cap
    OBVIOUS
  <2>4. f \in Frame
    <3>1. DecreaseMaxDepth(inc.depth) \in Nat /\ WithElapsedTime(inc.timeout, Elapsed) \in Nat
      BY <2>2
    <3> QED
      BY <1>1, <1>2, <1>3, <3>1 DEF Frame
  <2> HIDE DEF f
  <2>5. FrameInv(f, now)
    <3>1. f.depth + f.level <= f.cap
      BY <1>2, <1>3, <2>2, <2>3
    <3>2. f.cap <= MaxDepth
      BY <1>2, <1>3, <2>3, RenderAssumption
    <3> QED
      BY <1>1, <2>3, <3>1, <3>2 DEF FrameInv
  <2>6. Ends(f) <= Ends(Top)
    BY <2>2, <2>3 DEF Ends
  <2>7. StackInv(Append(stack, f), now)
    BY <1>1, <2>4, <2>5, <2>6, PushKeeps
  <2> QED
    BY <1>1, <1>5, <2>7 DEF RenderInv, TypeOK, StackInv, IncludeInv
<1>6. CASE stack' = stack
  BY <1>1, <1>6 DEF RenderInv, TypeOK, IncludeInv
<1> QED
  BY <1>4, <1>5, <1>6

(* The blocks of a page, and the end of a call.                            *)
LEMMA BlockInv ==
    ASSUME RenderInv, ChooseBranch \/ Attempt \/ AttemptFails \/ Return
    PROVE  RenderInv'
<1>1. /\ StackInv(stack, now) /\ now \in Nat /\ Top \in Frame /\ FrameInv(Top, now)
      /\ now' = now /\ Top = stack[Len(stack)] /\ stack \in Seq(Frame)
      /\ Len(stack) \in Nat /\ Len(stack) >= 1 /\ stack[1].via = "page"
  BY TopFrame, LenProperties
     DEF RenderInv, TypeOK, StackInv, ChooseBranch, Attempt, AttemptFails, Return
<1>2. inc' = NoInclude
  BY DEF ChooseBranch, Attempt, AttemptFails, Return, Scanning
<1>3. Block \in Frame /\ FrameInv(Block, now) /\ Block.via = "block"
  <2>1. /\ Block \in Frame /\ Block.via = "block"
        /\ Block.start = now /\ Block.depth = Top.depth
        /\ Block.level = Top.level /\ Block.cap = Top.cap
    BY <1>1 DEF Block, Frame
  <2> QED
    BY <1>1, <2>1 DEF FrameInv
<1>4. StackInv(stack', now)
  <2>1. CASE ChooseBranch
    <3>1. stack' = Append(stack, Block)
      BY <2>1 DEF ChooseBranch, Push
    <3> QED
      BY <1>1, <1>3, <3>1, PushKeeps
  <2>2. CASE Attempt
    <3> DEFINE f == [Top EXCEPT !.via = "attempt"]
    <3>1. stack' = Append(stack, f)
      BY <2>2 DEF Attempt, Push
    <3>2. f \in Frame /\ FrameInv(f, now) /\ Ends(f) = Ends(Top)
      BY <1>1 DEF Frame, FrameInv, Ends
    <3>3. Ends(f) <= Ends(Top)
      BY <1>1, <3>2, EndsType
    <3> HIDE DEF f
    <3> QED
      BY <1>1, <3>1, <3>2, <3>3, PushKeeps
  <2>3. CASE AttemptFails
    <3>1. Len(stack) > 1
      BY <1>1, <2>3 DEF AttemptFails
    <3>2. StackInv(Front(stack), now)
      BY <1>1, <3>1, PopKeeps
    <3>3. StackInv(Append(Front(stack), Block), now)
      BY <1>3, <3>2, PushKeeps
    <3> QED
      BY <2>3, <3>2, <3>3 DEF AttemptFails
  <2>4. CASE Return
    BY <1>1, <2>4, PopKeeps DEF Return
  <2> QED
    BY <2>1, <2>2, <2>3, <2>4
<1> QED
  BY <1>1, <1>2, <1>4 DEF RenderInv, TypeOK, StackInv, IncludeInv

(* Time that passes only shortens what is left.                            *)
LEMMA TickInv ==
    ASSUME RenderInv, Tick
    PROVE  RenderInv'
<1>1. /\ now \in Nat /\ now' = now + 1 /\ UNCHANGED <<stack, inc>>
      /\ stack \in Seq(Frame)
  BY DEF RenderInv, TypeOK, Tick
<1>2. StackInv(stack, now')
  <2>1. \A i \in 1..Len(stack) : FrameInv(stack[i], now')
    <3> SUFFICES ASSUME NEW i \in 1..Len(stack)
                 PROVE  FrameInv(stack[i], now')
      OBVIOUS
    <3>1. stack[i] \in Frame /\ FrameInv(stack[i], now)
      BY <1>1 DEF RenderInv, StackInv
    <3> QED
      BY <1>1, <3>1 DEF FrameInv, Frame
  <2> QED
    BY <2>1 DEF RenderInv, StackInv
<1>3. IncludeInv'
  <2> SUFFICES ASSUME inc # NoInclude
               PROVE  inc.began <= now'
    BY <1>1 DEF RenderInv, IncludeInv, Top
  <2> QED
    BY <1>1 DEF RenderInv, TypeOK, IncludeInv, Include
<1> QED
  BY <1>1, <1>2, <1>3 DEF RenderInv, TypeOK

----------------------------------------------------------------------------
(* The path from the page to the include being fetched obeys the bounds of *)
(* every call on it, for every page: the inductive invariant.              *)
THEOREM RenderInvariant == Spec => []RenderInv
<1>1. Init => RenderInv
  <2> SUFFICES ASSUME Init
               PROVE  RenderInv
    OBVIOUS
  <2> DEFINE f == [via |-> "page", depth |-> MaxDepth, timeout |-> Timeout,
                   start |-> 0, level |-> 0, cap |-> MaxDepth]
  <2>1. stack = <<f>> /\ now = 0 /\ inc = NoInclude
    BY DEF Init
  <2>2. f \in Frame /\ f.via = "page" /\ FrameInv(f, 0)
    BY RenderAssumption DEF Frame, FrameInv
  <2> HIDE DEF f
  <2>3. stack \in Seq(Frame) /\ Len(stack) = 1 /\ stack[1] = f
    BY <2>1, <2>2
  <2>4. Ends(f) \in Nat
    BY <2>2, EndsType
  <2>5. Nested(stack)
    BY <2>3, <2>4 DEF Nested
  <2> QED
    BY <2>1, <2>2, <2>3, <2>5 DEF RenderInv, TypeOK, StackInv, IncludeInv
<1>2. RenderInv /\ [Next]_vars => RenderInv'
  <2> SUFFICES ASSUME RenderInv, [Next]_vars
               PROVE  RenderInv'
    OBVIOUS
  <2>1. ASSUME NEW t \in TimeoutAttr, NEW d \in DepthAttr, NEW hasAlt \in BOOLEAN,
               StartInclude(t, d, hasAlt)
        PROVE  RenderInv'
    BY <2>1, StartIncludeInv
  <2>2. CASE SrcFails \/ AltFails
    BY <2>2, FetchFailsInv
  <2>3. CASE IncludeFails
    <3>1. inc.phase = "failed" /\ Descend(FALSE)
      BY <2>3, Zenon DEF IncludeFails
    <3>2. inc # NoInclude
      BY <3>1 DEF NoInclude
    <3>3. FALSE \in BOOLEAN
      OBVIOUS
    <3> QED
      BY <3>1, <3>2, <3>3, DescendInv, Zenon
  <2>4. ASSUME NEW isEsiResponse \in BOOLEAN, FetchSucceeds(isEsiResponse)
        PROVE  RenderInv'
    <3>1. inc # NoInclude /\ Descend(isEsiResponse)
      BY <2>4 DEF FetchSucceeds, NoInclude
    <3> QED
      BY <3>1, DescendInv
  <2>5. CASE ChooseBranch \/ Attempt \/ AttemptFails \/ Return
    BY <2>5, BlockInv
  <2>6. CASE Tick
    BY <2>6, TickInv
  <2>7. CASE UNCHANGED vars
    BY <2>7 DEF vars, RenderInv, TypeOK, IncludeInv, Top
  <2> QED
    BY <2>1, <2>2, <2>3, <2>4, <2>5, <2>6, <2>7 DEF Next
<1> QED
  BY <1>1, <1>2, PTL DEF Spec

(* A stack of frames, a clock, and an include or none.                     *)
THEOREM TypeCorrect == Spec => []TypeOK
  BY RenderInvariant, PTL DEF RenderInv

(* No include is fetched beyond MaxDepth or beyond a max-depth attribute   *)
(* on its path, however blocks, attempts and includes are nested.          *)
THEOREM DepthHonouredAlways == Spec => []DepthHonoured
<1>1. RenderInv => DepthHonoured
  <2> SUFFICES ASSUME RenderInv, Fetching
               PROVE  Top.level < Top.cap /\ inc.cap <= MaxDepth
    BY DEF DepthHonoured
  <2>1. Top \in Frame /\ FrameInv(Top, now)
    BY TopFrame DEF RenderInv
  <2>2. inc \in Include /\ inc # NoInclude
    BY DEF RenderInv, TypeOK, Fetching, NoInclude
  <2>3. /\ inc.depth > 0 /\ inc.depth + Top.level <= inc.cap /\ inc.cap <= Top.cap
        /\ Top.cap <= MaxDepth
    BY <2>1, <2>2 DEF RenderInv, IncludeInv, Fetching, FrameInv
  <2>4. inc.depth \in Nat /\ inc.cap \in Nat /\ Top.level \in Nat /\ Top.cap \in Nat
    BY <2>1, <2>2 DEF Include, Frame
  <2> QED
    BY <2>3, <2>4, RenderAssumption
<1> QED
  BY <1>1, RenderInvariant, PTL

(* No fetch, that of an alt included, outlives the budget of a call around *)
(* it, up to the innermost choose or except branch.                        *)
THEOREM BudgetNestsAlways == Spec => []BudgetNests
<1>1. RenderInv => BudgetNests
  <2> SUFFICES ASSUME RenderInv, Fetching
               PROVE  /\ inc.began < inc.deadline
                      /\ \A i \in 1..Len(stack) :
                           (\A j \in (i + 1)..Len(stack) : stack[j].via # "block")
                           => inc.deadline <= stack[i].start + stack[i].timeout
    BY DEF BudgetNests
  <2>1. inc \in Include /\ inc # NoInclude
    BY DEF RenderInv, TypeOK, Fetching, NoInclude
  <2>2. /\ inc.timeout > 0 /\ inc.deadline = inc.began + inc.timeout
        /\ inc.deadline <= Ends(Top)
        /\ inc.timeout \in Nat /\ inc.began \in Nat /\ inc.deadline \in Nat
    BY <2>1 DEF RenderInv, IncludeInv, Fetching, Include
  <2>3. ASSUME NEW i \in 1..Len(stack),
               \A j \in (i + 1)..Len(stack) : stack[j].via # "block"
        PROVE  inc.deadline <= Ends(stack[i])
    <3>1. Top = stack[Len(stack)] /\ Top \in Frame /\ stack[i] \in Frame
      BY TopFrame DEF RenderInv, StackInv
    <3>2. Ends(Top) <= Ends(stack[i])
      <4>1. Len(stack) \in 1..Len(stack)
        BY LenProperties DEF RenderInv, StackInv
      <4> QED
        BY <2>3, <3>1, <4>1 DEF RenderInv, StackInv, Nested
    <3>3. Ends(Top) \in Nat /\ Ends(stack[i]) \in Nat
      BY <3>1, EndsType
    <3> QED
      BY <2>2, <3>2, <3>3
  <2> QED
    BY <2>2, <2>3 DEF Ends
<1> QED
  BY <1>1, RenderInvariant, PTL

----------------------------------------------------------------------------
(***************************************************************************)
(* ResponseBuffer, for bodies and limits of any length.  Every state of    *)
(* the wrapper and of the client is one of a few records, so that a call   *)
(* of the wrapper is shown to lead from one of them to another.            *)
(***************************************************************************)

(* The limit that SetBodyLimit was given, and whether it is to be applied. *)
MaxBody == IF config.head THEN 0 ELSE config.maxBody

Limited == MaxBody > 0 /\ Parses

(* A Content-Length that announces a body beyond the limit.                *)
Announced == header.length # NoLength /\ header.length > MaxBody

Passes == config.mode = "pass"

Allowed(code) == ~config.head /\ code \notin NoBodyStatus

(* The wrapper before it has looked at the headers, while it holds the     *)
(* body w back, and once the limit has been crossed.                       *)
Fresh(code) ==
    [statusCode |-> code, body |-> <<>>, maxBody |-> MaxBody,
     decided |-> FALSE, watch |-> FALSE, oversize |-> FALSE, committed |-> FALSE]

Holds(code, w) ==
    [statusCode |-> code, body |-> w, maxBody |-> MaxBody, decided |-> TRUE,
     watch |-> Limited, oversize |-> FALSE, committed |-> FALSE]

Gave(code) ==
    [statusCode |-> code, body |-> <<>>, maxBody |-> MaxBody, decided |-> TRUE,
     watch |-> Limited, oversize |-> TRUE, committed |-> Passes]

(* The client before anything, after a hijack, and with the body w so far. *)
Nothing == [status |-> 0, body |-> <<>>, length |-> NoLength, parsed |-> FALSE]

TakenOver == [status |-> SwitchingProtocols, body |-> <<>>,
              length |-> NoLength, parsed |-> FALSE]

Streamed(code, w) ==
    [status |-> code, body |-> w, length |-> header.length, parsed |-> FALSE]

Given(code, w) == IF Passes THEN Streamed(code, w) ELSE Nothing

State(r, c) == [rw |-> r, client |-> c]

(* Nothing has been written.                                               *)
Idle ==
    /\ rw = Fresh(200) /\ client = Nothing
    /\ written = <<>> /\ status = 200

Hijacked ==
    /\ rw = Fresh(200) /\ client = TakenOver
    /\ written = <<>> /\ status = 200
    /\ header = [html |-> FALSE, esi |-> FALSE, length |-> NoLength]

(* The whole body so far is held back, and is within the limit.            *)
Holding ==
    /\ rw = Holds(status, written) /\ client = Nothing
    /\ Limited => Len(written) <= MaxBody
    /\ ~BodyAllowed => written = <<>>

(* The body is longer than the limit, or will be, and the client has all   *)
(* of it so far, or nothing in error mode.                                 *)
Crossed ==
    /\ rw = Gave(status) /\ client = Given(status, written)
    /\ Limited /\ BodyAllowed
    /\ Len(written) > MaxBody \/ Announced

(* The body is as long as announced.                                       *)
Complete == BodyAllowed => header.length \in {NoLength, Len(written)}

StateInv ==
    /\ handler \in {"start", "hinted"} =>
         Idle /\ header = [html |-> FALSE, esi |-> FALSE, length |-> NoLength]
    /\ handler = "headers" => Idle
    /\ handler = "hijacked" => Hijacked
    /\ handler = "body" => Holding \/ Crossed
    /\ handler = "returned" =>
         Complete /\ (Idle \/ Hijacked \/ Holding \/ Crossed)

BufferInv ==
    /\ BufferTypeOK /\ Len(written) <= MaxBytes
    /\ StateInv /\ LimitedExactly /\ AnswerFaithful

----------------------------------------------------------------------------
(* What the types say of the fields that the invariant speaks of.          *)
LEMMA FieldTypes ==
    ASSUME BufferTypeOK
    PROVE  /\ MaxBody \in {0, Limit} /\ MaxBody \in Nat
           /\ config.mode \in {"pass", "error"} /\ config.head \in BOOLEAN
           /\ config.integration \in Integration
           /\ config.maxBody \in {0, Limit}
           /\ header.length \in Int /\ header.length \in NoLength..MaxBytes
           /\ written \in Seq(Bytes) /\ Len(written) \in Nat
           /\ status \in Status /\ MaxBytes \in Nat /\ NoLength \in Int
           /\ Limited \in BOOLEAN
<1>1. /\ config.mode \in {"pass", "error"} /\ config.head \in BOOLEAN
      /\ config.integration \in Integration
      /\ config.maxBody \in {0, Limit}
  BY DEF BufferTypeOK
<1>2. MaxBody \in {0, Limit} /\ MaxBody \in Nat
  BY <1>1, BufferAssumption DEF MaxBody
<1>3. header.length \in NoLength..MaxBytes
  BY DEF BufferTypeOK
<1>4. NoLength \in Int /\ MaxBytes \in Nat
  BY BufferAssumption DEF NoLength
<1>5. written \in Seq(Bytes) /\ Len(written) \in Nat /\ status \in Status
  BY LenProperties DEF BufferTypeOK
<1> QED
  BY <1>1, <1>2, <1>3, <1>4, <1>5 DEF Limited

(* The first status is sent with the headers of that moment.               *)
LEMMA FirstHeader ==
    ASSUME NEW code, NEW length
    PROVE  NetWriteHeader(Nothing, code, length) =
             [status |-> code, body |-> <<>>,
              length |-> IF code \in NoBodyStatus THEN NoLength ELSE length,
              parsed |-> FALSE]
BY DEF NetWriteHeader, Nothing

(* A body that is allowed goes out behind what is there.                   *)
LEMMA WriteMore ==
    ASSUME NEW code \in Status, Allowed(code),
           NEW w, NEW b
    PROVE  NetWrite(Streamed(code, w), b) = Streamed(code, w \o b)
<1> DEFINE c == Streamed(code, w)
<1>1. c.status # 0 /\ code # SwitchingProtocols
  BY DEF Streamed, Status, NoBodyStatus, SwitchingProtocols
<1>2. NetWriteHeader(c, 200, header.length) = c
  BY <1>1 DEF NetWriteHeader
<1>3. ~config.head /\ c.status \notin NoBodyStatus \union {SwitchingProtocols}
  BY <1>1 DEF Allowed, Streamed
<1>4. ASSUME NEW r, NEW q, r = Streamed(code, w),
             q = [r EXCEPT !.body = @ \o b]
      PROVE  q = Streamed(code, w \o b)
  BY <1>4 DEF Streamed
<1> HIDE DEF c
<1>5. NetWrite(c, b) = [c EXCEPT !.body = @ \o b]
  BY <1>2, <1>3 DEF NetWrite
<1> QED
  BY <1>4, <1>5 DEF c

(* The limit is crossed while w is held back.                              *)
LEMMA TriggerGives ==
    ASSUME NEW code \in Status, Allowed(code), NEW w \in Seq(Bytes)
    PROVE  trigger(State(Holds(code, w), Nothing))
             = State(Gave(code), Given(code, w))
<1> DEFINE s == State(Holds(code, w), Nothing)
           sent == NetWriteHeader(s.client, s.rw.statusCode, header.length)
<1>1. sent = Streamed(code, <<>>)
  <2>1. /\ s.client = Nothing /\ s.rw.statusCode = code
        /\ code \notin NoBodyStatus
    BY DEF State, Holds, Allowed
  <2> QED
    BY <2>1, FirstHeader DEF Streamed
<1>2. NetWrite(sent, w) = Streamed(code, w)
  <2>1. NetWrite(Streamed(code, <<>>), w) = Streamed(code, <<>> \o w)
    BY WriteMore
  <2>2. <<>> \o w = w
    BY ConcatEmptySeq
  <2> QED
    BY <1>1, <2>1, <2>2
<1>3. (IF s.rw.body = <<>> THEN sent ELSE NetWrite(sent, s.rw.body))
        = Streamed(code, w)
  BY <1>1, <1>2 DEF State, Holds
<1>4. [s.rw EXCEPT !.oversize = TRUE, !.committed = Passes, !.body = <<>>]
        = Gave(code)
  <2>1. ASSUME NEW r, NEW q, r = Holds(code, w),
               q = [r EXCEPT !.oversize = TRUE, !.committed = Passes,
                             !.body = <<>>]
        PROVE  q = Gave(code)
    BY <2>1 DEF Holds, Gave
  <2>2. s.rw = Holds(code, w)
    BY DEF State
  <2>3. [s.rw EXCEPT !.oversize = TRUE, !.committed = Passes, !.body = <<>>]
          = [Holds(code, w) EXCEPT !.oversize = TRUE, !.committed = Passes,
                                   !.body = <<>>]
    BY <2>2
  <2> QED
    BY <2>1, <2>3
<1>5. s.client = Nothing
  BY DEF State
<1> HIDE DEF s
<1> QED
  BY <1>3, <1>4, <1>5 DEF trigger, s, State, Given, Passes

(* The first look at the headers.                                          *)
LEMMA DecideGives ==
    ASSUME BufferTypeOK, NEW code \in Status
    PROVE  decide(State(Fresh(code), Nothing))
             = IF Limited /\ code \notin NoBodyStatus /\ Announced
               THEN State(Gave(code), Given(code, <<>>))
               ELSE State(Holds(code, <<>>), Nothing)
<1> DEFINE s == State(Fresh(code), Nothing)
           limited == s.rw.maxBody > 0 /\ header.html /\ appliesTo
           looked == [s EXCEPT !.rw.decided = TRUE, !.rw.watch = limited]
<1>1. /\ s.rw.maxBody = MaxBody /\ s.rw.statusCode = code /\ ~s.rw.decided
  BY DEF State, Fresh
<1>2. limited = Limited
  BY <1>1 DEF Limited, Parses
<1>3. looked = State(Holds(code, <<>>), Nothing)
  <2>1. ASSUME NEW r, NEW q, r = Fresh(code),
               q = [r EXCEPT !.decided = TRUE, !.watch = Limited]
        PROVE  q = Holds(code, <<>>)
    BY <2>1 DEF Fresh, Holds
  <2>2. ASSUME NEW lim, NEW r, NEW t, NEW q, t = State(r, Nothing),
               q = [t EXCEPT !.rw.decided = TRUE, !.rw.watch = lim]
        PROVE  q = State([r EXCEPT !.decided = TRUE, !.watch = lim], Nothing)
    BY <2>2 DEF State
  <2> HIDE DEF limited
  <2>3. looked = [s EXCEPT !.rw.decided = TRUE, !.rw.watch = Limited]
    BY <1>2
  <2>4. [s EXCEPT !.rw.decided = TRUE, !.rw.watch = Limited]
          = State([Fresh(code) EXCEPT !.decided = TRUE, !.watch = Limited],
                  Nothing)
    BY <2>2
  <2>5. [Fresh(code) EXCEPT !.decided = TRUE, !.watch = Limited]
          = Holds(code, <<>>)
    BY <2>1
  <2> QED
    BY <2>3, <2>4, <2>5
<1>4. looked.rw.statusCode = code
  <2> HIDE DEF looked
  <2> QED
    BY <1>3 DEF State, Holds
<1>5. decide(s) = IF Limited /\ code \notin NoBodyStatus /\ Announced
                  THEN trigger(looked) ELSE looked
  <2>1. decide(s) = IF s.rw.decided THEN s
                    ELSE IF limited /\ s.rw.statusCode \notin NoBodyStatus
                              /\ header.length # NoLength
                              /\ header.length > s.rw.maxBody
                         THEN trigger(looked) ELSE looked
    <3> HIDE DEF s
    <3> QED
      BY DEF decide
  <2> HIDE DEF s, limited, looked
  <2> QED
    BY <1>1, <1>2, <2>1 DEF Announced
<1>6. Limited /\ code \notin NoBodyStatus => Allowed(code)
  BY FieldTypes DEF Limited, MaxBody, Allowed
<1>7. <<>> \in Seq(Bytes)
  BY EmptySeq
<1> HIDE DEF s, looked
<1> QED
  BY <1>3, <1>5, <1>6, <1>7, TriggerGives DEF s

(* A second look changes nothing.                                          *)
LEMMA DecidedOnce ==
    ASSUME NEW code, NEW w, NEW c
    PROVE  /\ decide(State(Holds(code, w), c)) = State(Holds(code, w), c)
           /\ decide(State(Gave(code), c)) = State(Gave(code), c)
BY DEF decide, State, Holds, Gave

(* A chunk while the body is held back.                                    *)
LEMMA BufferedHeld ==
    ASSUME NEW code \in Status, Allowed(code),
           NEW w \in Seq(Bytes), NEW b \in Seq(Bytes)
    PROVE  Buffered(State(Holds(code, w), Nothing), b)
             = IF Limited /\ Len(w) + Len(b) > MaxBody
               THEN State(Gave(code), Given(code, w \o b))
               ELSE State(Holds(code, w \o b), Nothing)
<1> DEFINE s == State(Holds(code, w), Nothing)
           over == trigger(s)
<1>1. /\ ~s.rw.committed /\ ~s.rw.oversize
      /\ s.rw.watch = Limited /\ s.rw.body = w /\ s.rw.maxBody = MaxBody
  BY DEF State, Holds
<1>2. [s EXCEPT !.rw.body = @ \o b] = State(Holds(code, w \o b), Nothing)
  <2>1. ASSUME NEW r, NEW q, r = Holds(code, w), q = [r EXCEPT !.body = @ \o b]
        PROVE  q = Holds(code, w \o b)
    BY <2>1 DEF Holds
  <2>2. ASSUME NEW r, NEW t, NEW q, t = State(r, Nothing),
               q = [t EXCEPT !.rw.body = @ \o b]
        PROVE  q = State([r EXCEPT !.body = @ \o b], Nothing)
    BY <2>2 DEF State
  <2> QED
    BY <2>1, <2>2
<1>3. over = State(Gave(code), Given(code, w))
  BY TriggerGives
<1>4. CASE Passes
  <2>1. over.rw.committed /\ over.client = Streamed(code, w)
    BY <1>3, <1>4 DEF State, Gave, Given
  <2>2. NetWrite(over.client, b) = Streamed(code, w \o b)
    BY <2>1, WriteMore
  <2>3. [over EXCEPT !.client = NetWrite(@, b)]
          = State(Gave(code), Given(code, w \o b))
    BY <1>3, <1>4, <2>2 DEF State, Given
  <2> HIDE DEF s, over
  <2>4. Buffered(s, b) = IF Limited /\ Len(w) + Len(b) > MaxBody
                         THEN [over EXCEPT !.client = NetWrite(@, b)]
                         ELSE [s EXCEPT !.rw.body = @ \o b]
    BY <1>1, <2>1 DEF Buffered, over
  <2> QED
    BY <1>2, <2>3, <2>4 DEF s
<1>5. CASE ~Passes
  <2>1. ~over.rw.committed
    BY <1>3, <1>5 DEF State, Gave
  <2>2. over = State(Gave(code), Given(code, w \o b))
    BY <1>3, <1>5 DEF Given
  <2> HIDE DEF s, over
  <2>3. Buffered(s, b) = IF Limited /\ Len(w) + Len(b) > MaxBody
                         THEN over ELSE [s EXCEPT !.rw.body = @ \o b]
    BY <1>1, <2>1 DEF Buffered, over
  <2> QED
    BY <1>2, <2>2, <2>3 DEF s
<1> QED
  BY <1>4, <1>5

(* A chunk after the limit has been crossed.                               *)
LEMMA BufferedGiven ==
    ASSUME NEW code \in Status, Allowed(code), NEW w, NEW b
    PROVE  Buffered(State(Gave(code), Given(code, w)), b)
             = State(Gave(code), Given(code, w \o b))
<1> DEFINE s == State(Gave(code), Given(code, w))
<1>1. /\ s.rw.committed = Passes /\ s.rw.oversize
      /\ s.client = Given(code, w)
  BY DEF State, Gave
<1>2. CASE Passes
  <2>1. NetWrite(s.client, b) = Streamed(code, w \o b)
    BY <1>1, <1>2, WriteMore DEF Given
  <2>2. [s EXCEPT !.client = NetWrite(@, b)]
          = State(Gave(code), Given(code, w \o b))
    BY <1>2, <2>1 DEF State, Given
  <2> HIDE DEF s
  <2> QED
    BY <1>1, <1>2, <2>2 DEF Buffered, s
<1>3. CASE ~Passes
  <2>1. s = State(Gave(code), Given(code, w \o b))
    BY <1>3 DEF Given
  <2> HIDE DEF s
  <2> QED
    BY <1>1, <1>3, <2>1 DEF Buffered, s
<1> QED
  BY <1>2, <1>3

----------------------------------------------------------------------------
Wrappers == [statusCode : Status, body : Seq(Bytes), maxBody : {0, Limit},
             decided : BOOLEAN, watch : BOOLEAN, oversize : BOOLEAN,
             committed : BOOLEAN]

Content == Bytes \union {Fragment}

Clients == [status : Status \union {0, SwitchingProtocols, BadGateway},
            body : Seq(Content),
            length : NoLength..(MaxBytes + 1), parsed : BOOLEAN]

(* What the wrapped handler writes is content the client may get.          *)
LEMMA BodyIsContent ==
    ASSUME NEW w \in Seq(Bytes)
    PROVE  w \in Seq(Content) /\ <<>> \in Seq(Content)
<1>1. w \in [1..Len(w) -> Bytes] /\ Len(w) \in Nat
  BY LenProperties
<1>2. w \in [1..Len(w) -> Content]
  BY <1>1 DEF Content
<1>3. w \in UNION {[1..n -> Content] : n \in Nat}
  BY <1>1, <1>2
<1> QED
  BY <1>3, SeqDef, EmptySeq

(* The states that the invariant names have their types.                   *)
LEMMA StateTypes ==
    ASSUME BufferTypeOK, NEW code \in Status, NEW w \in Seq(Bytes)
    PROVE  /\ Fresh(code) \in Wrappers /\ Holds(code, w) \in Wrappers
           /\ Gave(code) \in Wrappers
           /\ Nothing \in Clients /\ TakenOver \in Clients
           /\ Given(code, w) \in Clients
<1>1. /\ MaxBody \in {0, Limit} /\ Limited \in BOOLEAN /\ Passes \in BOOLEAN
      /\ <<>> \in Seq(Bytes)
  BY FieldTypes, EmptySeq DEF Passes
<1>2. /\ Fresh(code) \in Wrappers /\ Holds(code, w) \in Wrappers
      /\ Gave(code) \in Wrappers
  BY <1>1 DEF Fresh, Holds, Gave, Wrappers
<1>3. /\ w \in Seq(Content) /\ <<>> \in Seq(Content)
  BY BodyIsContent
<1>4. /\ header.length \in NoLength..(MaxBytes + 1)
      /\ NoLength \in NoLength..(MaxBytes + 1)
  BY FieldTypes
<1>5. /\ Nothing \in Clients /\ TakenOver \in Clients
      /\ Streamed(code, w) \in Clients
  BY <1>3, <1>4 DEF Nothing, TakenOver, Streamed, Clients
<1> QED
  BY <1>2, <1>5 DEF Given

(* What the configuration and the headers decide stays decided.            *)
LEMMA SamePage ==
    ASSUME UNCHANGED <<config, header>>
    PROVE  /\ MaxBody' = MaxBody /\ Limited' = Limited /\ Passes' = Passes
           /\ Announced' = Announced /\ Parses' = Parses
<1>1. MaxBody' = MaxBody /\ Parses' = Parses
  BY DEF MaxBody, Parses, appliesTo
<1> QED
  BY <1>1 DEF Limited, Passes, Announced

(* What is left to show of a step that keeps the handler going.            *)
LEMMA Going ==
    ASSUME BufferInv, config' = config,
           handler' \in {"start", "hinted", "headers", "body", "returned",
                         "failed", "hijacked"},
           header' \in [html : BOOLEAN, esi : BOOLEAN,
                        length : NoLength..MaxBytes],
           rw' \in Wrappers, client' \in Clients, status' \in Status,
           written' \in Seq(Bytes), Len(written') <= MaxBytes,
           StateInv'
    PROVE  BufferInv'
<1>1. BufferTypeOK'
  BY DEF BufferInv, BufferTypeOK, Wrappers, Clients, Content, Bytes, NoLength
<1>2. LimitedExactly' /\ AnswerFaithful'
  BY DEF LimitedExactly, AnswerFaithful
<1> QED
  BY <1>1, <1>2 DEF BufferInv

(* After a Write or WriteHeader the body is held back or given up.         *)
LEMMA BodyStep ==
    ASSUME BufferInv, UNCHANGED <<config, header>>, handler' = "body",
           status' \in Status, written' \in Seq(Bytes),
           Len(written') <= MaxBytes,
           \/ /\ rw' = Holds(status', written') /\ client' = Nothing
              /\ Limited => Len(written') <= MaxBody
              /\ ~Allowed(status') => written' = <<>>
           \/ /\ rw' = Gave(status') /\ client' = Given(status', written')
              /\ Limited /\ Allowed(status')
              /\ Len(written') > MaxBody \/ Announced
    PROVE  BufferInv'
<1>1. BufferTypeOK /\ header \in [html : BOOLEAN, esi : BOOLEAN,
                            length : NoLength..MaxBytes]
  BY DEF BufferInv, BufferTypeOK
<1>2. rw' \in Wrappers /\ client' \in Clients
  <2>1. /\ Holds(status', written') \in Wrappers
        /\ Gave(status') \in Wrappers
        /\ Nothing \in Clients /\ Given(status', written') \in Clients
    BY <1>1, StateTypes
  <2> QED
    BY <2>1
<1>3. /\ MaxBody' = MaxBody /\ Limited' = Limited /\ Passes' = Passes
      /\ Announced' = Announced
  BY SamePage
<1>4. Allowed(status') = BodyAllowed'
  BY DEF Allowed, BodyAllowed
<1>5. Holding' \/ Crossed'
  BY <1>3, <1>4
     DEF Holding, Crossed, Holds, Gave, Given, Streamed, Nothing
<1>6. StateInv'
  BY <1>5 DEF StateInv
<1> QED
  BY <1>1, <1>2, <1>6, Going

(* WriteHeader of the final status.                                        *)
LEMMA WriteHeaderKeeps ==
    ASSUME BufferInv, NEW code \in Status, WriteHeader(code)
    PROVE  BufferInv'
<1>1. /\ handler = "headers" /\ status' = code /\ handler' = "body"
      /\ config' = config /\ header' = header /\ written' = written
      /\ Becomes(decide([Wrapper EXCEPT !.rw.statusCode = code]))
  BY DEF WriteHeader
<1>2. rw = Fresh(200) /\ client = Nothing /\ written = <<>>
  BY <1>1 DEF BufferInv, StateInv, Idle
<1>3. [Wrapper EXCEPT !.rw.statusCode = code] = State(Fresh(code), Nothing)
  <2>1. ASSUME NEW r, NEW q, r = Fresh(200), q = [r EXCEPT !.statusCode = code]
        PROVE  q = Fresh(code)
    BY <2>1 DEF Fresh
  <2>2. ASSUME NEW r, NEW t, NEW q, t = State(r, Nothing),
               q = [t EXCEPT !.rw.statusCode = code]
        PROVE  q = State([r EXCEPT !.statusCode = code], Nothing)
    BY <2>2 DEF State
  <2>3. Wrapper = State(Fresh(200), Nothing)
    BY <1>2 DEF Wrapper, State
  <2>4. [Fresh(200) EXCEPT !.statusCode = code] = Fresh(code)
    <3> DEFINE r == Fresh(200)
               q == [r EXCEPT !.statusCode = code]
    <3>1. r = Fresh(200) /\ q = [r EXCEPT !.statusCode = code]
      OBVIOUS
    <3> HIDE DEF r, q
    <3>2. q = Fresh(code)
      BY <2>1, <3>1
    <3> QED
      BY <3>2 DEF q, r
  <2>5. [Wrapper EXCEPT !.rw.statusCode = code]
          = State([Fresh(200) EXCEPT !.statusCode = code], Nothing)
    BY <2>2, <2>3
  <2> QED
    BY <2>4, <2>5
<1>4. decide(State(Fresh(code), Nothing))
        = IF Limited /\ code \notin NoBodyStatus /\ Announced
          THEN State(Gave(code), Given(code, <<>>))
          ELSE State(Holds(code, <<>>), Nothing)
  BY DecideGives DEF BufferInv
<1>5. Becomes(IF Limited /\ code \notin NoBodyStatus /\ Announced
              THEN State(Gave(code), Given(code, <<>>))
              ELSE State(Holds(code, <<>>), Nothing))
  BY <1>1, <1>3, <1>4
<1>6. /\ <<>> \in Seq(Bytes) /\ Len(<<>>) = 0
      /\ MaxBytes \in Nat /\ MaxBody \in Nat /\ written' = <<>>
  BY <1>1, <1>2, EmptySeq, FieldTypes DEF BufferInv
<1>7. CASE Limited /\ code \notin NoBodyStatus /\ Announced
  <2>1. rw' = Gave(code) /\ client' = Given(code, <<>>)
    BY <1>5, <1>7 DEF Becomes, State
  <2>2. Allowed(code)
    BY <1>7 DEF Allowed, Limited, MaxBody
  <2> QED
    BY <1>1, <1>6, <1>7, <2>1, <2>2, BodyStep
<1>8. CASE ~(Limited /\ code \notin NoBodyStatus /\ Announced)
  <2>1. rw' = Holds(code, <<>>) /\ client' = Nothing
    BY <1>5, <1>8 DEF Becomes, State
  <2> QED
    BY <1>1, <1>6, <2>1, BodyStep
<1> QED
  BY <1>7, <1>8

(* A chunk continues what has been written.                                *)
LEMMA ChunkAdds ==
    ASSUME NEW w \in Seq(Bytes), NEW n \in Nat, Len(w) + n <= MaxBytes
    PROVE  LET chunk == [i \in 1..n |-> Len(w) + i]
           IN /\ chunk \in Seq(Bytes) /\ Len(chunk) = n
              /\ w \o chunk \in Seq(Bytes) /\ Len(w \o chunk) = Len(w) + n
<1> DEFINE chunk == [i \in 1..n |-> Len(w) + i]
<1>1. Len(w) \in Nat
  BY LenProperties
<1>2. chunk \in [1..n -> Bytes]
  BY <1>1, BufferAssumption DEF Bytes
<1>3. chunk \in Seq(Bytes) /\ Len(chunk) = n
  <2> HIDE DEF chunk
  <2>1. chunk \in UNION {[1..m -> Bytes] : m \in Nat}
    BY <1>2
  <2>2. chunk \in Seq(Bytes)
    BY <2>1, SeqDef
  <2> QED
    BY <1>2, <2>2, LenProperties
<1> HIDE DEF chunk
<1>4. w \o chunk \in Seq(Bytes) /\ Len(w \o chunk) = Len(w) + n
  BY <1>3, ConcatProperties
<1> QED
  BY <1>3, <1>4 DEF chunk

(* Write, before or after the limit is crossed.                            *)
LEMMA WriteKeeps ==
    ASSUME BufferInv, NEW n \in 1..MaxBytes, Write(n)
    PROVE  BufferInv'
<1> DEFINE chunk == [i \in 1..n |-> Len(written) + i]
<1>1. /\ handler \in {"headers", "body"} /\ BodyAllowed
      /\ Len(written) + n <= IF header.length = NoLength THEN MaxBytes
                             ELSE header.length
      /\ written' = written \o chunk
      /\ Becomes(Buffered(decide(Wrapper), chunk))
      /\ handler' = "body"
      /\ config' = config /\ header' = header /\ status' = status
  BY DEF Write
<1>2. /\ written \in Seq(Bytes) /\ Len(written) \in Nat /\ status \in Status
      /\ MaxBytes \in Nat /\ MaxBody \in Nat /\ BufferTypeOK
      /\ header.length \in Int /\ header.length <= MaxBytes
  BY FieldTypes DEF BufferInv
<1>3. n \in Nat /\ Len(written) + n <= MaxBytes /\ Allowed(status)
  BY <1>1, <1>2 DEF Allowed, BodyAllowed
<1>4. /\ chunk \in Seq(Bytes) /\ Len(chunk) = n
      /\ written \o chunk \in Seq(Bytes)
      /\ Len(written \o chunk) = Len(written) + n
  BY <1>2, <1>3, ChunkAdds
<1> HIDE DEF chunk
<1>5. CASE handler = "headers"
  <2>1. Idle
    BY <1>5 DEF BufferInv, StateInv
  <2>2. Wrapper = State(Fresh(status), Nothing) /\ written = <<>>
    BY <2>1 DEF Idle, Wrapper, State
  <2>3. <<>> \o chunk = chunk /\ Len(<<>>) = 0 /\ <<>> \in Seq(Bytes)
    BY <1>4, ConcatEmptySeq, EmptySeq
  <2>4. decide(Wrapper)
          = IF Limited /\ status \notin NoBodyStatus /\ Announced
            THEN State(Gave(status), Given(status, <<>>))
            ELSE State(Holds(status, <<>>), Nothing)
    BY <1>2, <2>2, DecideGives
  <2>5. CASE Limited /\ status \notin NoBodyStatus /\ Announced
    <3>1. Buffered(decide(Wrapper), chunk)
            = State(Gave(status), Given(status, <<>> \o chunk))
      BY <1>2, <1>3, <2>4, <2>5, BufferedGiven
    <3>2. rw' = Gave(status') /\ client' = Given(status', written')
      BY <1>1, <2>2, <2>3, <3>1 DEF Becomes, State
    <3> QED
      BY <1>1, <1>2, <1>3, <1>4, <2>5, <3>2, BodyStep
  <2>6. CASE ~(Limited /\ status \notin NoBodyStatus /\ Announced)
    <3>1. Buffered(decide(Wrapper), chunk)
            = IF Limited /\ Len(<<>>) + Len(chunk) > MaxBody
              THEN State(Gave(status), Given(status, <<>> \o chunk))
              ELSE State(Holds(status, <<>> \o chunk), Nothing)
      BY <1>2, <1>3, <1>4, <2>3, <2>4, <2>6, BufferedHeld
    <3>2. IF Limited /\ Len(chunk) > MaxBody
          THEN rw' = Gave(status') /\ client' = Given(status', written')
          ELSE rw' = Holds(status', written') /\ client' = Nothing
      BY <1>1, <1>2, <1>4, <2>2, <2>3, <3>1 DEF Becomes, State
    <3>3. Len(written') = Len(chunk)
      BY <1>1, <2>2, <2>3
    <3> QED
      BY <1>1, <1>2, <1>3, <1>4, <3>2, <3>3, BodyStep
  <2> QED
    BY <2>5, <2>6
<1>6. CASE handler = "body" /\ Holding
  <2>1. Wrapper = State(Holds(status, written), Nothing)
    BY <1>6 DEF Holding, Wrapper, State
  <2>2. decide(Wrapper) = Wrapper
    BY <2>1, DecidedOnce
  <2>3. Buffered(decide(Wrapper), chunk)
          = IF Limited /\ Len(written) + Len(chunk) > MaxBody
            THEN State(Gave(status), Given(status, written \o chunk))
            ELSE State(Holds(status, written \o chunk), Nothing)
    BY <1>2, <1>3, <1>4, <2>1, <2>2, BufferedHeld
  <2>4. IF Limited /\ Len(written') > MaxBody
        THEN rw' = Gave(status') /\ client' = Given(status', written')
        ELSE rw' = Holds(status', written') /\ client' = Nothing
    BY <1>1, <1>4, <2>3 DEF Becomes, State
  <2> QED
    BY <1>1, <1>2, <1>3, <1>4, <2>4, BodyStep
<1>7. CASE handler = "body" /\ Crossed
  <2>1. Wrapper = State(Gave(status), Given(status, written))
    BY <1>7 DEF Crossed, Wrapper, State
  <2>2. decide(Wrapper) = Wrapper
    BY <2>1, DecidedOnce
  <2>3. Buffered(decide(Wrapper), chunk)
          = State(Gave(status), Given(status, written \o chunk))
    BY <1>2, <1>3, <2>1, <2>2, BufferedGiven
  <2>4. rw' = Gave(status') /\ client' = Given(status', written')
    BY <1>1, <2>3 DEF Becomes, State
  <2>5. Limited /\ (Len(written') > MaxBody \/ Announced)
    BY <1>1, <1>2, <1>3, <1>4, <1>7 DEF Crossed
  <2> QED
    BY <1>1, <1>2, <1>3, <1>4, <2>4, <2>5, BodyStep
<1> QED
  BY <1>1, <1>5, <1>6, <1>7 DEF BufferInv, StateInv

(* A step that changes nothing keeps the invariant.                        *)
LEMMA BufferStutterKeeps ==
    ASSUME BufferInv, UNCHANGED bufferVars
    PROVE  BufferInv'
<1>1. /\ config' = config /\ handler' = handler /\ header' = header
      /\ rw' = rw /\ client' = client /\ status' = status /\ written' = written
  BY DEF bufferVars
<1>2. /\ MaxBody' = MaxBody /\ Limited' = Limited /\ Passes' = Passes
      /\ Announced' = Announced /\ Parses' = Parses
  BY <1>1, SamePage
<1>3. BodyAllowed' = BodyAllowed
  BY <1>1 DEF BodyAllowed
<1>4. BufferTypeOK' /\ Len(written') <= MaxBytes
  BY <1>1 DEF BufferInv, BufferTypeOK, Bytes, NoLength
<1>5. (Idle <=> Idle') /\ (Hijacked <=> Hijacked')
  BY <1>1, <1>2 DEF Idle, Hijacked, Fresh, Nothing, TakenOver
<1>6. (Holding <=> Holding') /\ (Complete <=> Complete')
  BY <1>1, <1>2, <1>3 DEF Holding, Holds, Nothing, Complete
<1>7. Crossed <=> Crossed'
  BY <1>1, <1>2, <1>3 DEF Crossed, Gave, Given, Streamed, Nothing
<1>8. StateInv'
  BY <1>1, <1>5, <1>6, <1>7 DEF BufferInv, StateInv
<1>9. LimitedExactly' /\ AnswerFaithful'
  BY <1>1, <1>2, <1>3 DEF BufferInv, LimitedExactly, AnswerFaithful, MESIParse
<1> QED
  BY <1>4, <1>8, <1>9 DEF BufferInv

(* The steps that leave the wrapper, the client and the body alone.        *)
LEMMA QuietKeeps ==
    ASSUME BufferInv,
           SetHeaders \/ WriteHeaderEarly \/ HandlerReturns \/ HandlerFails
    PROVE  BufferInv'
<1>1. /\ config' = config /\ rw' = rw /\ client' = client
      /\ status' = status /\ written' = written
  BY DEF SetHeaders, WriteHeaderEarly, HandlerReturns, HandlerFails
<1>2. /\ rw \in Wrappers /\ client \in Clients /\ status \in Status
      /\ written \in Seq(Bytes) /\ Len(written) <= MaxBytes
      /\ header \in [html : BOOLEAN, esi : BOOLEAN,
                     length : NoLength..MaxBytes]
  BY DEF BufferInv, BufferTypeOK, Wrappers, Clients, Content
<1>3. MaxBody' = MaxBody
  BY <1>1 DEF MaxBody
<1>4. Idle => Idle'
  BY <1>1, <1>3 DEF Idle, Fresh, Nothing
<1>5. CASE SetHeaders
  <2>1. /\ handler' = "headers" /\ Idle
        /\ header' \in [html : BOOLEAN, esi : BOOLEAN,
                        length : NoLength..MaxBytes]
    BY <1>5 DEF SetHeaders, BufferInv, StateInv
  <2>2. StateInv'
    BY <1>4, <2>1 DEF StateInv
  <2> QED
    BY <1>1, <1>2, <2>1, <2>2, Going
<1>6. CASE WriteHeaderEarly
  <2>1. /\ handler' = "hinted" /\ header' = header
        /\ StateInv /\ handler = "start"
    BY <1>6 DEF WriteHeaderEarly, BufferInv
  <2>2. StateInv'
    BY <1>4, <2>1 DEF StateInv
  <2> QED
    BY <1>1, <1>2, <2>1, <2>2, Going
<1>7. CASE HandlerFails
  <2>1. handler' = "failed" /\ header' = header
    BY <1>7 DEF HandlerFails
  <2>2. StateInv'
    BY <2>1 DEF StateInv
  <2> QED
    BY <1>1, <1>2, <2>1, <2>2, Going
<1>8. CASE HandlerReturns
  <2>1. /\ handler' = "returned" /\ header' = header
        /\ BodyAllowed => header.length \in {NoLength, Len(written)}
        /\ Idle \/ Hijacked \/ Holding \/ Crossed
    BY <1>8 DEF HandlerReturns, BufferInv, StateInv
  <2>2. /\ Limited' = Limited /\ Passes' = Passes /\ Announced' = Announced
    BY <1>1, <2>1, SamePage
  <2>3. BodyAllowed' = BodyAllowed
    BY <1>1 DEF BodyAllowed
  <2>4. Complete'
    BY <1>1, <2>1, <2>3 DEF Complete
  <2>5. Hijacked => Hijacked'
    BY <1>1, <1>3, <2>1 DEF Hijacked, Fresh, TakenOver
  <2>6. Holding => Holding'
    BY <1>1, <1>3, <2>2, <2>3 DEF Holding, Holds, Nothing
  <2>7. Crossed => Crossed'
    BY <1>1, <1>3, <2>1, <2>2, <2>3
       DEF Crossed, Gave, Given, Streamed, Nothing
  <2>8. StateInv'
    BY <1>4, <2>1, <2>4, <2>5, <2>6, <2>7 DEF StateInv
  <2> QED
    BY <1>1, <1>2, <2>1, <2>8, Going
<1> QED
  BY <1>5, <1>6, <1>7, <1>8

(* Flush forwards nothing new: what is committed has its headers out.      *)
LEMMA FlushKeeps ==
    ASSUME BufferInv, Flush
    PROVE  BufferInv' /\ UNCHANGED bufferVars
<1>1. /\ handler \in {"headers", "body"}
      /\ client' = IF rw.committed
                   THEN NetWriteHeader(client, 200, header.length) ELSE client
      /\ config' = config /\ handler' = handler /\ header' = header
      /\ rw' = rw /\ status' = status /\ written' = written
  BY DEF Flush
<1>2. Idle \/ Holding \/ Crossed
  BY <1>1 DEF BufferInv, StateInv
<1>3. rw.committed => client.status # 0
  <2>1. CASE Idle \/ Holding
    BY <2>1 DEF Idle, Holding, Fresh, Holds
  <2>2. CASE Crossed
    <3>1. rw.committed = Passes /\ client = Given(status, written)
      BY <2>2 DEF Crossed, Gave
    <3>2. Passes => client.status = status
      BY <3>1 DEF Given, Streamed
    <3>3. status # 0
      BY FieldTypes DEF BufferInv, Status, NoBodyStatus
    <3> QED
      BY <3>1, <3>2, <3>3
  <2> QED
    BY <1>2, <2>1, <2>2
<1>4. client' = client
  BY <1>1, <1>3 DEF NetWriteHeader
<1>5. UNCHANGED bufferVars
  BY <1>1, <1>4 DEF bufferVars
<1> QED
  BY <1>5, BufferStutterKeeps

(* The connection is taken over before anything is written.                *)
LEMMA HijackKeeps ==
    ASSUME BufferInv, Hijack
    PROVE  BufferInv'
<1>1. /\ handler = "start" /\ handler' = "hijacked"
      /\ client' = NetWriteHeader(client, SwitchingProtocols, NoLength)
      /\ config' = config /\ header' = header
      /\ rw' = rw /\ status' = status /\ written' = written
  BY DEF Hijack
<1>2. Idle /\ header = [html |-> FALSE, esi |-> FALSE, length |-> NoLength]
  BY <1>1 DEF BufferInv, StateInv
<1>3. client' = TakenOver
  <2>1. client = Nothing
    BY <1>2 DEF Idle
  <2>2. SwitchingProtocols \notin NoBodyStatus
    BY DEF SwitchingProtocols, NoBodyStatus
  <2> QED
    BY <1>1, <2>1, <2>2, FirstHeader DEF TakenOver
<1>4. MaxBody' = MaxBody
  BY <1>1 DEF MaxBody
<1>5. Hijacked'
  BY <1>1, <1>2, <1>3, <1>4 DEF Hijacked, Idle, Fresh, TakenOver
<1>6. StateInv'
  BY <1>1, <1>5 DEF StateInv
<1>7. /\ rw \in Wrappers /\ status \in Status
      /\ written \in Seq(Bytes) /\ Len(written) <= MaxBytes
      /\ header \in [html : BOOLEAN, esi : BOOLEAN,
                     length : NoLength..MaxBytes]
  BY DEF BufferInv, BufferTypeOK, Wrappers
<1>8. client' \in Clients
  BY <1>3, <1>7, StateTypes DEF BufferInv
<1> QED
  BY <1>1, <1>6, <1>7, <1>8, Going

----------------------------------------------------------------------------
(* What is left to show of the integration's answer.                       *)
LEMMA Answering ==
    ASSUME BufferInv, handler' = "answered", client' \in Clients,
           UNCHANGED <<config, header, rw, status, written>>,
           rw.oversize <=> /\ Parses /\ ~config.head /\ config.maxBody > 0
                           /\ Len(written) > config.maxBody,
           client'.status # SwitchingProtocols =>
             /\ IF rw.oversize /\ config.mode = "error"
                THEN client'.status = BadGateway /\ client'.body = <<>>
                ELSE /\ client'.status = status
                     /\ IF client'.parsed
                        THEN client'.body \in MESIParse(written)
                        ELSE client'.body = written
             /\ BodyAllowed => client'.length \in {NoLength, Len(client'.body)}
    PROVE  BufferInv'
<1>1. BufferTypeOK' /\ Len(written') <= MaxBytes
  BY DEF BufferInv, BufferTypeOK, Clients, Content, Bytes, NoLength
<1>2. StateInv'
  BY DEF StateInv
<1>3. Parses' = Parses
  BY SamePage
<1>4. BodyAllowed' = BodyAllowed
  BY DEF BodyAllowed
<1>5. LimitedExactly'
  BY <1>3 DEF LimitedExactly
<1>6. AnswerFaithful'
  BY <1>4 DEF AnswerFaithful, MESIParse
<1> QED
  BY <1>1, <1>2, <1>5, <1>6 DEF BufferInv

(* A body was given up exactly if it is longer than the limit.             *)
LEMMA ReturnedExactly ==
    ASSUME BufferInv, handler = "returned"
    PROVE  rw.oversize <=> /\ Parses /\ ~config.head /\ config.maxBody > 0
                           /\ Len(written) > config.maxBody
<1>1. /\ MaxBody \in Nat /\ Len(written) \in Nat /\ config.head \in BOOLEAN
      /\ header.length \in Int /\ NoLength \in Int /\ Len(<<>>) = 0
  BY FieldTypes, EmptySeq DEF BufferInv
<1>2. Complete /\ (Idle \/ Hijacked \/ Holding \/ Crossed)
  BY DEF BufferInv, StateInv
<1>3. (Limited /\ Len(written) > MaxBody)
        <=> /\ Parses /\ ~config.head /\ config.maxBody > 0
            /\ Len(written) > config.maxBody
  BY <1>1 DEF Limited, MaxBody
<1>4. CASE Idle \/ Hijacked
  <2>1. ~rw.oversize /\ Len(written) = 0
    BY <1>1, <1>4 DEF Idle, Hijacked, Fresh
  <2> QED
    BY <1>1, <1>3, <2>1
<1>5. CASE Holding
  <2>1. ~rw.oversize /\ (Limited => Len(written) <= MaxBody)
    BY <1>5 DEF Holding, Holds
  <2> QED
    BY <1>1, <1>3, <2>1
<1>6. CASE Crossed
  <2>1. /\ rw.oversize /\ Limited /\ BodyAllowed
        /\ Len(written) > MaxBody \/ Announced
    BY <1>6 DEF Crossed, Gave
  <2>2. Announced => Len(written) > MaxBody
    BY <1>2, <2>1 DEF Complete, Announced
  <2> QED
    BY <1>3, <2>1, <2>2
<1> QED
  BY <1>2, <1>4, <1>5, <1>6

(* A body that was given up has been sent, or is answered by a 502.        *)
LEMMA HandleOversizeKeeps ==
    ASSUME BufferInv, HandleOversize
    PROVE  BufferInv'
<1>1. /\ handler = "returned" /\ rw.oversize /\ handler' = "answered"
      /\ client' = IF config.mode = "error"
                   THEN NetWriteHeader(client, BadGateway, NoLength) ELSE client
      /\ UNCHANGED <<config, header, rw, status, written>>
  BY DEF HandleOversize
<1>2. Complete /\ Crossed
  <2>1. Complete /\ (Idle \/ Hijacked \/ Holding \/ Crossed)
    BY <1>1 DEF BufferInv, StateInv
  <2>2. ~(Idle \/ Hijacked \/ Holding)
    BY <1>1 DEF Idle, Hijacked, Holding, Fresh, Holds
  <2> QED
    BY <2>1, <2>2
<1>3. /\ client = Given(status, written) /\ BodyAllowed
      /\ header.length \in {NoLength, Len(written)}
  BY <1>2 DEF Crossed, Complete
<1>4. /\ config.mode \in {"pass", "error"} /\ status \in Status
      /\ written \in Seq(Bytes) /\ BufferTypeOK
      /\ NoLength \in NoLength..(MaxBytes + 1)
  BY FieldTypes DEF BufferInv
<1>5. CASE config.mode = "error"
  <2>1. client = Nothing
    BY <1>3, <1>5 DEF Given, Passes
  <2>2. BadGateway \notin NoBodyStatus
    BY DEF BadGateway, NoBodyStatus
  <2>3. client' = [status |-> BadGateway, body |-> <<>>,
                   length |-> NoLength, parsed |-> FALSE]
    BY <1>1, <1>5, <2>1, <2>2, FirstHeader
  <2>4. <<>> \in Seq(Content)
    BY EmptySeq
  <2>5. client' \in Clients
    BY <1>4, <2>3, <2>4 DEF Clients
  <2> QED
    BY <1>1, <1>5, <2>3, <2>5, Answering, ReturnedExactly
<1>6. CASE config.mode = "pass"
  <2>1. client' = Streamed(status, written)
    BY <1>1, <1>3, <1>6 DEF Given, Passes
  <2>2. client' \in Clients
    BY <1>1, <1>3, <1>4, <1>6, StateTypes
  <2>3. /\ client'.status = status /\ client'.body = written
        /\ client'.length = header.length /\ client'.parsed = FALSE
    BY <2>1 DEF Streamed
  <2> QED
    BY <1>1, <1>3, <1>6, <2>2, <2>3, Answering, ReturnedExactly
<1> QED
  BY <1>4, <1>5, <1>6

(* What a status and a body come to, of a client that has nothing yet or   *)
(* has taken the connection over.                                          *)
LEMMA RespondGives ==
    ASSUME BufferInv, handler = "returned", ~rw.oversize, NEW length,
           NEW body \in Seq(Content)
    PROVE  /\ rw.body = written /\ (~BodyAllowed => written = <<>>)
           /\ \/ Respond(length, body) = TakenOver
              \/ Respond(length, body)
                   = [status |-> status,
                      body |-> IF BodyAllowed THEN body ELSE <<>>,
                      length |-> IF status \in NoBodyStatus THEN NoLength
                                 ELSE length,
                      parsed |-> FALSE]
<1>1. Idle \/ Hijacked \/ Holding
  <2>1. Idle \/ Hijacked \/ Holding \/ Crossed
    BY DEF BufferInv, StateInv
  <2>2. ~Crossed
    BY DEF Crossed, Gave
  <2> QED
    BY <2>1, <2>2
<1>2. /\ rw.body = written /\ rw.statusCode = status
      /\ ~BodyAllowed => written = <<>>
      /\ client = Nothing \/ client = TakenOver
  BY <1>1 DEF Idle, Hijacked, Holding, Fresh, Holds
<1>3. CASE client = TakenOver
  <2>1. client.status = SwitchingProtocols /\ SwitchingProtocols # 0
    BY <1>3 DEF TakenOver, SwitchingProtocols
  <2>2. NetWriteHeader(client, rw.statusCode, length) = client
    BY <2>1 DEF NetWriteHeader
  <2>3. NetWriteHeader(client, 200, header.length) = client
    BY <2>1 DEF NetWriteHeader
  <2>4. NetWrite(client, body) = client
    BY <2>1, <2>3 DEF NetWrite
  <2> QED
    BY <1>2, <1>3, <2>2, <2>4 DEF Respond
<1>4. CASE client = Nothing
  <2> DEFINE told == IF status \in NoBodyStatus THEN NoLength ELSE length
             Told(b) == [status |-> status, body |-> b, length |-> told,
                         parsed |-> FALSE]
  <2>1. NetWriteHeader(client, rw.statusCode, length) = Told(<<>>)
    BY <1>2, <1>4, FirstHeader
  <2> HIDE DEF told
  <2>2. status # 0 /\ status # SwitchingProtocols
    BY FieldTypes DEF BufferInv, Status, NoBodyStatus, SwitchingProtocols
  <2>3. Told(<<>>).status = status
    OBVIOUS
  <2>4. ASSUME NEW r, NEW q, r = Told(<<>>), q = [r EXCEPT !.body = @ \o body]
        PROVE  q = Told(<<>> \o body)
    BY <2>4
  <2> HIDE DEF Told
  <2>5. NetWriteHeader(Told(<<>>), 200, header.length) = Told(<<>>)
    BY <2>2, <2>3 DEF NetWriteHeader
  <2>6. <<>> \o body = body
    BY ConcatEmptySeq
  <2>7. NetWrite(Told(<<>>), body) = Told(IF BodyAllowed THEN body ELSE <<>>)
    <3>1. CASE BodyAllowed
      <4>1. ~config.head
            /\ Told(<<>>).status \notin NoBodyStatus \union {SwitchingProtocols}
        BY <2>2, <2>3, <3>1 DEF BodyAllowed
      <4>2. NetWrite(Told(<<>>), body) = [Told(<<>>) EXCEPT !.body = @ \o body]
        BY <2>5, <4>1 DEF NetWrite
      <4> QED
        BY <2>4, <2>6, <3>1, <4>2
    <3>2. CASE ~BodyAllowed
      <4>1. config.head
            \/ Told(<<>>).status \in NoBodyStatus \union {SwitchingProtocols}
        BY <2>3, <3>2 DEF BodyAllowed
      <4>2. NetWrite(Told(<<>>), body) = Told(<<>>)
        BY <2>5, <4>1 DEF NetWrite
      <4> QED
        BY <3>2, <4>2
    <3> QED
      BY <3>1, <3>2
  <2>8. Respond(length, body) = Told(IF BodyAllowed THEN body ELSE <<>>)
    BY <2>1, <2>7 DEF Respond
  <2> QED
    BY <1>2, <2>8 DEF Told, told
<1> QED
  BY <1>2, <1>3, <1>4

(* The page as it is.                                                      *)
LEMMA AnswerRawKeeps ==
    ASSUME BufferInv, AnswerRaw
    PROVE  BufferInv'
<1>1. /\ handler = "returned" /\ ~rw.oversize /\ handler' = "answered"
      /\ UNCHANGED <<config, header, rw, status, written>>
      /\ \/ client' = Respond(header.length, rw.body)
         \/ client' = Respond(Len(rw.body), rw.body)
  BY DEF AnswerRaw, writeResponse, writeRawResponse
<1>2. /\ written \in Seq(Bytes) /\ Len(written) \in Nat /\ status \in Status
      /\ Len(written) <= MaxBytes /\ MaxBytes \in Nat /\ BufferTypeOK
      /\ header.length \in NoLength..MaxBytes
  BY FieldTypes DEF BufferInv
<1>3. written \in Seq(Content) /\ <<>> \in Seq(Content)
  BY <1>2, BodyIsContent
<1>4. rw.body = written /\ (~BodyAllowed => written = <<>>)
  BY <1>1, <1>3, RespondGives
<1>5. Complete
  BY <1>1 DEF BufferInv, StateInv
<1>6. PICK length \in NoLength..(MaxBytes + 1) :
        /\ client' = Respond(length, written)
        /\ BodyAllowed => length \in {NoLength, Len(written)}
  <2>1. /\ header.length \in NoLength..(MaxBytes + 1)
        /\ Len(written) \in NoLength..(MaxBytes + 1)
    BY <1>2 DEF NoLength
  <2> QED
    BY <1>1, <1>4, <1>5, <2>1 DEF Complete
<1>7. CASE client' = TakenOver
  <2>1. client' \in Clients /\ client'.status = SwitchingProtocols
    BY <1>2, <1>7, StateTypes DEF TakenOver
  <2> QED
    BY <1>1, <2>1, Answering, ReturnedExactly
<1>8. CASE client' = [status |-> status,
                      body |-> IF BodyAllowed THEN written ELSE <<>>,
                      length |-> IF status \in NoBodyStatus THEN NoLength
                                 ELSE length,
                      parsed |-> FALSE]
  <2>1. /\ client'.status = status /\ client'.body = written
        /\ client'.parsed = FALSE
        /\ BodyAllowed => client'.length = length
    BY <1>4, <1>8 DEF BodyAllowed
  <2>2. client' \in Clients
    <3>1. (IF status \in NoBodyStatus THEN NoLength ELSE length)
            \in NoLength..(MaxBytes + 1)
      BY <1>2, <1>6 DEF NoLength
    <3>2. (IF BodyAllowed THEN written ELSE <<>>) \in Seq(Content)
      BY <1>3
    <3> QED
      BY <1>2, <1>8, <3>1, <3>2 DEF Clients
  <2> QED
    BY <1>1, <1>6, <2>1, <2>2, Answering, ReturnedExactly
<1> QED
  BY <1>1, <1>3, <1>6, <1>7, <1>8, RespondGives

(* What the parse of a page may give.                                      *)
LEMMA ParsedPage ==
    ASSUME BufferTypeOK, Len(written) <= MaxBytes,
           NEW processed \in MESIParse(written)
    PROVE  /\ processed \in Seq(Content)
           /\ Len(processed) \in NoLength..(MaxBytes + 1)
<1>1. /\ written \in Seq(Bytes) /\ Len(written) \in Nat /\ MaxBytes \in Nat
  BY FieldTypes
<1>2. written \in Seq(Content) /\ <<>> \in Seq(Content) /\ Len(<<>>) = 0
  BY <1>1, BodyIsContent, EmptySeq
<1>3. Fragment \in Content
  BY DEF Content
<1>4. /\ Append(written, Fragment) \in Seq(Content)
      /\ Len(Append(written, Fragment)) = Len(written) + 1
  BY <1>2, <1>3, AppendProperties
<1>5. /\ processed \in Seq(Content)
      /\ Len(processed) \in {0, Len(written), Len(written) + 1}
  BY <1>2, <1>4 DEF MESIParse
<1> QED
  BY <1>1, <1>5 DEF NoLength

(* The page as MESIParse made it.                                          *)
LEMMA AnswerParsedKeeps ==
    ASSUME BufferInv, AnswerParsed
    PROVE  BufferInv'
<1>1. /\ handler = "returned" /\ ~rw.oversize /\ handler' = "answered"
      /\ UNCHANGED <<config, header, rw, status, written>>
  BY DEF AnswerParsed
<1>2. PICK processed \in MESIParse(rw.body) :
        client' = [Respond(Len(processed), processed) EXCEPT !.parsed = TRUE]
  BY DEF AnswerParsed
<1>3. /\ written \in Seq(Bytes) /\ status \in Status
      /\ Len(written) <= MaxBytes /\ MaxBytes \in Nat /\ BufferTypeOK
  BY FieldTypes DEF BufferInv
<1>4. <<>> \in Seq(Content) /\ Len(<<>>) = 0
  BY EmptySeq
<1>5. rw.body = written /\ (~BodyAllowed => written = <<>>)
  BY <1>1, <1>4, RespondGives
<1>6. /\ processed \in Seq(Content) /\ processed \in MESIParse(written)
      /\ Len(processed) \in NoLength..(MaxBytes + 1)
  BY <1>2, <1>3, <1>5, ParsedPage
<1> DEFINE length == Len(processed)
           r == Respond(length, processed)
<1>7. client' = [r EXCEPT !.parsed = TRUE]
  BY <1>2
<1>8. \/ r = TakenOver
      \/ r = [status |-> status,
              body |-> IF BodyAllowed THEN processed ELSE <<>>,
              length |-> IF status \in NoBodyStatus THEN NoLength ELSE length,
              parsed |-> FALSE]
  BY <1>1, <1>6, RespondGives
<1> HIDE DEF r
<1>9. CASE r = TakenOver
  <2>1. client' = [status |-> SwitchingProtocols, body |-> <<>>,
                   length |-> NoLength, parsed |-> TRUE]
    BY <1>7, <1>9 DEF TakenOver
  <2>2. client' \in Clients /\ client'.status = SwitchingProtocols
    BY <1>3, <1>4, <2>1, BufferAssumption DEF Clients, NoLength
  <2> QED
    BY <1>1, <2>2, Answering, ReturnedExactly
<1>10. CASE r # TakenOver
  <2>1. client' = [status |-> status,
                   body |-> IF BodyAllowed THEN processed ELSE <<>>,
                   length |-> IF status \in NoBodyStatus THEN NoLength
                              ELSE length,
                   parsed |-> TRUE]
    <3> DEFINE page == IF BodyAllowed THEN processed ELSE <<>>
               told == IF status \in NoBodyStatus THEN NoLength ELSE length
    <3>1. r = [status |-> status, body |-> page, length |-> told,
               parsed |-> FALSE]
      BY <1>8, <1>10
    <3> HIDE DEF page, told
    <3>2. client' = [status |-> status, body |-> page, length |-> told,
                     parsed |-> TRUE]
      BY <1>7, <3>1
    <3> QED
      BY <3>2 DEF page, told
  <2>2. /\ client'.status = status /\ client'.body \in MESIParse(written)
        /\ client'.parsed = TRUE
        /\ BodyAllowed => client'.length = Len(client'.body)
    <3>1. <<>> \in MESIParse(written)
      BY DEF MESIParse
    <3> QED
      BY <1>6, <2>1, <3>1 DEF BodyAllowed
  <2>3. client' \in Clients
    <3>1. (IF status \in NoBodyStatus THEN NoLength ELSE length)
            \in NoLength..(MaxBytes + 1)
      BY <1>3, <1>6 DEF NoLength
    <3>2. (IF BodyAllowed THEN processed ELSE <<>>) \in Seq(Content)
      BY <1>4, <1>6
    <3> QED
      BY <1>3, <2>1, <3>1, <3>2 DEF Clients
  <2> QED
    BY <1>1, <2>2, <2>3, Answering, ReturnedExactly
<1> QED
  BY <1>9, <1>10

(* The invariant holds before the wrapped handler is called.               *)
LEMMA BufferInitInv ==
    ASSUME BufferInit
    PROVE  BufferInv
<1>1. /\ config \in [integration : Integration, head : BOOLEAN,
                     maxBody : {0, Limit}, mode : {"pass", "error"},
                     parseOnHeader : BOOLEAN]
      /\ handler = "start"
      /\ header = [html |-> FALSE, esi |-> FALSE, length |-> NoLength]
      /\ rw = Fresh(200) /\ client = Nothing
      /\ status = 200 /\ written = <<>>
  BY DEF BufferInit, NewResponseWriter, Fresh, Nothing, MaxBody
<1>2. /\ <<>> \in Seq(Bytes) /\ <<>> \in Seq(Content) /\ Len(<<>>) = 0
      /\ NoLength \in NoLength..MaxBytes
      /\ NoLength \in NoLength..(MaxBytes + 1)
      /\ 200 \in Status /\ 0 <= MaxBytes
  BY EmptySeq, BufferAssumption DEF NoLength, Status
<1>3. MaxBody \in {0, Limit}
  BY <1>1 DEF MaxBody
<1>4. BufferTypeOK
  BY <1>1, <1>2, <1>3 DEF BufferTypeOK, Fresh, Nothing, Content
<1>5. StateInv
  BY <1>1 DEF StateInv, Idle
<1>6. LimitedExactly /\ AnswerFaithful
  BY <1>1 DEF LimitedExactly, AnswerFaithful
<1> QED
  BY <1>1, <1>2, <1>4, <1>5, <1>6 DEF BufferInv

(* Every step keeps the invariant.                                         *)
LEMMA BufferNextKeeps ==
    ASSUME BufferInv, [BufferNext]_bufferVars
    PROVE  BufferInv'
<1>1. CASE SetHeaders \/ WriteHeaderEarly \/ HandlerReturns \/ HandlerFails
  BY <1>1, QuietKeeps
<1>2. CASE \E code \in Status : WriteHeader(code)
  BY <1>2, WriteHeaderKeeps
<1>3. CASE \E n \in 1..MaxBytes : Write(n)
  BY <1>3, WriteKeeps
<1>4. CASE Flush
  BY <1>4, FlushKeeps
<1>5. CASE Hijack
  BY <1>5, HijackKeeps
<1>6. CASE HandleOversize
  BY <1>6, HandleOversizeKeeps
<1>7. CASE AnswerRaw
  BY <1>7, AnswerRawKeeps
<1>8. CASE AnswerParsed
  BY <1>8, AnswerParsedKeeps
<1>9. CASE UNCHANGED bufferVars
  BY <1>9, BufferStutterKeeps
<1> QED
  BY <1>1, <1>2, <1>3, <1>4, <1>5, <1>6, <1>7, <1>8, <1>9 DEF BufferNext

----------------------------------------------------------------------------
(* Until the handler returns, the ResponseWriter holds the whole body, or  *)
(* the client has it so far, or, in error mode, nothing.                   *)
THEOREM BufferInvariant == BufferSpec => []BufferInv
BY BufferInitInv, BufferNextKeeps, PTL DEF BufferSpec

(* decide and Write apply the limit to exactly the pages beyond it, in     *)
(* whatever order and chunks the handler writes.                           *)
THEOREM LimitedExactlyAlways == BufferSpec => []LimitedExactly
<1>1. BufferInv => LimitedExactly
  BY DEF BufferInv
<1> QED
  BY <1>1, BufferInvariant, PTL

(* The integration's answer has the handler's status and all of its body,  *)
(* or what MESIParse made of all of it, or it is a 502 in error mode; and  *)
(* its Content-Length is that of the body sent.                            *)
THEOREM AnswerFaithfulAlways == BufferSpec => []AnswerFaithful
<1>1. BufferInv => AnswerFaithful
  BY DEF BufferInv
<1> QED
  BY <1>1, BufferInvariant, PTL
=============================================================================
