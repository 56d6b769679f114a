------------------------------- MODULE Render -------------------------------
(***************************************************************************)
(* The recursion of a page render: MESIParse re-enters itself for the body *)
(* of an include, for the chosen branch of a choose block and for the      *)
(* except branch of a try block, each time with a config whose MaxDepth    *)
(* and Timeout are derived from the caller's (mesi/parser.go, config.go,   *)
(* include.go, fetchFallback in fetch_mode.go).                            *)
(*                                                                         *)
(* One path from the page down to the include being fetched is modelled as *)
(* a stack of frames.  Siblings run concurrently in the worker pools       *)
(* (ParsePool) and matter to the path only by the time they take, which    *)
(* Tick lets pass between any two steps.                                   *)
(***************************************************************************)
EXTENDS Naturals, SequencesExt

CONSTANTS MaxDepth,       \* EsiParserConfig.MaxDepth of the page
          Timeout,        \* EsiParserConfig.Timeout of the page
          TimeoutAttr,    \* timeout attributes of includes
          DepthAttr,      \* max-depth attributes of includes
          NoAttr,         \* the attribute is absent or invalid
          ParseOnHeader,  \* only responses that signal ESI are parsed
          MaxNesting,     \* bound on the stack
          MaxTime         \* bound on the clock

ASSUME RenderAssumption ==
    /\ MaxDepth \in Nat /\ Timeout \in Nat
    /\ NoAttr \notin Nat
    /\ TimeoutAttr \subseteq (Nat \ {0}) \cup {NoAttr}
    /\ DepthAttr \subseteq Nat \cup {NoAttr}
    /\ ParseOnHeader \in BOOLEAN
    /\ MaxNesting \in Nat /\ MaxTime \in Nat

VARIABLES
    now,     \* time.Now()
    stack,   \* the active MESIParse and processAttemptContent calls
    inc      \* the include being processed by the innermost call

vars == <<now, stack, inc>>

(* level and cap are history: the number of includes on the path, and the  *)
(* number allowed by the page and by the max-depth attributes on the path. *)
Frame == [via : {"page", "include", "block", "attempt"},
          depth : Nat, timeout : Nat, start : Nat,
          level : Nat, cap : Nat]

NoInclude == [phase |-> "none"]

(* deadline is that of the fetch under way.                                *)
Include == [phase : {"src", "alt", "failed"}, depth : Nat, timeout : Nat,
            began : Nat, deadline : Nat, hasAlt : BOOLEAN, cap : Nat]

TypeOK ==
    /\ now \in Nat
    /\ stack \in Seq(Frame)
    /\ inc \in Include \cup {NoInclude}

Init ==
    /\ now = 0
    /\ inc = NoInclude
    /\ stack = <<[via |-> "page", depth |-> MaxDepth, timeout |-> Timeout,
                  start |-> 0, level |-> 0, cap |-> MaxDepth]>>

----------------------------------------------------------------------------
Top == Last(stack)

Elapsed == now - Top.start

Smaller(a, b) == IF a < b THEN a ELSE b

Scanning == inc = NoInclude

(* OverrideConfig: an attribute only ever lowers the value; max-depth="n"  *)
(* leaves one level more than n, the one its own fetch uses.               *)
OverrideTimeout(t) == IF t = NoAttr THEN Top.timeout ELSE Smaller(Top.timeout, t)

(* Mutant of OverrideDepth: the attribute replaces the page's value.       *)
OverrideDepthWidens(d) == IF d = NoAttr THEN Top.depth ELSE d + 1

OverrideDepth(d) == IF d = NoAttr THEN Top.depth ELSE Smaller(Top.depth, d + 1)

WithElapsedTime(timeout, t) == IF timeout > t THEN timeout - t ELSE 0

DecreaseMaxDepth(depth) == IF depth > 0 THEN depth - 1 ELSE 0

CanGoDeeper == Top.depth >= 1 /\ Top.timeout > Elapsed

Push(f) == stack' = Append(stack, f)

----------------------------------------------------------------------------
(* An include tag: the config is derived, then toString refuses it (depth  *)
(* 0), singleFetchUrlWithContext refuses it (no time left), or the fetch   *)
(* of src begins.                                                          *)
StartInclude(t, d, hasAlt) ==
    LET depth == OverrideDepth(d)
        timeout == WithElapsedTime(OverrideTimeout(t), Elapsed)
        cap == IF d = NoAttr THEN Top.cap ELSE Smaller(Top.cap, Top.level + 1 + d)
    IN
    /\ Scanning
    /\ inc' = [phase |-> IF depth = 0 \/ timeout = 0 THEN "failed" ELSE "src",
               depth |-> depth, timeout |-> timeout,
               began |-> now, deadline |-> now + timeout,
               hasAlt |-> hasAlt, cap |-> cap]
    /\ UNCHANGED <<now, stack>>

(* Mutant of SrcFails: alt is fetched with the whole budget again.         *)
SrcFailsFreshBudget ==
    /\ inc.phase = "src"
    /\ inc' = IF inc.hasAlt
              THEN [inc EXCEPT !.phase = "alt", !.deadline = now + inc.timeout]
              ELSE [inc EXCEPT !.phase = "failed"]
    /\ UNCHANGED <<now, stack>>

(* fetchFallback: a failed src is followed by alt with what is left of the *)
(* time budget.                                                            *)
SrcFails ==
    LET left == WithElapsedTime(inc.timeout, now - inc.began) IN
    /\ inc.phase = "src"
    /\ inc' = IF inc.hasAlt /\ left > 0
              THEN [inc EXCEPT !.phase = "alt", !.deadline = now + left]
              ELSE [inc EXCEPT !.phase = "failed"]
    /\ UNCHANGED <<now, stack>>

AltFails ==
    /\ inc.phase = "alt"
    /\ inc' = [inc EXCEPT !.phase = "failed"]
    /\ UNCHANGED <<now, stack>>

(* The content of the include is parsed in turn, or stands as it is.  Both *)
(* reductions of the timeout count from the start of the enclosing call.   *)
Descend(isEsiResponse) ==
    /\ IF CanGoDeeper /\ (isEsiResponse \/ ~ParseOnHeader)
       THEN Push([via |-> "include",
                  depth |-> DecreaseMaxDepth(inc.depth),
                  timeout |-> WithElapsedTime(inc.timeout, Elapsed),
                  start |-> now, level |-> Top.level + 1, cap |-> inc.cap])
       ELSE UNCHANGED stack
    /\ inc' = NoInclude
    /\ UNCHANGED now

FetchSucceeds(isEsiResponse) ==
    /\ inc.phase \in {"src", "alt"}
    /\ Descend(isEsiResponse)

(* A failed include stands for nothing (onerror="continue"), its own body  *)
(* or the error marker; the result is parsed like a fetched body.          *)
IncludeFails ==
    /\ inc.phase = "failed"
    /\ Descend(FALSE)

----------------------------------------------------------------------------
(* The blocks of a page.  The branch of a choose block is parsed with the  *)
(* config of the page it is on, and a clock of its own.                    *)
Block == [Top EXCEPT !.via = "block", !.start = now]

ChooseBranch ==
    /\ Scanning /\ Len(stack) < MaxNesting
    /\ Push(Block)
    /\ UNCHANGED <<now, inc>>

(* processAttemptContent works inside the enclosing call: same start.      *)
Attempt ==
    /\ Scanning /\ Len(stack) < MaxNesting
    /\ Push([Top EXCEPT !.via = "attempt"])
    /\ UNCHANGED <<now, inc>>

(* An unhandled include error, or an unparsable include, ends the attempt; *)
(* the except branch is parsed in its place, when there is one.            *)
AttemptFails ==
    /\ Top.via = "attempt"
    /\ Scanning \/ inc.phase = "failed"
    /\ \/ stack' = Append(Front(stack), Block)
       \/ stack' = Front(stack)
    /\ inc' = NoInclude
    /\ UNCHANGED now

(* The innermost call has rendered its text.                               *)
Return ==
    /\ Scanning /\ Len(stack) > 1
    /\ stack' = Front(stack)
    /\ UNCHANGED <<now, inc>>

(* Time passes; a fetch ends by its deadline (SingleFetch!FetchReturns).   *)
Tick ==
    /\ now < MaxTime
    /\ inc.phase \in {"src", "alt"} => now < inc.deadline
    /\ now' = now + 1
    /\ UNCHANGED <<stack, inc>>

Next ==
    \/ \E t \in TimeoutAttr, d \in DepthAttr, hasAlt \in BOOLEAN :
          StartInclude(t, d, hasAlt)
    \/ SrcFails \/ AltFails \/ IncludeFails
    \/ \E isEsiResponse \in BOOLEAN : FetchSucceeds(isEsiResponse)
    \/ ChooseBranch \/ Attempt \/ AttemptFails
    \/ Return
    \/ Tick

Spec == Init /\ [][Next]_vars

----------------------------------------------------------------------------
Fetching == inc.phase \in {"src", "alt"}

(* An include is fetched only while the number of includes above it is     *)
(* below MaxDepth and below what every max-depth attribute on the path     *)
(* allows, whatever blocks the path goes through: templates that include   *)
(* each other cannot recurse for ever (README.md:46, config.go:141-146).   *)
DepthHonoured == Fetching => Top.level < Top.cap /\ inc.cap <= MaxDepth

(* A fetch never outlives the budget of a call it runs in: its deadline,   *)
(* that of an alt after a failed src included, is within start + Timeout   *)
(* of every enclosing call down to the innermost choose or except branch;  *)
(* and none is begun without any time left.                                *)
BudgetNests ==
    Fetching =>
      /\ inc.began < inc.deadline
      /\ \A i \in 1..Len(stack) :
            (\A j \in (i + 1)..Len(stack) : stack[j].via # "block")
            => inc.deadline <= stack[i].start + stack[i].timeout
============================================================================
