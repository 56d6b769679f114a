----------------------------- MODULE FetchModes -----------------------------
(***************************************************************************)
(* How one include gets its content: the fallback, ab and concurrent       *)
(* values of the fetch-mode attribute (mesi/fetch_mode.go, ab_ratio.go).   *)
(* A call of singleFetchUrlWithContext is one request that ends with       *)
(* content or with an error; its inside is SingleFetch.                    *)
(***************************************************************************)
EXTENDS Naturals, FiniteSets, Sequences

CONSTANT MaxABRatio       \* largest accepted side of a ratio

ASSUME RatioAssumption == MaxABRatio \in Nat \ {0}

Url == {"src", "alt"}

Mode == {"fallback", "ab", "concurrent"}

(* The ab-ratio attribute: absent or blank, not of the form X:Y with       *)
(* unsigned integers, or a pair of them.                                   *)
Ratio == {"absent", "malformed"} \cup ((0..(MaxABRatio + 1)) \X (0..(MaxABRatio + 1)))

VARIABLES
    mode, hasAlt, abRatio,   \* attributes of the include tag
    stage,     \* of the goroutine that renders the include
    current,   \* the location it fetches itself
    task,      \* the goroutines of fetchConcurrent
    outcome,   \* how each request ended
    calls,     \* number of requests per location
    resultChan,
    results,   \* iterations of the receiving loop
    ctxClosed, \* cancel() has been called
    parentDone,\* the context of the page render is done
    ret        \* what the include gets

includeVars == <<mode, hasAlt, abRatio, stage, current, task, outcome, calls,
                 resultChan, results, ctxClosed, parentDone, ret>>

attributes == <<mode, hasAlt, abRatio>>
race == <<task, resultChan, results, ctxClosed>>

IncludeTypeOK ==
    /\ mode \in Mode /\ hasAlt \in BOOLEAN /\ abRatio \in Ratio
    /\ stage \in {"start", "fetch", "race", "returned"}
    /\ current \in Url
    /\ task \in [Url -> {"none", "fetching", "sending", "exited"}]
    /\ outcome \in [Url -> {"none", "content", "error"}]
    /\ calls \in [Url -> 0..2]
    /\ resultChan \in Seq(Url) /\ Len(resultChan) <= 2
    /\ results \in 0..2
    /\ ctxClosed \in BOOLEAN /\ parentDone \in BOOLEAN
    /\ ret \in {"none", "content", "error"}

IncludeInit ==
    /\ mode \in Mode /\ hasAlt \in BOOLEAN
    /\ abRatio \in IF mode = "ab" THEN Ratio ELSE {"absent"}
    /\ stage = "start"
    /\ current = "src"
    /\ task = [u \in Url |-> "none"]
    /\ outcome = [u \in Url |-> "none"]
    /\ calls = [u \in Url |-> 0]
    /\ resultChan = <<>>
    /\ results = 0
    /\ ctxClosed = FALSE
    /\ parentDone = FALSE
    /\ ret = "none"

----------------------------------------------------------------------------
(* The request goes out on the include's own goroutine.                    *)
Request(u) ==
    /\ stage' = "fetch"
    /\ current' = u
    /\ calls' = [calls EXCEPT ![u] = @ + 1]
    /\ UNCHANGED <<outcome, ret>>

Return(r) == stage' = "returned" /\ ret' = r

FetchFallback ==
    /\ stage = "start" /\ mode = "fallback"
    /\ Request("src")
    /\ UNCHANGED <<attributes, race, parentDone>>

(* parseAB and parseABSide: a ratio <<A, B>>, or an error.                 *)
BadRatio == "bad"

parseAB(raw) ==
    IF raw = "absent" THEN <<50, 50>>
    ELSE IF raw = "malformed" THEN BadRatio
    ELSE IF raw[1] > MaxABRatio \/ raw[2] > MaxABRatio THEN BadRatio
    ELSE IF raw = <<0, 0>> THEN BadRatio
    ELSE raw

(* Mutant of selectUrl: the value at the border goes to src too.           *)
selectUrlInclusive(ratio, random) ==
    IF ~hasAlt THEN "src"
    ELSE IF random <= ratio[1] THEN "src" ELSE "alt"

selectUrl(ratio, random) ==
    IF ~hasAlt THEN "src"
    ELSE IF random < ratio[1] THEN "src" ELSE "alt"

FetchAB ==
    LET ratio == parseAB(abRatio) IN
    /\ stage = "start" /\ mode = "ab"
    /\ IF ratio = BadRatio
       THEN Return("error") /\ UNCHANGED <<current, outcome, calls>>
       ELSE \E random \in 0..(ratio[1] + ratio[2] - 1) :
               Request(selectUrl(ratio, random))
    /\ UNCHANGED <<attributes, race, parentDone>>

(* Without alt the concurrent mode is a single request.                    *)
FetchConcurrentSingle ==
    /\ stage = "start" /\ mode = "concurrent" /\ ~hasAlt
    /\ Request("src")
    /\ UNCHANGED <<attributes, race, parentDone>>

(* The request ends; in fallback mode a failed src is followed by alt.     *)
SingleEnds(r) ==
    /\ stage = "fetch"
    /\ outcome' = [outcome EXCEPT ![current] = r]
    /\ IF mode = "fallback" /\ r = "error" /\ current = "src" /\ hasAlt
       THEN /\ current' = "alt"
            /\ calls' = [calls EXCEPT !["alt"] = @ + 1]
            /\ UNCHANGED <<stage, ret>>
       ELSE Return(r) /\ UNCHANGED <<current, calls>>
    /\ UNCHANGED <<attributes, race, parentDone>>

----------------------------------------------------------------------------
(* fetchConcurrent with alt: two goroutines and a loop that receives.      *)
FetchConcurrent ==
    /\ stage = "start" /\ mode = "concurrent" /\ hasAlt
    /\ stage' = "race"
    /\ task' = [u \in Url |-> "fetching"]
    /\ calls' = [u \in Url |-> calls[u] + 1]
    /\ UNCHANGED <<attributes, current, outcome, resultChan, results,
                   ctxClosed, parentDone, ret>>

(* ctx, the cancellable child of the render's context.                     *)
ctxDone == parentDone \/ ctxClosed

(* Mutant of TaskFetched: a failed request sends nothing.                  *)
TaskFetchedSilent(u, r) ==
    /\ task[u] = "fetching"
    /\ task' = [task EXCEPT ![u] = IF r = "error" THEN "exited" ELSE "sending"]
    /\ outcome' = [outcome EXCEPT ![u] = r]
    /\ UNCHANGED <<attributes, stage, current, calls, resultChan, results,
                   ctxClosed, parentDone, ret>>

TaskFetched(u, r) ==
    /\ task[u] = "fetching"
    /\ task' = [task EXCEPT ![u] = "sending"]
    /\ outcome' = [outcome EXCEPT ![u] = r]
    /\ UNCHANGED <<attributes, stage, current, calls, resultChan, results,
                   ctxClosed, parentDone, ret>>

(* The select of runTask: the result, or ctx.                              *)
TaskSends(u) ==
    /\ task[u] = "sending" /\ Len(resultChan) < 2
    /\ resultChan' = Append(resultChan, u)
    /\ task' = [task EXCEPT ![u] = "exited"]
    /\ UNCHANGED <<attributes, stage, current, outcome, calls, results,
                   ctxClosed, parentDone, ret>>

TaskGivesUp(u) ==
    /\ task[u] = "sending" /\ ctxDone
    /\ task' = [task EXCEPT ![u] = "exited"]
    /\ UNCHANGED <<attributes, stage, current, outcome, calls, resultChan,
                   results, ctxClosed, parentDone, ret>>

(* The loop takes a result: the first content wins, a second error loses.  *)
ReceiveContent ==
    /\ stage = "race" /\ resultChan # <<>>
    /\ outcome[Head(resultChan)] = "content"
    /\ resultChan' = Tail(resultChan)
    /\ ctxClosed' = TRUE
    /\ Return("content")
    /\ UNCHANGED <<attributes, current, task, outcome, calls, results, parentDone>>

(* Mutant of ReceiveError: the first error ends the loop.                  *)
ReceiveErrorFinal ==
    /\ stage = "race" /\ resultChan # <<>>
    /\ outcome[Head(resultChan)] = "error"
    /\ resultChan' = Tail(resultChan)
    /\ results' = results + 1
    /\ ctxClosed' = TRUE /\ Return("error")
    /\ UNCHANGED <<attributes, current, task, outcome, calls, parentDone>>

ReceiveError ==
    /\ stage = "race" /\ resultChan # <<>>
    /\ outcome[Head(resultChan)] = "error"
    /\ resultChan' = Tail(resultChan)
    /\ results' = results + 1
    /\ IF results = 1
       THEN ctxClosed' = TRUE /\ Return("error")
       ELSE UNCHANGED <<ctxClosed, stage, ret>>
    /\ UNCHANGED <<attributes, current, task, outcome, calls, parentDone>>

RaceCancelled ==
    /\ stage = "race" /\ ctxDone
    /\ ctxClosed' = TRUE
    /\ Return("error")
    /\ UNCHANGED <<attributes, current, task, outcome, calls, resultChan,
                   results, parentDone>>

(* The render is cancelled.                                                *)
CancelRender ==
    /\ ~parentDone
    /\ parentDone' = TRUE
    /\ UNCHANGED <<attributes, stage, current, outcome, calls, race, ret>>

Main ==
    \/ FetchFallback \/ FetchAB \/ FetchConcurrentSingle \/ FetchConcurrent
    \/ \E r \in {"content", "error"} : SingleEnds(r)
    \/ ReceiveContent \/ ReceiveError \/ RaceCancelled

Task(u) ==
    \/ \E r \in {"content", "error"} : TaskFetched(u, r)
    \/ TaskSends(u) \/ TaskGivesUp(u)

IncludeNext == Main \/ (\E u \in Url : Task(u)) \/ CancelRender

(* Requests end (SingleFetch!FetchReturns) and goroutines are scheduled.   *)
IncludeSpec ==
    /\ IncludeInit /\ [][IncludeNext]_includeVars
    /\ WF_includeVars(Main) /\ \A u \in Url : WF_includeVars(Task(u))

----------------------------------------------------------------------------
(* An include that fails, in a render that was not cancelled and with an   *)
(* acceptable ratio, has no content to show for: no request of it got any, *)
(* and fallback and concurrent have tried alt when there was one           *)
(* (comment at fetch_mode.go:8-9).                                         *)
FailureIsTotal ==
    ret = "error" /\ ~parentDone /\ parseAB(abRatio) # BadRatio =>
        /\ \A u \in Url : calls[u] > 0 => outcome[u] = "error"
        /\ mode # "ab" /\ hasAlt => calls["alt"] = 1

(* Of A + B random values exactly A select src, so a side of 0 gets no     *)
(* request and a missing alt sends all of them to src.                     *)
ShareMatchesRatio ==
    LET ratio == parseAB(abRatio)
        Share == {r \in 0..(ratio[1] + ratio[2] - 1) : selectUrl(ratio, r) = "src"}
    IN  ratio # BadRatio =>
            Cardinality(Share) = IF hasAlt THEN ratio[1] ELSE ratio[1] + ratio[2]

(* Every include gets a result; a request still under way by then is one   *)
(* whose context is done, so that the loser of a race does not run on; and *)
(* no goroutine is left behind.                                            *)
IncludeEnds ==
    /\ [](stage = "returned" => \A u \in Url : task[u] = "fetching" => ctxDone)
    /\ <>[](stage = "returned" /\ \A u \in Url : task[u] \in {"none", "exited"})
============================================================================
