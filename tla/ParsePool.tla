----------------------------- MODULE ParsePool -----------------------------
(***************************************************************************)
(* One MESIParse call (mesi/parser.go): the sequential scan of the tokens, *)
(* the worker pool that renders the jobs, the collecting loop with its     *)
(* cancellation, wg.Wait and assembleResults.                              *)
(*                                                                         *)
(* A token is its index in the page.  Inline tokens (static text, vars,    *)
(* try, choose, inline) are rendered by the scan itself; the others become *)
(* jobs.  A rendered token is a Response, modelled by its index: the       *)
(* properties are about which responses reach the page and in which order. *)
(***************************************************************************)
EXTENDS Naturals, FiniteSets, SequencesExt

CONSTANTS Tokens,       \* number of tokens of the page
          MaxWorkers    \* after normalizeMaxWorkers: positive

ASSUME PoolAssumption ==
    /\ Tokens \in Nat
    /\ MaxWorkers \in Nat \ {0}

Worker == 1..MaxWorkers

VARIABLES
    main,       \* where the calling goroutine is
    next,       \* the token scanned, or the job fed, next
    esiJobs,    \* the tokens left for the pool, in document order
    results,    \* responses in the order they were appended
    jobs,       \* buffered channel of jobs, capacity len(esiJobs)
    closed,     \* close(jobs) has run
    worker,     \* state of each pool goroutine
    job,        \* the job a worker renders, 0: none
    ch,         \* buffered channel of responses, capacity len(esiJobs)
    received,   \* iterations of ResultLoop that received a response
    cancelled,  \* ctx.Done() is closed
    output      \* the returned page

vars == <<main, next, esiJobs, results, jobs, closed, worker, job, ch,
          received, cancelled, output>>

TypeOK ==
    /\ main \in {"scan", "feed", "collect", "wait", "returned"}
    /\ next \in 1..(Tokens + 1)
    /\ esiJobs \in Seq(1..Tokens)
    /\ results \in Seq(1..Tokens)
    /\ jobs \in Seq(1..Tokens) /\ Len(jobs) <= Len(esiJobs)
    /\ closed \in BOOLEAN
    /\ worker \in [Worker -> {"unborn", "idle", "busy", "exited"}]
    /\ job \in [Worker -> 0..Tokens]
    /\ ch \in Seq(1..Tokens) /\ Len(ch) <= Len(esiJobs)
    /\ received \in 0..Len(esiJobs)
    /\ cancelled \in BOOLEAN
    /\ output \in Seq(1..Tokens)

Init ==
    /\ main = "scan"
    /\ next = 1
    /\ esiJobs = <<>>
    /\ results = <<>>
    /\ jobs = <<>>
    /\ closed = FALSE
    /\ worker = [w \in Worker |-> "unborn"]
    /\ job = [w \in Worker |-> 0]
    /\ ch = <<>>
    /\ received = 0
    /\ cancelled = FALSE
    /\ output = <<>>

----------------------------------------------------------------------------
(* The token loop: an inline token is rendered and appended at once, any   *)
(* other token is kept for the pool.                                       *)
ScanInline ==
    /\ main = "scan" /\ next <= Tokens
    /\ next' = next + 1
    /\ results' = Append(results, next)
    /\ UNCHANGED <<main, esiJobs, jobs, closed, worker, job, ch, received,
                   cancelled, output>>

ScanJob ==
    /\ main = "scan" /\ next <= Tokens
    /\ next' = next + 1
    /\ esiJobs' = Append(esiJobs, next)
    /\ UNCHANGED <<main, results, jobs, closed, worker, job, ch, received,
                   cancelled, output>>

(* Mutant of assembleResults: the responses are joined as they arrived.    *)
assembleResultsUnsorted(rs) == rs

(* Of two responses the one with the smaller index comes first, and of two *)
(* with the same index the one that was appended first.                    *)
Before(rs, i, j) == rs[i] < rs[j] \/ (rs[i] = rs[j] /\ i < j)

StableOrders(rs) ==
    {p \in Bijection(1..Len(rs), 1..Len(rs)) :
        \A i, j \in 1..Len(rs) : i < j => Before(rs, p[i], p[j])}

(* sort.SliceStable by index, then the responses are joined.               *)
assembleResults(rs) ==
    LET order == CHOOSE p \in StableOrders(rs) : TRUE
    IN  [i \in 1..Len(rs) |-> rs[order[i]]]

NoJobs ==
    /\ main = "scan" /\ next > Tokens /\ esiJobs = <<>>
    /\ main' = "returned"
    /\ output' = assembleResults(results)
    /\ UNCHANGED <<next, esiJobs, results, jobs, closed, worker, job, ch,
                   received, cancelled>>

(* workerCount goroutines: no more than there are jobs.                    *)
StartPool ==
    /\ main = "scan" /\ next > Tokens /\ esiJobs # <<>>
    /\ main' = "feed"
    /\ next' = 1
    /\ worker' = [w \in Worker |-> IF w <= Len(esiJobs) THEN "idle" ELSE "unborn"]
    /\ UNCHANGED <<esiJobs, results, jobs, closed, job, ch, received,
                   cancelled, output>>

(* jobs <- job for every job, then close(jobs).                            *)
Feed ==
    /\ main = "feed" /\ next <= Len(esiJobs)
    /\ Len(jobs) < Len(esiJobs)
    /\ jobs' = Append(jobs, esiJobs[next])
    /\ next' = next + 1
    /\ UNCHANGED <<main, esiJobs, results, closed, worker, job, ch, received,
                   cancelled, output>>

CloseJobs ==
    /\ main = "feed" /\ next > Len(esiJobs)
    /\ closed' = TRUE
    /\ main' = "collect"
    /\ UNCHANGED <<next, esiJobs, results, jobs, worker, job, ch, received,
                   cancelled, output>>

----------------------------------------------------------------------------
(* for job := range jobs                                                   *)
TakeJob(w) ==
    /\ worker[w] = "idle" /\ jobs # <<>>
    /\ jobs' = Tail(jobs)
    /\ job' = [job EXCEPT ![w] = Head(jobs)]
    /\ worker' = [worker EXCEPT ![w] = "busy"]
    /\ UNCHANGED <<main, next, esiJobs, results, closed, ch, received,
                   cancelled, output>>

(* Mutant of responseCap: a response channel with room for one.            *)
responseCapOne == 1

(* ch has room for the responses of all jobs.                              *)
responseCap == Len(esiJobs)

(* The job is rendered (an include fetched and parsed, or nothing for a    *)
(* remove, a comment and an unparsable include) and its response sent.     *)
SendResponse(w) ==
    /\ worker[w] = "busy" /\ Len(ch) < responseCap
    /\ ch' = Append(ch, job[w])
    /\ job' = [job EXCEPT ![w] = 0]
    /\ worker' = [worker EXCEPT ![w] = "idle"]
    /\ UNCHANGED <<main, next, esiJobs, results, jobs, closed, received,
                   cancelled, output>>

WorkerExits(w) ==
    /\ worker[w] = "idle" /\ jobs = <<>> /\ closed
    /\ worker' = [worker EXCEPT ![w] = "exited"]
    /\ UNCHANGED <<main, next, esiJobs, results, jobs, closed, job, ch,
                   received, cancelled, output>>

----------------------------------------------------------------------------
(* ResultLoop: the select takes either ready case.                         *)
Receive ==
    /\ main = "collect" /\ received < Len(esiJobs) /\ ch # <<>>
    /\ results' = Append(results, Head(ch))
    /\ ch' = Tail(ch)
    /\ received' = received + 1
    /\ UNCHANGED <<main, next, esiJobs, jobs, closed, worker, job, cancelled,
                   output>>

GiveUp ==
    /\ main = "collect" /\ received < Len(esiJobs) /\ cancelled
    /\ main' = "wait"
    /\ UNCHANGED <<next, esiJobs, results, jobs, closed, worker, job, ch,
                   received, cancelled, output>>

CollectEnds ==
    /\ main = "collect" /\ received = Len(esiJobs)
    /\ main' = "wait"
    /\ UNCHANGED <<next, esiJobs, results, jobs, closed, worker, job, ch,
                   received, cancelled, output>>

(* wg.Wait, then the page is put together.                                 *)
Finish ==
    /\ main = "wait" /\ \A w \in Worker : worker[w] \in {"unborn", "exited"}
    /\ output' = assembleResults(results)
    /\ main' = "returned"
    /\ UNCHANGED <<next, esiJobs, results, jobs, closed, worker, job, ch,
                   received, cancelled>>

(* The request's context is cancelled.                                     *)
Cancel ==
    /\ main # "returned" /\ ~cancelled
    /\ cancelled' = TRUE
    /\ UNCHANGED <<main, next, esiJobs, results, jobs, closed, worker, job,
                   ch, received, output>>

Main == ScanInline \/ ScanJob \/ NoJobs \/ StartPool \/ Feed \/ CloseJobs
        \/ Receive \/ GiveUp \/ CollectEnds \/ Finish

Pool(w) == TakeJob(w) \/ SendResponse(w) \/ WorkerExits(w)

Next == Main \/ (\E w \in Worker : Pool(w)) \/ Cancel

Spec == Init /\ [][Next]_vars

(* Goroutines are scheduled and renderings end (SingleFetch!FetchReturns); *)
(* nothing says that a request is ever cancelled.                          *)
FairSpec ==
    Spec /\ WF_vars(Main) /\ \A w \in Worker : WF_vars(Pool(w))

----------------------------------------------------------------------------
(* The page is complete and in document order whatever the order in which  *)
(* the workers finished; only a cancelled request may lose responses, and  *)
(* then only those of jobs: inline content is always there.                *)
PageInOrder ==
    main = "returned" =>
        /\ \A i, j \in 1..Len(output) : i < j => output[i] < output[j]
        /\ ~cancelled => ToSet(output) = 1..Tokens
        /\ (1..Tokens) \ ToSet(esiJobs) \subseteq ToSet(output)

(* Every job is in exactly one place: not fed yet, in the jobs channel, at *)
(* a worker, in the response channel or in the results.  Nothing is        *)
(* rendered twice or dropped, also when the loop was cancelled: what       *)
(* PageInOrder rests on, and proved in ParsePoolProofs.                    *)
Occurrences(s, j) == Cardinality({i \in 1..Len(s) : s[i] = j})

Unfed == IF main = "scan" THEN esiJobs
         ELSE IF main = "feed" THEN SubSeq(esiJobs, next, Len(esiJobs)) ELSE <<>>

EveryJobOnce ==
    \A j \in ToSet(esiJobs) :
        Occurrences(Unfed, j) + Occurrences(jobs, j) + Occurrences(ch, j)
        + Occurrences(results, j) + Occurrences(job, j) = 1

(* Nobody waits in a send: the jobs channel has room for every job that is *)
(* left to feed, however slow the workers are, and the response channel    *)
(* for the answer of every worker that renders one, also after the         *)
(* collecting loop has given up and nobody reads the channel any more.     *)
SendsNeverBlock ==
    /\ main = "feed" /\ next <= Len(esiJobs) => Len(jobs) < Len(esiJobs)
    /\ \A w \in Worker : worker[w] = "busy" => Len(ch) < responseCap

(* Every MESIParse call returns.                                           *)
ParseReturns == <>(main = "returned")
============================================================================
