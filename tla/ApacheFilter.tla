---------------------------- MODULE ApacheFilter ----------------------------
(***************************************************************************)
(* One response through the output filter of the Apache module.  A handler *)
(* passes the response down in brigades of buckets; the filter moves the   *)
(* buckets of an ESI page into a brigade of its own until the end-of-      *)
(* stream bucket, then passes the parsed page on.  The header goes out     *)
(* with the first brigade that is passed on.                               *)
(*                                                                         *)
(* The bytes of the body are 1, 2, ... and none of them is NUL; a byte of  *)
(* a parsed page is 0.  A bucket is named by the number of its last byte.  *)
(* Until the limit is crossed every byte that came is in the filter's      *)
(* brigade, so ctx->total after the k-th bucket of a brigade is            *)
(* brigade[k].                                                             *)
(***************************************************************************)
EXTENDS Integers, Sequences, SequencesExt

CONSTANTS MaxBytes,   \* bound on the body
          MaxPage,    \* bound on the parsed page
          Limit       \* a configured MesiMaxBodySize, 0: unlimited

ASSUME FilterAssumption == MaxBytes \in Nat /\ MaxPage \in Nat /\ Limit \in Nat

VARIABLES
    conf,       \* the configuration of the virtual host, as the filter reads it
    rsp,        \* what the handler produces
    installed,  \* the filter is in the request's filter chain
    head,       \* headers_out and status; final once sent
    ctx,        \* the filter's context
    read,       \* bytes the handler has passed down
    eof,        \* the handler has passed down the end of the response
    answer,     \* bytes passed on
    ended       \* the end-of-stream bucket has been passed on

vars == <<conf, rsp, installed, head, ctx, read, eof, answer, ended>>

Unknown == -1         \* no Content-Length
Garbage == MaxBytes + 1

Confs == [enable : BOOLEAN, parseOnHeader : BOOLEAN,
          limit : {0, Limit}, onOversize : {"pass", "error"},
          unenforceable : BOOLEAN]  \* no library, or a security directive
                                    \* and no ParseWithConfig

Responses ==
    {q \in [html : BOOLEAN,         \* text/html, status below 400
            signalled : BOOLEAN,    \* Edge-control: dca=esi
            bodiless : BOOLEAN,     \* HEAD, 204, 304
            unreadable : BOOLEAN,   \* the body cannot be flattened
            len : 0..MaxBytes, declared : Unknown..MaxBytes] :
       ~q.bodiless => q.declared \in {Unknown, q.len}}

Raw(i, j) == [k \in 1..(j - i + 1) |-> i + k - 1]
Page(n) == [k \in 1..n |-> 0]

NoCtx == [bb |-> <<>>, lent |-> {}, passthrough |-> FALSE]

TypeOK ==
    /\ conf \in Confs /\ rsp \in Responses
    /\ installed \in {"not yet", "yes", "no"}
    /\ head \in [sent : BOOLEAN, status : {"ok", "500", "502"},
                 length : Unknown..MaxBytes, surrogate : BOOLEAN]
    /\ ctx \in [bb : Seq(1..Garbage), lent : SUBSET (1..MaxBytes),
                passthrough : BOOLEAN]
    /\ read \in 0..MaxBytes /\ eof \in BOOLEAN
    /\ answer \in Seq(0..Garbage) /\ ended \in BOOLEAN

Init ==
    /\ conf \in Confs /\ rsp \in Responses
    /\ installed = "not yet"
    /\ head = [sent |-> FALSE, status |-> "ok", length |-> rsp.declared,
               surrogate |-> FALSE]
    /\ ctx = NoCtx
    /\ read = 0 /\ eof = FALSE /\ answer = <<>> /\ ended = FALSE

(* mesi_request_handler, before any handler runs.                          *)
mesi_request_handler ==
    /\ installed = "not yet"
    /\ installed' = IF conf.enable THEN "yes" ELSE "no"
    /\ head' = [head EXCEPT !.surrogate = conf.enable]
    /\ UNCHANGED <<conf, rsp, ctx, read, eof, answer, ended>>

----------------------------------------------------------------------------
(* The filters below: the header is final with the first brigade, and a    *)
(* bodiless answer goes without its body.                                  *)
PassBrigade(bytes, eos, header) ==
    /\ answer' = answer \o (IF rsp.bodiless THEN <<>> ELSE bytes)
    /\ ended' = (ended \/ eos)
    /\ head' = IF head.sent THEN head ELSE [header EXCEPT !.sent = TRUE]

End(brigade) == IF brigade = <<>> THEN read ELSE brigade[Len(brigade)]

Unsignalled == conf.parseOnHeader /\ ~rsp.signalled

Buffering == installed = "yes" /\ rsp.html /\ ~Unsignalled /\ ~ctx.passthrough

(* The filter is not there, or is in the way of a body found too long.     *)
PassOn(brigade, eos) ==
    /\ installed = "no" \/ ctx.passthrough
    /\ PassBrigade(Raw(read + 1, End(brigade)), eos, head)
    /\ UNCHANGED <<installed, ctx>>

(* A response that is not for the filter; a page nobody asked to process   *)
(* loses the capability header as well.                                    *)
Skip(brigade, eos) ==
    /\ installed = "yes" /\ (~rsp.html \/ Unsignalled)
    /\ installed' = "no"
    /\ PassBrigade(Raw(read + 1, End(brigade)), eos,
                   IF rsp.html THEN [head EXCEPT !.surrogate = FALSE] ELSE head)
    /\ UNCHANGED ctx

Limited == conf.limit > 0 /\ ~rsp.bodiless

DeclaredTooLong == Limited /\ rsp.declared > conf.limit

(* Mutant of TooLong: a body of exactly the limit is too long.             *)
TooLongAtLimit(brigade) ==
    \/ DeclaredTooLong
    \/ Limited /\ \E k \in 1..Len(brigade) : brigade[k] >= conf.limit

TooLong(brigade) ==
    \/ DeclaredTooLong
    \/ Limited /\ \E k \in 1..Len(brigade) : brigade[k] > conf.limit

(* The bytes held back.  Those still in the memory of the handler have     *)
(* been overwritten by the time of the next brigade.                       *)
Held == [i \in DOMAIN ctx.bb |->
           IF ctx.bb[i] \in ctx.lent THEN Garbage ELSE ctx.bb[i]]

(* Both brigades are dropped and an error bucket is passed on instead; the *)
(* error makes the handler stop.                                           *)
Refuse(brigade) ==
    /\ Buffering /\ TooLong(brigade) /\ conf.onOversize = "error"
    /\ installed' = "no"
    /\ ctx' = [ctx EXCEPT !.bb = <<>>]
    /\ PassBrigade(<<>>, TRUE, [head EXCEPT !.status = "502", !.length = Unknown])

(* What was held back and the rest are passed on, the end-of-stream bucket *)
(* of the rest included.                                                   *)
GiveUp(brigade, eos) ==
    /\ Buffering /\ TooLong(brigade) /\ conf.onOversize = "pass"
    /\ ctx' = [ctx EXCEPT !.bb = <<>>, !.passthrough = TRUE]
    /\ PassBrigade(Held \o Raw(read + 1, End(brigade)), eos, head)
    /\ UNCHANGED installed

(* Mutant of Moved: the memory of the bytes stays the handler's.           *)
MovedTransient(brigade) ==
    [ctx EXCEPT !.bb = Held \o Raw(read + 1, End(brigade)),
                !.lent = @ \union ((read + 1)..End(brigade))]

(* The brigade is moved into the filter's own; bytes in the handler's      *)
(* memory are copied (apr_bucket_setaside), so none stays lent.            *)
Moved(brigade) == [ctx EXCEPT !.bb = Held \o Raw(read + 1, End(brigade))]

(* Not the last brigade.                                                   *)
Hold(brigade) ==
    /\ Buffering /\ ~TooLong(brigade)
    /\ ctx' = Moved(brigade)
    /\ UNCHANGED <<installed, head, answer, ended>>

(* Mutant of EndRaw: the end-of-stream bucket taken out of the brigade is  *)
(* not put back.                                                           *)
EndRawOpen(brigade) ==
    LET whole == Moved(brigade).bb IN
    /\ Buffering /\ ~TooLong(brigade)
    /\ rsp.unreadable \/ whole = <<>> \/ conf.unenforceable
    /\ ctx' = [ctx EXCEPT !.bb = <<>>]
    /\ PassBrigade(whole, FALSE, head)
    /\ UNCHANGED installed

(* The page is complete: it is passed on unparsed when it is empty or      *)
(* cannot be flattened, or when no parse may be tried, ...                 *)
EndRaw(brigade) ==
    LET whole == Moved(brigade).bb IN
    /\ Buffering /\ ~TooLong(brigade)
    /\ rsp.unreadable \/ whole = <<>> \/ conf.unenforceable
    /\ ctx' = [ctx EXCEPT !.bb = <<>>]
    /\ PassBrigade(whole, TRUE, head)
    /\ UNCHANGED installed

Parses(brigade) ==
    /\ Buffering /\ ~TooLong(brigade)
    /\ ~rsp.unreadable /\ Moved(brigade).bb # <<>> /\ ~conf.unenforceable

(* Mutant of EndParsed: the length of the unparsed page is sent.           *)
EndParsedKeepLength(brigade) ==
    /\ Parses(brigade)
    /\ ctx' = [ctx EXCEPT !.bb = <<>>]
    /\ \E n \in 0..MaxPage : PassBrigade(Page(n), TRUE, head)
    /\ UNCHANGED installed

(* ... replaced by the parsed page, ...                                    *)
EndParsed(brigade) ==
    /\ Parses(brigade)
    /\ ctx' = [ctx EXCEPT !.bb = <<>>]
    /\ \E n \in 0..MaxPage :
         PassBrigade(Page(n), TRUE, [head EXCEPT !.length = Unknown])
    /\ UNCHANGED installed

(* ... or fails, when the library returns NULL.                            *)
EndFailed(brigade) ==
    /\ Parses(brigade)
    /\ ctx' = [ctx EXCEPT !.bb = <<>>]
    /\ PassBrigade(<<>>, TRUE, [head EXCEPT !.status = "500", !.length = Unknown])
    /\ UNCHANGED installed

mesi_response_filter(brigade, eos) ==
    \/ PassOn(brigade, eos)
    \/ Skip(brigade, eos)
    \/ Refuse(brigade)
    \/ GiveUp(brigade, eos)
    \/ ~eos /\ Hold(brigade)
    \/ eos /\ (EndRaw(brigade) \/ EndParsed(brigade) \/ EndFailed(brigade))

----------------------------------------------------------------------------
(* The handler.                                                            *)

Brigades == {c \in UNION {[1..n -> (read + 1)..rsp.len] : n \in 0..MaxBytes} :
                \A i, j \in DOMAIN c : i < j => c[i] < c[j]}

(* A brigade is passed down, once the filter has returned from the one     *)
(* before.                                                                 *)
Deliver ==
    /\ installed # "not yet" /\ ~eof
    /\ \E brigade \in Brigades, eos \in BOOLEAN :
         /\ eos => End(brigade) = rsp.len
         /\ eos \/ brigade # <<>>
         /\ mesi_response_filter(brigade, eos)
         /\ read' = End(brigade)
         /\ eof' = (eos \/ head'.status = "502")
    /\ UNCHANGED <<conf, rsp>>

Next == mesi_request_handler \/ Deliver

(* The handler goes on to the end of its response.                         *)
Fairness == WF_vars(mesi_request_handler) /\ WF_vars(Deliver)

Spec == Init /\ [][Next]_vars /\ Fairness

----------------------------------------------------------------------------
Promise == INSTANCE PageFilter WITH
    Pages <- {Page(n) : n \in 0..MaxPage},
    body <- IF rsp.bodiless THEN <<>> ELSE Raw(1, rsp.len)

(* However the handler cuts the response into brigades and reuses its      *)
(* memory, the client gets the body as it is, or one page, or nothing:     *)
(* bytes held back are neither lost, sent twice nor mixed with a page, and *)
(* nothing follows the end of the stream.                                  *)
ImplementsPageFilter == Promise!Spec

(* A Content-Length the client has been told is the length of the body it  *)
(* gets.  (The header is taken down before a page, and only then.)         *)
LengthHonest ==
    ended /\ ~rsp.bodiless /\ head.length # Unknown => Len(answer) = head.length

(* No more than MesiMaxBodySize bytes of a response with a body are held,  *)
(* and one is parsed, or tried, if and only if it is no longer than that,  *)
(* whether its length was declared or found out brigade by brigade; a      *)
(* longer one is sent unchanged or answered with 502, as MesiOnOversize    *)
(* says.                                                                   *)
LimitExact ==
    LET page == conf.enable /\ rsp.html /\ ~Unsignalled /\ Limited
        fits == rsp.len <= conf.limit
    IN page => /\ Len(ctx.bb) <= conf.limit
               /\ ended /\ fits => head.status # "502" /\ ~ctx.passthrough
               /\ ended /\ ~fits => IF conf.onOversize = "error"
                                    THEN head.status = "502"
                                    ELSE answer = Raw(1, rsp.len)

(* Every response that the handler ends has its end passed on, exactly as  *)
(* often as it was taken out of a brigade.                                 *)
ResponseCompletes == <>ended

============================================================================
