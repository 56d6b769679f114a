---------------------------- MODULE NginxFilter ----------------------------
(***************************************************************************)
(* One response through the header and body filters of the nginx module.   *)
(* The upstream module reads the response into a fixed pool of proxy       *)
(* buffers and hands them down in chains; the filter holds an ESI page     *)
(* back until its last buffer and sends the parsed page instead; the write *)
(* filter below it sends as much as the client takes, in several passes.   *)
(*                                                                         *)
(* The bytes of the upstream body are 1, 2, ...; a byte of a parsed page   *)
(* is 0.  A buffer is named by the number of its last byte, so a chain is  *)
(* an increasing sequence of numbers.  The accumulated bytes and those of  *)
(* a chain are consecutive: after the k-th buffer of a chain new_len is    *)
(* chain[k].                                                               *)
(***************************************************************************)
EXTENDS Integers, Sequences, SequencesExt

CONSTANTS MaxBytes,   \* bound on the upstream body
          MaxPage,    \* bound on the parsed page
          Bufs,       \* proxy buffers of the upstream module
          Chunk,      \* bytes the write filter sends in one pass at most
          PageSize,   \* first allocation (ngx_pagesize)
          Limit       \* a configured mesi_max_body_size, 0: unlimited

ASSUME FilterAssumption ==
    /\ MaxBytes \in Nat /\ MaxPage \in Nat /\ Limit \in Nat
    /\ Bufs \in Nat \ {0} /\ Chunk \in Nat \ {0} /\ PageSize \in Nat \ {0}

VARIABLES
    lcf,      \* the location's configuration, as far as the filters read it
    rsp,      \* the upstream response
    conn,     \* what has become of the request
    head,     \* the header sent to the client
    ctx,      \* the module's context of the request
    read,     \* bytes the upstream module has handed down
    eof,      \* it has handed down the end of the response
    busy,     \* proxy buffers not yet drained
    out,      \* bytes waiting in the write filter (r->out)
    lastOut,  \* the write filter has been given the last buffer
    sent      \* bytes the client has received

vars == <<lcf, rsp, conn, head, ctx, read, eof, busy, out, lastOut, sent>>
tail == <<read, eof, busy, out, lastOut, sent>>

Unknown == -1         \* no Content-Length

Confs == [enable : BOOLEAN, parseOnHeader : {"unset", "off", "on"},
          limit : {0, Limit}, onOversize : {"pass", "error"},
          unenforceable : BOOLEAN,  \* mesi_allowed_hosts, no ParseWithConfig
          lowMemory : BOOLEAN]      \* allocations may fail

Responses == [main : BOOLEAN, headerOnly : BOOLEAN, esiHeader : BOOLEAN,
              parsable : BOOLEAN,   \* HTML, not compressed, status <= 400
              len : 0..MaxBytes, known : BOOLEAN]

Header == [sent : BOOLEAN, length : Unknown..MaxBytes, surrogate : BOOLEAN,
           error500 : BOOLEAN]

(* The upstream bytes from the i-th to the j-th.                           *)
Raw(i, j) == [k \in 1..(j - i + 1) |-> i + k - 1]

Page(n) == [k \in 1..n |-> 0]

TypeOK ==
    /\ lcf \in Confs
    /\ rsp \in Responses
    /\ conn \in {"head", "body", "refused", "aborted"}
    /\ head \in Header
    /\ ctx \in [exists : BOOLEAN, accumulated : Seq(1..MaxBytes),
                capacity : Nat, done : BOOLEAN, passthrough : BOOLEAN]
    /\ read \in 0..MaxBytes /\ eof \in BOOLEAN
    /\ busy \subseteq 1..MaxBytes
    /\ out \in Seq(0..MaxBytes) /\ lastOut \in BOOLEAN
    /\ sent \in Seq(0..MaxBytes)

NoCtx == [exists |-> FALSE, accumulated |-> <<>>, capacity |-> 0,
          done |-> FALSE, passthrough |-> FALSE]

Init ==
    /\ lcf \in Confs /\ rsp \in Responses
    /\ conn = "head"
    /\ head = [sent |-> FALSE, length |-> Unknown, surrogate |-> FALSE,
               error500 |-> FALSE]
    /\ ctx = NoCtx
    /\ read = 0 /\ eof = FALSE /\ busy = {}
    /\ out = <<>> /\ lastOut = FALSE /\ sent = <<>>

----------------------------------------------------------------------------
(* The header filter.                                                      *)

ContentLength == IF rsp.known THEN rsp.len ELSE Unknown

(* parse_on_header is on and no Edge-control header asks for ESI.          *)
Unsignalled == lcf.parseOnHeader = "on" /\ ~rsp.esiHeader

(* Mutant of Skipped: an unsignalled page is buffered and limited, too.    *)
SkippedUnsignalledLimited ==
    \/ ~lcf.enable
    \/ rsp.headerOnly \/ ContentLength = 0
    \/ ~rsp.parsable
    \/ Unsignalled /\ lcf.limit = 0

(* The early returns of the header filter that concern the kind of         *)
(* response, in their order; the body limit is looked at after them.       *)
Skipped ==
    \/ ~lcf.enable
    \/ rsp.headerOnly \/ ContentLength = 0
    \/ ~rsp.parsable
    \/ Unsignalled

KnownTooLong == lcf.limit > 0 /\ ContentLength > lcf.limit

SendHeader(length, surrogate, error500) ==
    head' = [sent |-> TRUE, length |-> length, surrogate |-> surrogate,
             error500 |-> error500]

(* Header filters below are called, the response is not touched.           *)
HeadPass ==
    /\ conn = "head"
    /\ \/ Skipped
       \/ KnownTooLong /\ lcf.onOversize = "pass"
       \/ ~KnownTooLong /\ ~lcf.unenforceable /\ lcf.lowMemory \* no header cell
    /\ SendHeader(ContentLength, FALSE, FALSE)
    /\ conn' = "body"
    /\ UNCHANGED <<lcf, rsp, ctx, tail>>

HeadRefuse ==
    /\ conn = "head" /\ ~Skipped /\ KnownTooLong /\ lcf.onOversize = "error"
    /\ conn' = "refused"
    /\ UNCHANGED <<lcf, rsp, head, ctx, tail>>

(* Allowed hosts that cannot be enforced: status 500, and no context.      *)
HeadUnenforceable ==
    /\ conn = "head" /\ ~Skipped /\ ~KnownTooLong /\ lcf.unenforceable
    /\ SendHeader(ContentLength, FALSE, TRUE)
    /\ conn' = "body"
    /\ UNCHANGED <<lcf, rsp, ctx, tail>>

HeadNoContext ==
    /\ conn = "head" /\ ~Skipped /\ ~KnownTooLong /\ ~lcf.unenforceable
    /\ lcf.lowMemory
    /\ conn' = "aborted"
    /\ UNCHANGED <<lcf, rsp, head, ctx, tail>>

(* Mutant of HeadProcess: Content-Length stays.                            *)
HeadProcessKeepLength ==
    /\ conn = "head" /\ ~Skipped /\ ~KnownTooLong /\ ~lcf.unenforceable
    /\ ctx' = [ctx EXCEPT !.exists = TRUE]
    /\ SendHeader(ContentLength, TRUE, FALSE)
    /\ conn' = "body"
    /\ UNCHANGED <<lcf, rsp, tail>>

HeadProcess ==
    /\ conn = "head" /\ ~Skipped /\ ~KnownTooLong /\ ~lcf.unenforceable
    /\ ctx' = [ctx EXCEPT !.exists = TRUE]
    /\ SendHeader(IF rsp.main THEN Unknown ELSE ContentLength, TRUE, FALSE)
    /\ conn' = "body"
    /\ UNCHANGED <<lcf, rsp, tail>>

HeadFilter ==
    HeadPass \/ HeadRefuse \/ HeadUnenforceable \/ HeadNoContext \/ HeadProcess

----------------------------------------------------------------------------
(* The write filter: bytes and the last-buffer mark are appended, and the  *)
(* client takes some.  A proxy buffer in the chain is drained when its     *)
(* last byte has gone out.                                                 *)
WriteFilter(bytes, last, held) ==
    LET pending == out \o bytes IN
    \E n \in 0..Chunk :
      /\ n <= Len(pending)
      /\ sent' = sent \o SubSeq(pending, 1, n)
      /\ out' = SubSeq(pending, n + 1, Len(pending))
      /\ busy' = {e \in busy \union held : \A i \in 1..Len(sent') : sent'[i] # e}
      /\ lastOut' = (lastOut \/ last)

(* The same when the filter keeps the chain to itself.                     *)
NotForwarded(held) ==
    /\ busy' = busy \union held
    /\ UNCHANGED <<out, lastOut, sent>>

----------------------------------------------------------------------------
(* The body filter.                                                        *)

BufsOf(chain) == {chain[k] : k \in 1..Len(chain)}

(* The end of a chain and of what it brings the bytes up to.               *)
End(chain) == IF chain = <<>> THEN read ELSE chain[Len(chain)]

Over(k, chain) == lcf.limit > 0 /\ chain[k] > lcf.limit

(* Mutant of TooLong: a body of exactly the limit is too long.             *)
TooLongAtLimit(chain) ==
    \E k \in 1..Len(chain) : lcf.limit > 0 /\ chain[k] >= lcf.limit

TooLong(chain) == \E k \in 1..Len(chain) : Over(k, chain)

(* The capacity after j rounds of doubling, for j up to n.                 *)
Doubled(first, n) ==
    LET c[j \in 0..n] == IF j = 0 THEN first ELSE 2 * c[j - 1]
    IN c

(* The capacity when the doubling stops: the first one that is enough.     *)
Enough(cap, newLen) ==
    LET c == Doubled(IF cap = 0 THEN PageSize ELSE cap, newLen)
    IN c[CHOOSE j \in 0..newLen :
           c[j] >= newLen /\ \A i \in 0..(j - 1) : c[i] < newLen]

(* Mutant of Grown: the doubled capacity is not cut to the limit.          *)
GrownUncut(cap, newLen) == IF newLen <= cap THEN cap ELSE Enough(cap, newLen)

(* The capacity after a buffer has brought the length to newLen.           *)
Grown(cap, newLen) ==
    IF newLen <= cap THEN cap
    ELSE IF lcf.limit > 0 /\ Enough(cap, newLen) > lcf.limit THEN lcf.limit
    ELSE Enough(cap, newLen)

(* The capacity after all buffers of a chain.                              *)
Capacity(cap, chain) ==
    LET c[i \in 0..Len(chain)] == IF i = 0 THEN cap ELSE Grown(c[i - 1], chain[i])
    IN c[Len(chain)]

Accumulating == lcf.enable /\ ctx.exists /\ ~ctx.passthrough

(* No context, or a body found too long earlier: the chain goes on.        *)
Forward(chain, last) ==
    /\ ~Accumulating
    /\ WriteFilter(Raw(read + 1, End(chain)), last, BufsOf(chain))
    /\ UNCHANGED <<conn, ctx>>

(* Mutant of Accumulate: the buffers keep their position, so the upstream  *)
(* module takes them for unsent.                                           *)
AccumulateUndrained(chain) ==
    /\ Accumulating /\ ~ctx.done /\ ~TooLong(chain)
    /\ ctx' = [ctx EXCEPT !.accumulated = @ \o Raw(read + 1, End(chain)),
                          !.capacity = Capacity(@, chain)]
    /\ NotForwarded(BufsOf(chain))
    /\ UNCHANGED conn

(* The chain is copied and its buffers are marked consumed.                *)
Accumulate(chain) ==
    /\ Accumulating /\ ~ctx.done /\ ~TooLong(chain)
    /\ ctx' = [ctx EXCEPT !.accumulated = @ \o Raw(read + 1, End(chain)),
                          !.capacity = Capacity(@, chain)]
    /\ NotForwarded({})
    /\ UNCHANGED conn

(* With the last buffer the page is parsed and sent.  Setting              *)
(* content_length_n then has no effect: the header has been sent.          *)
ParseAndSend(chain) ==
    /\ Accumulating /\ ~ctx.done /\ ~TooLong(chain)
    /\ ctx' = [ctx EXCEPT !.accumulated = @ \o Raw(read + 1, End(chain)),
                          !.capacity = Capacity(@, chain),
                          !.done = TRUE]
    /\ \E n \in 0..MaxPage : WriteFilter(Page(n), TRUE, {})
    /\ UNCHANGED conn

(* Mutant of GiveUp: only the buffer that crossed the limit and the rest   *)
(* are sent.                                                               *)
GiveUpForgetful(chain, last) ==
    /\ Accumulating /\ ~ctx.done /\ TooLong(chain) /\ lcf.onOversize = "pass"
    /\ ctx' = [ctx EXCEPT !.passthrough = TRUE]
    /\ WriteFilter(Raw(read + 1, End(chain)), last, BufsOf(chain))
    /\ UNCHANGED conn

(* Too long, pass: what was accumulated is sent, the buffers of this chain *)
(* up to the limit included, then the k-th, which crossed it, and the rest.*)
GiveUp(chain, last) ==
    /\ Accumulating /\ ~ctx.done /\ lcf.onOversize = "pass"
    /\ \E k \in 1..Len(chain) :
         /\ Over(k, chain) /\ \A j \in 1..(k - 1) : ~Over(j, chain)
         /\ LET within == SubSeq(chain, 1, k - 1)
                copied == Raw(read + 1, End(within))
            IN /\ ctx' = [ctx EXCEPT !.passthrough = TRUE,
                                     !.accumulated = @ \o copied,
                                     !.capacity = Capacity(@, within)]
               /\ WriteFilter(ctx'.accumulated \o Raw(End(within) + 1, End(chain)),
                              last, BufsOf(chain) \ BufsOf(within))
    /\ UNCHANGED conn

(* Too long, error: the connection is dropped.                             *)
Abort(chain) ==
    /\ Accumulating /\ ~ctx.done /\ TooLong(chain) /\ lcf.onOversize = "error"
    /\ conn' = "aborted"
    /\ NotForwarded(BufsOf(chain))
    /\ UNCHANGED ctx

(* A buffer, a chain link or the accumulated data cannot be allocated.     *)
NoMemory(chain) ==
    /\ Accumulating /\ ~ctx.done /\ lcf.lowMemory
    /\ conn' = "aborted"
    /\ NotForwarded(BufsOf(chain))
    /\ UNCHANGED ctx

BodyFilter(chain, last) ==
    \/ Forward(chain, last)
    \/ IF last THEN ParseAndSend(chain) ELSE Accumulate(chain)
    \/ GiveUp(chain, last)
    \/ Abort(chain)
    \/ NoMemory(chain)

(* The call without a chain, with which the writer asks the filters below  *)
(* to send what they hold.                                                 *)
BodyFilterNull == WriteFilter(<<>>, FALSE, {})

----------------------------------------------------------------------------
(* The upstream module and the writer, which call the filters.             *)

Free == Bufs - Cardinality(busy)

Chains == {c \in UNION {[1..n -> (read + 1)..rsp.len] : n \in 1..Free} :
               \A i, j \in DOMAIN c : i < j => c[i] < c[j]}

Streaming == conn = "body" /\ ~eof /\ ~rsp.headerOnly

(* Bytes from upstream fill free buffers.  A body of known origin, such as *)
(* a file, may carry the end mark in its last buffer; only that of a main  *)
(* request is last_buf.                                                    *)
Receive ==
    /\ Streaming /\ read < rsp.len
    /\ \E chain \in Chains, final \in BOOLEAN :
         /\ final => End(chain) = rsp.len
         /\ BodyFilter(chain, final /\ rsp.main)
         /\ read' = End(chain)
         /\ eof' = final
    /\ UNCHANGED <<lcf, rsp, head>>

(* The end of the response in a buffer of its own.                         *)
Finish ==
    /\ Streaming /\ read = rsp.len
    /\ BodyFilter(<<>>, rsp.main)
    /\ eof' = TRUE
    /\ UNCHANGED <<lcf, rsp, head, read>>

(* A header-only answer ends with its header.                              *)
FinishHead ==
    /\ conn = "body" /\ rsp.headerOnly /\ ~eof
    /\ eof' = TRUE /\ lastOut' = TRUE
    /\ UNCHANGED <<lcf, rsp, conn, head, ctx, read, busy, out, sent>>

(* ngx_http_writer, while the write filter holds bytes.                    *)
Wake ==
    /\ conn = "body" /\ out # <<>>
    /\ BodyFilterNull
    /\ UNCHANGED <<lcf, rsp, conn, head, ctx, read, eof>>

Completed == conn = "body" /\ eof /\ lastOut /\ out = <<>>

Next == HeadFilter \/ Receive \/ Finish \/ FinishHead \/ Wake

(* The upstream delivers, and a client that can take bytes takes some.     *)
Fairness ==
    /\ WF_vars(HeadFilter)
    /\ WF_vars(Receive) /\ WF_vars(Finish) /\ WF_vars(FinishHead)
    /\ WF_vars(Wake /\ sent' # sent)

Spec == Init /\ [][Next]_vars /\ Fairness

----------------------------------------------------------------------------
Promise == INSTANCE PageFilter WITH
    Pages <- {Page(n) : n \in 0..MaxPage},
    body <- IF rsp.headerOnly THEN <<>> ELSE Raw(1, rsp.len),
    answer <- sent \o out,
    ended <- lastOut \/ conn \in {"refused", "aborted"}

(* Whatever the chains, the limit, the passes of the writer and the        *)
(* allocations that fail, the client gets the upstream body as it is, or   *)
(* one parsed page, or nothing: bytes held back are neither lost, sent     *)
(* twice nor mixed with a page, and nothing follows the last buffer.       *)
ImplementsPageFilter == Promise!Spec

(* A Content-Length the client has been told is the length of the body it  *)
(* gets.  (Header filter: the length is cleared for a page that may be     *)
(* replaced.)                                                              *)
LengthHonest ==
    Completed /\ rsp.main /\ ~rsp.headerOnly /\ head.length # Unknown
        => Len(sent) = head.length

(* The buffer of a page never exceeds mesi_max_body_size, the spare room   *)
(* of its geometric growth included, and always holds what is in it.       *)
BufferWithinLimit ==
    /\ Len(ctx.accumulated) <= ctx.capacity
    /\ lcf.limit > 0 => ctx.capacity <= lcf.limit

(* A page of a main request is processed if and only if it is no longer    *)
(* than the limit, whether its length was known at the header or found out *)
(* chunk by chunk; a longer one is sent unchanged or fails, as             *)
(* mesi_on_oversize says.                                                  *)
LimitExact ==
    LET fits == lcf.limit = 0 \/ rsp.len <= lcf.limit
        page == rsp.main /\ ~Skipped /\ ~lcf.unenforceable /\ ~lcf.lowMemory
    IN page => /\ Completed /\ lcf.onOversize = "error" => fits
               /\ Completed => (ctx.done <=> fits)
               /\ conn \in {"refused", "aborted"} =>
                    ~fits /\ lcf.onOversize = "error"

(* A page nobody asked to process, and any other response the module is    *)
(* not meant for, reaches the client with its upstream header, without     *)
(* Surrogate-Capability, unbuffered and exempt from the limit.             *)
OthersUntouched ==
    conn # "head" /\ (~lcf.enable \/ ~rsp.parsable \/ Unsignalled) =>
        /\ conn = "body" /\ ctx = NoCtx
        /\ ~head.surrogate /\ ~head.error500 /\ head.length = ContentLength

(* Every response of a main request ends: proxy buffers the filter holds   *)
(* back do not starve the upstream module, and what the client did not     *)
(* take in the first pass is sent by a later one.                          *)
ResponseCompletes ==
    <>(rsp.main => Completed \/ conn \in {"refused", "aborted"})

============================================================================
