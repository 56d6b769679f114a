--------------------------- MODULE ResponseBuffer ---------------------------
(***************************************************************************)
(* One request through middleware.ResponseWriter and the handler of the    *)
(* integration that uses it (standalone proxy, Caddy, Traefik, RoadRunner):*)
(* the wrapped handler writes into the buffer, the body limit is watched,  *)
(* and the integration then sends the body, the parsed body or a 502.      *)
(*                                                                         *)
(* The bytes of the wrapped handler's body are numbered in the order in    *)
(* which it writes them, so that a lost, repeated or reordered part shows. *)
(* The wrapped handler keeps the contract of http.ResponseWriter: headers  *)
(* first, one final status at most, then the body, which is as long as its *)
(* Content-Length says unless the handler fails.                           *)
(***************************************************************************)
EXTENDS Integers, Sequences

CONSTANTS MaxBytes,     \* bound on the body the wrapped handler writes
          Limit         \* a configured body limit, 0: unlimited

ASSUME BufferAssumption == MaxBytes \in Nat /\ Limit \in Nat

NoLength == -1          \* no Content-Length header
Fragment == 0           \* content that MESIParse put into the page

Integration == {"proxy", "caddy", "traefik", "roadrunner"}
NoBodyStatus == {204, 304}
Status == {200, 404} \union NoBodyStatus
EarlyHints == 103
SwitchingProtocols == 101
BadGateway == 502

VARIABLES
    config,     \* the integration, its options and the request's method
    handler,    \* how far the wrapped handler and the integration are
    header,     \* the header map, shared by the wrapper and the real writer
    rw,         \* the ResponseWriter
    client,     \* what the real http.ResponseWriter has sent
    status,     \* history: the final status of the wrapped handler
    written     \* history: the bytes it wrote

bufferVars == <<config, handler, header, rw, client, status, written>>

Bytes == 1..MaxBytes

BufferTypeOK ==
    /\ config \in [integration : Integration, head : BOOLEAN,
                   maxBody : {0, Limit}, mode : {"pass", "error"},
                   parseOnHeader : BOOLEAN]
    /\ handler \in {"start", "hinted", "headers", "body", "returned",
                    "answered", "failed", "hijacked"}
    /\ header \in [html : BOOLEAN, esi : BOOLEAN,
                   length : NoLength..MaxBytes]
    /\ rw \in [statusCode : Status, body : Seq(Bytes), maxBody : {0, Limit},
               decided : BOOLEAN, watch : BOOLEAN, oversize : BOOLEAN,
               committed : BOOLEAN]
    /\ client \in [status : Status \union {0, SwitchingProtocols, BadGateway},
                   body : Seq(Bytes \union {Fragment}),
                   length : NoLength..(MaxBytes + 1), parsed : BOOLEAN]
    /\ status \in Status
    /\ written \in Seq(Bytes)

(* NewResponseWriter, and SetBodyLimit unless the request is a HEAD.       *)
NewResponseWriter(maxBody) ==
    [statusCode |-> 200, body |-> <<>>, maxBody |-> maxBody,
     decided |-> FALSE, watch |-> FALSE, oversize |-> FALSE,
     committed |-> FALSE]

BufferInit ==
    /\ config \in [integration : Integration, head : BOOLEAN,
                   maxBody : {0, Limit}, mode : {"pass", "error"},
                   parseOnHeader : BOOLEAN]
    /\ handler = "start"
    /\ header = [html |-> FALSE, esi |-> FALSE, length |-> NoLength]
    /\ rw = NewResponseWriter(IF config.head THEN 0 ELSE config.maxBody)
    /\ client = [status |-> 0, body |-> <<>>, length |-> NoLength,
                 parsed |-> FALSE]
    /\ status = 200
    /\ written = <<>>

----------------------------------------------------------------------------
(* The real writer (net/http): the first WriteHeader counts and sends the  *)
(* headers of that moment, a Write sends an implicit 200; 204, 304 and     *)
(* answers to HEAD have no body, 204 and 304 no Content-Length either.     *)
NetWriteHeader(c, code, length) ==
    IF c.status # 0 THEN c
    ELSE [c EXCEPT !.status = code,
                   !.length = IF code \in NoBodyStatus THEN NoLength ELSE length]

NetWrite(c, b) ==
    LET d == NetWriteHeader(c, 200, header.length)
    IN IF config.head \/ d.status \in NoBodyStatus \union {SwitchingProtocols}
       THEN d ELSE [d EXCEPT !.body = @ \o b]

----------------------------------------------------------------------------
(* A step of the wrapper takes the wrapper and the client to new ones.     *)

(* The limit is crossed: pass mode sends what was held back.               *)
trigger(s) ==
    LET pass == config.mode = "pass"
        sent == NetWriteHeader(s.client, s.rw.statusCode, header.length)
    IN [rw |-> [s.rw EXCEPT !.oversize = TRUE, !.committed = pass,
                            !.body = <<>>],
        client |-> IF ~pass THEN s.client
                   ELSE IF s.rw.body = <<>> THEN sent
                   ELSE NetWrite(sent, s.rw.body)]

(* LimitOnlyIf: with parse-on-header only marked pages are limited.        *)
appliesTo == ~config.parseOnHeader \/ header.esi

(* Mutant of decide: 204 and 304 are judged by their Content-Length.       *)
decideAnyStatus(s) ==
    LET limited == s.rw.maxBody > 0 /\ header.html /\ appliesTo
        looked == [s EXCEPT !.rw.decided = TRUE, !.rw.watch = limited]
        tooLong == header.length # NoLength /\ header.length > s.rw.maxBody
    IN IF s.rw.decided THEN s
       ELSE IF limited /\ tooLong THEN trigger(looked) ELSE looked

(* The first Write or WriteHeader looks at the headers.                    *)
decide(s) ==
    LET limited == s.rw.maxBody > 0 /\ header.html /\ appliesTo
        looked == [s EXCEPT !.rw.decided = TRUE, !.rw.watch = limited]
        tooLong == /\ s.rw.statusCode \notin NoBodyStatus
                   /\ header.length # NoLength /\ header.length > s.rw.maxBody
    IN IF s.rw.decided THEN s
       ELSE IF limited /\ tooLong THEN trigger(looked) ELSE looked

Wrapper == [rw |-> rw, client |-> client]

Becomes(s) == rw' = s.rw /\ client' = s.client

(* What Write does with a chunk once the headers have been looked at.      *)
Buffered(s, b) ==
    LET full == s.rw.watch /\ Len(s.rw.body) + Len(b) > s.rw.maxBody
        over == trigger(s)
    IN IF s.rw.committed THEN [s EXCEPT !.client = NetWrite(@, b)]
       ELSE IF s.rw.oversize THEN s
       ELSE IF ~full THEN [s EXCEPT !.rw.body = @ \o b]
       ELSE IF over.rw.committed THEN [over EXCEPT !.client = NetWrite(@, b)]
       ELSE over

----------------------------------------------------------------------------
(* The wrapped handler.  It may read ahead and write in any chunks.        *)

SetHeaders ==
    /\ handler \in {"start", "hinted"}
    /\ header' \in [html : BOOLEAN, esi : BOOLEAN,
                    length : NoLength..MaxBytes]
    /\ handler' = "headers"
    /\ UNCHANGED <<config, rw, client, status, written>>

(* WriteHeader of an informational response (103 Early Hints), which comes *)
(* before the final headers, is ignored.                                   *)
WriteHeaderEarly ==
    /\ handler = "start"
    /\ handler' = "hinted"
    /\ UNCHANGED <<config, header, rw, client, status, written>>

(* WriteHeader of the final status.                                        *)
WriteHeader(code) ==
    /\ handler = "headers"
    /\ status' = code
    /\ Becomes(decide([Wrapper EXCEPT !.rw.statusCode = code]))
    /\ handler' = "body"
    /\ UNCHANGED <<config, header, written>>

BodyAllowed == ~config.head /\ status \notin NoBodyStatus

(* Write of the next n bytes, also without a WriteHeader before it.        *)
Write(n) ==
    LET chunk == [i \in 1..n |-> Len(written) + i]
    IN /\ handler \in {"headers", "body"} /\ BodyAllowed
       /\ Len(written) + n <= IF header.length = NoLength THEN MaxBytes
                              ELSE header.length
       /\ written' = written \o chunk
       /\ Becomes(Buffered(decide(Wrapper), chunk))
       /\ handler' = "body"
       /\ UNCHANGED <<config, header, status>>

(* Flush is forwarded only once the response is being streamed; the real   *)
(* writer has sent its headers by then.                                    *)
Flush ==
    /\ handler \in {"headers", "body"}
    /\ client' = IF rw.committed THEN NetWriteHeader(client, 200, header.length)
                 ELSE client
    /\ UNCHANGED <<config, handler, header, rw, status, written>>

(* The wrapped handler takes the connection over and answers 101 on it.    *)
Hijack ==
    /\ handler = "start"
    /\ client' = NetWriteHeader(client, SwitchingProtocols, NoLength)
    /\ handler' = "hijacked"
    /\ UNCHANGED <<config, header, rw, status, written>>

(* The body is complete: as long as announced, where one is sent.          *)
HandlerReturns ==
    /\ handler \in {"headers", "body", "hijacked"}
    /\ BodyAllowed => header.length \in {NoLength, Len(written)}
    /\ handler' = "returned"
    /\ UNCHANGED <<config, header, rw, client, status, written>>

(* It panics or returns an error: the integration adds nothing.            *)
HandlerFails ==
    /\ handler \in {"start", "hinted", "headers", "body"}
    /\ handler' = "failed"
    /\ UNCHANGED <<config, header, rw, client, status, written>>

----------------------------------------------------------------------------
(* The integration, after the wrapped handler has returned.                *)

(* HandleOversize: 502 in error mode, with the headers dropped (its text   *)
(* is left out); in pass mode everything has been sent.                    *)
HandleOversize ==
    /\ handler = "returned" /\ rw.oversize
    /\ client' = IF config.mode = "error"
                 THEN NetWriteHeader(client, BadGateway, NoLength) ELSE client
    /\ handler' = "answered"
    /\ UNCHANGED <<config, header, rw, status, written>>

Parses == header.html /\ appliesTo

Respond(length, body) ==
    NetWrite(NetWriteHeader(client, rw.statusCode, length), body)

(* Mutant of writeResponse: a bare Write.                                  *)
writeResponseBare ==
    /\ config.integration \in {"proxy", "traefik"}
    /\ client' = NetWrite(client, rw.body)

(* Standalone proxy and Traefik send headers, status and body as they are. *)
writeResponse ==
    /\ config.integration \in {"proxy", "traefik"}
    /\ client' = Respond(header.length, rw.body)

(* Caddy and RoadRunner also set Content-Length from the buffered body.    *)
writeRawResponse ==
    /\ config.integration \in {"caddy", "roadrunner"}
    /\ client' = Respond(Len(rw.body), rw.body)

AnswerRaw ==
    /\ handler = "returned" /\ ~rw.oversize /\ ~Parses
    /\ writeResponse \/ writeRawResponse
    /\ handler' = "answered"
    /\ UNCHANGED <<config, header, rw, status, written>>

(* The page after MESIParse: changed or not, shorter or longer.            *)
MESIParse(page) == {<<>>, page, Append(page, Fragment)}

AnswerParsed ==
    /\ handler = "returned" /\ ~rw.oversize /\ Parses
    /\ \E processed \in MESIParse(rw.body) :
           client' = [Respond(Len(processed), processed) EXCEPT !.parsed = TRUE]
    /\ handler' = "answered"
    /\ UNCHANGED <<config, header, rw, status, written>>

BufferNext ==
    \/ SetHeaders
    \/ WriteHeaderEarly
    \/ \E code \in Status : WriteHeader(code)
    \/ \E n \in 1..MaxBytes : Write(n)
    \/ Flush
    \/ Hijack
    \/ HandlerReturns
    \/ HandlerFails
    \/ HandleOversize
    \/ AnswerRaw
    \/ AnswerParsed

BufferSpec == BufferInit /\ [][BufferNext]_bufferVars

----------------------------------------------------------------------------
(* A completed answer escaped ESI processing, or was refused, because of   *)
(* its size exactly if it would have been parsed, was not for a HEAD, and  *)
(* is longer than the limit: neither the order of WriteHeader, Write and   *)
(* informational responses nor Content-Length changes that.                *)
LimitedExactly ==
    handler = "answered" =>
        (rw.oversize <=> /\ Parses /\ ~config.head /\ config.maxBody > 0
                         /\ Len(written) > config.maxBody)

(* The client gets the handler's status with the whole body, or with what  *)
(* MESIParse made of the whole body, or 502 in error mode; and never a     *)
(* Content-Length that contradicts the body sent.  Nothing of this reaches *)
(* a connection that was taken over.                                       *)
AnswerFaithful ==
    handler = "answered" /\ client.status # SwitchingProtocols =>
        /\ IF rw.oversize /\ config.mode = "error"
           THEN client.status = BadGateway /\ client.body = <<>>
           ELSE /\ client.status = status
                /\ IF client.parsed
                   THEN client.body \in MESIParse(written)
                   ELSE client.body = written
        /\ BodyAllowed => client.length \in {NoLength, Len(client.body)}
============================================================================
