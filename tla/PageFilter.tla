----------------------------- MODULE PageFilter -----------------------------
(***************************************************************************)
(* What a server module promises of one response, however the body comes   *)
(* in: the client gets the body as it is, piece by piece if need be, or    *)
(* one parsed page in its place, or nothing at all.  A page or a failure   *)
(* is only possible while nothing of the body has been let through.        *)
(***************************************************************************)
EXTENDS Sequences, SequencesExt

CONSTANT Pages    \* the pages a parse may yield

VARIABLES
    body,         \* the body of the response
    answer,       \* the bytes let through to the client
    ended         \* the end of the answer has been let through

Init == answer = <<>> /\ ended = FALSE

Pass ==
    /\ IsPrefix(answer, answer') /\ IsPrefix(answer', body)
    /\ ended' => answer' = body

Replace == answer = <<>> /\ answer' \in Pages /\ ended'

Fail == answer = <<>> /\ answer' = <<>> /\ ended'

Next == ~ended /\ (Pass \/ Replace \/ Fail) /\ UNCHANGED body

Spec == Init /\ [][Next]_<<body, answer, ended>>

============================================================================
