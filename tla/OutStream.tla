------------------------------ MODULE OutStream ------------------------------
(***************************************************************************)
(* What the send path promises its callers: the packets appended to        *)
(* send_buf reach the TLS stream once, in the order they were appended,    *)
(* and none is left out.                                                   *)
(***************************************************************************)
EXTENDS Sequences, SequencesExt

VARIABLES
    queued,   \* everything appended, in order
    written   \* everything that went out, in order

Init == queued = << >> /\ written = << >>

\* A caller appends some packets.
Enqueue ==
    /\ IsPrefix(queued, queued')
    /\ written' = written

\* Some of what is still due goes out.
Deliver ==
    /\ IsPrefix(written, written')
    /\ IsPrefix(written', queued)
    /\ queued' = queued

Next == Enqueue \/ Deliver

Spec == Init /\ [][Next]_<< queued, written >>
=============================================================================
