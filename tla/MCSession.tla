----------------------------- MODULE MCSession -----------------------------
(* Session with one button at a time, each wait one or two frames long, a   *)
(* list of one or two hosts and as many rows, two saved connections, a      *)
(* handshake of one turn, reads of one or two, sends of at most two bytes   *)
(* and two turns of patience.                                               *)
EXTENDS Session

PspSlept == {1}
Two      == {1, 2}
=============================================================================
