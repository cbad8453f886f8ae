---------------------------- MODULE MCHandshake ----------------------------
(* Handshake with a budget of a few turns.  PspSlept is what yield_briefly  *)
(* of main.c reports; MCSlept also has a callback that reports nothing.     *)
EXTENDS Handshake

PspSlept == {1}
MCSlept  == {-1, 0, 1, 3}
=============================================================================
