----------------------------- MODULE AtomicFile -----------------------------
(***************************************************************************)
(* What cardfile.h promises of a file that is already on the card: a save  *)
(* either takes effect whole or not at all, at one instant, whether or not *)
(* the program lives to hear about it; a save that answers 0 has taken     *)
(* effect and one that answers -1 has not; a load returns what the last    *)
(* save that took effect was given, or refuses a file that is too large.   *)
(***************************************************************************)
EXTENDS Integers, Sequences

CONSTANTS
    Chunk,      \* what a file is made of
    Texts,      \* the contents a save may be given
    OnCard,     \* what the file may hold to begin with
    MaxLen,     \* a file this long is refused by a load
    Absent      \* "nothing loaded"

VARIABLES
    value,      \* the contents of the file
    phase,      \* off, idle, loading or saving
    arg,        \* what the save in progress was given
    took,       \* whether it has taken effect
    got,        \* what the load returned
    ret         \* what the last call answered

vars == <<value, phase, arg, took, got, ret>>

Init ==
    /\ value \in OnCard
    /\ phase = "off"
    /\ arg = <<>>
    /\ took = FALSE
    /\ got = Absent
    /\ ret = "none"

Return(code) ==
    /\ phase' = "idle"
    /\ arg' = <<>>
    /\ took' = FALSE
    /\ ret' = code

Save(t) ==
    /\ phase = "idle"
    /\ phase' = "saving"
    /\ arg' = t
    /\ got' = Absent
    /\ ret' = "none"
    /\ UNCHANGED <<value, took>>

TakeEffect ==
    /\ phase = "saving"
    /\ ~took
    /\ value' = arg
    /\ took' = TRUE
    /\ UNCHANGED <<phase, arg, got, ret>>

Saved    == phase = "saving" /\ took /\ Return("ok") /\ UNCHANGED <<value, got>>
NotSaved == phase = "saving" /\ ~took /\ Return("failed") /\ UNCHANGED <<value, got>>

Load ==
    /\ phase = "off"
    /\ phase' = "loading"
    /\ UNCHANGED <<value, arg, took, got, ret>>

\* What is in the file is in the caller's buffer; the call has not returned.
Fetch ==
    /\ phase = "loading"
    /\ Len(value) < MaxLen
    /\ got' = value
    /\ UNCHANGED <<value, phase, arg, took, ret>>

Loaded ==
    /\ phase = "loading"
    /\ Len(value) < MaxLen
    /\ got' = value
    /\ Return("ok")
    /\ UNCHANGED value

TooLarge ==
    /\ phase = "loading"
    /\ Len(value) >= MaxLen
    /\ Return("unreadable")
    /\ UNCHANGED <<value, got>>

PowerLoss ==
    /\ phase # "off"
    /\ phase' = "off"
    /\ arg' = <<>>
    /\ took' = FALSE
    /\ got' = Absent
    /\ ret' = "none"
    /\ UNCHANGED value

Next ==
    \/ \E t \in Texts : Save(t)
    \/ TakeEffect \/ Saved \/ NotSaved
    \/ Load \/ Fetch \/ Loaded \/ TooLarge
    \/ PowerLoss

Spec == Init /\ [][Next]_vars
=============================================================================
