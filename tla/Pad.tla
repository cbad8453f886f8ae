-------------------------------- MODULE Pad --------------------------------
(***************************************************************************)
(* The buttons: src/psp/pad.c, and wait_for_release of src/psp/ui.c.       *)
(*                                                                         *)
(* The program knows only of the moments it looks (pad_pressed); what is   *)
(* down is chosen then.  It does not look while a keyboard is up, a radio  *)
(* is joined or a card is written.  `previous` and `held` of pad.c always  *)
(* get the same value, and are one variable here.                          *)
(***************************************************************************)
EXTENDS FiniteSets, FiniteSetsExt, Integers, Sequences

CONSTANTS
    WaitMax,    \* the looks wait_for_release takes at most: 60
    PressMax    \* bound: the buttons down at one time

ASSUME PadAssumption == {WaitMax, PressMax} \subseteq Nat \ {0}

VARIABLES
    exit,       \* exit_asked
    seen,       \* previous, held: what was down at the last look
    wait,       \* the looks wait_for_release has taken; -1 when it is not running
    acted,      \* history: the buttons still down, for all a look can tell, since a
                \* screen or the keyboard did something upon them
    again       \* history: a press has just been acted upon for the second time

padVars == <<seen, wait, acted, again>>

\* The terminal knows more of them, and treats them as it does these.
Buttons == {"cross", "circle", "square", "triangle", "select", "up", "down"}
Samples == {now \in SUBSET Buttons : Cardinality(now) <= PressMax}

PadTypeOK ==
    /\ exit \in BOOLEAN
    /\ seen \in Samples /\ acted \subseteq Buttons
    /\ wait \in -1..WaitMax
    /\ again \in BOOLEAN

PadInit ==
    /\ exit = FALSE
    /\ seen = {} /\ acted = {}
    /\ wait = -1
    /\ again = FALSE

\* pad_pressed's answer.
Pressed(now) == now \ seen

\* pad_pressed, by a screen that acts upon some of what it answers.
Look(now, acts) ==
    /\ seen' = now
    /\ acted' = (acted \intersect now) \union acts
    /\ again' = (acts \intersect acted # {})

\* The first of a screen's `if`s that applies, or none of them.
First(order, now) ==
    LET asked == {i \in DOMAIN order : order[i] \in Pressed(now)}
    IN  IF asked = {} THEN "none" ELSE order[Min(asked)]

\* A screen looks, and acts upon b, or upon nothing.
Press(order, b) ==
    \E now \in Samples :
        /\ First(order, now) = b
        /\ Look(now, IF b = "none" THEN {} ELSE {b})

\* The main thread is not in wait_for_release.
Free == wait = -1

\* while (pad_held() != 0 && frames++ < 60) pad_pressed();
WaitForRelease ==
    /\ ~Free
    /\ IF seen = {} \/ wait = WaitMax
       THEN wait' = -1 /\ UNCHANGED <<seen, acted, again>>
       ELSE wait' = wait + 1 /\ \E now \in Samples : Look(now, {})

=============================================================================
