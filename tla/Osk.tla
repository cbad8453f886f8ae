-------------------------------- MODULE Osk --------------------------------
(***************************************************************************)
(* osk_prompt of src/psp/osk.c, and the system's dialog that it starts,    *)
(* polls and puts down again.  The dialog runs on its own threads: between *)
(* any two steps it may appear, be dismissed by the user, or go away once  *)
(* it was told to.  It may also fail to start, or never appear.            *)
(***************************************************************************)
EXTENDS Pad

CONSTANTS
    LeftoverMax,    \* how long drain_any_leftover waits: 300
    AppearMax,      \* how long a dialog may take to appear: 300
    CloseMax        \* the end of the wait for one given up: 600

ASSUME OskAssumption ==
    /\ {LeftoverMax, AppearMax, CloseMax} \subseteq Nat \ {0}
    /\ AppearMax < CloseMax /\ LeftoverMax <= CloseMax

VARIABLES
    dialog,     \* the dialog; sceUtilityOskGetStatus has one word for none and asked
    told,       \* sceUtilityOskShutdownStart was called for it
    panel,      \* data.result; unset, it reads as PSP_UTILITY_OSK_RESULT_UNCHANGED
    osk,        \* where osk_prompt is
    appeared,   \* whether it has seen the dialog
    waiting,    \* the frames it has waited
    reply       \* what it returned, until its caller has looked at it

dialogVars == <<dialog, told, panel>>
promptVars == <<osk, appeared, waiting, reply>>
oskVars    == <<dialogVars, promptVars>>

Up     == {"asked", "init", "visible", "quit", "finished"}
Status == IF dialog = "asked" THEN "none" ELSE dialog

\* OSK_ENTERED is the first two; who confirmed it is history.
Replies == {"confirmed", "unconfirmed", "cancelled", "unavailable"}

OskTypeOK ==
    /\ dialog \in Up \union {"none"}
    /\ told \in BOOLEAN
    /\ panel \in {"unset", "unchanged", "changed", "cancelled"}
    /\ osk \in {"idle", "leftover", "start", "poll", "flip", "last", "giveUp"}
    /\ appeared \in BOOLEAN
    /\ waiting \in 0..CloseMax
    /\ reply \in Replies \union {"none"}

OskInit ==
    /\ dialog = "none" /\ told = FALSE /\ panel = "unset"
    /\ osk = "idle" /\ appeared = FALSE /\ waiting = 0
    /\ reply = "none"

-----------------------------------------------------------------------------
(* The dialog, and the user in front of it. *)

promptKept == <<exit, padVars, promptVars>>

Appears ==
    /\ \/ dialog = "asked" /\ dialog' = "init"
       \/ dialog = "init" /\ dialog' = "visible"
    /\ UNCHANGED <<told, panel, promptKept>>

\* Confirmed or cancelled, with X or O: which is which is a system setting.
Dismissed ==
    /\ dialog = "visible" /\ ~told
    /\ dialog' = "quit"
    /\ panel' \in {"unchanged", "changed", "cancelled"}
    /\ \E b \in {"cross", "circle"} : acted' = {b}
    /\ UNCHANGED <<told, exit, seen, wait, again, promptVars>>

\* A panel put down under the user's hands may say so, or leave its result alone.
GoesAway ==
    /\ told
    /\ \/ dialog \in {"visible", "quit"} /\ dialog' = "finished"
       \/ dialog \in {"asked", "init", "finished"} /\ dialog' = "none"
    /\ told' = (dialog' # "none")
    /\ panel' \in IF dialog = "visible" THEN {panel, "cancelled"} ELSE {panel}
    /\ UNCHANGED promptKept

Dialog == Appears \/ Dismissed \/ GoesAway

-----------------------------------------------------------------------------
(* osk_prompt *)

oskKept == <<exit, padVars>>

\* What still stands by then is as good as finished: the next osk_prompt only
\* waits for it to be gone.
Returns(a) ==
    /\ osk' = "idle" /\ reply' = a
    /\ appeared' = FALSE /\ waiting' = 0
    /\ panel' = "unset"
    /\ dialog' = IF dialog \in {"none", "asked"} THEN dialog ELSE "finished"
    /\ UNCHANGED told

ShutdownStart == told' = (dialog # "none")

\* drain_any_leftover, up to its loop.
Prompt ==
    /\ osk = "idle" /\ reply = "none"
    /\ IF Status = "none" THEN osk' = "start" /\ UNCHANGED told
       ELSE osk' = "leftover" /\ ShutdownStart
    /\ UNCHANGED <<dialog, panel, appeared, waiting, reply, oskKept>>

Leftover ==
    /\ osk = "leftover"
    /\ IF Status = "none" \/ waiting = LeftoverMax
       THEN osk' = "start" /\ waiting' = 0
       ELSE waiting' = waiting + 1 /\ UNCHANGED osk
    /\ UNCHANGED <<dialogVars, appeared, reply, oskKept>>

\* sceUtilityOskInitStart
Start ==
    /\ osk = "start" /\ dialog = "none"
    /\ dialog' = "asked" /\ told' = FALSE /\ panel' = "unset"
    /\ osk' = "poll"
    /\ UNCHANGED <<appeared, waiting, reply, oskKept>>

\* It does with a dialog still standing, and may for reasons of its own.
StartFails ==
    /\ osk = "start"
    /\ Returns("unavailable")
    /\ UNCHANGED oskKept

\* Mutant: no dialog taken for one that has come down ("ended this loop on its
\* first frame", osk.c).
PollNoneIsOver ==
    /\ osk = "poll"
    /\ appeared' = (appeared \/ Status = "visible")
    /\ IF Status = "quit" THEN ShutdownStart ELSE UNCHANGED told
    /\ osk' = IF Status \in {"finished", "none"} THEN "last" ELSE "flip"
    /\ UNCHANGED <<dialog, panel, waiting, reply, oskKept>>

\* The switch on the status.
Poll ==
    /\ osk = "poll"
    /\ appeared' = (appeared \/ Status = "visible")
    /\ IF Status = "quit" THEN ShutdownStart ELSE UNCHANGED told
    /\ osk' = IF Status = "finished" \/ (Status = "none" /\ appeared)
              THEN "last" ELSE "flip"
    /\ UNCHANGED <<dialog, panel, waiting, reply, oskKept>>

\* Mutants: the frames not counted; told to go with no exit flag up.
FlipUncounted ==
    /\ osk = "flip"
    /\ appeared \/ waiting < AppearMax
    /\ IF exit /\ Status = "visible" THEN ShutdownStart ELSE UNCHANGED told
    /\ osk' = "poll"
    /\ UNCHANGED <<dialog, panel, appeared, waiting, reply, oskKept>>

FlipClosing ==
    /\ osk = "flip"
    /\ appeared \/ waiting < AppearMax
    /\ waiting' = IF appeared THEN waiting ELSE waiting + 1
    /\ IF Status = "visible" THEN ShutdownStart ELSE UNCHANGED told
    /\ osk' = "poll"
    /\ UNCHANGED <<dialog, panel, appeared, reply, oskKept>>

\* gfx_flip, and what follows it: the exit flag.
Flip ==
    /\ osk = "flip"
    /\ appeared \/ waiting < AppearMax
    /\ waiting' = IF appeared THEN waiting ELSE waiting + 1
    /\ IF exit /\ Status = "visible" THEN ShutdownStart ELSE UNCHANGED told
    /\ osk' = "poll"
    /\ UNCHANGED <<dialog, panel, appeared, reply, oskKept>>

\* The dialog is finished.  UNCHANGED, which an unset result reads as, and
\* CHANGED are a confirmation: out16 is copied, and empty if nothing was typed.
Over ==
    /\ osk = "last"
    /\ appeared \/ waiting < AppearMax
    /\ Returns(CASE panel = "cancelled" -> "cancelled"
                 [] panel = "unset"     -> "unconfirmed"
                 [] OTHER               -> "confirmed")
    /\ UNCHANGED oskKept

\* Too long without a dialog.
GiveUp ==
    /\ osk \in {"flip", "last"}
    /\ ~appeared /\ waiting >= AppearMax
    /\ ShutdownStart
    /\ waiting' = waiting + 1
    /\ osk' = "giveUp"
    /\ UNCHANGED <<dialog, panel, appeared, reply, oskKept>>

GivingUp ==
    /\ osk = "giveUp"
    /\ IF Status = "none" \/ waiting = CloseMax
       THEN Returns("unavailable")
       ELSE waiting' = waiting + 1 /\ UNCHANGED <<dialogVars, osk, appeared, reply>>
    /\ UNCHANGED oskKept

\* All but the call itself.
OskStep ==
    \/ Leftover \/ Start \/ StartFails \/ Poll \/ Flip \/ Over
    \/ GiveUp \/ GivingUp

=============================================================================
