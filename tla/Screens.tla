------------------------------ MODULE Screens ------------------------------
(***************************************************************************)
(* The screens of src/psp/ui.c: the host list, the form, the questions and *)
(* messages, and the keyboard over them.  A screen draws, looks at the     *)
(* buttons once (Pad) and does what they ask.  Each way out of the list    *)
(* leads to run_session or out of the program (Session).                   *)
(*                                                                         *)
(* Of the hosts only their number counts here; what they say, and how they *)
(* are kept, is HostStore's.                                               *)
(***************************************************************************)
EXTENDS Osk

CONSTANTS
    HostMax,    \* HOST_MAX
    ListRows    \* LIST_ROWS

ASSUME ScreensAssumption == {HostMax, ListRows} \subseteq Nat \ {0}

VARIABLES
    at,         \* where the main thread is
    secrets,    \* where a password may be in memory, see Places
    count,      \* hosts_count()
    selected, top,
    form_is_new

listVars   == <<count, selected, top>>
screenVars == <<exit, padVars, oskVars, at, secrets, listVars, form_is_new>>

\* The entries of the host list, the form, run_session's copy of the host, the
\* line typed for the shell, and osk.c's out16, which the dialog types into.
Places == {"list", "form", "copy", "line", "out16"}
Menu   == {"list", "keys", "delete", "forget", "form", "field", "note", "message",
           "password"}

ScreensTypeOK ==
    /\ PadTypeOK /\ OskTypeOK
    /\ secrets \subseteq Places
    /\ count \in 0..HostMax
    /\ selected \in 0..HostMax /\ top \in 0..HostMax
    /\ form_is_new \in BOOLEAN

ScreensInit ==
    /\ PadInit /\ OskInit
    /\ at = "list"
    /\ secrets = {"list"}
    /\ count \in 0..HostMax
    /\ selected = 0 /\ top = 0
    /\ form_is_new = FALSE

Go(from, to) == at = from /\ at' = to

\* The screen at `from` looks at the buttons, finds b first, and leads to `to`.
Pushed(from, order, b, to) ==
    /\ Free /\ Go(from, to)
    /\ Press(order, b)

\* wait_for_release comes next.
Drains == wait' = 0

\* The home menu's "quit", from another thread: exit_callback.
ExitAsked ==
    /\ ~exit /\ at # "done"
    /\ exit' = TRUE
    /\ UNCHANGED <<padVars, oskVars, at, secrets, listVars, form_is_new>>

-----------------------------------------------------------------------------
(* ui_message and ui_confirm, wherever they are called from.                 *)

askKept == <<exit, oskVars, secrets, form_is_new>>

Yes(from, to) ==
    /\ ~exit
    /\ Pushed(from, <<"circle", "cross">>, "cross", to)
    /\ Drains

\* O; and the flag comes first, whatever is pressed.
No(from, to) ==
    /\ Free /\ Go(from, to)
    /\ \/ Press(<<"circle", "cross">>, "circle")
       \/ exit /\ \E now \in Samples : Look(now, {})
    /\ Drains

\* The same of a message, for which X does as well.
Read(from, to) ==
    /\ Free /\ Go(from, to)
    /\ \/ \E b \in {"cross", "circle"} : Press(<<"cross", "circle">>, b)
       \/ exit /\ \E now \in Samples : Look(now, {})
    /\ Drains

\* A frame in which nothing happens.
Unmoved(screens, order) ==
    /\ Free /\ ~exit /\ at \in screens
    /\ Press(order, "none")
    /\ UNCHANGED <<at, wait>>

-----------------------------------------------------------------------------
(* ui_host_list *)

\* Mutant: the cursor not followed downwards.
ListFrameUpOnly ==
    /\ at = "list" /\ Free
    /\ selected' = IF selected > count THEN count ELSE selected
    /\ top' = IF selected' < top THEN selected' ELSE top
    /\ at' = IF exit THEN "quit" ELSE "keys"
    /\ UNCHANGED <<exit, padVars, oskVars, secrets, count, form_is_new>>

\* Clamped, drawn, and the flag looked at.
ListFrame ==
    /\ at = "list" /\ Free
    /\ selected' = IF selected > count THEN count ELSE selected
    /\ top' = IF selected' < top THEN selected'
              ELSE IF selected' >= top + ListRows THEN selected' - ListRows + 1
              ELSE top
    /\ at' = IF exit THEN "quit" ELSE "keys"
    /\ UNCHANGED <<exit, padVars, oskVars, secrets, count, form_is_new>>

Shown == count + 1      \* "add a host" is the last row

\* Three of the buttons mean nothing there.
ListOrder ==
    IF selected < count
    THEN <<"up", "down", "cross", "square", "triangle", "select", "circle">>
    ELSE <<"up", "down", "cross", "circle">>

OnList(b, to) == Pushed("keys", ListOrder, b, to)
listKept      == <<exit, oskVars, secrets, count, top, form_is_new>>

ListStays == OnList("none", "list") /\ UNCHANGED <<listKept, selected, wait>>

ListMoves ==
    /\ \/ OnList("up", "list") /\ selected' = (selected + Shown - 1) % Shown
       \/ OnList("down", "list") /\ selected' = (selected + 1) % Shown
    /\ UNCHANGED <<listKept, wait>>

ListReturns == selected' = 0 /\ top' = 0

ListQuit ==
    /\ OnList("circle", "quit") /\ ListReturns
    /\ UNCHANGED <<exit, oskVars, secrets, count, form_is_new, wait>>

\* X on a host, of which run_session takes a copy; ui_ask_password waits first.
ChooseStored ==
    /\ selected < count
    /\ OnList("cross", "net") /\ ListReturns
    /\ secrets' = secrets \union {"copy"}
    /\ UNCHANGED <<exit, oskVars, count, form_is_new, wait>>

ChooseAsked ==
    /\ selected < count
    /\ OnList("cross", "password") /\ ListReturns /\ Drains
    /\ UNCHANGED <<exit, oskVars, secrets, count, form_is_new>>

AskDelete ==
    /\ OnList("triangle", "delete") /\ Drains
    /\ UNCHANGED <<listKept, selected>>

\* hosts_remove; without the save it answers -1, and the host is gone as well.
Delete ==
    /\ at' \in {"list", "message"} /\ Yes("delete", at')
    /\ count' = count - 1
    /\ UNCHANGED <<askKept, selected, top>>

\* SELECT; without a key to forget it is a message.
AskForget ==
    /\ at' \in {"forget", "message"} /\ OnList("select", at') /\ Drains
    /\ UNCHANGED <<listKept, selected>>

Forget ==
    /\ at' \in {"list", "message"} /\ Yes("forget", at')
    /\ UNCHANGED <<askKept, listVars>>

Declined ==
    /\ No("delete", "list") \/ No("forget", "list")
    /\ UNCHANGED <<askKept, listVars>>

-----------------------------------------------------------------------------
(* edit_host *)

\* The form is filled with the host, its password included, or with nothing.
OpenForm ==
    /\ \/ selected = count /\ Pushed("keys", ListOrder, "cross", "form")
       \/ Pushed("keys", ListOrder, "square", "form")
    /\ form_is_new' = (selected = count)
    /\ secrets' = secrets \union {"form"}
    /\ Drains
    /\ UNCHANGED <<exit, oskVars, listVars>>

FormOrder == <<"up", "down", "cross", "square", "circle">>
formKept  == <<exit, oskVars, secrets, listVars, form_is_new>>

FieldMoves ==
    /\ ~exit
    /\ \E b \in {"up", "down"} : Pushed("form", FormOrder, b, "form")
    /\ UNCHANGED <<formKept, wait>>

EditField ==
    /\ ~exit /\ Pushed("form", FormOrder, "cross", "field")
    /\ UNCHANGED <<formKept, wait>>

\* hosts_problem has one, or the store could not be saved: a host that is new
\* may be in the list nevertheless.
SaveFails ==
    /\ ~exit /\ Pushed("form", FormOrder, "square", "note")
    /\ Drains
    /\ \/ UNCHANGED count
       \/ form_is_new /\ count < HostMax /\ count' = count + 1
    /\ UNCHANGED <<exit, oskVars, secrets, selected, top, form_is_new>>

\* The form is wiped; after "add a host" the cursor stays there.
FormOver ==
    /\ secrets' = secrets \ {"form"}
    /\ selected' = IF form_is_new THEN count' ELSE selected
    /\ form_is_new' = FALSE
    /\ UNCHANGED <<exit, oskVars, top>>

SaveForm ==
    /\ ~exit /\ Pushed("form", FormOrder, "square", "list")
    /\ IF form_is_new THEN count < HostMax /\ count' = count + 1 ELSE UNCHANGED count
    /\ FormOver
    /\ UNCHANGED wait

CancelForm ==
    /\ ~exit /\ Pushed("form", FormOrder, "circle", "list")
    /\ Drains
    /\ UNCHANGED count /\ FormOver

\* "The one exit nobody exercises by hand."
LeaveForm ==
    /\ exit /\ Free /\ Go("form", "list")
    /\ UNCHANGED <<count, padVars>> /\ FormOver

\* edit_current_field has its reply, whichever the field: kept, or not a port or
\* a profile, or no keyboard.
Answered == osk = "idle" /\ reply # "none" /\ reply' = "none"
replyKept == <<exit, seen, acted, again, dialogVars, osk, appeared, waiting,
                listVars>>

FieldEdited ==
    /\ Go("field", "form") /\ Answered
    /\ reply # "unavailable"
    /\ Drains
    /\ UNCHANGED <<replyKept, secrets, form_is_new>>

FieldRefused ==
    /\ Go("field", "note") /\ Answered
    /\ reply # "cancelled"
    /\ Drains
    /\ UNCHANGED <<replyKept, secrets, form_is_new>>

-----------------------------------------------------------------------------
(* ui_ask_password, and what run_session makes of its reply.                *)

PasswordTyped ==
    /\ Go("password", "net") /\ Answered
    /\ reply = "confirmed"
    /\ secrets' = secrets \union {"copy"}
    /\ UNCHANGED <<replyKept, wait, form_is_new>>

\* Nothing typed, or nobody there to type, which reads as that.
PasswordEmpty ==
    /\ Go("password", "list") /\ Answered
    /\ reply \in {"confirmed", "unconfirmed"}
    /\ UNCHANGED <<replyKept, wait, secrets, form_is_new>>

\* "The keyboard would not open", also when it was cancelled.
PasswordCancelled ==
    /\ Go("password", "message") /\ Answered
    /\ reply \in {"cancelled", "unavailable"}
    /\ Drains
    /\ UNCHANGED <<replyKept, secrets, form_is_new>>

-----------------------------------------------------------------------------
Typing == {"password", "field", "osk"}

Entered == {"confirmed", "unconfirmed"}      \* OSK_ENTERED

\* Mutant: out16 not wiped behind what was entered.
KeyboardKeepingText ==
    /\ at \in Typing /\ Free
    /\ \/ Prompt /\ secrets' = secrets \ {"out16"}
       \/ OskStep /\ UNCHANGED secrets
    /\ UNCHANGED <<at, listVars, form_is_new>>

\* osk_prompt is called, and runs.  It wipes out16 where it begins, and again
\* where it returns OSK_ENTERED, but on none of its other ways out.
Keyboard ==
    /\ at \in Typing /\ Free
    /\ \/ Prompt /\ secrets' = secrets \ {"out16"}
       \/ OskStep /\ secrets' = IF reply' \in Entered THEN secrets \ {"out16"} ELSE secrets
    /\ UNCHANGED <<at, listVars, form_is_new>>

\* Nobody looks at the dialog elsewhere.  A panel that comes down, dismissed or
\* put down, may leave in out16 what was typed: "the panel keeps whatever was typed".
DialogStep ==
    /\ at \in Typing /\ Dialog
    /\ secrets' \in IF dialog = "visible" THEN {secrets, secrets \union {"out16"}} ELSE {secrets}
    /\ UNCHANGED <<at, listVars, form_is_new>>

Waiting == WaitForRelease /\ UNCHANGED <<exit, oskVars, at, secrets, listVars, form_is_new>>

MessageRead ==
    /\ Read("message", "list") \/ Read("note", "form")
    /\ UNCHANGED <<askKept, listVars>>

NothingPressed ==
    /\ \/ Unmoved({"delete", "forget"}, <<"circle", "cross">>)
       \/ Unmoved({"message", "note"}, <<"cross", "circle">>)
       \/ Unmoved({"form"}, FormOrder)
    /\ UNCHANGED <<askKept, listVars>>

\* What the main thread does on a screen.
Screen ==
    \/ ListFrame \/ ListStays \/ ListMoves \/ ListQuit \/ ChooseStored \/ ChooseAsked
    \/ AskDelete \/ Delete \/ AskForget \/ Forget \/ Declined
    \/ OpenForm \/ FieldMoves \/ EditField \/ SaveFails \/ SaveForm \/ CancelForm
    \/ LeaveForm \/ FieldEdited \/ FieldRefused
    \/ PasswordTyped \/ PasswordEmpty \/ PasswordCancelled
    \/ MessageRead \/ NothingPressed \/ Keyboard \/ Waiting

=============================================================================
