------------------------------ MODULE Session ------------------------------
(***************************************************************************)
(* One run of the program from the host list on: the loop of main, with    *)
(* run_session, run_terminal, send_all and check_hostkey of                *)
(* src/psp/main.c, on the screens, the keyboard and the radio it uses      *)
(* (Screens, Osk, Net) and pspssh_open (Handshake).  Beside the main       *)
(* thread there are the user, who need never press anything, the far side, *)
(* which may say anything or nothing, the system's dialog and its radio,   *)
(* and the callback thread, which may ask the program to leave between any *)
(* two steps.                                                              *)
(***************************************************************************)
EXTENDS Screens, Net

CONSTANTS
    Timeout, Default, Slept, RecvMs, ClockCap,  \* see Handshake
    DrainMax,   \* more than this was read in one frame: 8192
    ReadMax,    \* the most one pspssh_read returns: 1024
    LineMax,    \* the longest thing sent at once
    SpinMax     \* send_all's turns without progress: 2000

ASSUME SessionAssumption ==
    /\ DrainMax \in Nat
    /\ {ReadMax, LineMax, SpinMax} \subseteq Nat \ {0}
    /\ Timeout \in Int /\ Default \in Nat \ {0} /\ Slept \subseteq Int
    /\ {RecvMs, ClockCap} \subseteq Nat

VARIABLES
    policy, pc, phase, refused, error, held, secret,    \* see Handshake,
    elapsed, waited, answer,                            \* its `reply` last
    fd,         \* whether the session's socket is open
    key,        \* what check_hostkey makes of the key it is shown
    ended,      \* run_terminal's flag
    drained,    \* what has been read in this frame; 0 once it goes on
    left,       \* what send_all has still to send
    spins,      \* its turns without progress
    circle,     \* whether CIRCLE was pressed with the key being sent
    torn        \* history: a send failed, perhaps in the middle

shake   == <<policy, pc, phase, answer, waited, elapsed, refused, error, held, secret>>
sending == <<left, spins, circle>>
own     == <<shake, fd, key, ended, drained, sending, torn>>
vars    == <<screenVars, netVars, own>>

H == INSTANCE Handshake

Terminal == {"loop", "drain", "frame", "osk", "sending", "confirm", "ending", "closing"}

TypeOK ==
    /\ ScreensTypeOK /\ NetTypeOK /\ H!TypeOK
    /\ at \in Menu \union Terminal \union {"net", "connect", "connecting", "open", "ask",
                                           "alarm", "closefd", "quit", "done"}
    /\ {fd, ended, circle, torn} \subseteq BOOLEAN
    /\ key \in {"none", "known", "new", "changed", "unreadable"}
    /\ drained \in 0..DrainMax
    /\ left \in 0..LineMax
    /\ spins \in 0..SpinMax

Init ==
    /\ ScreensInit /\ NetInit
    /\ H!Init /\ policy = TRUE
    /\ fd = FALSE /\ ended = FALSE /\ torn = FALSE
    /\ key = "none"
    /\ drained = 0 /\ left = 0 /\ spins = 0 /\ circle = FALSE

\* The session's own variables are dead again.
ShakeOver ==
    /\ pc' = "idle" /\ phase' = "hello" /\ answer' = "none" /\ waited' = 0
    /\ elapsed' = 0 /\ refused' = FALSE /\ error' = "" /\ held' = {}
    /\ secret' = FALSE
    /\ UNCHANGED policy

\* What a session does not touch between the list and the list.
rest == <<exit, oskVars, listVars, form_is_new>>
calm == <<rest, padVars, netVars>>

-----------------------------------------------------------------------------
(* Before there is a session: the network. *)

ScreenStep == Screen /\ UNCHANGED <<netVars, own>>

Network ==
    /\ at = "net" /\ Free
    /\ NetStep \/ \E p \in Profiles \union {0} : NetStart(p)
    /\ UNCHANGED <<at, secrets, oskVars, listVars, form_is_new, own>>

NetUp ==
    /\ Go("net", "connect") /\ net = "yes"
    /\ NetOver
    /\ UNCHANGED <<rest, padVars, secrets, own>>

\* The copy is wiped, and ui_message.
GivesUp == at' = "message" /\ secrets' = secrets \ {"copy"} /\ Drains
givesUpKept == <<rest, seen, acted, again>>

NetFails ==
    /\ at = "net" /\ net = "no"
    /\ NetOver /\ GivesUp
    /\ UNCHANGED <<givesUpKept, own>>

\* net_connect: the name is found, and there is a socket.
Socket ==
    /\ Go("connect", "connecting")
    /\ fd' = TRUE
    /\ UNCHANGED <<calm, secrets, shake, key, ended, drained, sending, torn>>

NoSocket ==
    /\ at = "connect"
    /\ GivesUp
    /\ UNCHANGED <<givesUpKept, netVars, own>>

Connected == Go("connecting", "open") /\ UNCHANGED <<calm, secrets, own>>

\* The socket is closed again by net_connect.
NotConnected ==
    /\ at = "connecting"
    /\ GivesUp
    /\ fd' = FALSE
    /\ UNCHANGED <<givesUpKept, netVars, shake, key, ended, drained, sending, torn>>

-----------------------------------------------------------------------------
(* pspssh_open *)

openKept == <<rest, netVars, secrets, fd, ended, drained, sending, torn>>

OpenStep ==
    /\ at = "open" /\ Free
    /\ \/ H!Begin \/ H!Setup \/ \E step \in H!Setups : H!SetupFails(step)
       \/ H!WouldBlock \/ H!Authenticate \/ H!ConnectFails \/ H!Connected
       \/ H!Wait \/ H!Fail
    /\ UNCHANGED <<openKept, padVars, at, key>>

\* The host key arrives, and is known, new, another, or beyond fingerprint_of.
KeyShown ==
    /\ at = "open" /\ Free
    /\ H!Keyed
    /\ \/ key' \in {"known", "unreadable"} /\ UNCHANGED <<at, wait>>
       \/ key' = "new" /\ at' = "ask" /\ Drains
       \/ key' = "changed" /\ at' = "alarm" /\ Drains
    /\ UNCHANGED <<openKept, seen, acted, again>>

KeyDecided ==
    /\ at = "open" /\ Free
    /\ \/ key = "known" /\ H!Accept
       \/ key = "unreadable" /\ H!Refuse("no fingerprint")
    /\ UNCHANGED <<openKept, padVars, at, key>>

\* ui_confirm says yes.
KeyConfirmed ==
    /\ Yes("ask", "open")
    /\ H!Accept
    /\ UNCHANGED <<openKept, key>>

\* ui_confirm says no, or "this is not the server" has been read.
KeyRefused ==
    /\ No("ask", "open") \/ Read("alarm", "open")
    /\ H!Refuse("refused")
    /\ UNCHANGED <<openKept, key>>

\* Mutant: close(fd) left out.
OpenFailedKeepingSocket ==
    /\ at = "open" /\ Free /\ pc = "failed"
    /\ GivesUp /\ ShakeOver
    /\ key' = "none"
    /\ UNCHANGED <<givesUpKept, netVars, fd, ended, drained, sending, torn>>

\* close(fd), the copy wiped, and ui_message.
OpenFailed ==
    /\ at = "open" /\ Free /\ pc = "failed"
    /\ GivesUp /\ ShakeOver
    /\ fd' = FALSE
    /\ key' = "none"
    /\ UNCHANGED <<givesUpKept, netVars, ended, drained, sending, torn>>

\* Mutant: the password not wiped until the session is over.
OpenedKeepingPassword ==
    /\ Go("open", "loop") /\ Free /\ pc = "opened"
    /\ ended' = FALSE
    /\ UNCHANGED <<calm, secrets, shake, fd, key, drained, sending, torn>>

\* The password is wiped and run_terminal begins.
Opened ==
    /\ Go("open", "loop") /\ Free /\ pc = "opened"
    /\ secrets' = secrets \ {"copy"}
    /\ ended' = FALSE
    /\ UNCHANGED <<calm, shake, fd, key, drained, sending, torn>>

-----------------------------------------------------------------------------
(* run_terminal *)

\* while (!ended && !pad_exit_requested()); ui_message waits first.
Loop ==
    /\ at = "loop" /\ Free
    /\ IF ended \/ exit THEN at' = "ending" /\ Drains
       ELSE at' = "drain" /\ UNCHANGED wait
    /\ UNCHANGED <<givesUpKept, netVars, secrets, shake, fd, key, ended, drained,
                    sending, torn>>

\* Mutant: the last read counted instead of all of them.
DrainLastOnly ==
    /\ at = "drain"
    /\ \E n \in 1..ReadMax :
          IF n > DrainMax THEN at' = "frame" /\ drained' = 0
          ELSE drained' = n /\ UNCHANGED at
    /\ UNCHANGED <<calm, secrets, shake, fd, key, ended, sending, torn>>

\* pspssh_read has something, and term_feed draws it.
Drain ==
    /\ at = "drain"
    /\ \E n \in 1..ReadMax :
          IF drained + n > DrainMax THEN at' = "frame" /\ drained' = 0
          ELSE drained' = drained + n /\ UNCHANGED at
    /\ UNCHANGED <<calm, secrets, shake, fd, key, ended, sending, torn>>

DrainQuiet ==
    /\ Go("drain", "frame")
    /\ drained' = 0
    /\ UNCHANGED <<calm, secrets, shake, fd, key, ended, sending, torn>>

\* The far side closed the session, or the connection broke.
DrainEnds ==
    /\ Go("drain", "ending") /\ Drains
    /\ ended' = TRUE /\ drained' = 0
    /\ UNCHANGED <<givesUpKept, netVars, secrets, shake, fd, key, sending, torn>>

\* X comes first.  What a key sends goes out before CIRCLE is looked at.
Keys       == <<"square", "triangle", "select", "up", "down">>
FrameOrder == <<"cross">> \o Keys \o <<"circle">>
frameKept  == <<rest, netVars, shake, fd, key, ended, drained, torn>>

NoPress ==
    /\ Pushed("frame", FrameOrder, "none", "loop")
    /\ UNCHANGED <<frameKept, secrets, sending, wait>>

PressCross ==
    /\ Pushed("frame", FrameOrder, "cross", "osk")
    /\ UNCHANGED <<frameKept, secrets, sending, wait>>

PressLeave ==
    /\ Pushed("frame", FrameOrder, "circle", "confirm") /\ Drains
    /\ UNCHANGED <<frameKept, secrets, sending>>

Send(n) == left' = n /\ spins' = 0

PressKey ==
    /\ Go("frame", "sending")
    /\ \E now \in Samples :
          LET b == First(FrameOrder, now)
          IN  /\ b \in {Keys[i] : i \in DOMAIN Keys}
              /\ circle' = ("circle" \in Pressed(now))
              /\ Look(now, {b} \union ({"circle"} \intersect Pressed(now)))
    /\ \E n \in 1..LineMax : Send(n)
    /\ UNCHANGED <<frameKept, secrets, wait>>

\* osk_prompt has a line, to which '\n' is appended.
lineKept == <<replyKept, wait, form_is_new, netVars, shake, fd, key, ended, drained, torn>>

LineTyped ==
    /\ Go("osk", "sending") /\ Answered
    /\ reply = "confirmed"
    /\ \E n \in 1..LineMax : Send(n)
    /\ circle' = FALSE
    /\ secrets' = secrets \union {"line"}
    /\ UNCHANGED lineKept

\* Put down because of the exit flag, which osk_prompt takes for an empty line
\* confirmed.
LineCutOff ==
    /\ Go("osk", "sending") /\ Answered
    /\ reply = "unconfirmed"
    /\ Send(1)
    /\ circle' = FALSE
    /\ UNCHANGED <<lineKept, secrets>>

LineCancelled ==
    /\ Go("osk", "loop") /\ Answered
    /\ reply \in {"cancelled", "unavailable"}
    /\ UNCHANGED <<lineKept, secrets, sending>>

-----------------------------------------------------------------------------
(* send_all, and what its two callers do when it returns: the line is wiped, *)
(* or CIRCLE is looked at.                                                   *)

SendOver ==
    /\ IF circle THEN at' = "confirm" /\ Drains ELSE at' = "loop" /\ UNCHANGED wait
    /\ secrets' = secrets \ {"line"}
    /\ spins' = 0 /\ circle' = FALSE

WriteSome ==
    /\ at = "sending"
    /\ \E n \in 1..left : left' = left - n
    /\ IF left' = 0 THEN SendOver
       ELSE spins' = 0 /\ UNCHANGED <<at, wait, secrets, circle>>
    /\ UNCHANGED <<givesUpKept, netVars, shake, fd, key, ended, drained, torn>>

\* Mutant: turns without progress not counted up to anything.
WriteNothingForever ==
    /\ at = "sending"
    /\ spins' = spins + 1
    /\ UNCHANGED <<calm, secrets, shake, at, fd, key, ended, drained, left, circle, torn>>

\* The window is full: pspssh_write pumps and answers 0.
WriteNothing ==
    /\ at = "sending"
    /\ spins + 1 < SpinMax
    /\ spins' = spins + 1
    /\ UNCHANGED <<calm, secrets, shake, at, fd, key, ended, drained, left, circle, torn>>

\* Mutant: what send_all returned is not looked at.
SendFailsUnseen ==
    /\ at = "sending"
    /\ SendOver
    /\ left' = 0
    /\ torn' = TRUE
    /\ UNCHANGED <<givesUpKept, netVars, shake, fd, key, ended, drained>>

\* -1, or out of patience.
SendFails ==
    /\ at = "sending"
    /\ SendOver
    /\ ended' = TRUE
    /\ left' = 0
    /\ torn' = TRUE
    /\ UNCHANGED <<givesUpKept, netVars, shake, fd, key, drained>>

\* ui_confirm("leave this session?"): yes leaves without a message.
Leave == Yes("confirm", "closing") /\ UNCHANGED <<frameKept, secrets, sending>>
Stay  == No("confirm", "loop") /\ UNCHANGED <<frameKept, secrets, sending>>

\* "The session ended" has been read.
EndingRead == Read("ending", "closing") /\ UNCHANGED <<frameKept, secrets, sending>>

\* None of these is answered yet.
QuestionStands ==
    /\ \/ Unmoved({"ask", "confirm"}, <<"circle", "cross">>)
       \/ Unmoved({"alarm", "ending"}, <<"cross", "circle">>)
    /\ UNCHANGED <<rest, secrets, netVars, own>>

-----------------------------------------------------------------------------
(* The end of run_session, and of main. *)

\* Mutant: close(fd) before pspssh_close.
CloseSocketFirst ==
    /\ Go("closing", "closefd") /\ Free
    /\ fd' = FALSE
    /\ UNCHANGED <<calm, secrets, shake, key, ended, drained, sending, torn>>

\* pspssh_close, whose wolfSSH_shutdown still talks to the far side.
CloseSession ==
    /\ Go("closing", "closefd") /\ Free
    /\ ShakeOver
    /\ UNCHANGED <<calm, secrets, fd, key, ended, drained, sending, torn>>

\* close(fd), and the copy of the host wiped.
CloseSocket ==
    /\ Go("closefd", "list")
    /\ fd' = FALSE
    /\ secrets' = secrets \ {"copy"}
    /\ key' = "none" /\ torn' = FALSE
    /\ UNCHANGED <<calm, shake, ended, drained, sending>>

\* hosts_forget_passwords.
Quit ==
    /\ Go("quit", "done")
    /\ secrets' = secrets \ {"list"}
    /\ UNCHANGED <<calm, own>>

-----------------------------------------------------------------------------
\* The main thread.
Program ==
    \/ ScreenStep \/ Network \/ NetUp \/ NetFails
    \/ Socket \/ NoSocket \/ Connected \/ NotConnected
    \/ OpenStep \/ KeyShown \/ KeyDecided \/ KeyConfirmed \/ KeyRefused
    \/ OpenFailed \/ Opened
    \/ Loop \/ Drain \/ DrainQuiet \/ DrainEnds
    \/ NoPress \/ PressCross \/ PressLeave \/ PressKey
    \/ LineTyped \/ LineCutOff \/ LineCancelled
    \/ WriteSome \/ WriteNothing \/ SendFails
    \/ Leave \/ Stay \/ EndingRead \/ QuestionStands
    \/ CloseSession \/ CloseSocket \/ Quit

\* The other threads: the callback's, the dialog's, the radio's.
System ==
    \/ ExitAsked /\ UNCHANGED <<netVars, own>>
    \/ DialogStep /\ UNCHANGED <<netVars, own>>
    \/ Radio /\ UNCHANGED <<oskVars, at, secrets, listVars, form_is_new, own>>

Next == Program \/ System

\* The main thread keeps running, and every call it makes returns; a dialog
\* that is on the screen goes away when it is told to.
Spec ==
    /\ Init /\ [][Next]_vars
    /\ WF_vars(Program)
    /\ WF_vars(at \in Typing /\ GoesAway
                   /\ UNCHANGED <<at, secrets, listVars, form_is_new, netVars, own>>)

-----------------------------------------------------------------------------
(* Properties *)

\* The terminal only ever runs on a session that is whole and on an open
\* socket, and the socket is closed after the session that still writes to it
\* (run_session; pspssh_close calls wolfSSH_shutdown).
SessionHasSocket ==
    /\ held # {} => fd
    /\ at \in Terminal => pc = "opened" /\ held = {"s", "ctx", "ssh"} /\ secret

\* However a session or an attempt at one ended, the list is shown again with
\* nothing of it left: no socket, nothing allocated, no callback state.  A
\* console has no other way to get them back.
NothingLeftOpen ==
    at \in Menu \union {"quit", "done"} => ~fd /\ held = {} /\ pc = "idle"

\* A password is in memory only while something still needs it: the copy until
\* wolfSSH has it ("Handed over", run_session), the form while it is shown, the
\* typed line while it is sent, and none of these nor the list on the way out
\* ("a password read off the memory card does not outlive the session", main).
\* The keyboard's out16 is empty once a text was entered; after a keyboard that
\* was cancelled or given up it is not (NothingLingers).
PasswordsWiped ==
    /\ "copy" \in secrets => at \in {"net", "connect", "connecting", "open", "ask",
                                      "alarm"}
    /\ "form" \in secrets => at \in {"form", "field", "note"}
    /\ "line" \in secrets => at = "sending"
    /\ reply \in Entered => "out16" \notin secrets
    /\ at = "done" => secrets \subseteq {"out16"}

\* "A password is the common case here, so it does not get to linger in a
\* static buffer for the rest of the session" (osk_prompt): away from the screens
\* that use the keyboard its buffer holds nothing that was typed.
NothingLingers == at \notin Typing => "out16" \notin secrets

\* After a send has failed, perhaps in the middle of a line, nothing is sent in
\* that session any more, so the shell never sees one line's beginning run into
\* the next (send_all and its callers).
NothingAfterTorn ==
    torn => ended /\ at \in {"loop", "confirm", "ending", "closing", "closefd"}

\* Once the system asks the program to leave, it gets to sceKernelExitGame,
\* wherever it was, with no button pressed, and however much or little the far
\* side says from then on.
ExitLeaves == exit ~> at = "done"

\* A dialog that was ever started is told to shut down before osk_prompt
\* returns, however early or late it shows itself, and whoever ends it: one left
\* standing makes every later keyboard fail (osk.c, #35) and, when the program
\* is left, "hangs the console".
DialogPutDown == osk = "idle" /\ dialog # "none" => told

\* "Looping on a blank screen forever is the one outcome worse than saying no":
\* a keyboard that was asked for is seen, or given up.
KeyboardComesOrNot == osk # "idle" ~> osk = "idle" \/ appeared

\* A panel nobody confirmed is only taken for an empty line on the way out.
CutOffOnlyLeaving == reply = "unconfirmed" => exit

\* A press is acted upon once, by the screen or the keyboard it was meant for:
\* "Without it a press is read again by whatever screen comes next, so
\* confirming a dialog immediately confirms the one behind it"
\* (wait_for_release of ui.c).
PressActsOnce == ~again

\* The row the cursor is on exists and is one of those drawn, after any
\* deletions, additions and moves around the ends (ui_host_list).
CursorShown == at = "keys" => selected \in top .. top + ListRows - 1 /\ selected <= count

\* net_start tries no connection twice, the one it was asked for before any
\* other, and gives up only when each was tried or the program is to leave.
ProfilesTried ==
    /\ \A p \in Profiles : tried[p] <= 1
    /\ (preferred \in available /\ \E p \in available : tried[p] > 0) => tried[preferred] = 1
    /\ net = "no" /\ ~exit => \A p \in available : tried[p] = 1

\* No association is left half made when an attempt is over, "or the next
\* attempt inherits a half-open association and fails for a reason that is not
\* its own" (try_profile).
NoHalfOpen == radio = "joining" => net = "join"

=============================================================================
