---------------------------- MODULE SessionProofs ----------------------------
(* Machine-checked facts about Session: the whole program but for the card, *)
(* for any number of hosts, profiles and frames, whatever is pressed, said  *)
(* by the far side, shown by the dialog or done by the radio, and whenever  *)
(* the program is asked to leave.  Liveness is left to TLC.                 *)
EXTENDS Session, ScreensProofs, FiniteSetTheorems

\* What HandshakeProofs proves of pspssh_open holds of the one that runs here.
HP == INSTANCE HandshakeProofs

-----------------------------------------------------------------------------
(* The inductive invariant.                                                 *)

WithSocket  == Terminal \union {"connecting", "open", "ask", "alarm", "closefd"}
WithSession == Terminal \union {"open", "ask", "alarm"}

\* What exists, by place: the socket, and pspssh_open's work.
Existence ==
    /\ at \in WithSocket => fd = TRUE
    /\ at \notin WithSocket => fd = FALSE
    /\ at \notin WithSession => pc = "idle" /\ held = {}
    /\ at \in {"ask", "alarm"} => pc = "hostkey"
    /\ at \in Terminal => pc = "opened"

\* A session that is open was given the password, after a policy's yes.
Given ==
    /\ policy
    /\ phase = "authed" => secret
    /\ pc = "opened" => secret

\* The row the cursor is on is a host's when something is asked about that host.
Cursor ==
    /\ count \in 0..HostMax /\ selected \in 0..HostMax /\ top \in 0..HostMax
    /\ CursorShown
    /\ at = "delete" => selected < count

-----------------------------------------------------------------------------
(* What a step of the main thread leaves alone.                             *)

\* The steps of main, run_session and run_terminal themselves.
NetworkStep == Network \/ NetUp \/ NetFails
OpenPart ==
    \/ Socket \/ NoSocket \/ Connected \/ NotConnected
    \/ OpenStep \/ KeyShown \/ KeyDecided \/ KeyConfirmed \/ KeyRefused
    \/ OpenFailed \/ Opened
RunPart ==
    \/ Loop \/ Drain \/ DrainQuiet \/ DrainEnds
    \/ NoPress \/ PressCross \/ PressLeave \/ PressKey
    \/ LineTyped \/ LineCutOff \/ LineCancelled
    \/ WriteSome \/ WriteNothing \/ SendFails
    \/ Leave \/ Stay \/ EndingRead \/ QuestionStands
    \/ CloseSession \/ CloseSocket \/ Quit

LEMMA ProgramParts == Program <=> ScreenStep \/ NetworkStep \/ OpenPart \/ RunPart
BY Zenon DEF Program, NetworkStep, OpenPart, RunPart

\* The menu and the keyboard, which only screens move.
MenuKept ==
    /\ UNCHANGED <<exit, dialogVars, osk, appeared, waiting, listVars, form_is_new>>
    /\ reply' \in {reply, "none"}
    /\ at' \in {"keys", "delete"} => at' = at

LEMMA NetworkKeepsMenu == NetworkStep => MenuKept
<1> USE DEF MenuKept, oskVars, promptVars, Go, rest, givesUpKept, netKept
<1>1. CASE Network
  <2>1. UNCHANGED exit
    <3>1. CASE \E p \in Profiles \union {0} : NetStart(p)
      BY <3>1 DEF NetStart
    <3>2. CASE NetStep
      BY <3>2 DEF NetStep, AlreadyConnected, NoStack, ListProfiles, Skip, Try, NotYet,
         HasAddress, TurnedAway, NoneLeft
    <3> QED
      BY <1>1, <3>1, <3>2 DEF Network
  <2> QED
    BY <1>1, <2>1 DEF Network
<1>2. CASE NetUp \/ NetFails
  BY <1>2 DEF NetUp, NetFails, GivesUp
<1> QED
  BY <1>1, <1>2 DEF NetworkStep

LEMMA OpenKeepsMenu == OpenPart => MenuKept /\ UNCHANGED netVars
<1> USE DEF MenuKept, oskVars, promptVars, Go, rest, calm, givesUpKept, openKept,
            Yes, No, Read, Pushed, GivesUp
<1>1. CASE Socket \/ NoSocket \/ Connected \/ NotConnected
  BY <1>1 DEF Socket, NoSocket, Connected, NotConnected
<1>2. CASE OpenStep \/ KeyShown \/ KeyDecided \/ KeyConfirmed \/ KeyRefused
  BY <1>2 DEF OpenStep, KeyShown, KeyDecided, KeyConfirmed, KeyRefused
<1>3. CASE OpenFailed \/ Opened
  BY <1>3 DEF OpenFailed, Opened
<1> QED
  BY <1>1, <1>2, <1>3 DEF OpenPart

LEMMA RunKeepsMenu == RunPart => MenuKept /\ UNCHANGED netVars
<1> USE DEF MenuKept, oskVars, promptVars, Go, rest, calm, givesUpKept, frameKept,
            lineKept, replyKept, Answered, Yes, No, Read, Pushed
<1>1. CASE Loop \/ Drain \/ DrainQuiet \/ DrainEnds
  BY <1>1 DEF Loop, Drain, DrainQuiet, DrainEnds
<1>2. CASE NoPress \/ PressCross \/ PressLeave \/ PressKey
  BY <1>2 DEF NoPress, PressCross, PressLeave, PressKey
<1>3. CASE LineTyped \/ LineCutOff \/ LineCancelled
  BY <1>3 DEF LineTyped, LineCutOff, LineCancelled
<1>4. CASE WriteSome \/ WriteNothing \/ SendFails
  BY <1>4 DEF WriteSome, WriteNothing, SendFails, SendOver
<1>5. CASE Leave \/ Stay \/ EndingRead \/ QuestionStands
  BY <1>5 DEF Leave, Stay, EndingRead, QuestionStands, Unmoved
<1>6. CASE CloseSession \/ CloseSocket \/ Quit
  BY <1>6 DEF CloseSession, CloseSocket, Quit
<1> QED
  BY <1>1, <1>2, <1>3, <1>4, <1>5, <1>6 DEF RunPart

LEMMA OwnKeepsMenu == NetworkStep \/ OpenPart \/ RunPart => MenuKept
BY NetworkKeepsMenu, OpenKeepsMenu, RunKeepsMenu

-----------------------------------------------------------------------------
(* The keyboard.                                                            *)

LEMMA StepOsk == OskInv /\ [Next]_vars => OskInv'
<1> SUFFICES ASSUME OskInv, [Next]_vars PROVE OskInv'
  OBVIOUS
<1>1. CASE ScreenStep
  <2>1. Screen
    BY <1>1 DEF ScreenStep
  <2>2. CASE Prompt \/ OskStep
    BY <2>2, PromptKeeps
  <2> QED
    BY <2>1, <2>2, ScreenOsk, OskElsewhere
<1>2. CASE NetworkStep \/ OpenPart \/ RunPart
  BY <1>2, OwnKeepsMenu, OskElsewhere DEF MenuKept
<1>3. CASE System
  <2>1. CASE ExitAsked
    BY <2>1, OskElsewhere DEF ExitAsked, oskVars, promptVars
  <2>2. CASE DialogStep
    BY <2>2, DialogKeeps DEF DialogStep
  <2>3. CASE Radio /\ UNCHANGED <<oskVars, at, secrets, listVars, form_is_new, own>>
    BY <2>3, OskElsewhere DEF Radio, oskVars, promptVars
  <2> QED
    BY <1>3, <2>1, <2>2, <2>3 DEF System
<1>4. CASE UNCHANGED vars
  BY <1>4, OskElsewhere DEF vars, screenVars, oskVars, promptVars
<1> QED
  BY <1>1, <1>2, <1>3, <1>4, ProgramParts DEF Next

LEMMA OskAlways == Spec => []OskInv
<1>1. Init => OskInv
  BY InitOsk DEF Init, ScreensInit
<1> QED
  BY <1>1, StepOsk, PTL DEF Spec

\* A dialog that was ever started has been told to shut down when osk_prompt
\* returns, however early or late it shows itself and whoever ends it (osk.c).
THEOREM DialogsPutDown == Spec => []DialogPutDown
<1>1. OskInv => DialogPutDown
  BY DEF OskInv, Ordered, DialogPutDown
<1> QED
  BY <1>1, OskAlways, PTL

\* A panel nobody confirmed is taken for an empty line only on the way out
\* (osk_prompt's reading of PSP_UTILITY_OSK_RESULT_UNCHANGED).
THEOREM CutOffLeaving == Spec => []CutOffOnlyLeaving
<1>1. OskInv => CutOffOnlyLeaving
  BY DEF OskInv, Explained, CutOffOnlyLeaving
<1> QED
  BY <1>1, OskAlways, PTL

-----------------------------------------------------------------------------
(* The list's cursor.                                                       *)

LEMMA ScreensBounds == HostMax \in Nat /\ HostMax > 0 /\ ListRows \in Nat /\ ListRows > 0
BY ScreensAssumption

\* A remainder is one of the rows it is taken of.
LEMMA RowsWrap == ASSUME NEW a \in Nat, NEW n \in Nat, n > 0 PROVE a % n \in 0..n-1
OBVIOUS

LEMMA LeastOfFour == ASSUME NEW S \in SUBSET (1..4), S # {} PROVE Min(S) \in S
<1>1. \E x \in S : \A y \in S : x <= y
  <2>1. CASE 1 \in S
    BY <2>1
  <2>2. CASE 1 \notin S /\ 2 \in S
    BY <2>2
  <2>3. CASE 1 \notin S /\ 2 \notin S /\ 3 \in S
    BY <2>3
  <2>4. CASE 1 \notin S /\ 2 \notin S /\ 3 \notin S
    <3>1. \A y \in S : y = 4
      <4> SUFFICES ASSUME NEW y \in S PROVE y = 4
        OBVIOUS
      <4>1. y \in 1..4
        OBVIOUS
      <4>2. y # 1 /\ y # 2 /\ y # 3
        BY <2>4
      <4> QED
        BY <4>1, <4>2
    <3>2. PICK x \in S : x = 4
      BY <3>1
    <3> QED
      BY <3>1, <3>2
  <2> QED
    BY <2>1, <2>2, <2>3, <2>4
<1> QED
  BY <1>1 DEF Min

\* On "add a host" there is nothing for TRIANGLE to delete.
LEMMA DeletesHosts ==
    ASSUME NEW now, First(ListOrder, now) = "triangle"
    PROVE  selected < count
<1> SUFFICES ASSUME ~(selected < count) PROVE FALSE
  OBVIOUS
<1> DEFINE order == <<"up", "down", "cross", "circle">>
           asked == {i \in DOMAIN order : order[i] \in Pressed(now)}
<1>1. ListOrder = order
  BY DEF ListOrder
<1>2. asked # {} /\ order[Min(asked)] = "triangle"
  BY <1>1 DEF First
<1>3. DOMAIN order = 1..4
  OBVIOUS
<1>4. Min(asked) \in 1..4
  BY <1>2, <1>3, LeastOfFour
<1> QED
  BY <1>2, <1>4

LEMMA ScreenCursor == Cursor /\ Screen => Cursor'
<1> SUFFICES ASSUME Cursor, Screen PROVE Cursor'
  OBVIOUS
<1> USE ScreensBounds DEF Cursor, CursorShown, OnList, Pushed, Go, listKept, askKept,
                          formKept, replyKept, Answered, ListReturns, listVars
<1>1. CASE ListFrame
  BY <1>1 DEF ListFrame
<1>2. CASE ListMoves
  <2>1. count + 1 \in Nat /\ selected + (count + 1) - 1 \in Nat /\ selected + 1 \in Nat
    OBVIOUS
  <2>2. selected' \in 0..count
    BY <1>2, <2>1, RowsWrap DEF ListMoves, Shown
  <2> QED
    BY <1>2, <2>2 DEF ListMoves
<1>3. CASE ListStays \/ ListQuit \/ ChooseStored \/ ChooseAsked \/ AskForget
  BY <1>3 DEF ListStays, ListQuit, ChooseStored, ChooseAsked, AskForget
<1>4. CASE AskDelete
  <2>1. selected < count
    BY <1>4, DeletesHosts DEF AskDelete, Press
  <2> QED
    BY <1>4, <2>1 DEF AskDelete
<1>5. CASE Delete \/ Forget \/ Declined
  BY <1>5 DEF Delete, Forget, Declined, Yes, No
<1>6. CASE OpenForm \/ FieldMoves \/ EditField
  BY <1>6 DEF OpenForm, FieldMoves, EditField
<1>7. CASE SaveFails \/ SaveForm \/ CancelForm \/ LeaveForm
  BY <1>7 DEF SaveFails, SaveForm, CancelForm, LeaveForm, FormOver
<1>8. CASE FieldEdited \/ FieldRefused \/ PasswordTyped \/ PasswordEmpty \/ PasswordCancelled
  BY <1>8 DEF FieldEdited, FieldRefused, PasswordTyped, PasswordEmpty, PasswordCancelled
<1>9. CASE MessageRead \/ NothingPressed \/ Keyboard \/ Waiting
  BY <1>9 DEF MessageRead, NothingPressed, Keyboard, Waiting, Read, Unmoved
<1> QED
  BY <1>1, <1>2, <1>3, <1>4, <1>5, <1>6, <1>7, <1>8, <1>9 DEF Screen

LEMMA CursorElsewhere ==
    ASSUME Cursor, UNCHANGED listVars,
           at' \in {"keys", "delete"} => at' = at
    PROVE  Cursor'
BY DEF Cursor, CursorShown, listVars

LEMMA StepCursor == Cursor /\ [Next]_vars => Cursor'
<1> SUFFICES ASSUME Cursor, [Next]_vars PROVE Cursor'
  OBVIOUS
<1>1. CASE ScreenStep
  BY <1>1, ScreenCursor DEF ScreenStep
<1>2. CASE NetworkStep \/ OpenPart \/ RunPart
  BY <1>2, OwnKeepsMenu, CursorElsewhere DEF MenuKept
<1>3. CASE System
  BY <1>3, CursorElsewhere DEF System, ExitAsked, DialogStep
<1>4. CASE UNCHANGED vars
  BY <1>4, CursorElsewhere DEF vars, screenVars
<1> QED
  BY <1>1, <1>2, <1>3, <1>4, ProgramParts DEF Next

LEMMA CursorAlways == Spec => []Cursor
<1>1. Init => Cursor
  BY ScreensBounds DEF Init, ScreensInit, Cursor, CursorShown
<1> QED
  BY <1>1, StepCursor, PTL DEF Spec

\* The row the cursor is on exists and is drawn, after any deletions, additions
\* and moves around the ends (ui_host_list).
THEOREM CursorOnScreen == Spec => []CursorShown
<1>1. Cursor => CursorShown
  BY DEF Cursor
<1> QED
  BY <1>1, CursorAlways, PTL

-----------------------------------------------------------------------------
(* pspssh_open, as it runs here.                                            *)

LEMMA HandshakeConstants == HP!HandshakeAssumption
BY SessionAssumption DEF HP!HandshakeAssumption

\* The two instances are of one module.
LEMMA OneHandshake ==
    /\ H!Next => HP!Next
    /\ shake = HP!vars
    /\ H!TypeOK <=> HP!TypeOK
<1>1. H!Begin \/ H!Setup \/ H!WouldBlock \/ H!Keyed \/ H!Authenticate => HP!Next
  BY Zenon DEF HP!Next, H!Begin, H!Setup, H!WouldBlock, H!Keyed, H!Authenticate,
     HP!Begin, HP!Setup, HP!WouldBlock, HP!Keyed, HP!Authenticate, H!Later, HP!Later
<1>2. H!ConnectFails \/ H!Connected \/ H!Accept => HP!Next
  BY Zenon DEF HP!Next, H!ConnectFails, H!Connected, H!Accept,
     HP!ConnectFails, HP!Connected, HP!Accept
<1>3. H!Wait \/ H!Fail => HP!Next
  BY Zenon DEF HP!Next, H!Wait, H!Fail, HP!Wait, HP!Fail, H!Cost, HP!Cost, H!Later,
     HP!Later, H!Budget, HP!Budget, H!Reason, HP!Reason
<1>4. (\E step \in H!Setups : H!SetupFails(step)) => HP!Next
  BY Zenon DEF HP!Next, H!Setups, HP!Setups, H!SetupFails, HP!SetupFails
<1>5. (\E why \in {"no policy", "no fingerprint", "refused"} : H!Refuse(why)) => HP!Next
  BY Zenon DEF HP!Next, H!Refuse, HP!Refuse
<1>6. H!TypeOK <=> HP!TypeOK
  BY Zenon DEF H!TypeOK, HP!TypeOK, H!Errors, HP!Errors, H!Setups, HP!Setups
<1> QED
  BY <1>1, <1>2, <1>3, <1>4, <1>5, <1>6, Zenon DEF H!Next, shake, HP!vars

OpenMoves == [H!Next]_shake \/ ShakeOver

LEMMA OpenShakes == OpenPart => OpenMoves
<1> USE DEF OpenMoves
<1>1. CASE Socket \/ NoSocket \/ Connected \/ NotConnected \/ Opened
  BY <1>1, Zenon DEF Socket, NoSocket, Connected, NotConnected, Opened, own
<1>2. CASE OpenFailed
  BY <1>2, Zenon DEF OpenFailed
<1>3. CASE OpenStep
  BY <1>3, Zenon DEF OpenStep, H!Next
<1>4. CASE KeyShown
  BY <1>4, Zenon DEF KeyShown, H!Next
<1>5. CASE KeyDecided
  BY <1>5, Zenon DEF KeyDecided, H!Next
<1>6. CASE KeyConfirmed \/ KeyRefused
  BY <1>6, Zenon DEF KeyConfirmed, KeyRefused, H!Next
<1> QED
  BY <1>1, <1>2, <1>3, <1>4, <1>5, <1>6 DEF OpenPart

LEMMA RestShakes == ScreenStep \/ NetworkStep \/ RunPart \/ System => OpenMoves
<1> USE DEF OpenMoves, own
<1>1. CASE ScreenStep \/ NetworkStep
  BY <1>1, Zenon DEF ScreenStep, NetworkStep, Network, NetUp, NetFails
<1>2. CASE Loop \/ Drain \/ DrainQuiet \/ DrainEnds
  BY <1>2, Zenon DEF Loop, Drain, DrainQuiet, DrainEnds
<1>3. CASE NoPress \/ PressCross \/ PressLeave \/ PressKey
  BY <1>3, Zenon DEF NoPress, PressCross, PressLeave, PressKey, frameKept
<1>4. CASE LineTyped \/ LineCutOff \/ LineCancelled
  BY <1>4, Zenon DEF LineTyped, LineCutOff, LineCancelled, lineKept
<1>5. CASE WriteSome \/ WriteNothing \/ SendFails
  BY <1>5, Zenon DEF WriteSome, WriteNothing, SendFails
<1>6. CASE Leave \/ Stay \/ EndingRead \/ QuestionStands
  BY <1>6, Zenon DEF Leave, Stay, EndingRead, QuestionStands, frameKept
<1>7. CASE CloseSession \/ CloseSocket \/ Quit
  BY <1>7, Zenon DEF CloseSession, CloseSocket, Quit
<1>8. CASE System
  BY <1>8, Zenon DEF System
<1> QED
  BY <1>1, <1>2, <1>3, <1>4, <1>5, <1>6, <1>7, <1>8 DEF RunPart

LEMMA StepShakes == [Next]_vars => OpenMoves
<1>1. UNCHANGED vars => OpenMoves
  BY Zenon DEF vars, own, OpenMoves
<1> QED
  BY <1>1, OpenShakes, RestShakes, ProgramParts DEF Next

LEMMA OpenBounds == HP!Budget \in Nat /\ HP!Budget > 0 /\ 0 \in 0..ClockCap
<1>1. HP!Budget \in Nat /\ HP!Budget > 0
  BY HandshakeConstants, HP!BudgetPositive, Zenon
<1> QED
  BY <1>1, SessionAssumption

\* A session that is over leaves pspssh_open as it was before the first.
LEMMA OverKeeps == HP!IInv /\ ShakeOver => HP!IInv'
<1> SUFFICES ASSUME HP!IInv, ShakeOver PROVE HP!IInv'
  OBVIOUS
<1> USE DEF HP!IInv, ShakeOver
<1>1. HP!Budget \in Nat /\ HP!Budget > 0 /\ 0 \in 0..ClockCap
  BY OpenBounds
<1>2. HP!TypeOK'
  BY <1>1 DEF HP!TypeOK, HP!Errors
<1>3. HP!InBudget'
  BY <1>1 DEF HP!InBudget, HP!Budget
<1>4. HP!GoesOn' /\ HP!TimeoutIsTimeout'
  BY DEF HP!GoesOn, HP!TimeoutIsTimeout
<1>5. HP!Trust' /\ HP!Refusal' /\ HP!Holdings'
  BY DEF HP!Trust, HP!Refusal, HP!Holdings
<1> QED
  BY <1>2, <1>3, <1>4, <1>5

LEMMA StepHandshake == HP!IInv /\ [Next]_vars => HP!IInv'
<1>1. HP!IInv /\ [H!Next]_shake => HP!IInv'
  <2>1. [H!Next]_shake => [HP!Next]_HP!vars
    BY OneHandshake, Zenon DEF shake, HP!vars
  <2> QED
    BY <2>1, HandshakeConstants, HP!StepInv, Zenon
<1> QED
  BY <1>1, StepShakes, OverKeeps DEF OpenMoves

LEMMA OverResets ==
    ShakeOver => /\ pc' = "idle" /\ phase' = "hello" /\ held' = {} /\ secret' = FALSE
                 /\ policy' = policy
BY Zenon DEF ShakeOver

LEMMA InitResets ==
    Init => /\ pc = "idle" /\ phase = "hello" /\ held = {} /\ secret = FALSE
            /\ policy = TRUE /\ fd = FALSE
BY Zenon DEF Init, H!Init

LEMMA StepGiven == Given /\ [Next]_vars => Given'
<1>1. Given /\ ShakeOver => Given'
  BY OverResets DEF Given
<1>2. Given /\ H!Next => Given'
  BY DEF Given, H!Next, H!Begin, H!Setup, H!SetupFails, H!WouldBlock, H!Keyed,
     H!Authenticate, H!ConnectFails, H!Connected, H!Accept, H!Refuse, H!Wait, H!Fail
<1>3. Given /\ UNCHANGED shake => Given'
  BY DEF Given, shake
<1> QED
  BY <1>1, <1>2, <1>3, StepShakes DEF OpenMoves

-----------------------------------------------------------------------------
(* What exists, from place to place.                                        *)

LEMMA OpenExistence == Existence /\ OpenPart => Existence'
<1> SUFFICES ASSUME Existence, OpenPart PROVE Existence'
  OBVIOUS
<1> USE OverResets
    DEF Existence, WithSocket, WithSession, Terminal, GivesUp, Go, shake, own, openKept, Yes, No, Read, Pushed
<1>1. CASE Socket \/ NoSocket \/ Connected \/ NotConnected
  BY <1>1 DEF Socket, NoSocket, Connected, NotConnected
<1>2. CASE OpenStep \/ KeyDecided
  BY <1>2 DEF OpenStep, KeyDecided
<1>3. CASE KeyShown
  BY <1>3 DEF KeyShown, H!Keyed
<1>4. CASE KeyConfirmed \/ KeyRefused
  BY <1>4 DEF KeyConfirmed, KeyRefused
<1>5. CASE OpenFailed \/ Opened
  BY <1>5 DEF OpenFailed, Opened
<1> QED
  BY <1>1, <1>2, <1>3, <1>4, <1>5 DEF OpenPart

LEMMA RunExistence == Existence /\ RunPart => Existence'
<1> SUFFICES ASSUME Existence, RunPart PROVE Existence'
  OBVIOUS
<1> USE OverResets
    DEF Existence, WithSocket, WithSession, Terminal, Go, shake, own, frameKept, lineKept, Yes, No, Read, Pushed
<1>1. CASE Loop \/ Drain \/ DrainQuiet \/ DrainEnds
  BY <1>1 DEF Loop, Drain, DrainQuiet, DrainEnds
<1>2. CASE NoPress \/ PressCross \/ PressLeave \/ PressKey
  BY <1>2 DEF NoPress, PressCross, PressLeave, PressKey
<1>3. CASE LineTyped \/ LineCutOff \/ LineCancelled
  BY <1>3 DEF LineTyped, LineCutOff, LineCancelled
<1>4. CASE WriteSome \/ WriteNothing \/ SendFails
  BY <1>4 DEF WriteSome, WriteNothing, SendFails, SendOver
<1>5. CASE Leave \/ Stay \/ EndingRead \/ QuestionStands
  BY <1>5 DEF Leave, Stay, EndingRead, QuestionStands, Unmoved
<1>6. CASE CloseSession \/ CloseSocket \/ Quit
  BY <1>6 DEF CloseSession, CloseSocket, Quit
<1> QED
  BY <1>1, <1>2, <1>3, <1>4, <1>5, <1>6 DEF RunPart

LEMMA StepExistence == Existence /\ [Next]_vars => Existence'
<1> SUFFICES ASSUME Existence, [Next]_vars PROVE Existence'
  OBVIOUS
<1> USE DEF own, shake
<1>1. CASE ScreenStep
  BY <1>1, ScreenMoves DEF ScreenStep, Existence, WithSocket, WithSession, Terminal, Menu
<1>2. CASE NetworkStep
  BY <1>2 DEF NetworkStep, Network, NetUp, NetFails, GivesUp, Go,
     Existence, WithSocket, WithSession, Terminal
<1>3. CASE OpenPart \/ RunPart
  BY <1>3, OpenExistence, RunExistence
<1>4. CASE System \/ UNCHANGED vars
  BY <1>4 DEF System, ExitAsked, DialogStep, vars, screenVars, Existence
<1> QED
  BY <1>1, <1>2, <1>3, <1>4, ProgramParts DEF Next

\* All of it together.
SessionInv == HP!IInv /\ Existence /\ Given

LEMMA SessionAlways == Spec => []SessionInv
<1>1. Init => HP!IInv
  <2>1. Init => HP!Init
    BY Zenon DEF Init, H!Init, HP!Init
  <2> QED
    BY <2>1, HandshakeConstants, HP!InitInv, Zenon
<1>2. Init => Existence
  BY InitResets DEF Init, ScreensInit, Existence, WithSocket, WithSession, Terminal
<1>3. Init => Given
  BY InitResets DEF Given
<1>4. SessionInv /\ [Next]_vars => SessionInv'
  BY StepHandshake, StepExistence, StepGiven DEF SessionInv
<1> QED
  BY <1>1, <1>2, <1>3, <1>4, PTL DEF Spec, SessionInv

\* The terminal only ever runs on a session that is whole and was given the
\* password, on an open socket, which is closed after the session that still
\* writes to it (run_session, pspssh_close).
THEOREM SessionsHaveSockets == Spec => []SessionHasSocket
<1>1. SessionInv => SessionHasSocket
  <2> SUFFICES ASSUME SessionInv PROVE SessionHasSocket
    OBVIOUS
  <2>1. held # {} => fd
    BY DEF SessionInv, Existence, WithSocket, WithSession
  <2>2. at \in Terminal => pc = "opened" /\ secret
    BY DEF SessionInv, Existence, Given
  <2>3. pc = "opened" => held = {"s", "ctx", "ssh"}
    BY DEF SessionInv, HP!IInv, HP!Holdings
  <2> QED
    BY <2>1, <2>2, <2>3 DEF SessionHasSocket
<1> QED
  BY <1>1, SessionAlways, PTL

\* However a session or an attempt at one ended, the list is shown again with
\* nothing of it left (run_session).
THEOREM NothingStaysOpen == Spec => []NothingLeftOpen
<1>1. SessionInv => NothingLeftOpen
  BY DEF SessionInv, Existence, WithSocket, WithSession, Terminal, Menu, NothingLeftOpen
<1> QED
  BY <1>1, SessionAlways, PTL

\* The password is given to wolfSSH only after check_hostkey's yes, in every
\* session of a run and whatever was left of the one before.
THEOREM PasswordAfterYes == Spec => [](secret => phase = "authed" /\ policy /\ ~refused)
<1>1. SessionInv => (secret => phase = "authed" /\ policy /\ ~refused)
  BY DEF SessionInv, HP!IInv, HP!Trust
<1> QED
  BY <1>1, SessionAlways, PTL

-----------------------------------------------------------------------------
(* Passwords in memory.                                                     *)

Wiped == secrets \subseteq Places /\ PasswordsWiped

LEMMA ScreenWiped == Wiped /\ Screen => Wiped'
<1> SUFFICES ASSUME Wiped, Screen PROVE Wiped'
  OBVIOUS
<1> USE DEF Wiped, PasswordsWiped, Places, OnList, Pushed, Go, listKept, askKept, formKept,
            replyKept, Answered, Yes, No, Read, Unmoved, oskVars, promptVars
<1>b. "none" \notin Entered
  BY DEF Entered
<1> USE <1>b
<1>1. CASE ListFrame \/ ListStays \/ ListMoves \/ ListQuit
  BY <1>1 DEF ListFrame, ListStays, ListMoves, ListQuit
<1>2. CASE ChooseStored \/ ChooseAsked \/ AskDelete \/ AskForget
  BY <1>2 DEF ChooseStored, ChooseAsked, AskDelete, AskForget
<1>3. CASE Delete \/ Forget \/ Declined
  BY <1>3 DEF Delete, Forget, Declined
<1>4. CASE OpenForm \/ FieldMoves \/ EditField \/ SaveFails
  BY <1>4 DEF OpenForm, FieldMoves, EditField, SaveFails
<1>5. CASE SaveForm \/ CancelForm \/ LeaveForm
  BY <1>5 DEF SaveForm, CancelForm, LeaveForm, FormOver
<1>6. CASE FieldEdited \/ FieldRefused \/ PasswordTyped \/ PasswordEmpty \/ PasswordCancelled
  BY <1>6 DEF FieldEdited, FieldRefused, PasswordTyped, PasswordEmpty, PasswordCancelled
<1>7. CASE MessageRead \/ NothingPressed \/ Waiting
  BY <1>7 DEF MessageRead, NothingPressed, Waiting
<1>8. CASE Keyboard
  <2>1. CASE Prompt /\ secrets' = secrets \ {"out16"}
    BY <1>8, <2>1 DEF Keyboard, Prompt
  <2>2. CASE secrets' = IF reply' \in Entered THEN secrets \ {"out16"} ELSE secrets
    BY <1>8, <2>2 DEF Keyboard, Typing
  <2> QED
    BY <1>8, <2>1, <2>2 DEF Keyboard
<1> QED
  BY <1>1, <1>2, <1>3, <1>4, <1>5, <1>6, <1>7, <1>8 DEF Screen

LEMMA OpenWiped == Wiped /\ OpenPart => Wiped'
<1> SUFFICES ASSUME Wiped, OpenPart PROVE Wiped'
  OBVIOUS
<1>a. reply' \in {reply, "none"}
  BY OpenKeepsMenu DEF MenuKept
<1>b. "none" \notin Entered
  BY DEF Entered
<1> USE <1>a, <1>b
        DEF Wiped, PasswordsWiped, GivesUp, Go, calm, openKept, Yes, No, Read, Pushed
<1>1. CASE Socket \/ NoSocket \/ Connected \/ NotConnected
  BY <1>1 DEF Socket, NoSocket, Connected, NotConnected
<1>2. CASE OpenStep \/ KeyDecided
  BY <1>2 DEF OpenStep, KeyDecided
<1>3. CASE KeyShown \/ KeyConfirmed \/ KeyRefused
  BY <1>3 DEF KeyShown, KeyConfirmed, KeyRefused
<1>4. CASE OpenFailed \/ Opened
  BY <1>4 DEF OpenFailed, Opened
<1> QED
  BY <1>1, <1>2, <1>3, <1>4 DEF OpenPart

LEMMA RunWiped == Wiped /\ RunPart => Wiped'
<1> SUFFICES ASSUME Wiped, RunPart PROVE Wiped'
  OBVIOUS
<1>a. reply' \in {reply, "none"}
  BY RunKeepsMenu DEF MenuKept
<1>b. "none" \notin Entered
  BY DEF Entered
<1> USE <1>a, <1>b
        DEF Wiped, PasswordsWiped, Places, Go, frameKept, lineKept, Yes, No, Read, Pushed
<1>1. CASE Loop \/ Drain \/ DrainQuiet \/ DrainEnds
  BY <1>1 DEF Loop, Drain, DrainQuiet, DrainEnds
<1>2. CASE NoPress \/ PressCross \/ PressLeave \/ PressKey
  BY <1>2 DEF NoPress, PressCross, PressLeave, PressKey
<1>3. CASE LineTyped \/ LineCutOff \/ LineCancelled
  BY <1>3 DEF LineTyped, LineCutOff, LineCancelled
<1>4. CASE WriteSome \/ WriteNothing \/ SendFails
  BY <1>4 DEF WriteSome, WriteNothing, SendFails, SendOver
<1>5. CASE Leave \/ Stay \/ EndingRead \/ QuestionStands
  BY <1>5 DEF Leave, Stay, EndingRead, QuestionStands, Unmoved
<1>6. CASE CloseSession \/ CloseSocket \/ Quit
  BY <1>6 DEF CloseSession, CloseSocket, Quit
<1> QED
  BY <1>1, <1>2, <1>3, <1>4, <1>5, <1>6 DEF RunPart

\* A panel comes down on a prompt, not on a text that was returned.
LEMMA DialogWiped == OskInv /\ Wiped /\ DialogStep => Wiped'
<1> SUFFICES ASSUME OskInv, Wiped, DialogStep PROVE Wiped'
  OBVIOUS
<1>1. reply' = reply /\ at' = at /\ at # "done"
  BY DEF DialogStep, Dialog, Appears, Dismissed, GoesAway, promptKept, promptVars, Typing
<1>2. reply \in Entered => secrets' = secrets
  BY DEF OskInv, Settled, DialogStep
<1>3. secrets' \in {secrets, secrets \union {"out16"}}
  BY DEF DialogStep
<1> QED
  BY <1>1, <1>2, <1>3 DEF Wiped, PasswordsWiped, Places

LEMMA StepWiped == OskInv /\ Wiped /\ [Next]_vars => Wiped'
<1> SUFFICES ASSUME OskInv, Wiped, [Next]_vars PROVE Wiped'
  OBVIOUS
<1>1. CASE ScreenStep
  BY <1>1, ScreenWiped DEF ScreenStep
<1>2. CASE NetworkStep
  <2>1. reply' \in {reply, "none"} /\ "none" \notin Entered
    BY <1>2, NetworkKeepsMenu DEF MenuKept, Entered
  <2> QED
    BY <1>2, <2>1 DEF NetworkStep, Network, NetUp, NetFails, GivesUp, Go, Wiped,
       PasswordsWiped
<1>3. CASE OpenPart \/ RunPart
  BY <1>3, OpenWiped, RunWiped
<1>4. CASE System
  <2>1. CASE DialogStep
    BY <2>1, DialogWiped
  <2>2. CASE UNCHANGED <<at, secrets, reply>>
    BY <2>2 DEF Wiped, PasswordsWiped
  <2> QED
    BY <1>4, <2>1, <2>2 DEF System, ExitAsked, oskVars, promptVars
<1>5. CASE UNCHANGED vars
  BY <1>5 DEF vars, screenVars, oskVars, promptVars, Wiped, PasswordsWiped
<1> QED
  BY <1>1, <1>2, <1>3, <1>4, <1>5, ProgramParts DEF Next

LEMMA WipedAlways == Spec => []Wiped
<1>1. Init => Wiped
  BY DEF Init, ScreensInit, OskInit, Wiped, PasswordsWiped, Places, Entered
<1> QED
  BY <1>1, StepWiped, OskAlways, PTL DEF Spec

\* A password is in memory only while something still needs it: run_session's
\* copy until wolfSSH has it, the form while it is shown, the typed line while
\* it is sent; and nowhere but in the keyboard's out16 once the program has left
\* (main).  out16 is empty whenever osk_prompt has returned a text; what is in it
\* when osk_prompt returned without one, no theorem says.
THEOREM PasswordsAreWiped == Spec => []PasswordsWiped
<1>1. Wiped => PasswordsWiped
  BY DEF Wiped
<1> QED
  BY <1>1, WipedAlways, PTL

-----------------------------------------------------------------------------
(* A send that failed.                                                      *)

LEMMA OpenTorn == NothingAfterTorn /\ OpenPart => NothingAfterTorn'
<1> SUFFICES ASSUME NothingAfterTorn, OpenPart PROVE NothingAfterTorn'
  OBVIOUS
<1> USE DEF NothingAfterTorn, GivesUp, Go, openKept, own, Yes, No, Read, Pushed
<1>1. CASE Socket \/ NoSocket \/ Connected \/ NotConnected
  BY <1>1 DEF Socket, NoSocket, Connected, NotConnected
<1>2. CASE OpenStep \/ KeyShown \/ KeyDecided \/ KeyConfirmed \/ KeyRefused
  BY <1>2 DEF OpenStep, KeyShown, KeyDecided, KeyConfirmed, KeyRefused
<1>3. CASE OpenFailed \/ Opened
  BY <1>3 DEF OpenFailed, Opened
<1> QED
  BY <1>1, <1>2, <1>3 DEF OpenPart

LEMMA RunTorn == NothingAfterTorn /\ RunPart => NothingAfterTorn'
<1> SUFFICES ASSUME NothingAfterTorn, RunPart PROVE NothingAfterTorn'
  OBVIOUS
<1> USE DEF NothingAfterTorn, Go, own, frameKept, lineKept, Yes, No, Read, Pushed
<1>1. CASE Loop \/ Drain \/ DrainQuiet \/ DrainEnds
  BY <1>1 DEF Loop, Drain, DrainQuiet, DrainEnds
<1>2. CASE NoPress \/ PressCross \/ PressLeave \/ PressKey
  BY <1>2 DEF NoPress, PressCross, PressLeave, PressKey
<1>3. CASE LineTyped \/ LineCutOff \/ LineCancelled
  BY <1>3 DEF LineTyped, LineCutOff, LineCancelled
<1>4. CASE WriteSome \/ WriteNothing \/ SendFails
  BY <1>4 DEF WriteSome, WriteNothing, SendFails, SendOver
<1>5. CASE Leave \/ Stay \/ EndingRead \/ QuestionStands
  BY <1>5 DEF Leave, Stay, EndingRead, QuestionStands, Unmoved
<1>6. CASE CloseSession \/ CloseSocket \/ Quit
  BY <1>6 DEF CloseSession, CloseSocket, Quit
<1> QED
  BY <1>1, <1>2, <1>3, <1>4, <1>5, <1>6 DEF RunPart

\* After a send has failed nothing is sent in that session any more (send_all
\* and its callers).
THEOREM TornIsLast == Spec => []NothingAfterTorn
<1>1. Init => NothingAfterTorn
  BY DEF Init, NothingAfterTorn
<1>2. NothingAfterTorn /\ [Next]_vars => NothingAfterTorn'
  <2> SUFFICES ASSUME NothingAfterTorn, [Next]_vars PROVE NothingAfterTorn'
    OBVIOUS
  <2>1. CASE ScreenStep
    BY <2>1, ScreenMoves DEF ScreenStep, NothingAfterTorn, own, Menu
  <2>2. CASE NetworkStep
    BY <2>2 DEF NetworkStep, Network, NetUp, NetFails, GivesUp, Go, own, NothingAfterTorn
  <2>3. CASE OpenPart \/ RunPart
    BY <2>3, OpenTorn, RunTorn
  <2>4. CASE System \/ UNCHANGED vars
    BY <2>4 DEF System, ExitAsked, DialogStep, vars, screenVars, own, NothingAfterTorn
  <2> QED
    BY <2>1, <2>2, <2>3, <2>4, ProgramParts DEF Next
<1> QED
  BY <1>1, <1>2, PTL DEF Spec

-----------------------------------------------------------------------------
(* net_start.                                                               *)

\* The place of a saved connection in the order list_profiles asks.
RankIn(S, p) == Cardinality({q \in S : q <= p})
Rank(p) == RankIn(available, p)

\* The one whose turn it is counts as tried once it is being joined.
Counted == net \in {"join", "yes"}
HadTurn(p) ==
    /\ p \in available
    /\ IF p = preferred THEN turn > 0 \/ Counted
       ELSE Rank(p) < turn \/ (Counted /\ Rank(p) = turn)

NetInv ==
    /\ preferred \in Profiles \union {0}
    /\ available \subseteq Profiles
    /\ turn \in Nat /\ turn <= Count + 1
    /\ tried = [p \in Profiles |-> IF HadTurn(p) THEN 1 ELSE 0]
    /\ net \in {"idle", "start"} => available = {}
    /\ net \in {"next", "join"} /\ turn = 0 => preferred \in available
    /\ net = "join" => turn <= Count /\ (turn > 0 => Available(turn) # preferred)
    /\ net = "no" => available = {} \/ turn > Count \/ exit

\* The ranks in a finite set are the numbers from 1 to its size, each once.
LEMMA RanksIn ==
    ASSUME NEW S \in SUBSET Profiles
    PROVE  /\ Cardinality(S) \in Nat
           /\ S = {} <=> Cardinality(S) = 0
           /\ \A p \in S : RankIn(S, p) \in 1..Cardinality(S)
           /\ \A p, q \in S : RankIn(S, p) = RankIn(S, q) => p = q
           /\ \A i \in 1..Cardinality(S) : \E p \in S : RankIn(S, p) = i
<1> DEFINE Upto(p) == {q \in S : q <= p}
           rank == [p \in S |-> RankIn(S, p)]
<1>0. IsFiniteSet(S) /\ S \subseteq Nat
  BY NetAssumption, FS_Subset
<1>1. Cardinality(S) \in Nat /\ (S = {} <=> Cardinality(S) = 0)
  BY <1>0, FS_CardinalityType, FS_EmptySet
<1>2. ASSUME NEW p \in S
      PROVE  /\ IsFiniteSet(Upto(p)) /\ p \in Upto(p)
             /\ RankIn(S, p) \in Nat /\ 1 <= RankIn(S, p) /\ RankIn(S, p) <= Cardinality(S)
  <2>1. IsFiniteSet(Upto(p)) /\ Cardinality(Upto(p)) <= Cardinality(S)
    BY <1>0, FS_Subset
  <2>2. p \in Upto(p)
    BY <1>0
  <2>3. Cardinality(Upto(p)) \in Nat /\ Cardinality(Upto(p)) # 0
    BY <2>1, <2>2, FS_CardinalityType, FS_EmptySet
  <2> QED
    BY <2>1, <2>2, <2>3 DEF RankIn
<1>3. ASSUME NEW p \in S, NEW q \in S, p < q
      PROVE  RankIn(S, p) # RankIn(S, q)
  <2>1. p \in Nat /\ q \in Nat /\ ~(q <= p)
    BY <1>0, <1>3
  <2>2. ASSUME NEW x \in Upto(p) PROVE x \in Upto(q)
    <3>1. x \in Nat /\ x <= p
      BY <1>0
    <3> QED
      BY <1>3, <2>1, <3>1
  <2>3. Upto(p) \subseteq Upto(q) /\ q \notin Upto(p)
    BY <2>1, <2>2
  <2> QED
    BY <1>2, <2>3, FS_Subset DEF RankIn
<1>4. \A p, q \in S : RankIn(S, p) = RankIn(S, q) => p = q
  BY <1>0, <1>3
<1>5. ASSUME NEW p \in S PROVE RankIn(S, p) \in 1..Cardinality(S)
  <2>1. RankIn(S, p) \in Nat /\ 1 <= RankIn(S, p) /\ RankIn(S, p) <= Cardinality(S)
    BY <1>2
  <2> QED
    BY <1>1, <2>1
<1>6. rank \in Injection(S, 1..Cardinality(S))
  <2>1. rank \in [S -> 1..Cardinality(S)] /\ DOMAIN rank = S
    BY <1>5
  <2>2. \A p, q \in DOMAIN rank : rank[p] = rank[q] => p = q
    BY <1>4
  <2> QED
    BY <2>1, <2>2 DEF Injection, IsInjective
<1>7. rank \in Surjection(S, 1..Cardinality(S))
  <2>1. IsFiniteSet(1..Cardinality(S)) /\ Cardinality(1..Cardinality(S)) = Cardinality(S)
    BY <1>1, FS_Interval
  <2> QED
    BY <1>6, <2>1, FS_Injection
<1>8. ASSUME NEW i \in 1..Cardinality(S) PROVE \E p \in S : RankIn(S, p) = i
  BY <1>7 DEF Surjection
<1> QED
  BY <1>1, <1>4, <1>5, <1>8

LEMMA Ranks ==
    ASSUME available \subseteq Profiles
    PROVE  /\ Count \in Nat
           /\ available = {} <=> Count = 0
           /\ \A p \in available : Rank(p) \in 1..Count
           /\ \A p, q \in available : Rank(p) = Rank(q) => p = q
           /\ \A i \in 1..Count : Available(i) \in available /\ Rank(Available(i)) = i
<1>1. /\ Count \in Nat /\ (available = {} <=> Count = 0)
      /\ \A p \in available : Rank(p) \in 1..Count
      /\ \A p, q \in available : Rank(p) = Rank(q) => p = q
      /\ \A i \in 1..Count : \E p \in available : Rank(p) = i
  BY RanksIn DEF Count, Rank
<1>2. \A i : Available(i) = CHOOSE p \in available : Rank(p) = i
  BY DEF Available, Rank, RankIn
<1>3. \A i \in 1..Count : Available(i) \in available /\ Rank(Available(i)) = i
  BY <1>1, <1>2
<1> QED
  BY <1>1, <1>3

\* A step that neither tries one nor asks for the list.
LEMMA NetTurns ==
    ASSUME NetInv, UNCHANGED <<preferred, available, tried>>, exit => exit',
           turn' \in Nat, turn' <= Count + 1,
           \A p \in available : HadTurn(p)' <=> HadTurn(p),
           net' \in {"idle", "start"} => available = {},
           net' \in {"next", "join"} /\ turn' = 0 => preferred \in available,
           net' = "join" => turn' <= Count /\ (turn' > 0 => Available(turn') # preferred),
           net' = "no" => available = {} \/ turn' > Count \/ exit
    PROVE  NetInv'
<1>1. Count' = Count /\ \A i : Available(i)' = Available(i)
  BY DEF Count, Available
<1>2. \A p \in Profiles : HadTurn(p)' <=> HadTurn(p)
  BY DEF HadTurn
<1>3. tried' = [p \in Profiles |-> IF HadTurn(p)' THEN 1 ELSE 0]
  BY <1>2 DEF NetInv
<1> QED
  BY <1>1, <1>3 DEF NetInv

LEMMA NetSteps == ASSUME NetInv, NetStep PROVE NetInv'
<1> USE DEF netKept
<1>0. /\ available \subseteq Profiles /\ preferred \in Profiles \union {0}
      /\ turn \in Nat /\ turn <= Count + 1
      /\ tried = [p \in Profiles |-> IF HadTurn(p) THEN 1 ELSE 0]
  BY DEF NetInv
<1>r. /\ Count \in Nat
      /\ available = {} <=> Count = 0
      /\ \A p \in available : Rank(p) \in 1..Count
      /\ \A p, q \in available : Rank(p) = Rank(q) => p = q
      /\ \A i \in 1..Count : Available(i) \in available /\ Rank(Available(i)) = i
  BY <1>0, Ranks
<1>k. ASSUME UNCHANGED <<available, preferred>>
      PROVE  \A p : HadTurn(p)' <=>
                /\ p \in available
                /\ IF p = preferred THEN turn' > 0 \/ net' \in {"join", "yes"}
                   ELSE Rank(p) < turn' \/ (net' \in {"join", "yes"} /\ Rank(p) = turn')
  BY <1>k DEF HadTurn, Counted, Rank, RankIn
<1>1. CASE AlreadyConnected \/ NoStack
  BY <1>0, <1>1, <1>k, NetTurns DEF AlreadyConnected, NoStack, NetInv, HadTurn
<1>2. CASE ListProfiles
  <2>1. /\ net = "start" /\ available = {}
        /\ available' \subseteq Profiles /\ preferred' = preferred /\ tried' = tried
        /\ net' = IF available' = {} THEN "no" ELSE "next"
        /\ turn' = IF preferred \in available' THEN 0 ELSE 1
    BY <1>2 DEF ListProfiles, NetInv
  <2>2. Count' \in Nat /\ \A p \in available' : Rank(p)' \in 1..Count'
    BY <2>1, RanksIn DEF Count, Rank
  <2>3. \A p \in Profiles : ~HadTurn(p) /\ ~HadTurn(p)'
    <3>1. ASSUME NEW p \in available' PROVE ~HadTurn(p)'
      <4>1. Rank(p)' \in Nat /\ 1 <= Rank(p)'
        BY <2>2
      <4>2. net' \notin {"join", "yes"} /\ turn' \in {0, 1} /\ (p = preferred => turn' = 0)
        BY <2>1
      <4> QED
        BY <2>1, <4>1, <4>2 DEF HadTurn, Counted
    <3> QED
      BY <2>1, <3>1 DEF HadTurn
  <2>4. tried' = [p \in Profiles |-> IF HadTurn(p)' THEN 1 ELSE 0]
    BY <1>0, <2>1, <2>3
  <2>5. /\ turn' \in Nat /\ turn' <= Count' + 1
        /\ net' \in {"next", "no"} /\ (net' = "no" => available' = {})
        /\ turn' = 0 => preferred' \in available'
    <3>1. turn' \in {0, 1} /\ (turn' = 0 => preferred \in available')
      BY <2>1
    <3>2. Count' \in Nat
      BY <2>2
    <3>3. turn' \in Nat /\ turn' <= Count' + 1
      BY <3>1, <3>2 DEF Count
    <3> QED
      BY <2>1, <3>1, <3>3
  <2> QED
    BY <1>0, <2>1, <2>4, <2>5 DEF NetInv
<1>3. CASE Skip
  BY <1>0, <1>r, <1>3, <1>k, NetTurns DEF Skip, MayGoOn, Candidate, NetInv, HadTurn, Counted
<1>4. CASE Try
  <2> DEFINE c == Candidate
  <2>1. /\ UNCHANGED <<available, preferred>> /\ net = "next"
        /\ tried' = [tried EXCEPT ![c] = @ + 1]
        /\ \/ net' = "join" /\ turn' = turn
           \/ net' = "next" /\ turn' = turn + 1
    BY <1>4 DEF Try
  <2>2. /\ c \in available /\ turn <= Count /\ ~HadTurn(c)
        /\ IF turn = 0 THEN c = preferred ELSE c # preferred /\ Rank(c) = turn
        /\ turn > 0 => c = Available(turn)
    BY <1>0, <1>r, <1>4 DEF Try, MayGoOn, Candidate, NetInv, HadTurn, Counted
  <2>3. \A p \in Profiles : HadTurn(p)' <=> HadTurn(p) \/ p = c
    BY <1>0, <1>r, <1>k, <2>1, <2>2 DEF HadTurn, Counted
  <2>4. tried' = [p \in Profiles |-> IF HadTurn(p)' THEN 1 ELSE 0]
    BY <1>0, <2>1, <2>2, <2>3
  <2>5. Count' = Count /\ Available(turn)' = Available(turn') /\ turn' \in Nat
    BY <1>0, <2>1 DEF Count, Available
  <2>6. net' = "join" => turn' <= Count' /\ (turn' > 0 => Available(turn)' # preferred')
    BY <2>1, <2>2, <2>5
  <2>7. turn' <= Count' + 1 /\ (net' = "next" => turn' # 0) /\ (turn' = 0 => preferred \in available)
    BY <1>0, <1>r, <2>1, <2>2, <2>5
  <2> QED
    BY <1>0, <2>1, <2>4, <2>5, <2>6, <2>7 DEF NetInv
<1>5. CASE NotYet \/ HasAddress
  BY <1>0, <1>r, <1>5, <1>k, NetTurns DEF NotYet, HasAddress, NetInv, HadTurn, Counted
<1>6. CASE TurnedAway
  BY <1>0, <1>r, <1>6, <1>k, NetTurns DEF TurnedAway, NetInv, HadTurn, Counted
<1>7. CASE NoneLeft
  BY <1>0, <1>r, <1>7, <1>k, NetTurns DEF NoneLeft, NetInv, HadTurn, Counted
<1> QED
  BY <1>1, <1>2, <1>3, <1>4, <1>5, <1>6, <1>7 DEF NetStep

\* net_start's argument arrives, and its answer is taken away.
LEMMA NetEnds ==
    ASSUME NetInv, NetOver \/ \E p \in Profiles \union {0} : NetStart(p)
    PROVE  NetInv'
<1>1. available' = {} /\ preferred' \in Profiles \union {0} /\ net' \in {"idle", "start"}
  BY DEF NetOver, NetStart, NetInv
<1>2. turn' \in Nat /\ tried' = [p \in Profiles |-> 0]
  BY DEF NetOver, NetStart, NetInv, HadTurn
<1>3. turn' <= Count' + 1
  <2>1. CASE NetOver
    BY <2>1, <1>1, FS_EmptySet DEF NetOver, Count
  <2>2. CASE \E p \in Profiles \union {0} : NetStart(p)
    BY <2>2 DEF NetStart, NetInv, Count
  <2> QED
    BY <2>1, <2>2
<1>4. \A p \in Profiles : ~HadTurn(p)'
  BY <1>1 DEF HadTurn
<1> QED
  BY <1>1, <1>2, <1>3, <1>4 DEF NetInv

\* Only net_start has its variables; the radio and the exit flag are others'.
LEMMA NetElsewhere ==
    ASSUME NetInv, UNCHANGED startVars, exit => exit'
    PROVE  NetInv'
<1>1. Count' = Count /\ \A i : Available(i)' = Available(i)
  BY DEF Count, Available, startVars
<1>2. \A p \in Profiles : HadTurn(p)' <=> HadTurn(p)
  BY DEF HadTurn, Counted, Rank, RankIn, startVars
<1>3. tried' = [p \in Profiles |-> IF HadTurn(p)' THEN 1 ELSE 0]
  BY <1>2 DEF NetInv, startVars
<1> QED
  BY <1>1, <1>3 DEF NetInv, startVars

\* The exit flag only goes up.
LEMMA StepExit == ASSUME [Next]_vars PROVE exit' \in {exit, TRUE}
<1>1. CASE ScreenStep
  <2>1. Screen
    BY <1>1 DEF ScreenStep
  <2> QED
    BY <2>1, ScreenOsk DEF oskKept, Prompt, OskStep, Leftover, Start, StartFails, Poll,
       Flip, Over, GiveUp, GivingUp
<1>2. CASE NetworkStep \/ OpenPart \/ RunPart
  BY <1>2, OwnKeepsMenu DEF MenuKept
<1>3. CASE System
  BY <1>3 DEF System, ExitAsked, DialogStep, Dialog, Appears, Dismissed, GoesAway,
     promptKept, Radio
<1>4. CASE UNCHANGED vars
  BY <1>4 DEF vars, screenVars
<1> QED
  BY <1>1, <1>2, <1>3, <1>4, ProgramParts DEF Next

\* Beside net_start, and the radio itself, no step has to do with the network.
LEMMA NetworkParts ==
    ASSUME [Next]_vars
    PROVE  \/ NetStep \/ NetOver \/ \E p \in Profiles \union {0} : NetStart(p)
           \/ Radio
           \/ UNCHANGED netVars
<1>1. CASE ScreenStep
  BY <1>1 DEF ScreenStep
<1>2. CASE NetworkStep
  BY <1>2 DEF NetworkStep, Network, NetUp, NetFails
<1>3. CASE OpenPart \/ RunPart
  BY <1>3, OpenKeepsMenu, RunKeepsMenu
<1>4. CASE System
  BY <1>4 DEF System
<1>5. CASE UNCHANGED vars
  BY <1>5 DEF vars
<1> QED
  BY <1>1, <1>2, <1>3, <1>4, <1>5, ProgramParts DEF Next

LEMMA StepNet == NetInv /\ [Next]_vars => NetInv'
<1> SUFFICES ASSUME NetInv, [Next]_vars PROVE NetInv'
  OBVIOUS
<1>1. CASE NetStep
  BY <1>1, NetSteps
<1>2. CASE NetOver \/ \E p \in Profiles \union {0} : NetStart(p)
  BY <1>2, NetEnds
<1>3. CASE Radio
  BY <1>3, NetElsewhere DEF Radio
<1>4. CASE UNCHANGED netVars
  <2>1. exit => exit'
    BY StepExit, Zenon
  <2> QED
    BY <1>4, <2>1, NetElsewhere DEF netVars
<1> QED
  BY <1>1, <1>2, <1>3, <1>4, NetworkParts

LEMMA NetAlways == Spec => []NetInv
<1>1. Init => NetInv
  BY FS_EmptySet DEF Init, NetInit, NetInv, Count, HadTurn
<1> QED
  BY <1>1, StepNet, PTL DEF Spec

\* net_start tries no connection twice, the one it was asked for before any
\* other, and gives up only when each was tried or the program is to leave.
THEOREM EachProfileOnce == Spec => []ProfilesTried
<1>1. ASSUME NetInv PROVE ProfilesTried
  <2>1. \A p \in Profiles : tried[p] = IF HadTurn(p) THEN 1 ELSE 0
    BY <1>1 DEF NetInv
  <2>2. /\ Count \in Nat /\ turn \in Nat /\ available \subseteq Profiles
        /\ \A p \in available : Rank(p) \in 1..Count
    BY <1>1, Ranks DEF NetInv
  <2>3. ASSUME preferred \in available, NEW p \in available, tried[p] > 0
        PROVE  tried[preferred] = 1
    <3>1. HadTurn(p)
      BY <2>1, <2>2, <2>3
    <3>2. Rank(p) \in Nat /\ 1 <= Rank(p)
      BY <2>2
    <3>3. turn > 0 \/ Counted
      BY <2>2, <3>1, <3>2 DEF HadTurn
    <3> QED
      BY <2>1, <2>2, <2>3, <3>3 DEF HadTurn
  <2>4. ASSUME net = "no", ~exit, NEW p \in available
        PROVE  tried[p] = 1
    <3>1. turn > Count
      BY <1>1, <2>4 DEF NetInv
    <3>2. Rank(p) \in Nat /\ Rank(p) <= Count
      BY <2>2
    <3>3. HadTurn(p)
      BY <2>2, <3>1, <3>2 DEF HadTurn
    <3> QED
      BY <2>1, <2>2, <3>3
  <2> QED
    BY <2>1, <2>3, <2>4 DEF ProfilesTried
<1> QED
  BY <1>1, NetAlways, PTL

\* No association is left half made when an attempt is over (try_profile).
THEOREM NothingHalfOpen == Spec => []NoHalfOpen
<1>1. Init => NoHalfOpen
  BY DEF Init, NetInit, NoHalfOpen
<1>2. NoHalfOpen /\ [Next]_vars => NoHalfOpen'
  <2> SUFFICES ASSUME NoHalfOpen, [Next]_vars PROVE NoHalfOpen'
    OBVIOUS
  <2>1. CASE NetStep
    BY <2>1 DEF NoHalfOpen, NetStep, AlreadyConnected, NoStack, ListProfiles, Skip, Try,
       NotYet, HasAddress, TurnedAway, NoneLeft
  <2>2. CASE NetOver \/ \E p \in Profiles \union {0} : NetStart(p)
    BY <2>2 DEF NoHalfOpen, NetOver, NetStart
  <2>3. CASE Radio
    BY <2>3 DEF NoHalfOpen, Radio, Joins, Loses
  <2>4. CASE UNCHANGED netVars
    BY <2>4 DEF NoHalfOpen, netVars, startVars
  <2> QED
    BY <2>1, <2>2, <2>3, <2>4, NetworkParts
<1> QED
  BY <1>1, <1>2, PTL DEF Spec

-----------------------------------------------------------------------------
(* Types.                                                                   *)

\* The buttons.
LEMMA OwnLooks == NetworkStep \/ OpenPart \/ RunPart => PadMoves
<1> SUFFICES ASSUME NetworkStep \/ OpenPart \/ RunPart PROVE PadMoves
  OBVIOUS
<1>b. {"cross", "circle", "square", "triangle", "select", "up", "down", "none"}
          = Buttons \union {"none"}
  BY DEF Buttons
<1>k. UNCHANGED <<seen, acted, again>> /\ wait' \in {wait, 0} => PadMoves
  BY DEF PadMoves
<1> USE <1>b, <1>k DEF padVars, calm, givesUpKept, Drains
<1>1. CASE NetworkStep
  BY <1>1 DEF NetworkStep, Network, NetUp, NetFails, NetStep, NetStart, AlreadyConnected,
     NoStack, ListProfiles, Skip, Try, NotYet, HasAddress, TurnedAway, NoneLeft, netKept,
     GivesUp
<1>2. CASE Socket \/ NoSocket \/ Connected \/ NotConnected \/ OpenFailed \/ Opened
  BY <1>2 DEF Socket, NoSocket, Connected, NotConnected, OpenFailed, Opened, GivesUp
<1>3. CASE OpenStep \/ KeyShown \/ KeyDecided
  BY <1>3 DEF OpenStep, KeyShown, KeyDecided
<1>4. CASE KeyConfirmed \/ KeyRefused \/ Leave \/ Stay \/ EndingRead
  BY <1>4, AskLooks DEF KeyConfirmed, KeyRefused, Leave, Stay, EndingRead
<1>5. CASE Loop \/ Drain \/ DrainQuiet \/ DrainEnds
  BY <1>5 DEF Loop, Drain, DrainQuiet, DrainEnds
<1>6. CASE NoPress \/ PressCross \/ PressLeave
  BY <1>6, PushLooks DEF NoPress, PressCross, PressLeave
<1>7. CASE PressKey
  <2>1. PICK now \in Samples :
            LET b == First(FrameOrder, now)
            IN  /\ b \in {Keys[i] : i \in DOMAIN Keys}
                /\ Look(now, {b} \union ({"circle"} \intersect Pressed(now)))
    BY <1>7 DEF PressKey
  <2>2. {Keys[i] : i \in DOMAIN Keys} \subseteq Buttons /\ "circle" \in Buttons
    BY DEF Keys, Buttons
  <2>3. Looks
    BY <2>1, <2>2 DEF Looks
  <2> QED
    BY <1>7, <2>3 DEF PressKey, PadMoves
<1>8. CASE LineTyped \/ LineCutOff \/ LineCancelled
  BY <1>8 DEF LineTyped, LineCutOff, LineCancelled, lineKept, replyKept
<1>9. CASE WriteSome \/ WriteNothing \/ SendFails
  BY <1>9 DEF WriteSome, WriteNothing, SendFails, SendOver
<1>10. CASE QuestionStands
  BY <1>10, UnmovedLooks DEF QuestionStands
<1>11. CASE CloseSession \/ CloseSocket \/ Quit
  BY <1>11 DEF CloseSession, CloseSocket, Quit
<1> QED
  BY <1>1, <1>2, <1>3, <1>4, <1>5, <1>6, <1>7, <1>8, <1>9, <1>10, <1>11
     DEF OpenPart, RunPart

LEMMA StepPad == PadTypeOK /\ [Next]_vars => PadTypeOK'
<1> SUFFICES ASSUME PadTypeOK, [Next]_vars PROVE PadTypeOK'
  OBVIOUS
<1>1. exit' \in {exit, TRUE}
  BY StepExit
<1>2. exit' \in BOOLEAN
  BY <1>1, Zenon DEF PadTypeOK
<1>3. PadMoves
  <2>1. CASE ScreenStep
    BY <2>1, ScreenLooks DEF ScreenStep
  <2>2. CASE NetworkStep \/ OpenPart \/ RunPart
    BY <2>2, OwnLooks
  <2>3. CASE System
    BY <2>3, DialogLooks DEF System, ExitAsked, DialogStep, Radio, padVars, PadMoves
  <2>4. CASE UNCHANGED vars
    BY <2>4 DEF vars, screenVars, padVars, PadMoves
  <2> QED
    BY <2>1, <2>2, <2>3, <2>4, ProgramParts DEF Next
<1> QED
  BY <1>2, <1>3, PadKept

\* Where the main thread is, and what check_hostkey has made of the key.
Marks ==
    /\ at \in Menu \union Terminal \union {"net", "connect", "connecting", "open", "ask",
                                           "alarm", "closefd", "quit", "done"}
    /\ key \in {"none", "known", "new", "changed", "unreadable"}

LEMMA StepMarks == Marks /\ [Next]_vars => Marks'
<1> SUFFICES ASSUME Marks, [Next]_vars PROVE Marks'
  OBVIOUS
<1> USE DEF Marks, Menu, Terminal, Go, own, Yes, No, Read, Pushed
<1>1. CASE ScreenStep
  BY <1>1, ScreenMoves DEF ScreenStep
<1>2. CASE NetworkStep
  BY <1>2 DEF NetworkStep, Network, NetUp, NetFails, GivesUp
<1>3. CASE Socket \/ NoSocket \/ Connected \/ NotConnected \/ OpenFailed \/ Opened
  BY <1>3 DEF Socket, NoSocket, Connected, NotConnected, OpenFailed, Opened, GivesUp
<1>4. CASE OpenStep \/ KeyShown \/ KeyDecided \/ KeyConfirmed \/ KeyRefused
  BY <1>4 DEF OpenStep, KeyShown, KeyDecided, KeyConfirmed, KeyRefused
<1>5. CASE Loop \/ Drain \/ DrainQuiet \/ DrainEnds
  BY <1>5 DEF Loop, Drain, DrainQuiet, DrainEnds
<1>6. CASE NoPress \/ PressCross \/ PressLeave \/ PressKey
  BY <1>6 DEF NoPress, PressCross, PressLeave, PressKey, frameKept
<1>7. CASE LineTyped \/ LineCutOff \/ LineCancelled
  BY <1>7 DEF LineTyped, LineCutOff, LineCancelled, lineKept
<1>8. CASE WriteSome \/ WriteNothing \/ SendFails
  BY <1>8 DEF WriteSome, WriteNothing, SendFails, SendOver
<1>9. CASE Leave \/ Stay \/ EndingRead \/ QuestionStands
  BY <1>9 DEF Leave, Stay, EndingRead, QuestionStands, Unmoved, frameKept
<1>10. CASE CloseSession \/ CloseSocket \/ Quit
  BY <1>10 DEF CloseSession, CloseSocket, Quit
<1>11. CASE System \/ UNCHANGED vars
  BY <1>11 DEF System, ExitAsked, DialogStep, vars, screenVars
<1> QED
  BY <1>1, <1>2, <1>3, <1>4, <1>5, <1>6, <1>7, <1>8, <1>9, <1>10, <1>11, ProgramParts
     DEF Next, OpenPart, RunPart

\* What run_terminal and send_all count.
Counters ==
    /\ drained \in Nat /\ drained <= DrainMax
    /\ left \in Nat /\ left <= LineMax
    /\ spins \in Nat /\ spins <= SpinMax

LEMMA OpenCounts == OpenPart => UNCHANGED <<drained, sending>>
<1>1. CASE Socket \/ NoSocket \/ Connected \/ NotConnected \/ OpenFailed \/ Opened
  BY <1>1 DEF Socket, NoSocket, Connected, NotConnected, OpenFailed, Opened, own
<1>2. CASE OpenStep \/ KeyShown \/ KeyDecided \/ KeyConfirmed \/ KeyRefused
  BY <1>2 DEF OpenStep, KeyShown, KeyDecided, KeyConfirmed, KeyRefused, openKept
<1> QED
  BY <1>1, <1>2 DEF OpenPart

LEMMA StepCounters == Counters /\ [Next]_vars => Counters'
<1> SUFFICES ASSUME Counters, [Next]_vars PROVE Counters'
  OBVIOUS
<1>b. /\ DrainMax \in Nat /\ ReadMax \in Nat /\ LineMax \in Nat /\ SpinMax \in Nat
      /\ LineMax > 0
  BY SessionAssumption
<1> USE <1>b DEF Counters, sending, own
<1>1. CASE ScreenStep \/ NetworkStep \/ System
  BY <1>1 DEF ScreenStep, NetworkStep, Network, NetUp, NetFails, System
<1>2. CASE OpenPart
  BY <1>2, OpenCounts
<1>3. CASE Loop \/ DrainQuiet \/ DrainEnds
  BY <1>3 DEF Loop, DrainQuiet, DrainEnds
<1>4. CASE Drain
  BY <1>4 DEF Drain
<1>5. CASE NoPress \/ PressCross \/ PressLeave
  BY <1>5 DEF NoPress, PressCross, PressLeave, frameKept
<1>6. CASE PressKey
  BY <1>6 DEF PressKey, Send, frameKept
<1>7. CASE LineTyped \/ LineCutOff \/ LineCancelled
  BY <1>7 DEF LineTyped, LineCutOff, LineCancelled, Send, lineKept
<1>8. CASE WriteSome \/ WriteNothing \/ SendFails
  BY <1>8 DEF WriteSome, WriteNothing, SendFails, SendOver
<1>9. CASE Leave \/ Stay \/ EndingRead \/ QuestionStands
  BY <1>9 DEF Leave, Stay, EndingRead, QuestionStands, frameKept
<1>10. CASE CloseSession \/ CloseSocket \/ Quit
  BY <1>10 DEF CloseSession, CloseSocket, Quit
<1>11. CASE UNCHANGED vars
  BY <1>11 DEF vars
<1> QED
  BY <1>1, <1>2, <1>3, <1>4, <1>5, <1>6, <1>7, <1>8, <1>9, <1>10, <1>11, ProgramParts
     DEF Next, RunPart

\* The flags.
SessionFlags == ended \in BOOLEAN /\ circle \in BOOLEAN /\ torn \in BOOLEAN
FlagMoves ==
    /\ ended' \in {ended} \union BOOLEAN
    /\ circle' \in {circle} \union BOOLEAN
    /\ torn' \in {torn} \union BOOLEAN

LEMMA FlagsMove == [Next]_vars => FlagMoves
<1> SUFFICES ASSUME [Next]_vars PROVE FlagMoves
  OBVIOUS
<1> USE DEF FlagMoves, own, sending
<1>1. CASE ScreenStep \/ NetworkStep \/ System
  BY <1>1 DEF ScreenStep, NetworkStep, Network, NetUp, NetFails, System
<1>2. CASE Socket \/ NoSocket \/ Connected \/ NotConnected \/ OpenFailed \/ Opened
  BY <1>2 DEF Socket, NoSocket, Connected, NotConnected, OpenFailed, Opened
<1>3. CASE OpenStep \/ KeyShown \/ KeyDecided \/ KeyConfirmed \/ KeyRefused
  BY <1>3 DEF OpenStep, KeyShown, KeyDecided, KeyConfirmed, KeyRefused, openKept
<1>4. CASE Loop \/ Drain \/ DrainQuiet \/ DrainEnds
  BY <1>4 DEF Loop, Drain, DrainQuiet, DrainEnds
<1>5. CASE NoPress \/ PressCross \/ PressLeave
  BY <1>5 DEF NoPress, PressCross, PressLeave, frameKept
<1>6. CASE PressKey
  <2>1. circle' \in BOOLEAN
    BY <1>6 DEF PressKey
  <2> QED
    BY <1>6, <2>1 DEF PressKey, frameKept
<1>7. CASE LineTyped \/ LineCutOff \/ LineCancelled
  BY <1>7 DEF LineTyped, LineCutOff, LineCancelled, lineKept
<1>8. CASE WriteSome \/ WriteNothing \/ SendFails
  BY <1>8 DEF WriteSome, WriteNothing, SendFails, SendOver
<1>9. CASE Leave \/ Stay \/ EndingRead \/ QuestionStands
  BY <1>9 DEF Leave, Stay, EndingRead, QuestionStands, frameKept
<1>10. CASE CloseSession \/ CloseSocket \/ Quit
  BY <1>10 DEF CloseSession, CloseSocket, Quit
<1>11. CASE UNCHANGED vars
  BY <1>11 DEF vars
<1> QED
  BY <1>1, <1>2, <1>3, <1>4, <1>5, <1>6, <1>7, <1>8, <1>9, <1>10, <1>11, ProgramParts
     DEF Next, OpenPart, RunPart

LEMMA StepFlags == SessionFlags /\ [Next]_vars => SessionFlags'
BY FlagsMove, Zenon DEF SessionFlags, FlagMoves

\* The form's flag.
LEMMA ScreenForms == Screen => form_is_new' \in {form_is_new} \union BOOLEAN
<1> SUFFICES ASSUME Screen PROVE form_is_new' \in {form_is_new} \union BOOLEAN
  OBVIOUS
<1> USE DEF listKept, askKept, formKept
<1>1. CASE ListFrame \/ ListStays \/ ListMoves \/ ListQuit \/ ChooseStored \/ ChooseAsked
              \/ AskDelete \/ Delete \/ AskForget \/ Forget \/ Declined
  BY <1>1 DEF ListFrame, ListStays, ListMoves, ListQuit, ChooseStored, ChooseAsked,
     AskDelete, Delete, AskForget, Forget, Declined
<1>2. CASE OpenForm \/ FieldMoves \/ EditField \/ SaveFails
  BY <1>2 DEF OpenForm, FieldMoves, EditField, SaveFails
<1>3. CASE SaveForm \/ CancelForm \/ LeaveForm
  BY <1>3 DEF SaveForm, CancelForm, LeaveForm, FormOver
<1>4. CASE FieldEdited \/ FieldRefused \/ PasswordTyped \/ PasswordEmpty \/ PasswordCancelled
  BY <1>4 DEF FieldEdited, FieldRefused, PasswordTyped, PasswordEmpty, PasswordCancelled
<1>5. CASE MessageRead \/ NothingPressed \/ Keyboard \/ Waiting
  BY <1>5 DEF MessageRead, NothingPressed, Keyboard, Waiting
<1> QED
  BY <1>1, <1>2, <1>3, <1>4, <1>5 DEF Screen

LEMMA StepForm == form_is_new \in BOOLEAN /\ [Next]_vars => form_is_new' \in BOOLEAN
<1> SUFFICES ASSUME form_is_new \in BOOLEAN, [Next]_vars PROVE form_is_new' \in BOOLEAN
  OBVIOUS
<1>1. CASE ScreenStep
  BY <1>1, ScreenForms, Zenon DEF ScreenStep
<1>2. CASE NetworkStep \/ OpenPart \/ RunPart
  BY <1>2, OwnKeepsMenu, Zenon DEF MenuKept
<1>3. CASE System
  BY <1>3, Zenon DEF System, ExitAsked, DialogStep
<1>4. CASE UNCHANGED vars
  BY <1>4, Zenon DEF vars, screenVars
<1> QED
  BY <1>1, <1>2, <1>3, <1>4, ProgramParts DEF Next

\* The network's words, flags and count.
NetWords ==
    /\ radio \in {"off", "joining", "up"}
    /\ net \in {"idle", "start", "next", "join", "yes", "no"}
    /\ tries \in Nat /\ tries <= TriesMax
NetFlags == stack \in BOOLEAN /\ connected \in BOOLEAN

LEMMA StepNetWords == NetWords /\ [Next]_vars => NetWords'
<1> SUFFICES ASSUME NetWords, [Next]_vars PROVE NetWords'
  OBVIOUS
<1> USE NetAssumption DEF NetWords
<1>1. CASE NetStep
  BY <1>1 DEF NetStep, AlreadyConnected, NoStack, ListProfiles, Skip, Try,
     NotYet, HasAddress, TurnedAway, NoneLeft
<1>2. CASE NetOver \/ \E p \in Profiles \union {0} : NetStart(p)
  BY <1>2 DEF NetOver, NetStart
<1>3. CASE Radio
  BY <1>3 DEF Radio, Joins, Loses, startVars
<1>4. CASE UNCHANGED netVars
  BY <1>4 DEF netVars, startVars
<1> QED
  BY <1>1, <1>2, <1>3, <1>4, NetworkParts

LEMMA StepNetFlags == NetFlags /\ [Next]_vars => NetFlags'
<1> SUFFICES ASSUME NetFlags, [Next]_vars PROVE NetFlags'
  OBVIOUS
<1>1. stack' \in {stack, TRUE} /\ connected' \in {connected, TRUE}
  <2>1. CASE NetStep
    BY <2>1 DEF NetStep, AlreadyConnected, NoStack, ListProfiles, Skip, Try,
       NotYet, HasAddress, TurnedAway, NoneLeft
  <2>2. CASE NetOver \/ \E p \in Profiles \union {0} : NetStart(p)
    BY <2>2 DEF NetOver, NetStart
  <2>3. CASE Radio
    BY <2>3 DEF Radio
  <2>4. CASE UNCHANGED netVars
    BY <2>4 DEF netVars
  <2> QED
    BY <2>1, <2>2, <2>3, <2>4, NetworkParts
<1> QED
  BY <1>1, Zenon DEF NetFlags

\* The rest of TypeOK, beside what the properties' invariants say.
Typed == PadTypeOK /\ Marks /\ Counters /\ SessionFlags /\ form_is_new \in BOOLEAN
             /\ NetWords /\ NetFlags

LEMMA TypedAlways == Spec => []Typed
<1>1. Init => Typed
  <2> SUFFICES ASSUME Init PROVE Typed
    OBVIOUS
  <2> USE DEF Init, ScreensInit
  <2>1. PadTypeOK
    <3>1. {} \in Samples
      BY PadAssumption, FS_EmptySet DEF Samples
    <3>2. -1 \in -1..WaitMax
      BY PadAssumption
    <3> QED
      BY <3>1, <3>2, Zenon DEF PadInit, PadTypeOK
  <2>2. Marks
    BY DEF Marks, Menu
  <2>3. Counters
    BY SessionAssumption DEF Counters
  <2>4. SessionFlags /\ form_is_new \in BOOLEAN
    BY Zenon DEF SessionFlags
  <2>5. NetWords
    BY NetAssumption DEF NetInit, NetWords
  <2>6. NetFlags
    BY Zenon DEF NetInit, NetFlags
  <2> QED
    BY <2>1, <2>2, <2>3, <2>4, <2>5, <2>6 DEF Typed
<1>2. Typed /\ [Next]_vars => Typed'
  BY StepPad, StepMarks, StepCounters, StepFlags, StepForm, StepNetWords, StepNetFlags
     DEF Typed
<1> QED
  BY <1>1, <1>2, PTL DEF Spec

\* Every variable of the program keeps its type: no counter runs past its limit,
\* the cursor stays among the hosts, and the main thread at a line it has.
THEOREM TypeCorrect == Spec => []TypeOK
<1>1. ASSUME Typed, OskInv, Cursor, Wiped, NetInv, SessionInv PROVE TypeOK
  <2>1. ScreensTypeOK
    BY <1>1, OskTyped, Zenon DEF Typed, Cursor, Wiped, ScreensTypeOK
  <2>2. NetTypeOK
    <3>1. turn \in 0..Cardinality(Profiles) + 1
      <4>1. /\ Cardinality(available) \in Nat /\ Cardinality(Profiles) \in Nat
            /\ Cardinality(available) <= Cardinality(Profiles)
        BY <1>1, NetAssumption, FS_Subset, FS_CardinalityType DEF NetInv
      <4> QED
        BY <1>1, <4>1 DEF NetInv, Count
    <3>2. tries \in 0..TriesMax
      BY <1>1, NetAssumption DEF Typed, NetWords
    <3>3. tried \in [Profiles -> Nat]
      BY <1>1 DEF NetInv
    <3>4. {stack, connected} \subseteq BOOLEAN
      BY <1>1, Zenon DEF Typed, NetFlags
    <3> QED
      BY <1>1, <3>1, <3>2, <3>3, <3>4, Zenon DEF Typed, NetWords, NetInv, NetTypeOK
  <2>3. H!TypeOK
    BY <1>1, OneHandshake, Zenon DEF SessionInv, HP!IInv
  <2>4. {fd, ended, circle, torn} \subseteq BOOLEAN
    BY <1>1, Zenon DEF SessionInv, Existence, Typed, SessionFlags
  <2>5. drained \in 0..DrainMax /\ left \in 0..LineMax /\ spins \in 0..SpinMax
    BY <1>1, SessionAssumption DEF Typed, Counters
  <2> QED
    BY <1>1, <2>1, <2>2, <2>3, <2>4, <2>5, Zenon DEF Typed, Marks, TypeOK
<1> QED
  BY <1>1, TypedAlways, OskAlways, CursorAlways, WipedAlways, NetAlways, SessionAlways, PTL

=============================================================================
