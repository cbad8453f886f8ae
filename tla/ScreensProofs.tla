---------------------------- MODULE ScreensProofs ----------------------------
(* Machine-checked facts about the keyboard, the buttons and the screens    *)
(* (Osk, Pad, Screens): what their steps keep, whatever the numbers of      *)
(* frames, hosts and rows, and however the system's dialog behaves.         *)
EXTENDS Screens, TLAPS

-----------------------------------------------------------------------------
(* osk_prompt and the dialog.                                               *)

\* A dialog is without orders only while osk_prompt polls it, and one that is
\* finished has had them.
Ordered ==
    /\ osk \notin {"poll", "flip"} /\ dialog # "none" => told
    /\ dialog = "finished" => told

\* What osk_prompt has seen of its own dialog, and when it may stop polling.
Seen ==
    /\ appeared => osk \in {"poll", "flip", "last"} /\ dialog # "asked"
    /\ osk = "last" => dialog \in {"finished", "none"}

\* A panel the user has dismissed says how; one that has gone, or been told to
\* go, without saying was put down by osk_prompt because of the exit flag.
Explained ==
    /\ dialog = "quit" => panel # "unset"
    /\ osk \in {"poll", "flip", "last"} /\ (told \/ dialog \in {"finished", "none"})
           => exit \/ panel # "unset"
    /\ reply = "unconfirmed" => exit

\* A reply waits for its caller, with no prompt running; and a text only comes
\* from a panel that is down.
Settled ==
    /\ reply # "none" => osk = "idle"
    /\ reply \in Entered => dialog \in {"finished", "none"}

\* The frames waited, by place.
Patience ==
    /\ waiting \in Nat /\ waiting <= CloseMax
    /\ osk \in {"idle", "start"} => waiting = 0
    /\ osk = "leftover" => waiting <= LeftoverMax
    /\ osk \in {"poll", "flip", "last"} => waiting <= AppearMax

\* OskTypeOK but for the counter.
Words ==
    /\ dialog \in Up \union {"none"}
    /\ panel \in {"unset", "unchanged", "changed", "cancelled"}
    /\ osk \in {"idle", "leftover", "start", "poll", "flip", "last", "giveUp"}
    /\ reply \in Replies \union {"none"}
Flags == told \in BOOLEAN /\ appeared \in BOOLEAN

OskInv == Words /\ Flags /\ Ordered /\ Seen /\ Explained /\ Settled /\ Patience

LEMMA OskBounds ==
    /\ LeftoverMax \in Nat /\ AppearMax \in Nat /\ CloseMax \in Nat
    /\ AppearMax < CloseMax /\ LeftoverMax <= CloseMax
BY OskAssumption

LEMMA OskTyped == OskInv => OskTypeOK
BY DEF OskInv, OskTypeOK, Words, Flags, Patience

LEMMA InitOsk == OskInit => OskInv
<1> SUFFICES ASSUME OskInit PROVE OskInv
  OBVIOUS
<1>1. Words /\ Flags
  BY DEF OskInit, Words, Flags, Up
<1>2. Ordered /\ Seen /\ Explained /\ Settled /\ Patience
  BY OskBounds DEF OskInit, Ordered, Seen, Explained, Settled, Entered, Patience
<1> QED
  BY <1>1, <1>2 DEF OskInv

\* The dialog's own steps.
LEMMA DialogKeeps == ASSUME OskInv, Dialog PROVE OskInv'
<1> USE DEF OskInv, promptKept, promptVars
<1>1. CASE Appears
  BY <1>1 DEF Appears, Words, Flags, Ordered, Seen,
     Explained, Settled, Entered, Patience, Up
<1>2. CASE Dismissed
  BY <1>2 DEF Dismissed, Words, Flags, Ordered, Seen,
     Explained, Settled, Entered, Patience, Up
<1>3. CASE GoesAway
  BY <1>3 DEF GoesAway, Words, Flags, Ordered, Seen,
     Explained, Settled, Entered, Patience, Up
<1> QED
  BY <1>1, <1>2, <1>3 DEF Dialog

\* A prompt that returns leaves only a dialog that has its orders.
LEMMA ReturnKeeps ==
    ASSUME OskInv, NEW a \in Replies, Returns(a), exit' = exit,
           osk \notin {"poll", "flip"}, a = "unconfirmed" => exit,
           a \in Entered => dialog \in {"finished", "none"}
    PROVE  OskInv'
<1> USE DEF Returns, OskInv
<1>1. Words'
  BY DEF Words, Up
<1>2. Flags'
  BY DEF Flags
<1>3. Ordered' /\ Seen' /\ Explained' /\ Settled'
  BY DEF Words, Ordered, Seen, Explained, Settled, Entered
<1>4. Patience'
  <2>1. osk' = "idle" /\ waiting' = 0
    OBVIOUS
  <2> QED
    BY <2>1, OskBounds DEF Patience
<1> QED
  BY <1>1, <1>2, <1>3, <1>4

\* osk_prompt's steps.
LEMMA PromptKeeps == ASSUME OskInv, Prompt \/ OskStep PROVE OskInv'
<1> USE DEF OskInv, Status, oskKept, dialogVars, ShutdownStart
<1>1. CASE Prompt
  BY <1>1, OskBounds DEF Prompt, Words, Flags, Ordered, Seen,
     Explained, Settled, Entered, Patience, Up
<1>2. CASE Leftover
  BY <1>2, OskBounds DEF Leftover, Words, Flags, Ordered, Seen,
     Explained, Settled, Entered, Patience, Up
<1>3. CASE Start
  <2>1. Words'
    BY <1>3 DEF Start, Words, Up
  <2>2. Flags'
    BY <1>3 DEF Start, Flags
  <2>3. Ordered' /\ Seen' /\ Explained' /\ Settled'
    BY <1>3 DEF Start, Words, Up, Ordered, Seen, Explained, Settled, Entered
  <2>4. Patience'
    BY <1>3, OskBounds DEF Start, Words, Patience
  <2> QED
    BY <2>1, <2>2, <2>3, <2>4
<1>4. CASE Poll
  BY <1>4, OskBounds DEF Poll, Words, Flags, Ordered, Seen,
     Explained, Settled, Entered, Patience, Up
<1>5. CASE Flip
  <2>1. Words'
    BY <1>5 DEF Flip, Words, Up
  <2>2. Flags'
    BY <1>5 DEF Flip, Flags
  <2>3. Ordered' /\ Seen' /\ Explained' /\ Settled'
    BY <1>5 DEF Flip, Words, Up, Ordered, Seen, Explained, Settled, Entered
  <2>4. Patience'
    BY <1>5, OskBounds DEF Flip, Words, Patience
  <2> QED
    BY <2>1, <2>2, <2>3, <2>4
<1>6. CASE GiveUp
  <2>1. Words'
    BY <1>6 DEF GiveUp, Words, Up
  <2>2. Flags'
    BY <1>6 DEF GiveUp, Flags
  <2>3. Ordered' /\ Seen' /\ Explained' /\ Settled'
    BY <1>6 DEF GiveUp, Words, Up, Ordered, Seen, Explained, Settled, Entered
  <2>4. Patience'
    BY <1>6, OskBounds DEF GiveUp, Words, Patience
  <2> QED
    BY <2>1, <2>2, <2>3, <2>4
<1>7. CASE StartFails
  BY <1>7, ReturnKeeps DEF StartFails, Replies, Entered
<1>8. CASE Over
  <2>1. panel = "unset" => exit
    BY <1>8 DEF Over, Seen, Explained
  <2> DEFINE a == CASE panel = "cancelled" -> "cancelled"
                    [] panel = "unset"     -> "unconfirmed"
                    [] OTHER               -> "confirmed"
  <2>2. a \in Replies /\ (a = "unconfirmed" => exit)
    BY <2>1 DEF Replies
  <2>3. dialog \in {"finished", "none"}
    BY <1>8 DEF Over, Seen
  <2> QED
    BY <1>8, <2>2, <2>3, ReturnKeeps DEF Over
<1>9. CASE GivingUp
  <2>1. CASE Returns("unavailable")
    BY <1>9, <2>1, ReturnKeeps DEF GivingUp, Replies, Entered
  <2>2. CASE ~(Status = "none" \/ waiting = CloseMax)
    BY <1>9, <2>2, OskBounds
       DEF GivingUp, Words, Flags, Ordered, Seen,
          Explained, Settled, Entered, Patience, Up
  <2> QED
    BY <1>9, <2>1, <2>2 DEF GivingUp
<1> QED
  BY <1>1, <1>2, <1>3, <1>4, <1>5, <1>6, <1>7, <1>8, <1>9 DEF OskStep

\* Elsewhere the reply is at most looked at, and the exit flag only goes up.
LEMMA OskElsewhere ==
    ASSUME OskInv, UNCHANGED <<dialogVars, osk, appeared, waiting>>,
           reply' \in {reply, "none"}, exit => exit'
    PROVE  OskInv'
BY DEF OskInv, Words, Flags, Ordered, Seen,
   Explained, Settled, Entered, Patience, dialogVars

-----------------------------------------------------------------------------
(* The screens.                                                             *)

\* On a screen, only the keyboard's own steps move the keyboard.
LEMMA ScreenOsk ==
    ASSUME Screen
    PROVE  \/ Prompt \/ OskStep
           \/ /\ UNCHANGED <<exit, dialogVars, osk, appeared, waiting>>
              /\ reply' \in {reply, "none"}
<1> USE DEF oskVars, promptVars, askKept, listKept, formKept, replyKept, Answered
<1>1. CASE ListFrame \/ ListStays \/ ListMoves \/ ListQuit \/ ChooseStored \/ ChooseAsked
              \/ AskDelete \/ Delete \/ AskForget \/ Forget \/ Declined
  BY <1>1 DEF ListFrame, ListStays, ListMoves, ListQuit, ChooseStored, ChooseAsked,
     AskDelete, Delete, AskForget, Forget, Declined
<1>2. CASE OpenForm \/ FieldMoves \/ EditField \/ SaveFails
  BY <1>2 DEF OpenForm, FieldMoves, EditField, SaveFails
<1>3. CASE SaveForm \/ CancelForm \/ LeaveForm
  BY <1>3 DEF SaveForm, CancelForm, LeaveForm, FormOver
<1>4. CASE FieldEdited \/ FieldRefused \/ PasswordTyped \/ PasswordEmpty \/ PasswordCancelled
  BY <1>4 DEF FieldEdited, FieldRefused, PasswordTyped, PasswordEmpty, PasswordCancelled
<1>5. CASE MessageRead \/ NothingPressed \/ Keyboard \/ Waiting
  BY <1>5 DEF MessageRead, NothingPressed, Keyboard, Waiting
<1> QED
  BY <1>1, <1>2, <1>3, <1>4, <1>5 DEF Screen

\* The main thread stays in the menu until it goes to the network or quits;
\* only the keyboard and wait_for_release run elsewhere too.
LEMMA ScreenMoves ==
    ASSUME Screen
    PROVE  \/ UNCHANGED <<at, listVars, form_is_new>>
           \/ at \in Menu /\ at' \in Menu \union {"net", "quit"}
<1> USE DEF Yes, No, Read, Unmoved, Pushed, Go, OnList, Menu
<1>1. CASE ListFrame \/ ListStays \/ ListMoves \/ ListQuit \/ ChooseStored \/ ChooseAsked
              \/ AskDelete \/ Delete \/ AskForget \/ Forget \/ Declined
  BY <1>1 DEF ListFrame, ListStays, ListMoves, ListQuit, ChooseStored, ChooseAsked,
     AskDelete, Delete, AskForget, Forget, Declined
<1>2. CASE OpenForm \/ FieldMoves \/ EditField \/ SaveFails \/ SaveForm \/ CancelForm
              \/ LeaveForm
  BY <1>2 DEF OpenForm, FieldMoves, EditField, SaveFails, SaveForm, CancelForm, LeaveForm
<1>3. CASE FieldEdited \/ FieldRefused \/ PasswordTyped \/ PasswordEmpty \/ PasswordCancelled
  BY <1>3 DEF FieldEdited, FieldRefused, PasswordTyped, PasswordEmpty, PasswordCancelled
<1>4. CASE MessageRead \/ NothingPressed \/ Keyboard \/ Waiting
  BY <1>4 DEF MessageRead, NothingPressed, Keyboard, Waiting, askKept
<1> QED
  BY <1>1, <1>2, <1>3, <1>4 DEF Screen

-----------------------------------------------------------------------------
(* The buttons.                                                             *)

\* All that a step can do to what is known of the buttons.
Looks == \E now \in Samples, acts \in SUBSET Buttons : Look(now, acts)
PadMoves ==
    /\ \/ Looks
       \/ UNCHANGED <<seen, again>> /\ acted' \in {acted} \union SUBSET Buttons
    /\ wait' \in {wait, 0, -1} \/ (~Free /\ wait # WaitMax /\ wait' = wait + 1)

LEMMA PressLooks ==
    ASSUME NEW order, NEW b \in Buttons \union {"none"}, Press(order, b)
    PROVE  Looks
BY DEF Press, Looks

LEMMA PadKept == ASSUME PadTypeOK, PadMoves, exit' \in BOOLEAN PROVE PadTypeOK'
<1>1. seen' \in Samples /\ acted' \subseteq Buttons
  BY DEF PadTypeOK, PadMoves, Looks, Look
<1>2. again' \in BOOLEAN
  <2>1. CASE Looks
    BY <2>1 DEF Looks, Look
  <2>2. CASE again' = again
    BY <2>2, Zenon DEF PadTypeOK
  <2> QED
    BY <2>1, <2>2 DEF PadMoves
<1>3. wait' \in -1..WaitMax
  BY PadAssumption DEF PadTypeOK, PadMoves, Free
<1> QED
  BY <1>1, <1>2, <1>3, Zenon DEF PadTypeOK

LEMMA AskLooks ==
    ASSUME NEW from, NEW to, Yes(from, to) \/ No(from, to) \/ Read(from, to)
    PROVE  PadMoves
<1>1. /\ {} \in SUBSET Buttons
      /\ {"cross", "circle"} \subseteq Buttons
  BY DEF Buttons
<1>2. wait' = 0
  BY DEF Yes, No, Read, Drains
<1>3. Looks
  <2>1. CASE Yes(from, to)
    BY <1>1, <2>1, PressLooks DEF Yes, Pushed
  <2>2. CASE No(from, to)
    BY <1>1, <2>2, PressLooks DEF No, Looks
  <2>3. CASE Read(from, to)
    BY <1>1, <2>3, PressLooks DEF Read, Looks
  <2> QED
    BY <2>1, <2>2, <2>3
<1> QED
  BY <1>2, <1>3 DEF PadMoves

LEMMA PushLooks ==
    ASSUME NEW from, NEW order, NEW b \in Buttons \union {"none"}, NEW to,
           Pushed(from, order, b, to), wait' \in {wait, 0}
    PROVE  PadMoves
BY PressLooks DEF Pushed, PadMoves

LEMMA UnmovedLooks ==
    ASSUME NEW screens, NEW order, Unmoved(screens, order)
    PROVE  PadMoves
BY PressLooks DEF Unmoved, PadMoves

LEMMA ScreenLooks == Screen => PadMoves
<1> SUFFICES ASSUME Screen PROVE PadMoves
  OBVIOUS
<1>b. {"cross", "circle", "square", "triangle", "select", "up", "down", "none"}
          = Buttons \union {"none"}
  BY DEF Buttons
<1> USE PushLooks, <1>b DEF OnList, Drains
<1>1. CASE ListFrame \/ LeaveForm
  BY <1>1 DEF ListFrame, LeaveForm, PadMoves, padVars
<1>2. CASE ListStays \/ ListMoves \/ ListQuit
  BY <1>2 DEF ListStays, ListMoves, ListQuit
<1>3. CASE ChooseStored \/ ChooseAsked \/ AskDelete \/ AskForget
  BY <1>3 DEF ChooseStored, ChooseAsked, AskDelete, AskForget
<1>4. CASE Delete \/ Forget \/ Declined \/ MessageRead
  BY <1>4, AskLooks DEF Delete, Forget, Declined, MessageRead
<1>5. CASE OpenForm \/ FieldMoves \/ EditField \/ SaveFails
  BY <1>5 DEF OpenForm, FieldMoves, EditField, SaveFails
<1>6. CASE SaveForm \/ CancelForm
  BY <1>6 DEF SaveForm, CancelForm
<1>7. CASE FieldEdited \/ FieldRefused \/ PasswordTyped \/ PasswordEmpty \/ PasswordCancelled
  BY <1>7 DEF FieldEdited, FieldRefused, PasswordTyped, PasswordEmpty, PasswordCancelled,
     replyKept, PadMoves
<1>8. CASE NothingPressed
  BY <1>8, UnmovedLooks DEF NothingPressed
<1>9. CASE Keyboard
  BY <1>9 DEF Keyboard, Prompt, OskStep, Leftover, Start, StartFails, Poll, Flip, Over,
     GiveUp, GivingUp, oskKept, padVars, PadMoves
<1>10. CASE Waiting
  BY <1>10 DEF Waiting, WaitForRelease, PadMoves, Looks
<1> QED
  BY <1>1, <1>2, <1>3, <1>4, <1>5, <1>6, <1>7, <1>8, <1>9, <1>10 DEF Screen

\* Nor does a dialog do more to them.
LEMMA DialogLooks == Dialog => PadMoves
BY DEF Dialog, Appears, Dismissed, GoesAway, promptKept, padVars, PadMoves, Buttons

=============================================================================
