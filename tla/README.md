# A TLA+ model of pspssh

pspssh is an SSH client for the PlayStation Portable: a host list, an
on-screen keyboard, wolfSSH over the console's wireless network, and a small
terminal emulator.  Nothing about the machine is forgiving: the battery may be
pulled between any two calls, "quit" comes from another thread, and the program
only ever sees part of what it asked to read or write.

This directory holds TLA+ modules translated from the C source, the TLC
configurations that check them, and proofs for TLAPS.  Source paths below leave
out the leading `src/src/`.

    tlasany Session.tla
    tlc -workers 2 -config MCSession_leave.cfg MCSession
    tlapm HandshakeProofs.tla
    for p in *Proofs.tla; do tlapm $p; done

`PROJECT.json` maps every definition to the lines it stands for, and lists the
runs, the mutants (one plausible bug for each property, which breaks it), the
theorems, the findings and the hazards.


## 1. Inventory

### Parts, state, operations

| part | source | state | operations |
|---|---|---|---|
| card files | `psp/cardfile.c` | the file, its `.tmp`, a call in progress | `cardfile_read` (whole or not at all, recovers a left `.tmp`), `cardfile_write` (temp, remove, rename) |
| remembered host keys | `psp/knownhosts.c` | an array of at most 48 host/port/key entries, its file | `knownhosts_load`, `_lookup`, `_remember`, `_forget` |
| saved hosts | `psp/hosts.c` | an array of at most 24 hosts, its file, the old `pspssh.cfg` | `hosts_load` (imports the old file once), `_add`, `_replace`, `_remove`, `_problem`, `_forget_passwords` |
| session core | `core/pspssh.c` | one `pspssh` session, wolfSSH's objects in it, why it failed | `pspssh_open` with three callbacks, `_read`, `_write`, `_close` |
| session and terminal loop | `psp/main.c` | the socket, the copy of the host, the `ended` flag | `run_session`, `run_terminal`, `send_all`, `check_hostkey`, `main` |
| screens | `psp/ui.c` | the cursor, the form | host list, edit form, messages, questions, the password prompt |
| buttons | `psp/pad.c` | the buttons held, the exit flag | `pad_pressed`, `pad_held`, `pad_exit_requested` |
| on-screen keyboard | `psp/osk.c` | whether the dialog was seen, the frames waited | `osk_prompt` |
| network | `psp/net.c` | `stack_started`, `connected` | `net_start`, `net_connect`, `net_send`, `net_recv` |
| terminal emulator | `psp/term.c` | a grid, a cursor, a scroll region, the pen, the parser's state | `term_reset`, `term_feed`, `term_take_bell` |
| start-up log | `psp/console.c` | a scrolling grid | `console_print` |
| entropy | `psp/entropy.c` | a pool and a health counter | `psp_entropy` |
| display | `psp/gfx.c` | the frame buffer | drawing |
| wiping | `psp/wipe.h` | none | `wipe_bytes` |
| host tests, tools | `host/`, `../tools/` | none | tests, a probe, build scripts |

### How they interact

`main` loads both stores, then loops: `ui_host_list` (which may change both
stores) answers with a host, `run_session` brings up the network, opens a
socket and calls `pspssh_open`.  That function is a polling loop over a
non-blocking `wolfSSH_connect`, and is called back four ways: `net_recv` and
`net_send` to move bytes, `check_hostkey` to judge the server's key (which looks
it up in the key store, may ask the user, and may save), `user_auth` for the
password, `wait_frame` each time nothing could be done.  When it returns a
session, `run_terminal` alternates between reading what the far side sent,
looking at the buttons, and sending.  Both stores are arrays in memory that are
rewritten whole through `cardfile_write` after each change.  Of the program's
own threads the only other one is the callback thread, which sets `exit_asked`;
every loop of the main thread has to look at it.  The keyboard is the system's
dialog and the radio the system's driver: both run on threads of their own, and
the main thread only polls how they are.  The buttons are sampled when a screen
asks, so what happens while a keyboard is up is not seen.

### What is hard here, and what correct means

* **card files** - a call that fails and a battery pulled at any step.
  A file in place is never torn; the old one goes only when its successor is
  whole; 0 means saved; a read answers all of the file or nothing.
* **remembered keys** - what a connection is trusted on has gone through loads,
  failed saves, shifts of the array and restarts.  No key is accepted that the
  user never confirmed; the alarm is only raised by a key that differs from the
  one remembered; a forgotten key stays forgotten; a remembered one stays
  remembered.
* **saved hosts** - a store edited in memory first and saved afterwards, with a
  one-time import.  A list once saved is not lost or mixed, and is what the
  next start finds.
* **session core** - callbacks in the library's order, a time-out that races
  other failures, a set-up of six steps any of which fails.  It ends; it tells
  the truth about why; no password before a yes; nothing left allocated.
* **session and terminal loop** - an exit flag between any test and the
  act that follows it, a far side that never stops or never starts, a shut
  window.  Resources and passwords end with their use; the program leaves when
  asked; nothing follows half a line.
* **buttons, keyboard, network** - a held button read twice, a dialog that is
  slow, never comes, or is cut off by the exit flag and read as an answer, an
  association left half made.  A press is acted upon once; every dialog is told
  to go; a keyboard appears or is given up; every network is tried once.
* **screens** - a cursor in a list that changes under it, a form left by its
  rarest exit, a keyboard that keeps what it was given.  The row the cursor is on
  exists and is drawn; nothing typed stays in memory, but for the keyboard's own
  buffer (section 5).
* **terminal** - escape sequences in any order and any split; a cursor that may
  stand one column past the last; rows copied in place.  Every index stays in
  the grid; a line that is scrolled arrives whole and once; a row outside the
  scroll region is only changed by what is addressed to it.


## 2. Modules

| module | what it is |
|---|---|
| `AtomicFile` | abstract: a register whose write takes effect at one instant, or not |
| `CardFile` | `cardfile.c`, one step per `sceIo` call, failures and power loss |
| `CardFileProofs` | its theorems |
| `KnownHosts` | `knownhosts.c` and `check_hostkey`, over an INSTANCE of `CardFile` |
| `KnownHostsProofs` | its theorems that hold whatever fails |
| `KnownTrustProofs` | those of what the user may rely on, on a sound card |
| `HostStore` | `hosts.c` and the screens that change it, over an INSTANCE of `CardFile` |
| `HostStoreProofs` | its theorems |
| `Handshake` | `pspssh_open` and its callbacks |
| `HandshakeProofs` | its theorems |
| `Pad` | `pad.c` and `wait_for_release`: what is down, and what is newly down |
| `Osk` | `osk.c` and the system's dialog beside it; extends `Pad` |
| `Net` | `net_start` and the radio beside it; extends `Pad` |
| `Screens` | `ui.c`: list, form, questions, messages and prompts; extends `Osk` |
| `ScreensProofs` | what the steps of `Screens`, `Osk` and `Pad` keep: the lemmas under `SessionProofs` |
| `Session` | the whole program from the host list on: extends `Screens` and `Net`, with an INSTANCE of `Handshake` in the middle |
| `SessionProofs` | its theorems |
| `Term` | `term.c`, one step per byte |
| `TermProofs` | its theorems |
| `MC*` | values for the constants |

### CardFile, AtomicFile

`disk` has the file `path` and its side file `path.tmp`, each absent or a
sequence of chunks, the pieces `sceIoWrite` happens to hand to the card.  `pc`
is the next `sceIo` call of the call in progress, `text` and `written` the save's
argument and progress, `got` the reader's buffer, `ret` the last answer.
`OpenTemp`, `WriteSome`, `CloseTemp`, `RemoveOld`, `RenameNew` are the lines of
`cardfile_write` in order, with an action for each early return
(`OpenTempFails`, `WriteFails` then `Discard`, `RenameNewFails`).  `ReadPath`,
`ReadTemp` and `Recover` are `cardfile_read`; `NotFound`, `Unreadable` and
`ReadWhole` are the three ends of `read_file`.  `PowerLoss` may come at any
step and keeps only the card.  `Faults` names the calls that may fail, so that
a run, or a theorem, says which faults its property needs to be spared.

`AtomicFile` is what `cardfile.h` promises seen from above: a register that a
save replaces at one instant or not at all.  In `CardFile` that instant is the
`sceIoRemove` of the old file, after which only the new one can be found.

A chunk is the finest grain at which a file may be torn, and `sceIoRename`
happens or does not: it cannot replace an existing file, which is why the code
removes first.  What `sceIoWrite` took is on the card; a write cache in the
memory stick is outside the code and the model.

### KnownHosts

`entries` is the array, `at` where the program is, `check` the last call of
`check_hostkey` and its outcome, `loaded` what the load returned.  Three history
variables record what the user has been told: `confirmed` (pairs answered with
yes, for ever), `pinned` (keys remembered with success) and `standing` (pairs given
to `knownhosts_remember`, saved or not, of servers not forgotten with success
since).  `KeyKnown`,
`KeyChanged`, `KeyNew` are the branches of `check_hostkey`; `Confirm` and
`Decline` answer the question; `ConfirmFull` is the early return of a full list;
`StartForget` is SELECT in the host list.  The `sceIo` calls of a load or save
are `CardStep`, so that a battery pull falls between any two.  `Encode` and
`Decode` are the file's lines, two chunks each: a line that stops inside its
fingerprint is still a line for `take_line`, with another fingerprint (`Cut`).

### HostStore

`list` is the array, `form` the entry in the edit form, `legacy` the server in
the old `pspssh.cfg`, which is read and never written.  `acked` and `saving` are
history: the list last saved or loaded with success, and the list last given to
a save.  `FinishLoad` and `Import` are `hosts_load`: the old file is only looked
at when there is no host file, and its server is saved at once.  `Missed` (a
load that did not see what the card holds) and `Exposed` (a rename that failed
and left the side file alone) empty `acked` and `saving`: from then on nothing is
promised until the next save with success.  So every call may fail in its run,
and the run says that these two are the only ways to lose a list.  `Add`,
`Replace` and `Delete` change the array first and save afterwards, and keep the
change when the save fails, as the code does; the form then stays open.
`Taken` is what `take_line` asks of a line, `hosts_problem` included, and
`Parsed` the loop of `parse` over the lines, turn by turn.

### Handshake

`pc` walks through `pspssh_open`: `Begin` (the `calloc`), `Setup` or
`SetupFails` at one of its five steps, then the loop: `WouldBlock` followed by
`Wait`, or the callbacks `Keyed` (then `Accept` or `Refuse`) and `Authenticate`,
until `Connected`, `ConnectFails` or the budget is spent; `Fail` is the label
`failed` with `pspssh_close`.  wolfSSH itself is external: `phase` says how far
it has got, and at each turn it may do whatever it can from there.  `Cost` is what
a wait counts as: what `on_wait` reported, at least 1.  `Reason` is the choice
of words at the label `failed`.  `elapsed` is the clock on the wall, which the
code does not read; it is counted up to `ClockCap`.  `held` names the allocated
objects.

### Pad

`seen` is `previous` and `held` of `pad.c`, which always get the same value;
`wait` counts the looks of `wait_for_release`.  What is down is chosen when a
screen looks (`Look`), since the program knows of no other moment.  `First` is
the order of a screen's `if`s.  `acted` and `again` are history: which of the
buttons still down something was already done upon, and that it happened twice.

### Osk

`dialog` is the system's dialog: none, asked for, `INIT`, `VISIBLE`, `QUIT`,
`FINISHED`.  `sceUtilityOskGetStatus` has one word, NONE, for the first two
(`Status`).  `Appears`, `Dismissed` and `GoesAway` are its own steps, and `told`
says that it was told to go.  `osk` walks through `osk_prompt`: `Prompt` and
`Leftover` are `drain_any_leftover`, `Start` and `StartFails`
`sceUtilityOskInitStart`, `Poll` the switch on the status, `Flip` the frame with
what follows it, `Over` the return of a dialog that is over, `GiveUp` and
`GivingUp` the limit.  `reply` is the result until its caller has looked at it;
"unconfirmed" is `OSK_ENTERED` for a panel nobody confirmed, which only the model
can tell from the confirmed one.

### Net

`radio` is the radio, `turn` which of the saved connections (`available`) is
tried, 0 being the one the host asked for; `Skip` passes that one over when
its turn comes again.  `Try`, `NotYet`, `HasAddress` and `TurnedAway` are
`try_profile`, whose three ways to give up (time, flag, error) are one.  Which
connections are saved is asked anew at each call.  Outside of `net_start`
nobody looks at the radio, so there it has no state.

### Screens

`at` is the screen, or the line of `run_session`, the main thread is at.  A screen
draws, looks at the buttons once and does what its first `if` that applies says
(`Pushed`); a frame in which none does is a step too.  `ListFrame` is the top of
the list's loop with the clamping of `selected` and `top`; the deletions, forms
and additions below it change `count`.  `Drains` is the call of
`wait_for_release` that comes before and after most screens.  `secrets` are the
places a password may be: the list, the form, the copy `run_session` takes, the
typed line, and `out16`, the static buffer of `osk.c` the dialog types into.
`osk_prompt` empties that one when it begins and again when it returns a text
(`Keyboard`); a panel that comes down, dismissed or put down, may leave in it what
was typed, or nothing (`DialogStep`): what it writes, and when, is the system's.
`in16`, the text a keyboard starts with, is never a password (`ui.c:302`,
`ui.c:428`).  Which field of the form is edited decides nothing but how a reply may be
refused, and is left open.

### Session

Adds `net_connect`, the handshake, the terminal and the way out.  `fd` is the
socket.  While `at = "open"` the steps are `Handshake`'s, with `KeyShown` ...
`KeyRefused` in the place of its policy callback; here the key store answers as
it likes, and `KnownHosts` says what it answers.  `Program` is the main thread,
`System` the three other threads.  When the flag is up the program leaves every
screen by itself, which the disjuncts with `exit` say.

### Term

`term_feed` keeps everything it has understood in its state, so that a packet
boundary may fall anywhere: a step is one byte.  `state` is the parser's, the
disjuncts of `Next` are the cases of its `switch` (`Escapes` those of `SAW_ESC`
and of the sequences that are eaten, `Csi` those of `IN_CSI`), and under `Csi`
each letter of `dispatch_csi` is an action that ends in `Dispatch`.  The helpers
`Up`, `Down`, `Deleted` and `Inserted` are the loops of the code turn by turn, in
place and in the code's order; what they should come to is stated apart, in the
properties.  The pen keeps the four variables `pen_fg`, `pen_bg`, `bold` and
`reverse`; a cell keeps its two colours and whether there is ink in it.
Bytes are named by their character, with one name for all that mean nothing;
`private_marker`, which nothing reads, is left out.  `params` are cleared when a
sequence ends and not only when the next begins: nothing reads them in between.
`Screens` says which sizes `term_reset` is called with and, for each, which bytes
the far side ever sends.

`Term` stands alone: `run_terminal` resets it when a session begins and hands it
what `pspssh_read` gave, and nothing it keeps comes back into the program except
the bell.


## 3. Runs

| run | asks | bounds |
|---|---|---|
| `card_atomic` | is it a register replaced at one instant, when the card has the file and only calls of the save before its rename fail; is the file never torn then, and does 0 mean saved | texts of 1, 2 and 3 chunks, `MaxLen` 4; the card with each of the texts, or with a file too long to read |
| `known_trust` | the card has the file, faults only in a save before its rename: no false alarm, nothing lost, nothing doubled, forgotten stays forgotten, a load is whole | two servers, two keys, room for two |
| `known_damage` | any call may fail, any card, torn files: is a file in place ever torn, does 0 mean saved, is a key ever accepted that was never confirmed | two servers, two keys, room for one; no file, one with no line, one, or two |
| `known_torn` | *violation*: the alarm raised by a server's own key, after a torn first save | two servers, one key, no faults but the battery |
| `host_saved` | any card, old configuration or none, any call failing: is a saved list kept and started with, but for an unread file and a failed rename | two hosts to type, room for two; cards with none, one, and three lines of which two are not taken |
| `host_hash` | *violation*: a host whose name begins with `#` | two hosts, one of them such |
| `shake_open` | with and without a policy, whatever `on_wait` reports: it ends, for the true reason, without a leak, and gives no password unasked | a budget of 6; reports of -1, 0, 1 and 3 |
| `shake_late` | *violation*: does the time-out come about when it says | a budget of 6, reports of 1, `net_recv` waiting 5 |
| `session_leave` | everything from the host list on, any number of times, with the exit flag, the dialog, the radio and the buttons moving at any step | one button down at a time, waits of one look, limits of one frame for a dialog to appear and of two to go, at most one host on a list of one row, two saved connections and one look at the radio, a handshake of one turn, two or three reads a frame, sends of at most two bytes, two turns of patience |
| `session_press` | *violation*: a press by which the keyboard went is acted upon again | the same, with two frames to appear and two hosts on two rows |
| `session_linger` | *violation*: what was typed is still in the keyboard's buffer away from the screens that use it | as `session_press` |
| `term_lines` | any order of bytes: do indices stay inside, do lines arrive, do rows outside the region stay | screens of 1 to 6 cells, see below; `MaxParams` 3, `ParamCap` 50, tab stops of 2 |

Why the bounds are enough.  Texts of one to three chunks give a prefix, a whole
and a torn middle, and differ from each other; one that is too long takes the
reader's third way out.  Two servers and two keys make a changed key and a
shifted array; room for two is filled and shifted, room for one takes
`ConfirmFull`.  Two hosts may be added in any order, twice, over and beside each
other until there is no room.  A budget of 6 with reports of 1 and 3 ends
exactly at, and before, and beyond its last millisecond, and -1 and 0 take the
branch that still charges a turn.  In `Session` all that matters of the numbers
is whether a limit is reached or not yet (`DrainMax`, `SpinMax`, `TriesMax`,
`WaitMax`, and the keyboard's three), so that each is small; one host and the
row "add a host" below it scroll in a window of one row, and the proofs are for
all numbers of either; two connections have one that was
asked for and one that was not, in either order.  One button at a time loses
what two at once would do, which is to take the first `if` and, in the terminal,
CIRCLE after a key: `PressMax` 2 is as easy to write and too long to run.  In `Term` each screen's far side sends one family of bytes, as the
families only meet in the cursor and the region: `Text` wraps and feeds lines,
`Eaten` goes through every state of the parser, `Area` sets regions of two of
its three rows and scrolls, inserts, deletes and prints about in them, `Moved`
addresses and saves the cursor, `Edit` erases and shifts parts of a line, `Paint`
sets colours.  A parameter is anything its digits make, up to the cap, which is
more than any row or column; three parameters are filled and overrun.  Of the
folding of colours the branch from 244 on is above the cap and not reached.
No run bounds the number of saves, restarts, sessions or failed attempts:
the state spaces close by themselves.

The two bounds that cut something off: `ClockCap`, beyond which `elapsed` is no
longer counted (far above what `shake_late` needs, and nothing else reads it),
and the finite sets of texts, servers, keys and hosts.

`CHECK_DEADLOCK FALSE` stands only where the thing modelled ends: a handshake
that has returned, a program that has left.

### Fairness

* `Handshake`: `WF(Next)`.  The thread runs, and each call it makes returns:
  `net_recv` waits at most 50 ms in `select`, `wait_frame` one frame, and the
  user answers a question.  Nothing is assumed of the far side.
* `Session`: `WF(Program)`.  The same of the main thread, and nothing of the
  user, who may never press a button, nor of the exit flag, which may never be
  raised.  A screen with the flag up leaves by itself because its loop tests the
  flag each frame (`ui.c`, `osk.c`).  Beside it, weak fairness of `GoesAway`: a
  dialog that was told to shut down does so in the end, which `osk.c` itself
  takes for granted once it has seen the dialog (its loop has no other way out).
  That a dialog ever appears, or starts at all, is not assumed, and nothing is of
  the radio.

Safety properties assume none.


## 4. Proofs

Every safety property that a passing run checks, invariant or action property,
is also a theorem, for all values of the constants.  Each of the invariants
below was first checked by TLC, on the bounds of its component's run.

### The card: `CardFileProofs`

For any contents, bounds and faults: `TypeCorrect`, `ReplacementIsWhole`,
`NeverTorn`, `SavedMeansSaved`, and `Refinement`, that `CardFile` implements
`AtomicFile` under the assumptions its run makes (the file exists, texts fit the
reader's buffer, no reading fault, no failing rename).  The properties are not
inductive by themselves: that the side file is whole when the old one goes
needs `TempPrefix`, which relates the card to the text and the count at every
turn of the writing loop, and that an answer of 0 belongs to this save needs
`Unanswered`.  The refinement adds `NeverMissing`: on such a card there is
always something to read.

The stores above use these proofs and do not repeat them.
`CP == INSTANCE CardFileProofs WITH Texts <- Saveable` gives the invariant and
its lemmas for just the texts a store may save, the encodings of the lists there
is room for; `SameCard` shows that the steps of the file under the store are
steps of that instance, and `CardKept` that its invariant comes along.

### Remembered keys: `KnownHostsProofs`, `KnownTrustProofs`

Whatever fails, on whatever card, for any number of servers and keys
(`KnownHostsProofs`): `TypeCorrect`, `NeverTorn`, `SavedMeansSaved`,
`SavedIsRead` (what a save put in place is the list in memory) and, the
one that matters most, `OnlyConfirmedAccepted`: no key is accepted that the
user never confirmed.  That one needs `Trusted`: every whole key in
memory, in the file, in the side file and in the reader's buffer was confirmed.
It is kept by a torn save because of `TornPrefix`, that what a load makes of a
prefix of a text are entries of that text, and at most one whose fingerprint is cut
short.  `Control`, `Loading` and `Saving` say which call on the file belongs to
which place of the program and what it is about, `Asking` whose key is in
question.  `RoundTrip` says that a list is read back as it was written.

`KnownTrustProofs` is about what its user may rely on: `AlarmsAreTrue`,
`StaysInFile`, `StaysInMemory`, `ListedOnce`, `ForgottenForGood`, and
`LoadedWhole`.  These do not hold whatever fails (section 5), so they
have a hypothesis, `Favourable`, the one `known_trust` runs under: only the calls
of a save before its rename fail, and the card found has the file, as a save of
an earlier run left it, with each server once and each key whole.  The
battery may still be pulled anywhere.  `LoadedWhole` only asks that opening and
reading do not fail.  The invariant is `TrustInv`: what a reader
would find (`Held`) is always some saved list, and like the array it is whole and
without a server twice (`Kept`); a key remembered with success is in `Held` and,
once loaded, in the array (`Pinned`); what is in either is standing, so that a
server forgotten is in neither (`Standing`); and a server whose key is asked about
is not in the array (`InQuestion`), without which remembering it could list it
twice.  `AlarmsAreTrue` says of a key called changed that it is not the one last
remembered with success, and that another key of that server was given to be
remembered and the server not forgotten with success since: an old key does not
come back after a forget to accuse the new one.  It may still be said of a key
the user said yes to when that save failed and so did that of the forget before
it; the card then has the old key, as the code has it.

### Saved hosts: `HostStoreProofs`

For any names, any room, any card and any faults: `TypeCorrect`; and, where no
name typed or found in the old file begins with `#` (`NoHash`), `NoServerLost`
and `StartsWithSaved`.  The hypothesis is the exception that `host_hash` shows
to be real; with such a name a saved list is not what the next start finds.
`KInv` has, beside the places and calls of `IInv`, that no list given to a save has a
line a load would drop (`Clean`), that the file in place is the list promised
or the one just given to a save (`InPlace`), and that while there is no file
in place the whole of the new list is beside it (`Beside`).  `RoundTrip` is about
the loop of `parse`: `Parsed` on a list of lines all of which are taken keeps
each of them.  A line that is not taken is simply skipped, so a card may hold
anything else.

### The handshake: `HandshakeProofs`

`HandshakeTyped`, `SecretGuarded`, `RefusalKept`, `TimeoutTrue` and
`NothingLeaked`, for every budget (in particular the real 30000), every default
and every report of `on_wait`.  The invariant `IInv` adds to the properties which
objects are held at each step (`Holdings`), that a password given means a yes
was given (`Trust`), that a refusal comes out of `wolfSSH_connect` as an error
(`Refusal`), that nothing has gone wrong while the loop goes on (`GoesOn`), and
that `wolfSSH_connect` is only called with budget left (`InBudget`).  The last
is what makes the time-out true and the refusal kept: the label `failed` looks
at the budget first, and would call a refusal in the turn that spent it a
time-out; a refused turn cannot have spent it.

### The whole program: `ScreensProofs`, `SessionProofs`

For any number of hosts, rows, connections, frames and looks, whatever is
pressed, answered or shown, and whenever the exit flag goes up.  The steps of the
program are put into four groups, those of the screens, of the network, of
`pspssh_open` with its callbacks, and of the session itself (`ProgramParts`),
and for each group it is shown once what it leaves alone.

* `TypeCorrect` - the counters with the places they run in (`Counters`), the
  buttons and what was done upon them (`Marks`, `PadMoves`).
* `DialogsPutDown`, `CutOffLeaving` - from `OskInv`: a dialog is without orders
  only while it is polled (`Ordered`), what was seen of it is seen by the one who
  polls (`Seen`), and a panel that went without saying how was put down because
  of the exit flag (`Explained`).  `Patience`, the frames waited at each
  place, needs that a leftover dialog is waited for no longer than one given up
  (300 and 600 frames in `osk.c`, an assumption on the constants).
* `SessionsHaveSockets`, `NothingStaysOpen`, `PasswordAfterYes` - from the
  invariant of `HandshakeProofs`, which is carried over: a step of the program
  is a step of the handshake, its end, or leaves it alone (`StepShakes`).
  `Existence` adds where in the program there is a socket and a session, and
  `Given` that an open session has got its password after a yes.
* `PasswordsAreWiped`, `TornIsLast`, `CursorOnScreen` - inductive with what their
  comments say beside them: for the cursor, that the row asked about at a
  deletion is a host's; for the passwords, that a text comes only from a panel
  that is down, and that no prompt runs while its answer is looked at (`Settled`),
  so that nothing is typed behind the wipe.  Of the keyboard's buffer the theorem
  claims only that: it is empty when a text was entered.  That it is always empty
  away from the keyboard is what `session_linger` refutes.
* `EachProfileOnce`, `NothingHalfOpen` - from `NetInv`: which connections have been
  tried is exactly which had their turn (`HadTurn`), by their rank among those
  that are saved; the ranks of a finite set are the numbers up to its size, each
  once (`Ranks`).

### The terminal: `TermProofs`

For every screen `term_reset` may be asked for, every stream of bytes and every
`MAX_PARAMS`, cap and tab stop: `StaysInside` (`InBounds`), `TypeCorrect`,
`LinesArriveInOrder` and `OutsideStays`.  `InBounds` is not inductive alone: a
cursor move and a region come from the parameters, so `IInv` adds that those are
natural numbers in an array of `MAX_PARAMS` (`ParamsTyped`), which in turn needs
`param_count` in bounds.  One lemma for each case of the parser's `switch`;
`DispatchStep`, `DrawingStep` and `MovedInside` hold what the letters of a CSI
sequence share.  For the cells, each of the loops that work in place is shown to
come to its closed form: a turn of `scroll_region_up` and `_down` (`UpShape`,
`DownShape`), any number of turns (`ScrolledUpShape`, `ScrolledDownShape`),
`delete_chars` and `insert_chars` (`DeletedShape`, `InsertedShape`); and
`apply_sgr` to a pen (`PaintedIsPen`).

### How data is reasoned about

The provers cannot instantiate the library's induction theorems, which take an
operator.  They can use the one about well-founded relations that does not
(`WFMin`): a set of natural numbers that is not empty has a least one
(`LeastOf`).  An induction is then the least counterexample, and its step shows
there is a smaller one (`FirstIsPlace`, `Runs`, `CountingUp`, `CountingDown`,
`PensIterate`).  A recursive function is a CHOOSE; where a closed form satisfies
its equation something does, and two functions that start and go on alike are
alike.

### Assumptions

Those on the constants are the modules' named `ASSUME`s; TLC evaluates them in
every run.  They ask that limits are positive, that the buffer holds the longest
list (`FILE_MAX`), that marks like `None`, `Absent` and `Cut` are not data, that
what a card holds are sequences of chunks, and that a keyboard is given more
frames to go than to appear.  What else a theorem needs is a hypothesis
in its statement: `Favourable`, `NoHash`, two faults that do not happen, and those
of `Refinement`.

### Only model-checked

Liveness (`OpenReturns`, `ExitLeaves`, `KeyboardComesOrNot`), which is out of the
provers' reach, and the five disagreements of the next section, which are
counterexamples.


## 5. Where the code and its words part

With a run each:

* `known_torn` - the first save ever has no old file to fall back on.  A prefix
  left in `.tmp` is taken for the whole file (`cardfile.c:93`), and
  `take_line` takes a fingerprint cut short by the end of the file.  The server
  then looks changed, for ever.
* `host_hash` - `#` begins a comment for `take_line` and a name for `save`.
* `shake_late` - the budget counts what `wait_frame` reports, 1 ms, not the
  50 ms of `net_recv`.  30 s become some 25 minutes of silence.
* `session_press` - nobody looks at the buttons while the keyboard is up, and
  `wait_for_release` asks how they were at the last look (`ui.c:83`).  The O that
  cancelled the password is still down when the message about it comes, is new
  to `pad_pressed`, and dismisses it; after a line cancelled in the terminal the
  same press asks whether to leave the session.
* `session_linger` - `osk.c:313` says a password "does not get to linger in a
  static buffer for the rest of the session", but `osk_prompt` returns before the
  wipe when the keyboard was cancelled (`osk.c:303`) and when it was given up
  (`osk.c:291`).  What was typed then stays until the next prompt begins, or for
  good; this assumes that a panel which is cancelled has written its buffer, which
  the comment says of panels in general and no code here decides.

Seen while modelling, without a run (each follows from lines quoted here):

* After a failed rename `.tmp` is the only copy, and the next save opens it with
  `PSP_O_TRUNC` (`cardfile.c:111`); a fault then loses everything.  `NoTear` is
  about a file in place, `known_trust` allows no failing rename, and `host_saved`
  counts one as the end of its promise.
* A file that exists but cannot be opened reads as absent (`cardfile.c:48`), so
  `hosts_load` imports the old file over it; if a `.tmp` of a save that was cut
  off is there as well, that is taken for the list.  `cardfile.h:30` says -2
  must not be gone on from; `main` goes on (`main.c:489`, `main.c:497`), and the
  next save writes the empty list, of the keys or of the hosts.  No property that
  neither is lost would hold: `Missed` exempts the hosts, and the key store's runs
  about what stays (`KeepsInFile`) have no failing read.
* `knownhosts.h:55` speaks of one entry per host; a file edited by hand may have
  two, and a forget removes the first.
* When the save of a forget fails, `ui.c:551` says nothing is remembered; after
  a restart the key is back.
* `hosts_add` answers -1 and keeps the host in memory; trying again adds it twice.
* Deleting a host leaves its key (`knownhosts.h:20` says why).
* On a clean end of file `pspssh_read` reports "no error" (`pspssh.c:444`).
* The keyboard torn down by the exit flag answers as if an empty line were
  confirmed, and its newline is sent (`osk.c:297`, `main.c:333`); `LineCutOff`.
* `connected` in `net_start` is never cleared (`net.c:183`): once the radio has
  lost its network every later attempt goes straight to a socket that fails,
  until the program is restarted; `net.h:25` speaks of a network that is up.
* `main.c:124` says the answer about a new key is remembered "either way"; a no
  is not.
* A password prompt that is cancelled shows "the keyboard would not open"
  (`ui.c:428`), with nothing under it, since `osk_failure` was cleared.
* `put_char` makes a bold reverse background bright (`term.c:186`), `blank_cell`
  does not (`term.c:67`), so the erased rest of such a bar has another colour than
  its painted part, against `term.c:63`.
* `term.c:17` says a sequence with more than eight parameters is truncated; the
  digits of a ninth are appended to the eighth (`term.c:518`, `NextParam`).
* A first field that is empty is not counted: in `ESC[;5H` the 5 becomes the row
  (`term.c:514` and `530`, `ParamDigit`).
* An ESC inside a CSI sequence is consumed like any other control byte
  (`term.c:539`), so the next sequence ends the first and its tail is printed,
  although `term.h:24` says what is not understood is never printed.
* `ESC ESC \` inside a title does not end it: the second ESC goes back to
  `IN_OSC` (`term.c:557`), as the comment there has it.
* A tab writes spaces over what it passes (`term.c:466`).
* `pspssh.h:80` says a callback that under-reports makes the handshake give up
  early; it gives up late.


## 6. Not modelled

The display, wiping's volatile store, entropy's statistics, base64 and the
digest of a key, the console log, the layout of the screens and the field the
form's cursor is on, the messages `main` shows before the list, the text a
keyboard returns and its conversion, the bytes of `net_send` and `net_recv`, the
syntax of `pspssh.cfg` and the widths of text fields.  wolfSSH, the file system,
the radio and the keyboard dialog appear only as what the code needs of them.


## 7. Plan

Done, in this order: `CardFile` and its proofs; `KnownHosts`; `HostStore`;
`Handshake` and its proofs; `Term` and the proof of its indices; `Pad`, `Osk`,
`Net` and `Screens`, and `Session` on top of them; every fault in `HostStore`; the
proofs of `KnownHosts`, `Session` and `HostStore`, and those of the cells of
`Term`.

Next:

1. The stores as one register each: that `KnownHosts` and `HostStore` implement
   `AtomicFile` over their lists, from `CardFileProofs`' refinement.
2. That the session's `pspssh_open` is a whole `Handshake`, as a refinement; its
   steps are already shown to be (`StepShakes`).
3. A paper terminal - an abstract `Term` for text alone, an endless roll of lines
   of which the screen shows the last, with wrap and line feed implementing it.
