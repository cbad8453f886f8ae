------------------------------ MODULE CardFile ------------------------------
(***************************************************************************)
(* One small file on the memory card, read whole and written to a side     *)
(* file that is then moved into place: src/psp/cardfile.c.                 *)
(*                                                                         *)
(* A file is a sequence of chunks, the pieces sceIoWrite happens to hand   *)
(* to the card.  Every sceIo call is one step; between any two the battery *)
(* may be pulled (PowerLoss), and each call named in Faults may fail.      *)
(***************************************************************************)
EXTENDS Integers, Sequences

CONSTANTS
    Chunk,      \* what a file is made of
    Texts,      \* the contents the program above asks to have written
    OnCard,     \* what `path` may hold before the program first runs
    MaxLen,     \* the `max` of cardfile_read: a file this long is refused
    Faults,     \* the sceIo calls that may fail: see FaultKinds
    Absent      \* no file under that name

FaultKinds == {"openRead", "read", "openWrite", "write", "remove", "rename"}

ASSUME FaultsAssumption == Faults \subseteq FaultKinds
ASSUME TextsAssumption  == /\ Texts \subseteq Seq(Chunk)
                           /\ OnCard \subseteq Seq(Chunk) \union {Absent}
ASSUME MaxLenAssumption == MaxLen \in Nat \ {0}
ASSUME AbsentAssumption == Absent \notin Seq(Chunk)

VARIABLES
    disk,       \* what is stored under `path` and under `path.tmp`
    pc,         \* the next sceIo call of the call in progress
    text,       \* the argument of cardfile_write
    written,    \* how much of it sceIoWrite has accepted
    got,        \* what cardfile_read has put in the caller's buffer
    ret         \* what the last call returned

vars == <<disk, pc, text, written, got, ret>>

File    == Seq(Chunk) \union {Absent}
Writing == {"openTemp", "write", "discard", "removeOld", "rename"}
Reading == {"readPath", "readTemp", "recover"}
Returns == {"none", "ok", "failed", "missing", "unreadable"}

\* Among the types: sceIoWrite is only ever given a part of the caller's text.
TypeOK ==
    /\ disk \in [{"path", "temp"} -> File]
    /\ pc \in {"off", "idle"} \union Reading \union Writing
    /\ text \in Seq(Chunk)
    /\ written \in 0..Len(text)
    /\ got \in File
    /\ ret \in Returns

\* The card as it is found; the program is not running yet.
Init ==
    /\ \E f \in OnCard : disk = [path |-> f, temp |-> Absent]
    /\ pc = "off"
    /\ text = <<>>
    /\ written = 0
    /\ got = Absent
    /\ ret = "none"

-----------------------------------------------------------------------------
\* The call's locals die when it returns.
Return(code) ==
    /\ pc' = "idle"
    /\ ret' = code
    /\ text' = <<>>
    /\ written' = 0

(* sceIoRename cannot replace an existing file on this filesystem. *)
RenameWorks == disk["temp"] # Absent /\ disk["path"] = Absent
Moved       == [path |-> disk["temp"], temp |-> Absent]

-----------------------------------------------------------------------------
(* cardfile_write *)

BeginWrite(t) ==
    /\ pc = "idle"
    /\ pc' = "openTemp"
    /\ text' = t
    /\ written' = 0
    /\ ret' = "none"
    /\ got' = Absent
    /\ UNCHANGED disk

\* Mutant: the old file removed before the new one is written.
OpenTempRemovingOld ==
    /\ pc = "openTemp"
    /\ pc' = "write"
    /\ disk' = [path |-> Absent, temp |-> <<>>]
    /\ UNCHANGED <<text, written, got, ret>>

\* O_CREAT | O_TRUNC: whatever an earlier save left under path.tmp is gone.
OpenTemp ==
    /\ pc = "openTemp"
    /\ pc' = "write"
    /\ disk' = [disk EXCEPT !["temp"] = <<>>]
    /\ UNCHANGED <<text, written, got, ret>>

OpenTempFails ==
    /\ pc = "openTemp"
    /\ "openWrite" \in Faults
    /\ Return("failed")
    /\ UNCHANGED <<disk, got>>

\* One turn of the loop: sceIoWrite takes some of what is left.
WriteSome ==
    /\ pc = "write"
    /\ \E upTo \in written + 1 .. Len(text) :
          /\ disk' = [disk EXCEPT !["temp"] = SubSeq(text, 1, upTo)]
          /\ written' = upTo
    /\ UNCHANGED <<pc, text, got, ret>>

\* Mutant: `n == 0` for `n <= 0`, so that an error is added to the count.
WriteFailsCounted ==
    /\ pc = "write"
    /\ "write" \in Faults
    /\ written < Len(text)
    /\ written' = written - 1
    /\ UNCHANGED <<disk, pc, text, got, ret>>

WriteFails ==
    /\ pc = "write"
    /\ "write" \in Faults
    /\ written < Len(text)
    /\ pc' = "discard"
    /\ UNCHANGED <<disk, text, written, got, ret>>

\* sceIoRemove(temp), its result ignored.
Discard ==
    /\ pc = "discard"
    /\ \/ disk' = [disk EXCEPT !["temp"] = Absent]
       \/ "remove" \in Faults /\ UNCHANGED disk
    /\ Return("failed")
    /\ UNCHANGED got

\* Mutant: a short write taken for a whole one.
CloseTempShort ==
    /\ pc = "write"
    /\ written > 0 \/ text = <<>>
    /\ pc' = "removeOld"
    /\ UNCHANGED <<disk, text, written, got, ret>>

CloseTemp ==
    /\ pc = "write"
    /\ written = Len(text)
    /\ pc' = "removeOld"
    /\ UNCHANGED <<disk, text, written, got, ret>>

\* sceIoRemove(path), its result ignored.
RemoveOld ==
    /\ pc = "removeOld"
    /\ pc' = "rename"
    /\ \/ disk' = [disk EXCEPT !["path"] = Absent]
       \/ "remove" \in Faults /\ UNCHANGED disk
    /\ UNCHANGED <<text, written, got, ret>>

RenameNew ==
    /\ pc = "rename"
    /\ RenameWorks
    /\ disk' = Moved
    /\ Return("ok")
    /\ UNCHANGED got

\* Mutant: the result of the rename ignored.
RenameNewIgnored ==
    /\ pc = "rename"
    /\ ~RenameWorks \/ "rename" \in Faults
    /\ Return("ok")
    /\ UNCHANGED <<disk, got>>

RenameNewFails ==
    /\ pc = "rename"
    /\ ~RenameWorks \/ "rename" \in Faults
    /\ Return("failed")
    /\ UNCHANGED <<disk, got>>

-----------------------------------------------------------------------------
(* cardfile_read: the program loads once, when it starts. *)

BeginRead ==
    /\ pc = "off"
    /\ pc' = "readPath"
    /\ ret' = "none"
    /\ UNCHANGED <<disk, text, written, got>>

\* The three ways read_file ends.
NotFound(f)   == disk[f] = Absent \/ "openRead" \in Faults              \* -1
Unreadable(f) == /\ disk[f] # Absent                                    \* -2
                 /\ Len(disk[f]) >= MaxLen \/ "read" \in Faults
ReadWhole(f)  == disk[f] # Absent /\ Len(disk[f]) < MaxLen

\* Mutant: path.tmp never looked for.
ReadPathOnly ==
    /\ pc = "readPath"
    /\ \/ NotFound("path") /\ Return("missing") /\ UNCHANGED got
       \/ Unreadable("path") /\ Return("unreadable") /\ UNCHANGED got
       \/ ReadWhole("path") /\ got' = disk["path"] /\ Return("ok")
    /\ UNCHANGED disk

ReadPath ==
    /\ pc = "readPath"
    /\ \/ NotFound("path") /\ pc' = "readTemp"
                           /\ UNCHANGED <<text, written, got, ret>>
       \/ Unreadable("path") /\ Return("unreadable") /\ UNCHANGED got
       \/ ReadWhole("path") /\ got' = disk["path"] /\ Return("ok")
    /\ UNCHANGED disk

\* Here -2 becomes -1 too: `if (len < 0) return -1`.
ReadTemp ==
    /\ pc = "readTemp"
    /\ \/ /\ NotFound("temp") \/ Unreadable("temp")
          /\ Return("missing")
          /\ UNCHANGED got
       \/ /\ ReadWhole("temp")
          /\ got' = disk["temp"]
          /\ pc' = "recover"
          /\ UNCHANGED <<text, written, ret>>
    /\ UNCHANGED disk

\* sceIoRename(temp, path), its result ignored.
Recover ==
    /\ pc = "recover"
    /\ \/ RenameWorks /\ disk' = Moved
       \/ (~RenameWorks \/ "rename" \in Faults) /\ UNCHANGED disk
    /\ Return("ok")
    /\ UNCHANGED got

-----------------------------------------------------------------------------
(* The battery is pulled, or the program is left: only the card remains. *)
PowerLoss ==
    /\ pc # "off"
    /\ pc' = "off"
    /\ text' = <<>>
    /\ written' = 0
    /\ got' = Absent
    /\ ret' = "none"
    /\ UNCHANGED disk

\* A call in progress makes its next sceIo call.
Step ==
    \/ OpenTemp \/ OpenTempFails
    \/ WriteSome \/ WriteFails \/ Discard \/ CloseTemp
    \/ RemoveOld \/ RenameNew \/ RenameNewFails
    \/ ReadPath \/ ReadTemp \/ Recover

Next ==
    \/ \E t \in Texts : BeginWrite(t)
    \/ BeginRead
    \/ Step
    \/ PowerLoss

Spec == Init /\ [][Next]_vars

-----------------------------------------------------------------------------
(* Properties *)

\* What cardfile_read would find on this card if nothing failed.
Recoverable == IF disk["path"] # Absent THEN disk["path"] ELSE disk["temp"]

\* The old file is taken away only once its replacement is completely
\* written beside it (cardfile_write's order of calls): from the remove to the
\* rename, path.tmp holds the whole text.
TempWhole == pc \in {"removeOld", "rename"} => disk["temp"] = text

\* Whatever fails and wherever the battery is pulled, a step taken while the
\* file is in place leaves the card holding the old contents or the whole of
\* the new ones, under one name or the other ("a battery pull halfway through
\* adding one server should not cost all the others", cardfile.h).
NoTear == [][disk["path"] # Absent => Recoverable' \in {Recoverable, text}]_vars

\* A save that answers 0 has put exactly its argument under the real name and
\* left no side file, after any sequence of failed and interrupted saves.
SaveResult ==
    [][(pc \in Writing /\ ret' = "ok")
           => disk' = [path |-> text, temp |-> Absent]]_vars

\* The promise of cardfile.h in full, for a card that has the file: seen from
\* above, the calls behave as one register that is replaced at one instant.
\* The instant is the sceIoRemove of the old file.  (The text of a call and its
\* length are the same on both sides; took is "the old one is gone".)
Atomic == INSTANCE AtomicFile WITH
    value <- Recoverable,
    phase <- IF pc \in Writing THEN "saving"
             ELSE IF pc \in Reading THEN "loading" ELSE pc,
    arg   <- text,
    took  <- pc = "rename" /\ disk["path"] = Absent

ImplementsAtomicFile == Atomic!Spec

\* The conditions it needs: the file is there, every text fits the reader's
\* buffer, and the calls that may fail are those of the save before the rename.
Favourable ==
    /\ Absent \notin OnCard
    /\ \A t \in Texts : Len(t) < MaxLen
    /\ Faults \subseteq {"openWrite", "write", "remove"}

=============================================================================
