--------------------------- MODULE CardFileProofs ---------------------------
(* Machine-checked facts about CardFile, for any contents and any faults.  *)
EXTENDS CardFile, TLAPS

\* While the text is being written, path.tmp holds what has been accepted.
TempPrefix ==
    /\ pc = "openTemp" => written = 0
    /\ pc = "write" => disk["temp"] = SubSeq(text, 1, written)

\* A call in progress has not answered yet, and nothing survives a restart.
Unanswered == pc # "idle" => ret = "none"

\* TempWhole alone is not inductive: CloseTemp needs TempPrefix, and SaveResult
\* needs Unanswered.
IInv == TypeOK /\ TempPrefix /\ TempWhole /\ Unanswered

LEMMA InitIInv == Init => IInv
BY TextsAssumption DEF Init, IInv, TypeOK, TempPrefix, TempWhole, Unanswered, File, Reading,
   Writing, Returns

\* What the card holds keeps its shape when one of its two names changes.
LEMMA DiskType ==
    ASSUME disk \in [{"path", "temp"} -> File], NEW c \in File
    PROVE  /\ [disk EXCEPT !["temp"] = c] \in [{"path", "temp"} -> File]
           /\ [disk EXCEPT !["path"] = c] \in [{"path", "temp"} -> File]
           /\ Moved \in [{"path", "temp"} -> File]
BY DEF Moved, File

\* A prefix of a text is a text, and the longest one is the text itself.
LEMMA PrefixOf ==
    ASSUME NEW t \in Seq(Chunk), NEW n \in 0..Len(t)
    PROVE  /\ SubSeq(t, 1, n) \in Seq(Chunk)
           /\ SubSeq(t, 1, 0) = <<>>
           /\ SubSeq(t, 1, Len(t)) = t
OBVIOUS

-----------------------------------------------------------------------------

\* A save's next sceIo call keeps the invariant, whichever way it ends.
LEMMA SaveKeepsIInv ==
    ASSUME IInv,
           \/ OpenTemp \/ OpenTempFails \/ WriteSome \/ WriteFails \/ Discard
           \/ CloseTemp \/ RemoveOld \/ RenameNew \/ RenameNewFails
    PROVE  IInv'
<1> USE DEF IInv, TypeOK, Unanswered, Writing, Reading, Returns
<1> <<>> \in Seq(Chunk) /\ Len(<<>>) = 0
  OBVIOUS
<1> <<>> \in File /\ Absent \in File
  BY DEF File
<1>1. CASE OpenTemp
  <2>1. disk' \in [{"path", "temp"} -> File] /\ disk'["temp"] = <<>>
    BY <1>1, DiskType DEF OpenTemp
  <2>2. text \in Seq(Chunk) /\ written \in 0..Len(text) /\ pc' = "write"
        /\ text' = text /\ written' = written
    BY <1>1 DEF OpenTemp
  <2>3. written = 0
    BY <1>1 DEF OpenTemp, TempPrefix
  <2> QED
    BY <1>1, <2>1, <2>2, <2>3, PrefixOf DEF OpenTemp, TempPrefix, TempWhole
<1>2. CASE OpenTempFails
  BY <1>2 DEF OpenTempFails, Return, TempPrefix, TempWhole
<1>3. CASE WriteSome
  <2>1. PICK upTo \in written + 1 .. Len(text) :
           /\ disk' = [disk EXCEPT !["temp"] = SubSeq(text, 1, upTo)]
           /\ written' = upTo
    BY <1>3 DEF WriteSome
  <2>2. upTo \in 0..Len(text) /\ SubSeq(text, 1, upTo) \in Seq(Chunk)
    BY <2>1, PrefixOf
  <2>3. disk' \in [{"path", "temp"} -> File]
        /\ disk'["temp"] = SubSeq(text, 1, upTo)
    BY <2>1, <2>2, DiskType DEF File
  <2> QED
    BY <1>3, <2>1, <2>2, <2>3 DEF WriteSome, TempPrefix, TempWhole
<1>4. CASE WriteFails
  BY <1>4 DEF WriteFails, TempPrefix, TempWhole
<1>5. CASE Discard
  <2>1. disk' \in [{"path", "temp"} -> File]
    BY <1>5, DiskType DEF Discard
  <2> QED
    BY <1>5, <2>1 DEF Discard, Return, TempPrefix, TempWhole
<1>6. CASE CloseTemp
  <2>1. disk["temp"] = text
    BY <1>6, PrefixOf DEF CloseTemp, TempPrefix
  <2> QED
    BY <1>6, <2>1 DEF CloseTemp, TempPrefix, TempWhole
<1>7. CASE RemoveOld
  <2>1. disk' \in [{"path", "temp"} -> File] /\ disk'["temp"] = disk["temp"]
    BY <1>7, DiskType DEF RemoveOld
  <2> QED
    BY <1>7, <2>1 DEF RemoveOld, TempPrefix, TempWhole
<1>8. CASE RenameNew
  <2>1. disk' \in [{"path", "temp"} -> File]
    BY <1>8, DiskType DEF RenameNew
  <2> QED
    BY <1>8, <2>1 DEF RenameNew, Return, TempPrefix, TempWhole
<1>9. CASE RenameNewFails
  BY <1>9 DEF RenameNewFails, Return, TempPrefix, TempWhole
<1> QED
  BY <1>1, <1>2, <1>3, <1>4, <1>5, <1>6, <1>7, <1>8, <1>9

\* So does a load's.
LEMMA LoadKeepsIInv ==
    ASSUME IInv, ReadPath \/ ReadTemp \/ Recover
    PROVE  IInv'
<1> USE DEF IInv, TypeOK, Unanswered, Writing, Reading, Returns
<1> <<>> \in Seq(Chunk) /\ Len(<<>>) = 0
  OBVIOUS
<1> disk["path"] \in File /\ disk["temp"] \in File
  OBVIOUS
<1>1. CASE ReadPath
  <2>1. CASE pc' = "readTemp" /\ UNCHANGED <<text, written, got, ret>>
    BY <1>1, <2>1 DEF ReadPath, TempPrefix, TempWhole
  <2>2. CASE Return("unreadable") /\ UNCHANGED got
    BY <1>1, <2>2 DEF ReadPath, Return, TempPrefix, TempWhole
  <2>3. CASE Return("ok") /\ got' = disk["path"]
    BY <1>1, <2>3 DEF ReadPath, Return, TempPrefix, TempWhole
  <2> QED
    BY <1>1, <2>1, <2>2, <2>3 DEF ReadPath
<1>2. CASE ReadTemp
  <2>1. CASE Return("missing") /\ UNCHANGED got
    BY <1>2, <2>1 DEF ReadTemp, Return, TempPrefix, TempWhole
  <2>2. CASE pc' = "recover" /\ got' = disk["temp"]
             /\ UNCHANGED <<text, written, ret>>
    BY <1>2, <2>2 DEF ReadTemp, TempPrefix, TempWhole
  <2> QED
    BY <1>2, <2>1, <2>2 DEF ReadTemp
<1>3. CASE Recover
  <2>1. disk' \in [{"path", "temp"} -> File]
    BY <1>3, DiskType DEF Recover
  <2> QED
    BY <1>3, <2>1 DEF Recover, Return, TempPrefix, TempWhole
<1> QED
  BY <1>1, <1>2, <1>3

LEMMA NextKeepsIInv == IInv /\ [Next]_vars => IInv'
<1> SUFFICES ASSUME IInv, [Next]_vars PROVE IInv'
  OBVIOUS
<1> USE DEF IInv, TypeOK, Unanswered, Writing, Reading, Returns
<1> <<>> \in Seq(Chunk) /\ Len(<<>>) = 0
  OBVIOUS
<1>1. ASSUME NEW t \in Texts, BeginWrite(t) PROVE IInv'
  <2>1. t \in Seq(Chunk) /\ Absent \in File /\ 0 \in 0..Len(t)
    BY TextsAssumption DEF File
  <2> QED
    BY <1>1, <2>1 DEF BeginWrite, TempPrefix, TempWhole
<1>2. CASE BeginRead
  BY <1>2 DEF BeginRead, TempPrefix, TempWhole
<1>3. CASE Step
  BY <1>3, SaveKeepsIInv, LoadKeepsIInv DEF Step
<1>4. CASE PowerLoss
  BY <1>4 DEF PowerLoss, TempPrefix, TempWhole, File
<1>5. CASE UNCHANGED vars
  BY <1>5 DEF vars, TempPrefix, TempWhole
<1> QED
  BY <1>1, <1>2, <1>3, <1>4, <1>5 DEF Next

LEMMA Inductive == Spec => []IInv
BY InitIInv, NextKeepsIInv, PTL DEF Spec

\* Every variable of the file layer keeps its type.
THEOREM TypeCorrect == Spec => []TypeOK
BY Inductive, PTL DEF IInv

\* The old file is removed only beside a complete replacement.
THEOREM ReplacementIsWhole == Spec => []TempWhole
BY Inductive, PTL DEF IInv

-----------------------------------------------------------------------------

\* A step that begins with the file in place tears nothing: of all sceIo calls
\* only RemoveOld takes it away, and TempWhole says what is left then.
LEMMA StepTearsNothing ==
    ASSUME IInv, [Next]_vars, disk["path"] # Absent
    PROVE  Recoverable' \in {Recoverable, text}
<1> USE DEF IInv, TypeOK, Recoverable
<1>1. CASE UNCHANGED disk
  BY <1>1
<1>2. ASSUME NEW c \in File, disk' = [disk EXCEPT !["temp"] = c]
      PROVE  Recoverable' = Recoverable
  BY <1>2
<1>3. CASE RemoveOld
  BY <1>3 DEF RemoveOld, TempWhole
<1>4. CASE OpenTemp
  BY <1>2, <1>4 DEF OpenTemp, File
<1>5. CASE WriteSome
  <2>1. PICK upTo \in written + 1 .. Len(text) :
           disk' = [disk EXCEPT !["temp"] = SubSeq(text, 1, upTo)]
    BY <1>5 DEF WriteSome
  <2> QED
    BY <1>2, <2>1, PrefixOf DEF File
<1>6. CASE Discard
  BY <1>1, <1>2, <1>6 DEF Discard, File
<1>7. ~RenameNew /\ (Recover => UNCHANGED disk)
  BY DEF RenameNew, Recover, RenameWorks
<1>8. BeginRead \/ PowerLoss \/ UNCHANGED vars \/ (\E t \in Texts : BeginWrite(t))
         => UNCHANGED disk
  BY DEF BeginRead, PowerLoss, vars, BeginWrite
<1>9. OpenTempFails \/ WriteFails \/ CloseTemp \/ RenameNewFails \/ ReadPath
         \/ ReadTemp => UNCHANGED disk
  BY DEF OpenTempFails, WriteFails, CloseTemp, RenameNewFails, ReadPath, ReadTemp
<1> QED
  BY <1>1, <1>3, <1>4, <1>5, <1>6, <1>7, <1>8, <1>9 DEF Next, Step

\* Whatever fails and wherever the battery is pulled, a file that is in place
\* is never torn: cardfile_write's promise, for all contents and all faults.
THEOREM NeverTorn == Spec => NoTear
<1>1. IInv /\ [Next]_vars
         => [disk["path"] # Absent => Recoverable' \in {Recoverable, text}]_vars
  BY StepTearsNothing
<1> QED
  BY Inductive, <1>1, PTL DEF Spec, NoTear

\* Of all the steps of a save only RenameNew answers 0, and TempWhole says what
\* it puts in place.
LEMMA StepSaves ==
    ASSUME IInv, [Next]_vars, pc \in Writing, ret' = "ok"
    PROVE  disk' = [path |-> text, temp |-> Absent]
<1> USE DEF IInv, Unanswered
<1>1. CASE RenameNew
  BY <1>1 DEF RenameNew, Moved, TempWhole
<1>2. ~ UNCHANGED ret
  BY DEF Unanswered, Writing
<1>3. ~OpenTemp /\ ~WriteSome /\ ~WriteFails /\ ~CloseTemp /\ ~RemoveOld
      /\ ~ UNCHANGED vars
  BY <1>2 DEF OpenTemp, WriteSome, WriteFails, CloseTemp, RemoveOld, vars
<1>4. ~OpenTempFails /\ ~Discard /\ ~RenameNewFails
  BY DEF OpenTempFails, Discard, RenameNewFails, Return
<1>5. ~ReadPath /\ ~ReadTemp /\ ~Recover /\ ~BeginRead /\ ~PowerLoss
      /\ ~ \E t \in Texts : BeginWrite(t)
  BY DEF ReadPath, ReadTemp, Recover, BeginRead, PowerLoss, BeginWrite, Writing
<1> QED
  BY <1>1, <1>3, <1>4, <1>5 DEF Next, Step

\* A save that answers 0 has put exactly its argument in place.
THEOREM SavedMeansSaved == Spec => SaveResult
<1>1. IInv /\ [Next]_vars
         => [(pc \in Writing /\ ret' = "ok")
                => disk' = [path |-> text, temp |-> Absent]]_vars
  BY StepSaves
<1> QED
  BY Inductive, <1>1, PTL DEF Spec, SaveResult

-----------------------------------------------------------------------------
(* Refinement: under Favourable, the calls implement AtomicFile.            *)

\* The file is missing only between the remove and the rename, or after the
\* battery was pulled there; path.tmp then holds the text of a save.
NeverMissing ==
    /\ pc \in Writing => text \in Texts
    /\ disk["path"] = Absent
          => /\ pc \in {"off", "rename", "readPath", "readTemp", "recover"}
             /\ disk["temp"] \in Texts
    /\ pc = "readTemp" => disk["path"] = Absent
    /\ pc = "recover" => disk["path"] = Absent /\ got = disk["temp"]

LEMMA InitNeverMissing == Favourable /\ Init => NeverMissing
BY DEF Init, Favourable, NeverMissing, Writing

LEMMA StepNeverMissing ==
    Favourable /\ IInv /\ NeverMissing /\ [Next]_vars => NeverMissing'
<1> SUFFICES ASSUME Favourable, IInv, NeverMissing, [Next]_vars
             PROVE  NeverMissing'
  OBVIOUS
<1> USE DEF NeverMissing, IInv, TypeOK, Writing, Reading
<1>a. /\ "rename" \notin Faults /\ "openRead" \notin Faults
      /\ "read" \notin Faults
  BY DEF Favourable
<1>b. \A t \in Texts : t \in Seq(Chunk) /\ t # Absent /\ Len(t) < MaxLen
  BY TextsAssumption, AbsentAssumption DEF Favourable
<1>1. ASSUME NEW t \in Texts, BeginWrite(t) PROVE NeverMissing'
  BY <1>1 DEF BeginWrite
<1>2. CASE BeginRead
  BY <1>2 DEF BeginRead
<1>3. CASE OpenTemp \/ WriteSome
  BY <1>3 DEF OpenTemp, WriteSome
<1>4. CASE OpenTempFails \/ Discard
  BY <1>4 DEF OpenTempFails, Discard, Return
<1>5. CASE WriteFails \/ CloseTemp
  BY <1>5 DEF WriteFails, CloseTemp
<1>6. CASE RemoveOld
  BY <1>6 DEF RemoveOld, TempWhole
<1>7. CASE RenameNew
  BY <1>7, <1>b DEF RenameNew, RenameWorks, Moved, Return
<1>8. CASE RenameNewFails
  BY <1>8, <1>a, <1>b DEF RenameNewFails, RenameWorks, Return
<1>9. CASE ReadPath
  BY <1>9, <1>a DEF ReadPath, NotFound, Unreadable, ReadWhole, Return
<1>10. CASE ReadTemp
  <2>0. disk["temp"] \in Texts
    BY <1>10 DEF ReadTemp
  <2>1. disk["temp"] # Absent /\ Len(disk["temp"]) < MaxLen
    BY <2>0, <1>b
  <2>3. Len(disk["temp"]) \in Nat /\ MaxLen \in Nat
    BY <2>0, <1>b, MaxLenAssumption
  <2>2. ReadWhole("temp") /\ pc' = "recover" /\ got' = disk["temp"]
        /\ UNCHANGED <<disk, text>>
    BY <1>10, <1>a, <2>1, <2>3 DEF ReadTemp, NotFound, Unreadable
  <2> QED
    BY <1>10, <2>2 DEF ReadTemp
<1>11. CASE Recover
  BY <1>11, <1>a, <1>b DEF Recover, RenameWorks, Moved, Return
<1>12. CASE PowerLoss
  BY <1>12 DEF PowerLoss
<1>13. CASE UNCHANGED vars
  BY <1>13 DEF vars
<1> QED
  BY <1>1, <1>2, <1>3, <1>4, <1>5, <1>6, <1>7, <1>8, <1>9, <1>10, <1>11,
     <1>12, <1>13 DEF Next, Step

\* The card as found is a register holding the file.
LEMMA InitMaps == Favourable /\ Init => Atomic!Init
BY DEF Favourable, Init, Atomic!Init, Recoverable, Reading, Writing

\* Every step of the calls is a step of the register or changes nothing of it.
LEMMA StepMaps ==
    Favourable /\ IInv /\ NeverMissing /\ [Next]_vars
        => [Atomic!Next]_(Atomic!vars)
<1> SUFFICES ASSUME Favourable, IInv, NeverMissing, [Next]_vars
             PROVE  Atomic!Next \/ UNCHANGED Atomic!vars
  OBVIOUS
<1> USE DEF NeverMissing, IInv, TypeOK, Writing, Reading, Recoverable
<1>a. /\ "rename" \notin Faults /\ "openRead" \notin Faults
      /\ "read" \notin Faults
  BY DEF Favourable
<1>b. \A t \in Texts : t \in Seq(Chunk) /\ t # Absent /\ Len(t) < MaxLen
  BY TextsAssumption, AbsentAssumption DEF Favourable
<1>1. ASSUME NEW t \in Texts, BeginWrite(t) PROVE Atomic!Save(t)
  BY <1>1 DEF BeginWrite, Atomic!Save
<1>2. CASE BeginRead
  BY <1>2 DEF BeginRead, Unanswered, Atomic!Next, Atomic!Load
<1>3. CASE OpenTemp \/ WriteFails \/ CloseTemp
  BY <1>3 DEF OpenTemp, WriteFails, CloseTemp, Atomic!vars
<1>4. CASE WriteSome
  <2>1. disk' = [disk EXCEPT !["temp"] = disk'["temp"]]
    BY <1>4 DEF WriteSome
  <2> QED
    BY <1>4, <2>1 DEF WriteSome, Atomic!vars
<1>5. CASE OpenTempFails
  BY <1>5 DEF OpenTempFails, Return, Atomic!Next, Atomic!NotSaved, Atomic!Return
<1>6. CASE Discard
  BY <1>6 DEF Discard, Return, Atomic!Next, Atomic!NotSaved, Atomic!Return
<1>7. CASE RemoveOld
  <2>1. CASE disk' = [disk EXCEPT !["path"] = Absent]
    BY <1>7, <2>1 DEF RemoveOld, TempWhole, Atomic!Next, Atomic!TakeEffect
  <2>2. CASE UNCHANGED disk
    BY <1>7, <2>2 DEF RemoveOld, Atomic!vars
  <2> QED
    BY <1>7, <2>1, <2>2 DEF RemoveOld
<1>8. CASE RenameNew
  BY <1>8, <1>b DEF RenameNew, RenameWorks, Moved, Return, Atomic!Next,
     Atomic!Saved, Atomic!Return
<1>9. CASE RenameNewFails
  <2>1. disk["path"] # Absent
    BY <1>9, <1>a, <1>b DEF RenameNewFails, RenameWorks
  <2> QED
    BY <1>9, <2>1 DEF RenameNewFails, Return, Atomic!Next, Atomic!NotSaved,
       Atomic!Return
<1>10. CASE ReadPath
  <2>1. CASE NotFound("path") /\ pc' = "readTemp"
             /\ UNCHANGED <<text, written, got, ret>>
    BY <1>10, <2>1 DEF ReadPath, Atomic!vars
  <2>2. CASE Unreadable("path") /\ Return("unreadable") /\ UNCHANGED got
    BY <1>10, <1>a, <2>2 DEF ReadPath, Unreadable, Return, Atomic!Next,
       Atomic!TooLarge, Atomic!Return
  <2>3. CASE ReadWhole("path") /\ got' = disk["path"] /\ Return("ok")
    BY <1>10, <2>3 DEF ReadPath, ReadWhole, Return, Atomic!Next,
       Atomic!Loaded, Atomic!Return
  <2> QED
    BY <1>10, <2>1, <2>2, <2>3 DEF ReadPath
<1>11. CASE ReadTemp
  <2>0. disk["path"] = Absent /\ disk["temp"] \in Texts
    BY <1>11 DEF ReadTemp
  <2>1. disk["temp"] # Absent /\ Len(disk["temp"]) < MaxLen
    BY <2>0, <1>b
  <2>3. Len(disk["temp"]) \in Nat /\ MaxLen \in Nat
    BY <2>0, <1>b, MaxLenAssumption
  <2>2. pc' = "recover" /\ got' = disk["temp"]
        /\ UNCHANGED <<disk, text, written, ret>>
    BY <1>11, <1>a, <2>1, <2>3 DEF ReadTemp, NotFound, Unreadable
  <2> QED
    BY <1>11, <2>0, <2>1, <2>2 DEF ReadTemp, Atomic!Next, Atomic!Fetch
<1>12. CASE Recover
  <2>0. pc = "recover"
    BY <1>12 DEF Recover
  <2>1. disk["path"] = Absent /\ disk["temp"] \in Texts /\ got = disk["temp"]
    BY <2>0
  <2>2. disk["temp"] # Absent /\ Len(disk["temp"]) < MaxLen
    BY <2>1, <1>b
  <2>4. disk' = Moved /\ Return("ok") /\ UNCHANGED got
    BY <1>12, <1>a, <2>1, <2>2 DEF Recover, RenameWorks
  <2> QED
    BY <2>0, <2>1, <2>2, <2>4 DEF Return, Moved, Atomic!Next, Atomic!Loaded,
       Atomic!Return
<1>13. CASE PowerLoss
  BY <1>13 DEF PowerLoss, Atomic!Next, Atomic!PowerLoss
<1>14. CASE UNCHANGED vars
  BY <1>14 DEF vars, Atomic!vars
<1> QED
  BY <1>1, <1>2, <1>3, <1>4, <1>5, <1>6, <1>7, <1>8, <1>9, <1>10, <1>11,
     <1>12, <1>13, <1>14 DEF Next, Step, Atomic!Next

\* cardfile.h's promise for a card that has the file, as long as reading and
\* renaming do not fail: each save takes effect whole, at one instant.
THEOREM Refinement == ASSUME Favourable PROVE Spec => ImplementsAtomicFile
<1>1. Init => NeverMissing /\ Atomic!Init
  BY InitNeverMissing, InitMaps
<1>2. IInv /\ NeverMissing /\ [Next]_vars => NeverMissing'
  BY StepNeverMissing
<1>3. IInv /\ NeverMissing /\ [Next]_vars => [Atomic!Next]_(Atomic!vars)
  BY StepMaps
<1> QED
  BY <1>1, <1>2, <1>3, Inductive, PTL DEF Spec, ImplementsAtomicFile,
     Atomic!Spec

=============================================================================
