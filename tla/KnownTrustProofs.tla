-------------------------- MODULE KnownTrustProofs --------------------------
(* What a user of KnownHosts may rely on: which keys stay remembered, and   *)
(* what the program says of them, for any servers, keys and room.  These    *)
(* hold on a card that has the file as some earlier run saved it, while     *)
(* reading and renaming work; the calls of a save before its rename may     *)
(* fail in any way, and the battery may be pulled anywhere.                 *)
EXTENDS KnownHostsProofs, FiniteSetTheorems

\* No server twice, and no key cut short.
OneEach(m) ==
    \A i, j \in 1..Len(m) : m[i].server = m[j].server => i = j
Whole(m) ==
    \A i \in 1..Len(m) : m[i].key \in Key

Favourable ==
    /\ Faults \subseteq {"openWrite", "write", "remove"}
    /\ \A f \in OnCard : \E m \in Listed : f = Encode(m) /\ OneEach(m) /\ Whole(m)

\* What cardfile_read would find if nothing failed, as a list of entries.
Held == OnFile(Card!Recoverable)

-----------------------------------------------------------------------------
(* The inductive invariant.                                                 *)

\* How a load gets where it is: path.tmp is looked at only when the file is
\* missing, and the answer says which of them was read.
Fetched ==
    /\ pc \in {"readTemp", "recover"} => disk["path"] = Absent
    /\ at = "loading" /\ pc = "idle"
           => /\ ret = "ok" => got = Card!Recoverable
              /\ ret # "ok" => Held = <<>>

\* The file is a saved list, and like the array it is whole and without
\* duplicates.
Kept ==
    /\ CP!NeverMissing
    /\ Held \in Listed /\ Card!Recoverable = Encode(Held)
    /\ OneEach(Held) /\ Whole(Held) /\ OneEach(entries) /\ Whole(entries)

Has(m, s, k) == \E i \in 1..Len(m) : m[i].server = s /\ m[i].key = k
Lacks(m, s)  == \A i \in 1..Len(m) : m[i].server # s

\* A key remembered with success is in the file and, once loaded, in memory.
Pinned ==
    \A s \in Server : pinned[s] # None =>
        /\ Has(Held, s, pinned[s])
        /\ InMemory => Has(entries, s, pinned[s])

\* Whatever either has was given to be remembered, and not forgotten with
\* success since.
AllOf(m) == \A s, k : Has(m, s, k) => <<s, k>> \in standing
Standing == AllOf(Held) /\ (InMemory => AllOf(entries))

\* The server in question: unknown while its key is asked about, in the array
\* while that is saved, and out of it while it is being forgotten.
InQuestion ==
    /\ at = "asking" => Lacks(entries, check.server)
    /\ at = "remembering" => Has(entries, check.server, check.key)
    /\ at = "forgetting" => Lacks(entries, check.server) /\ check.answer # "changed"

TrustInv == Fetched /\ Kept /\ Pinned /\ Standing /\ InQuestion /\ NoFalseAlarm

-----------------------------------------------------------------------------
(* Looking up, adding and taking out, in a list without duplicates.          *)

LEMMA HasLookup ==
    ASSUME NEW m \in Seq(Entry), OneEach(m), NEW s, NEW k, Has(m, s, k)
    PROVE  LookupIn(m, s) = k
<1>1. PICK i \in 1..Len(m) : m[i].server = s /\ m[i].key = k
  BY DEF Has
<1>2. Places(m, s) # {}
  BY <1>1 DEF Places
<1>3. First(m, s) \in 1..Len(m) /\ m[First(m, s)].server = s
  BY <1>2, FirstIsPlace
<1>4. First(m, s) = i
  BY <1>1, <1>3 DEF OneEach
<1> QED
  BY <1>1, <1>2, <1>4 DEF LookupIn

LEMMA LacksLookup ==
    ASSUME NEW m \in Seq(Entry), NEW s
    PROVE  /\ Lacks(m, s) <=> Places(m, s) = {}
           /\ Lacks(m, s) <=> LookupIn(m, s) = None
<1>1. Lacks(m, s) <=> Places(m, s) = {}
  BY DEF Lacks, Places
<1> QED
  BY <1>1, LookupFinds

\* A new server's key is added and disturbs no other.
LEMMA RememberAdds ==
    ASSUME NEW m \in Listed, OneEach(m), Whole(m),
           NEW s \in Server, NEW k \in Key, Lacks(m, s)
    PROVE  LET new == Remember(m, s, k)
           IN  /\ OneEach(new) /\ Whole(new) /\ Has(new, s, k)
               /\ \A t, l : Has(m, t, l) => Has(new, t, l)
               /\ \A t, l : Has(new, t, l) => Has(m, t, l) \/ (t = s /\ l = k)
<1> DEFINE e   == [server |-> s, key |-> k]
           new == Remember(m, s, k)
<1>1. m \in Seq(Entry) /\ e \in Entry
  BY DEF Listed, Entry, Stored
<1>2. new = Append(m, e)
  BY <1>1, LacksLookup DEF Remember
<1>3. /\ Len(new) = Len(m) + 1 /\ new[Len(m) + 1] = e
      /\ \A i \in 1..Len(m) : new[i] = m[i]
  BY <1>1, <1>2
<1>4. e.server = s /\ e.key = k
  OBVIOUS
<1>5. \A i \in 1..Len(new) : i \in 1..Len(m) \/ i = Len(m) + 1
  BY <1>1, <1>3
<1>6. \A i \in 1..Len(m) : i \in 1..Len(new)
  BY <1>1, <1>3
<1>7. Len(m) + 1 \in 1..Len(new)
  BY <1>1, <1>3
<1> HIDE DEF new, e
<1>8. OneEach(new)
  <2> SUFFICES ASSUME NEW i \in 1..Len(new), NEW j \in 1..Len(new),
                      new[i].server = new[j].server
               PROVE  i = j
    BY DEF OneEach
  <2>1. CASE i \in 1..Len(m) /\ j \in 1..Len(m)
    BY <1>3, <2>1 DEF OneEach
  <2>2. CASE i \in 1..Len(m) /\ j = Len(m) + 1
    BY <1>3, <1>4, <2>2 DEF Lacks
  <2>3. CASE i = Len(m) + 1 /\ j \in 1..Len(m)
    BY <1>3, <1>4, <2>3 DEF Lacks
  <2> QED
    BY <1>5, <2>1, <2>2, <2>3
<1>9. Whole(new)
  BY <1>3, <1>4, <1>5 DEF Whole
<1>10. Has(new, s, k)
  BY <1>3, <1>4, <1>7 DEF Has
<1>11. ASSUME NEW t, NEW l, Has(m, t, l)
       PROVE  Has(new, t, l)
  BY <1>3, <1>6, <1>11 DEF Has
<1>12. ASSUME NEW t, NEW l, Has(new, t, l)
       PROVE  Has(m, t, l) \/ (t = s /\ l = k)
  BY <1>3, <1>4, <1>5, <1>12 DEF Has
<1> QED
  BY <1>8, <1>9, <1>10, <1>11, <1>12 DEF new

\* A server's only entry is taken out, and no other's.
LEMMA ForgetRemoves ==
    ASSUME NEW m \in Listed, OneEach(m), Whole(m), NEW s, Places(m, s) # {}
    PROVE  LET new == Forget(m, s)
           IN  /\ OneEach(new) /\ Whole(new) /\ Lacks(new, s)
               /\ \A t, l : t # s /\ Has(m, t, l) => Has(new, t, l)
               /\ \A t, l : Has(new, t, l) => Has(m, t, l)
<1> DEFINE new == Forget(m, s)
           f   == First(m, s)
           from(i) == IF i < f THEN i ELSE i + 1
<1>1. m \in Seq(Entry) /\ f \in 1..Len(m) /\ m[f].server = s
  BY FirstIsPlace DEF Listed
<1>2. new \in Seq(Entry) /\ Len(new) = Len(m) - 1
      /\ \A i \in 1 .. Len(m) - 1 : new[i] = IF i < f THEN m[i] ELSE m[i + 1]
  BY <1>1, ForgetShape
<1> HIDE DEF new, f
<1>3. \A i \in 1..Len(new) : /\ from(i) \in 1..Len(m) /\ from(i) # f
                             /\ new[i] = m[from(i)]
  BY <1>1, <1>2
<1>4. \A i, j \in 1..Len(new) : from(i) = from(j) => i = j
  BY <1>1, <1>2
<1>5. ASSUME NEW j \in 1..Len(m), j # f
      PROVE  \E i \in 1..Len(new) : from(i) = j
  <2>1. CASE j < f
    <3>1. j \in 1..Len(new) /\ from(j) = j
      BY <1>1, <1>2, <2>1
    <3> QED
      BY <3>1
  <2>2. CASE ~(j < f)
    <3>1. j - 1 \in 1..Len(new) /\ from(j - 1) = j
      BY <1>1, <1>2, <1>5, <2>2
    <3> QED
      BY <3>1
  <2> QED
    BY <2>1, <2>2
<1> HIDE DEF from
<1>6. OneEach(new)
  BY <1>3, <1>4 DEF OneEach
<1>7. Whole(new)
  BY <1>3 DEF Whole
<1>8. Lacks(new, s)
  BY <1>1, <1>3 DEF Lacks, OneEach
<1>9. ASSUME NEW t, NEW l, t # s, Has(m, t, l)
      PROVE  Has(new, t, l)
  <2>1. PICK j \in 1..Len(m) : m[j].server = t /\ m[j].key = l
    BY <1>9 DEF Has
  <2>2. PICK i \in 1..Len(new) : from(i) = j
    BY <1>1, <1>5, <1>9, <2>1
  <2> QED
    BY <1>3, <2>1, <2>2 DEF Has
<1>10. ASSUME NEW t, NEW l, Has(new, t, l)
       PROVE  Has(m, t, l)
  BY <1>3, <1>10 DEF Has
<1> QED
  BY <1>6, <1>7, <1>8, <1>9, <1>10 DEF new

\* At most one place each, so find and forget have no second one to miss.
LEMMA OnePlace ==
    ASSUME NEW m \in Seq(Entry), OneEach(m), NEW s
    PROVE  Cardinality(Places(m, s)) <= 1
<1>1. CASE Places(m, s) = {}
  BY <1>1, FS_EmptySet
<1>2. CASE Places(m, s) # {}
  <2>1. PICK i \in Places(m, s) : TRUE
    BY <1>2
  <2>2. Places(m, s) = {i}
    BY <2>1 DEF Places, OneEach
  <2>3. Cardinality({i}) = 1
    BY FS_Singleton, Zenon
  <2> QED
    BY <2>2, <2>3
<1> QED
  BY <1>1, <1>2

-----------------------------------------------------------------------------
(* Each step keeps the invariant.                                           *)

\* What the steps that make no sceIo call do to the file layer.
Outside ==
    /\ UNCHANGED disk
    /\ \/ pc = "off" /\ pc' = "readPath"
       \/ pc' = "off" /\ at' = "off"
       \/ pc = "idle" /\ pc' \in {"idle", "openTemp"} /\ at' # "loading"
       \/ UNCHANGED <<pc, got, ret, at, text>>

LEMMA StepsOutside ==
    ASSUME IInv, [Next]_vars
    PROVE  (CP!Step /\ UNCHANGED <<memVars, history>>) \/ Outside
<1>1. CardStep => CP!Step /\ UNCHANGED <<memVars, history>>
  BY SameCard DEF CardStep
<1>2. StartLoad => Outside
  BY DEF StartLoad, Card!BeginRead, Outside
<1>3. PowerLoss => Outside
  BY DEF PowerLoss, Card!PowerLoss, Outside
<1>4. Confirm \/ FinishLoad => Outside
  BY DEF Confirm, Card!BeginWrite, FinishLoad, Outside
<1>5. Decline \/ ConfirmFull \/ FinishRemember \/ FinishForget => Outside
  BY DEF Decline, ConfirmFull, FinishRemember, FinishForget, fileVars, Outside, IInv, Control
<1>6. ASSUME NEW s \in Server, NEW k \in Key
      PROVE  KeyKnown(s, k) \/ KeyChanged(s, k) \/ KeyNew(s, k) => Outside
  BY DEF KeyKnown, KeyChanged, KeyNew, fileVars, Outside, IInv, Control
<1>7. ASSUME NEW s \in Server
      PROVE  StartForget(s) => Outside
  BY DEF StartForget, Card!BeginWrite, Outside
<1>8. UNCHANGED vars => Outside
  BY DEF vars, fileVars, memVars, Outside
<1> QED
  BY <1>1, <1>2, <1>3, <1>4, <1>5, <1>6, <1>7, <1>8 DEF Next

\* A load that can open and read what is there finds what the card holds.
LEMMA FetchedKept ==
    ASSUME "openRead" \notin Faults, "read" \notin Faults, IInv, Fetched, [Next]_vars
    PROVE  Fetched'
<1> USE DEF Fetched
<1>1. ASSUME Outside
      PROVE  Fetched'
  <2>1. Held' = Held /\ Card!Recoverable' = Card!Recoverable
    BY <1>1 DEF Outside, Held, Card!Recoverable
  <2> QED
    BY <1>1, <2>1 DEF Outside
<1>2. ASSUME CP!Step, UNCHANGED <<memVars, history>>
      PROVE  Fetched'
  <2> USE DEF Card!Recoverable
  <2>0. at' = at
    BY <1>2 DEF memVars
  <2>1. CASE CP!ReadPath
    <3>1. CASE CP!NotFound("path") /\ pc' = "readTemp" /\ UNCHANGED disk
      BY <2>0, <3>1 DEF CP!NotFound
    <3>2. CASE CP!Unreadable("path") /\ CP!Return("unreadable") /\ UNCHANGED disk
      <4>1. Held' = <<>>
        BY <3>2 DEF CP!Unreadable, Held, OnFile
      <4> QED
        BY <3>2, <4>1 DEF CP!Return
    <3>3. CASE CP!ReadWhole("path") /\ got' = disk["path"] /\ CP!Return("ok")
               /\ UNCHANGED disk
      BY <3>3 DEF CP!ReadWhole, CP!Return
    <3> QED
      BY <2>1, <3>1, <3>2, <3>3 DEF CP!ReadPath
  <2>2. CASE CP!ReadTemp
    <3>0. disk["path"] = Absent
      BY <2>2 DEF CP!ReadTemp
    <3>1. CASE (CP!NotFound("temp") \/ CP!Unreadable("temp")) /\ CP!Return("missing")
               /\ UNCHANGED disk
      <4>1. Held' = <<>>
        BY <3>0, <3>1 DEF CP!Unreadable, CP!NotFound, Held, OnFile
      <4> QED
        BY <3>1, <4>1 DEF CP!Return
    <3>2. CASE pc' = "recover" /\ UNCHANGED disk
      BY <3>0, <3>2
    <3> QED
      BY <2>2, <3>1, <3>2 DEF CP!ReadTemp
  <2>3. CASE CP!Recover
    <3>1. disk["path"] = Absent /\ got = disk["temp"] /\ got # Absent
      BY <2>3 DEF CP!Recover, IInv, Loading
    <3>2. \/ UNCHANGED disk
          \/ disk'["path"] = disk["temp"]
      BY <2>3 DEF CP!Recover, CP!Moved
    <3> QED
      BY <2>3, <3>1, <3>2 DEF CP!Recover, CP!Return
  <2>4. CASE ~CP!ReadPath /\ ~CP!ReadTemp /\ ~CP!Recover
    <3>1. pc \in CP!Writing /\ pc' \notin {"readTemp", "recover"}
      BY <1>2, <2>4 DEF CP!Step, CP!OpenTemp, CP!OpenTempFails, CP!WriteSome, CP!WriteFails,
         CP!Discard, CP!CloseTemp, CP!RemoveOld, CP!RenameNew, CP!RenameNewFails,
         CP!Return, CP!Writing
    <3> QED
      BY <2>0, <3>1, WhileSaving
  <2> QED
    BY <2>1, <2>2, <2>3, <2>4
<1> QED
  BY <1>1, <1>2, StepsOutside

\* What a finished load puts in memory.
LEMMA LoadedIsHeld ==
    ASSUME IInv, Fetched, FinishLoad
    PROVE  entries' = Held
<1>1. at = "loading" /\ pc = "idle"
  BY DEF FinishLoad
<1>2. CASE ret = "ok"
  <2>1. got # Absent /\ Len(got) < MaxLen /\ got \in Seq(Chunk)
    BY <1>1, <1>2 DEF IInv, Loading, CP!IInv, CP!TypeOK, CP!File
  <2>2. ~(Len(got) >= MaxLen)
    BY <2>1, KnownAssumption
  <2> QED
    BY <1>1, <1>2, <2>1, <2>2 DEF FinishLoad, Fetched, Held, OnFile
<1>3. CASE ret # "ok"
  BY <1>1, <1>3 DEF FinishLoad, Fetched
<1> QED
  BY <1>2, <1>3

LEMMA InitFetched == Init => Fetched
BY DEF Init, Card!Init, Fetched

\* knownhosts_load returns 0 only with everything the card holds, if what is
\* there can be opened and read: whatever was torn or lost before.
THEOREM LoadedWhole ==
    ASSUME "openRead" \notin Faults, "read" \notin Faults
    PROVE  Spec => LoadIsWhole
<1>1. Init => IInv /\ Fetched
  BY InitKeeps, InitFetched
<1>2. IInv /\ Fetched /\ [Next]_vars => IInv' /\ Fetched'
  BY NextKeeps, FetchedKept
<1>3. ASSUME IInv, Fetched, [Next]_vars, at = "loading", at' = "list"
      PROVE  entries' = OnFile(Card!Recoverable)
  <2>1. FinishLoad
    BY <1>3 DEF Next, StartLoad, CardStep, KeyKnown, KeyChanged, KeyNew, Decline, Confirm,
       ConfirmFull, FinishRemember, StartForget, FinishForget, PowerLoss, vars, memVars
  <2> QED
    BY <1>3, <2>1, LoadedIsHeld DEF Held
<1>4. IInv /\ Fetched /\ [Next]_vars
         => [(at = "loading" /\ at' = "list" /\ loaded' = "0")
                 => entries' = OnFile(Card!Recoverable)]_vars
  BY <1>3
<1> QED
  BY <1>1, <1>2, <1>4, PTL DEF Spec, LoadIsWhole

-----------------------------------------------------------------------------
(* The rest of the invariant, on a favourable card.                          *)

LEMMA FavourableCard ==
    ASSUME Favourable
    PROVE  CP!Favourable /\ "openRead" \notin Faults /\ "read" \notin Faults
<1>1. Absent \notin OnCard
  <2>1. ASSUME NEW m \in Listed
        PROVE  Encode(m) # Absent
    BY EncodeShape, CardAssumption DEF Listed
  <2> QED
    BY <2>1 DEF Favourable
<1>2. ASSUME NEW m \in Listed
      PROVE  Len(Encode(m)) < MaxLen
  <2>1. m \in Seq(Entry) /\ Len(m) <= KnownMax /\ Len(Encode(m)) = 2 * Len(m)
    BY EncodeShape DEF Listed
  <2> QED
    BY <2>1, KnownAssumption
<1> QED
  BY <1>1, <1>2 DEF Favourable, CP!Favourable, Saveable

\* A sceIo call leaves the card holding what it held, or the array.
LEMMA HeldChange ==
    ASSUME Favourable, IInv, Kept, CP!Step
    PROVE  \/ Card!Recoverable' = Card!Recoverable
           \/ /\ pc \in CP!Writing
              /\ Card!Recoverable' = Encode(entries)
<1> USE DEF Card!Recoverable, CP!IInv, CP!TypeOK
<1>0. CP!IInv /\ CP!NeverMissing
  BY DEF IInv, Kept
<1>1. CASE UNCHANGED disk
  BY <1>1
<1>2. CASE CP!OpenTemp \/ CP!WriteSome \/ CP!Discard
  <2>1. disk["path"] # Absent
    BY <1>0, <1>2 DEF CP!OpenTemp, CP!WriteSome, CP!Discard, CP!NeverMissing
  <2>2. disk'["path"] = disk["path"]
    BY <1>0, <1>2 DEF CP!OpenTemp, CP!WriteSome, CP!Discard
  <2> QED
    BY <2>1, <2>2
<1>3. CASE CP!RemoveOld \/ CP!RenameNew
  <2>1. pc \in CP!Writing /\ disk["temp"] = text /\ text = Encode(entries)
    BY <1>0, <1>3, WhileSaving
       DEF CP!RemoveOld, CP!RenameNew, CP!TempWhole, CP!Writing
  <2>2. \/ disk'["path"] = disk["path"] /\ disk'["temp"] = disk["temp"]
        \/ disk'["path"] = Absent /\ disk'["temp"] = disk["temp"]
        \/ disk["path"] = Absent /\ disk'["path"] = disk["temp"] /\ disk["temp"] # Absent
    BY <1>0, <1>3 DEF CP!RemoveOld, CP!RenameNew, CP!RenameWorks, CP!Moved
  <2> QED
    BY <2>1, <2>2
<1>4. CASE CP!Recover
  BY <1>0, <1>4 DEF CP!Recover, CP!RenameWorks, CP!Moved
<1>5. CP!OpenTempFails \/ CP!WriteFails \/ CP!CloseTemp \/ CP!RenameNewFails
         \/ CP!ReadPath \/ CP!ReadTemp => UNCHANGED disk
  BY DEF CP!OpenTempFails, CP!WriteFails, CP!CloseTemp, CP!RenameNewFails, CP!ReadPath,
     CP!ReadTemp
<1> QED
  BY <1>1, <1>2, <1>3, <1>4, <1>5 DEF CP!Step

LEMMA NeverMissingKept ==
    ASSUME Favourable, IInv, IInv', CP!NeverMissing, [Next]_vars
    PROVE  CP!NeverMissing'
<1>1. CASE CP!Step
  BY <1>1, FavourableCard, Assumed, CP!StepNeverMissing DEF IInv, CP!Next
<1>2. CASE Outside
  <2>1. pc' \in CP!Writing => text' \in Saveable
    BY DEF IInv, Typed, Saving, Saveable
  <2> QED
    BY <1>2, <2>1 DEF Outside, CP!NeverMissing, CP!Writing
<1> QED
  BY <1>1, <1>2, StepsOutside

\* A sceIo call, of a save or of a load.
LEMMA CardKeepsTrust ==
    ASSUME Favourable, IInv, IInv', TrustInv, [Next]_vars,
           CP!Step, UNCHANGED <<memVars, history>>
    PROVE  TrustInv'
<1> USE DEF TrustInv
<1>0. Fetched' /\ CP!NeverMissing'
  BY FavourableCard, FetchedKept, NeverMissingKept DEF Kept
<1>1. /\ entries' = entries /\ at' = at /\ check' = check
      /\ pinned' = pinned /\ standing' = standing
  BY DEF memVars, history
<1>2. InQuestion' /\ NoFalseAlarm'
  BY <1>1 DEF InQuestion, NoFalseAlarm
<1>3. CASE Card!Recoverable' = Card!Recoverable
  <2>1. Held' = Held
    BY <1>3 DEF Held
  <2> QED
    BY <1>0, <1>1, <1>2, <1>3, <2>1 DEF Kept, Pinned, Standing, AllOf, InMemory
<1>4. CASE pc \in CP!Writing /\ Card!Recoverable' = Encode(entries)
  <2>1. InMemory /\ entries \in Listed
    BY <1>4, WhileSaving DEF InMemory, IInv, Typed
  <2>2. Held' = entries
    BY <1>4, <2>1, RoundTrip DEF Held
  <2> QED
    BY <1>0, <1>1, <1>2, <1>4, <2>1, <2>2 DEF Kept, Pinned, Standing, AllOf, InMemory
<1> QED
  BY <1>3, <1>4, HeldChange

\* Every other step leaves the card alone.
LEMMA CardAlone ==
    ASSUME Favourable, IInv, IInv', TrustInv, [Next]_vars, UNCHANGED disk
    PROVE  /\ Fetched' /\ CP!NeverMissing'
           /\ Card!Recoverable' = Card!Recoverable /\ Held' = Held
<1>1. Fetched' /\ CP!NeverMissing'
  BY FavourableCard, FetchedKept, NeverMissingKept DEF TrustInv, Kept
<1>2. Card!Recoverable' = Card!Recoverable
  BY DEF Card!Recoverable
<1> QED
  BY <1>1, <1>2 DEF Held

LEMMA LoadKeepsTrust ==
    ASSUME Favourable, IInv, IInv', TrustInv, [Next]_vars,
           StartLoad \/ FinishLoad \/ PowerLoss \/ UNCHANGED vars
    PROVE  TrustInv'
<1>0. UNCHANGED disk
  BY DEF StartLoad, Card!BeginRead, FinishLoad, PowerLoss, Card!PowerLoss, vars, fileVars
<1>1. /\ Fetched' /\ CP!NeverMissing'
      /\ Card!Recoverable' = Card!Recoverable /\ Held' = Held
  BY <1>0, CardAlone
<1> USE DEF TrustInv
<1>2. CASE StartLoad
  BY <1>1, <1>2 DEF StartLoad, history, Kept, Pinned, Standing, AllOf, InMemory, InQuestion,
     NoFalseAlarm, Has, Lacks, OneEach, Whole
<1>3. CASE FinishLoad
  <2>1. entries' = Held
    BY <1>3, LoadedIsHeld
  <2> QED
    BY <1>1, <1>3, <2>1 DEF FinishLoad, history, Kept, Pinned, Standing, AllOf, InMemory,
       InQuestion, NoFalseAlarm
<1>4. CASE PowerLoss
  <2>1. OneEach(<<>>) /\ Whole(<<>>)
    BY DEF OneEach, Whole
  <2> QED
    BY <1>1, <1>4, <2>1 DEF PowerLoss, history, Kept, Pinned, Standing, AllOf, InMemory,
       InQuestion, NoFalseAlarm
<1>5. CASE UNCHANGED vars
  BY <1>1, <1>5 DEF vars, memVars, history, Kept, Pinned, Standing, AllOf, InMemory,
     InQuestion, NoFalseAlarm
<1> QED
  BY <1>2, <1>3, <1>4, <1>5

\* check_hostkey's answers.  A changed key is one that differs from an entry's,
\* which is the only one of that server.
LEMMA CheckKeepsTrust ==
    ASSUME Favourable, IInv, IInv', TrustInv, [Next]_vars,
           \/ \E s \in Server, k \in Key : KeyKnown(s, k) \/ KeyChanged(s, k) \/ KeyNew(s, k)
           \/ Decline \/ ConfirmFull
    PROVE  TrustInv'
<1>0. UNCHANGED <<fileVars, entries>> /\ UNCHANGED disk /\ InMemory /\ InMemory'
      /\ UNCHANGED <<pinned, standing>>
  BY DEF KeyKnown, KeyChanged, KeyNew, Decline, ConfirmFull, history, fileVars, InMemory
<1>1. /\ Fetched' /\ CP!NeverMissing'
      /\ Card!Recoverable' = Card!Recoverable /\ Held' = Held
  BY <1>0, CardAlone
<1> USE DEF TrustInv
<1>2. Kept' /\ Pinned' /\ Standing'
  BY <1>0, <1>1 DEF Kept, Pinned, Standing, AllOf
<1>3. entries \in Seq(Entry)
  BY DEF IInv, Typed, Listed
<1>4. ASSUME NEW s \in Server, NEW k \in Key,
             KeyKnown(s, k) \/ KeyChanged(s, k) \/ KeyNew(s, k)
      PROVE  InQuestion' /\ NoFalseAlarm'
  <2>1. CASE KeyKnown(s, k)
    BY <2>1 DEF KeyKnown, Verdict, InQuestion, NoFalseAlarm
  <2>2. CASE KeyChanged(s, k)
    <3>1. PICK i \in 1..Len(entries) : entries[i].server = s /\ entries[i].key = Lookup(s)
      BY <1>3, <2>2, LookupFinds DEF KeyChanged, Lookup
    <3>2. entries[i].key \in Key \ {k} /\ <<s, entries[i].key>> \in standing
      BY <1>0, <2>2, <3>1 DEF KeyChanged, Kept, Whole, Standing, AllOf, Has
    <3>3. pinned[s] # k
      <4>1. CASE pinned[s] = None
        BY <4>1, KnownAssumption
      <4>2. CASE pinned[s] # None
        BY <1>0, <1>3, <2>2, <4>2, HasLookup DEF KeyChanged, Lookup, Pinned, Kept
      <4> QED
        BY <4>1, <4>2
    <3> QED
      BY <1>0, <2>2, <3>2, <3>3 DEF KeyChanged, Verdict, InQuestion, NoFalseAlarm
  <2>3. CASE KeyNew(s, k)
    <3>1. Lacks(entries, s)
      BY <1>3, <2>3, LacksLookup DEF KeyNew, Lookup
    <3> QED
      BY <1>0, <2>3, <3>1 DEF KeyNew, Verdict, InQuestion, NoFalseAlarm
  <2> QED
    BY <1>4, <2>1, <2>2, <2>3
<1>5. ASSUME Decline \/ ConfirmFull
      PROVE  InQuestion' /\ NoFalseAlarm'
  BY <1>5 DEF Decline, ConfirmFull, Verdict, InQuestion, NoFalseAlarm
<1> QED
  BY <1>1, <1>2, <1>4, <1>5

\* "yes" to a new key: the array gains the entry that is being saved.
LEMMA ConfirmKeepsTrust ==
    ASSUME Favourable, IInv, IInv', TrustInv, [Next]_vars, Confirm
    PROVE  TrustInv'
<1> DEFINE s == check.server
           k == check.key
           new == Remember(entries, s, k)
<1> USE DEF TrustInv
<1>0. /\ UNCHANGED disk /\ entries' = new /\ at = "asking" /\ at' = "remembering"
      /\ check' = check /\ pinned' = pinned
      /\ standing' = standing \union {<<s, k>>}
  BY DEF Confirm, Card!BeginWrite
<1>1. /\ Fetched' /\ CP!NeverMissing'
      /\ Card!Recoverable' = Card!Recoverable /\ Held' = Held
  BY <1>0, CardAlone
<1>2. s \in Server /\ k \in Key /\ entries \in Listed /\ Lacks(entries, s)
  BY <1>0 DEF IInv, Asking, Typed, InQuestion
<1>3. /\ OneEach(new) /\ Whole(new) /\ Has(new, s, k)
      /\ \A t, l : Has(entries, t, l) => Has(new, t, l)
      /\ \A t, l : Has(new, t, l) => Has(entries, t, l) \/ (t = s /\ l = k)
  BY <1>2, RememberAdds DEF Kept
<1> HIDE DEF new
<1>4. Kept'
  BY <1>0, <1>1, <1>3 DEF Kept
<1>5. Pinned'
  BY <1>0, <1>1, <1>3 DEF Pinned, InMemory
<1>6. Standing'
  BY <1>0, <1>1, <1>3 DEF Standing, AllOf, InMemory
<1>7. InQuestion' /\ NoFalseAlarm'
  BY <1>0, <1>3 DEF InQuestion, NoFalseAlarm
<1> QED
  BY <1>1, <1>4, <1>5, <1>6, <1>7

\* A save that answered 0 has put the array on the card.
LEMMA SavedIsHeld ==
    ASSUME IInv, at \in {"remembering", "forgetting"}, pc = "idle", ret = "ok"
    PROVE  Held = entries
<1>1. disk["path"] = Encode(entries) /\ entries \in Listed
  BY DEF IInv, Saving, Typed
<1>2. Encode(entries) # Absent
  BY <1>1, EncodeShape, CardAssumption DEF Listed
<1> QED
  BY <1>1, <1>2, RoundTrip DEF Held, Card!Recoverable

LEMMA FinishKeepsTrust ==
    ASSUME Favourable, IInv, IInv', TrustInv, [Next]_vars, FinishRemember \/ FinishForget
    PROVE  TrustInv'
<1> USE DEF TrustInv
<1>0. /\ UNCHANGED <<disk, entries>> /\ pc = "idle" /\ at' = "list"
      /\ at \in {"remembering", "forgetting"} /\ check'.answer # "changed"
  BY DEF FinishRemember, FinishForget, Verdict, fileVars, InQuestion
<1>1. /\ Fetched' /\ CP!NeverMissing'
      /\ Card!Recoverable' = Card!Recoverable /\ Held' = Held
  BY <1>0, CardAlone
<1>2. Kept' /\ InQuestion' /\ NoFalseAlarm'
  BY <1>0, <1>1 DEF Kept, InQuestion, NoFalseAlarm
<1>3. CASE FinishRemember
  <2>1. standing' = standing /\ Has(entries, check.server, check.key) /\ check.server \in Server
    BY <1>3 DEF FinishRemember, InQuestion, IInv, Asking
  <2>2. Standing'
    BY <1>0, <1>1, <2>1 DEF Standing, AllOf, InMemory
  <2>3. CASE ret = "ok"
    <3>1. Held = entries /\ pinned' = [pinned EXCEPT ![check.server] = check.key]
      BY <1>0, <1>3, <2>3, SavedIsHeld DEF FinishRemember
    <3>2. \A s \in Server : pinned'[s] = IF s = check.server THEN check.key ELSE pinned[s]
      BY <2>1, <3>1 DEF IInv, Typed
    <3>3. Pinned'
      BY <1>0, <1>1, <2>1, <3>1, <3>2 DEF Pinned, InMemory
    <3> QED
      BY <1>1, <1>2, <2>2, <3>3
  <2>4. CASE ret # "ok"
    <3>1. Pinned'
      BY <1>0, <1>1, <1>3, <2>4 DEF FinishRemember, Pinned, InMemory
    <3> QED
      BY <1>1, <1>2, <2>2, <3>1
  <2> QED
    BY <2>3, <2>4
<1>4. CASE FinishForget
  <2>1. Lacks(entries, check.server) /\ pinned' = pinned
    BY <1>4 DEF FinishForget, InQuestion
  <2>2. Pinned'
    BY <1>0, <1>1, <2>1 DEF Pinned, InMemory
  <2>3. Standing'
    <3>1. CASE ret = "ok"
      <4>1. /\ Held = entries
            /\ standing' = {p \in standing : p[1] # check.server}
        BY <1>0, <1>4, <3>1, SavedIsHeld DEF FinishForget
      <4>2. AllOf(entries)
        BY <4>1 DEF Standing
      <4>3. \A t, l : Has(entries, t, l) => t # check.server
        BY <2>1 DEF Has, Lacks
      <4> QED
        BY <1>0, <1>1, <4>1, <4>2, <4>3 DEF Standing, AllOf, InMemory
    <3>2. CASE ret # "ok"
      BY <1>0, <1>1, <1>4, <3>2 DEF FinishForget, Standing, AllOf, InMemory
    <3> QED
      BY <3>1, <3>2
  <2> QED
    BY <1>1, <1>2, <2>2, <2>3
<1> QED
  BY <1>3, <1>4

\* SELECT and "yes": the array without the server is being saved; its key may
\* still be on the card, but nothing says any more that it is remembered.
LEMMA ForgetKeepsTrust ==
    ASSUME Favourable, IInv, IInv', TrustInv, [Next]_vars,
           NEW s \in Server, StartForget(s)
    PROVE  TrustInv'
<1> DEFINE new == Forget(entries, s)
<1> USE DEF TrustInv
<1>0. /\ UNCHANGED disk /\ entries' = new /\ at = "list" /\ at' = "forgetting"
      /\ check' = [server |-> s, key |-> None, answer |-> "none"]
      /\ pinned' = [pinned EXCEPT ![s] = None] /\ standing' = standing
      /\ Places(entries, s) # {}
  BY DEF StartForget, Card!BeginWrite
<1>1. /\ Fetched' /\ CP!NeverMissing'
      /\ Card!Recoverable' = Card!Recoverable /\ Held' = Held
  BY <1>0, CardAlone
<1>2. /\ OneEach(new) /\ Whole(new) /\ Lacks(new, s)
      /\ \A t, l : t # s /\ Has(entries, t, l) => Has(new, t, l)
      /\ \A t, l : Has(new, t, l) => Has(entries, t, l)
  BY <1>0, ForgetRemoves DEF Kept, IInv, Typed
<1> HIDE DEF new
<1>3. Kept'
  BY <1>0, <1>1, <1>2 DEF Kept
<1>4. \A t \in Server : pinned'[t] = IF t = s THEN None ELSE pinned[t]
  BY <1>0 DEF IInv, Typed
<1>5. Pinned'
  BY <1>0, <1>1, <1>2, <1>4 DEF Pinned, InMemory
<1>6. Standing'
  BY <1>0, <1>1, <1>2 DEF Standing, AllOf, InMemory
<1>7. InQuestion' /\ NoFalseAlarm'
  BY <1>0, <1>2 DEF InQuestion, NoFalseAlarm
<1> QED
  BY <1>1, <1>3, <1>5, <1>6, <1>7

LEMMA NextKeepsTrust ==
    ASSUME Favourable, IInv, TrustInv, [Next]_vars
    PROVE  TrustInv'
<1>1. IInv'
  BY NextKeeps
<1>2. CardStep => CP!Step /\ UNCHANGED <<memVars, history>>
  BY SameCard DEF CardStep
<1> QED
  BY <1>1, <1>2, CardKeepsTrust, LoadKeepsTrust, CheckKeepsTrust, ConfirmKeepsTrust,
     FinishKeepsTrust, ForgetKeepsTrust DEF Next

\* The file as it is found: what it lists was confirmed and is remembered.
LEMMA InitTrust == ASSUME Favourable, Init PROVE TrustInv
<1>0. CP!Init /\ IInv
  BY InitKeeps, SameCard DEF Init
<1>1. PICK m \in Listed : disk["path"] = Encode(m) /\ OneEach(m) /\ Whole(m)
  BY <1>0 DEF CP!Init, Favourable
<1>2. disk["path"] # Absent
  BY <1>1, EncodeShape, CardAssumption DEF Listed
<1>3. Card!Recoverable = Encode(m) /\ OnFile(disk["path"]) = m /\ Held = m
  BY <1>1, <1>2, RoundTrip DEF Card!Recoverable, Held
<1>4. Kept
  <2>1. CP!NeverMissing
    BY <1>0, FavourableCard, CP!InitNeverMissing, Assumed
  <2>2. OneEach(<<>>) /\ Whole(<<>>)
    BY DEF OneEach, Whole
  <2> QED
    BY <1>1, <1>3, <2>1, <2>2 DEF Init, Kept
<1>5. Pinned
  <2> SUFFICES ASSUME NEW s \in Server, pinned[s] # None
               PROVE  Has(m, s, pinned[s])
    BY <1>3 DEF Init, Pinned, InMemory
  <2>1. pinned[s] = LookupIn(m, s)
    BY <1>3 DEF Init
  <2>2. m \in Seq(Entry)
    BY DEF Listed
  <2> QED
    BY <2>1, <2>2, LookupFinds DEF Has
<1>6. Standing
  <2> SUFFICES ASSUME NEW s, NEW k, Has(m, s, k)
               PROVE  <<s, k>> \in standing
    BY <1>3 DEF Init, Standing, AllOf, InMemory
  <2>1. PICK i \in 1..Len(m) : m[i].server = s /\ m[i].key = k
    BY DEF Has
  <2>2. m[i] \in Entry /\ i \in DOMAIN m /\ m[i].key \in Key
    BY <1>1, <2>1 DEF Listed, Whole
  <2>3. s \in Server /\ k \in Key /\ m[i] = [server |-> s, key |-> k]
    BY <2>1, <2>2 DEF Entry
  <2> QED
    BY <1>3, <2>2, <2>3 DEF Init
<1> QED
  BY <1>4, <1>5, <1>6, InitFetched DEF Init, TrustInv, InQuestion, NoFalseAlarm

LEMMA TrustInductive ==
    ASSUME Favourable
    PROVE  Spec => [](IInv /\ TrustInv)
<1>1. Init => IInv /\ TrustInv
  BY InitKeeps, InitTrust
<1>2. IInv /\ TrustInv /\ [Next]_vars => IInv' /\ TrustInv'
  BY NextKeeps, NextKeepsTrust
<1> QED
  BY <1>1, <1>2, PTL DEF Spec

-----------------------------------------------------------------------------
\* "The host key changed" is never said of the key last remembered with success,
\* and only if another one was given to be remembered and not forgotten since.
THEOREM AlarmsAreTrue == ASSUME Favourable PROVE Spec => []NoFalseAlarm
<1>1. TrustInv => NoFalseAlarm
  BY DEF TrustInv
<1> QED
  BY <1>1, TrustInductive, PTL

\* A key that knownhosts_remember said 0 for stays in the file until it is
\* forgotten, over every later save, failed save and restart.
THEOREM StaysInFile == ASSUME Favourable PROVE Spec => []KeepsInFile
<1>1. TrustInv => KeepsInFile
  BY HasLookup DEF TrustInv, Kept, Pinned, Listed, KeepsInFile, InFile, Held
<1> QED
  BY <1>1, TrustInductive, PTL

\* And whenever the program runs, it goes by that key.
THEOREM StaysInMemory == ASSUME Favourable PROVE Spec => []KeepsInMemory
<1>1. IInv /\ TrustInv => KeepsInMemory
  BY HasLookup DEF IInv, Typed, TrustInv, Kept, Pinned, Listed, KeepsInMemory, Lookup
<1> QED
  BY <1>1, TrustInductive, PTL

\* No server is listed twice, in memory or on the card: find and forget, which
\* look at the first place only, miss nothing.
THEOREM ListedOnce == ASSUME Favourable PROVE Spec => []NoDuplicates
<1>1. IInv /\ TrustInv => NoDuplicates
  BY OnePlace DEF IInv, Typed, TrustInv, Kept, Listed, NoDuplicates, Held
<1> QED
  BY <1>1, TrustInductive, PTL

\* Once knownhosts_forget has answered 0 the server is unknown until the user
\* says "yes" to it again, over every failed save and restart in between.
THEOREM ForgottenForGood == ASSUME Favourable PROVE Spec => []ForgetLasts
<1>1. IInv /\ TrustInv => ForgetLasts
  <2> SUFFICES ASSUME IInv, TrustInv, InMemory, NEW s \in Server,
                      \A k \in Key : <<s, k>> \notin standing
               PROVE  Lookup(s) = None
    BY DEF ForgetLasts
  <2>1. Lacks(entries, s)
    BY DEF TrustInv, Kept, Whole, Standing, AllOf, Has, Lacks
  <2>2. entries \in Seq(Entry)
    BY DEF IInv, Typed, Listed
  <2> QED
    BY <2>1, <2>2, LacksLookup DEF Lookup
<1> QED
  BY <1>1, TrustInductive, PTL

=============================================================================
