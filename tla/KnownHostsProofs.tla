-------------------------- MODULE KnownHostsProofs --------------------------
(* Machine-checked facts about KnownHosts: for any servers, any keys, any   *)
(* room, any card found and, where it is not said otherwise, any faults.    *)
EXTENDS KnownHosts, WellFoundedInduction, TLAPS

\* The lists that are ever saved, and what they look like on the card.
Listed   == {m \in Seq(Entry) : Len(m) <= KnownMax}
Saveable == {Encode(m) : m \in Listed}

\* What CardFileProofs proves, for just these texts.
CP == INSTANCE CardFileProofs WITH Texts <- Saveable

-----------------------------------------------------------------------------
(* The first place of a server. *)

Less == {p \in Nat \X Nat : p[1] < p[2]}

\* Min is a least element: there is one.
LEMMA LeastOf ==
    ASSUME NEW P \in SUBSET Nat, P # {}
    PROVE  Min(P) \in P /\ \A x \in P : Min(P) <= x
<1>1. IsWellFoundedOn(Less, Nat)
  <2>1. OpToRel(<, Nat) = Less
    BY DEF OpToRel, Less
  <2> QED
    BY <2>1, NatLessThanWellFounded
<1>2. PICK m \in P : \A y \in P : <<y, m>> \notin Less
  BY <1>1, WFMin
<1>3. \A y \in P : y >= m
  <2> SUFFICES ASSUME NEW y \in P, y < m
               PROVE  FALSE
    OBVIOUS
  <2>1. <<y, m>> \in Nat \X Nat
    OBVIOUS
  <2>2. <<y, m>> \in Less
    BY <2>1 DEF Less
  <2> QED
    BY <2>2, <1>2
<1> QED
  BY <1>3 DEF Min

\* find answers the index of an entry of that server, if there is one.
LEMMA FirstIsPlace ==
    ASSUME NEW m \in Seq(Entry), NEW s, Places(m, s) # {}
    PROVE  /\ First(m, s) \in 1..Len(m)
           /\ m[First(m, s)].server = s
           /\ \A i \in 1..Len(m) : m[i].server = s => First(m, s) <= i
<1>1. Places(m, s) \in SUBSET Nat
  BY DEF Places
<1>2. First(m, s) \in Places(m, s) /\ \A x \in Places(m, s) : First(m, s) <= x
  BY <1>1, LeastOf DEF First
<1> QED
  BY <1>2 DEF Places

-----------------------------------------------------------------------------
(* The file format. *)

\* A saved list has two chunks for each entry, in order.
LEMMA EncodeShape ==
    ASSUME NEW m \in Seq(Entry)
    PROVE  /\ Encode(m) \in Seq(Chunk)
           /\ Len(Encode(m)) = 2 * Len(m)
           /\ \A i \in 1..Len(m) : /\ Encode(m)[2 * i - 1].server = m[i].server
                                   /\ Encode(m)[2 * i].key = m[i].key
<1> DEFINE n == 2 * Len(m)
<1>0. n \in Nat
  OBVIOUS
<1>1. \A i \in 1..n : (i + 1) \div 2 \in 1..Len(m)
  OBVIOUS
<1>2. \A i \in 1..n : Encode(m)[i] = [server |-> m[(i + 1) \div 2].server,
                                      key    |-> m[(i + 1) \div 2].key,
                                      part   |-> IF i % 2 = 1 THEN "head" ELSE "tail"]
  BY DEF Encode
<1>3. ASSUME NEW i \in 1..n
      PROVE  Encode(m)[i] \in Chunk
  <2>1. m[(i + 1) \div 2] \in Entry
    BY <1>1
  <2>2. m[(i + 1) \div 2].server \in Server /\ m[(i + 1) \div 2].key \in Stored
    BY <2>1 DEF Entry
  <2>3. Encode(m)[i] = [server |-> m[(i + 1) \div 2].server,
                        key    |-> m[(i + 1) \div 2].key,
                        part   |-> IF i % 2 = 1 THEN "head" ELSE "tail"]
    BY <1>2
  <2> QED
    BY <2>2, <2>3 DEF Chunk
<1>4. Encode(m) \in [1..n -> Chunk]
  BY <1>3 DEF Encode
<1>5. Encode(m) \in Seq(Chunk) /\ Len(Encode(m)) = n
  BY <1>0, <1>4
<1>6. ASSUME NEW i \in 1..Len(m)
      PROVE  Encode(m)[2 * i - 1].server = m[i].server /\ Encode(m)[2 * i].key = m[i].key
  <2>1. 2 * i - 1 \in 1..n /\ 2 * i \in 1..n
    OBVIOUS
  <2>2. ((2 * i - 1) + 1) \div 2 = i /\ (2 * i + 1) \div 2 = i
    OBVIOUS
  <2>3. Encode(m)[2 * i - 1].server = m[i].server
    <3>1. PICK j \in 1..n : j = 2 * i - 1
      BY <2>1
    <3>2. Encode(m)[j].server = m[(j + 1) \div 2].server
      BY DEF Encode
    <3> QED
      BY <2>2, <3>1, <3>2
  <2>4. Encode(m)[2 * i].key = m[i].key
    <3>1. PICK j \in 1..n : j = 2 * i
      BY <2>1
    <3>2. Encode(m)[j].key = m[(j + 1) \div 2].key
      BY DEF Encode
    <3> QED
      BY <2>2, <3>1, <3>2
  <2> QED
    BY <2>3, <2>4
<1> QED
  BY <1>5, <1>6

\* Whatever is read has no more entries than there is room for.
LEMMA DecodeShape ==
    ASSUME NEW file \in Seq(Chunk)
    PROVE  /\ Decode(file) \in Listed
           /\ Len(Decode(file)) = IF (Len(file) + 1) \div 2 <= KnownMax
                                  THEN (Len(file) + 1) \div 2 ELSE KnownMax
           /\ \A i \in 1..Len(Decode(file)) :
                  Decode(file)[i] = [server |-> file[2 * i - 1].server,
                                     key    |-> IF 2 * i <= Len(file)
                                                THEN file[2 * i].key ELSE Cut]
<1> DEFINE lines == (Len(file) + 1) \div 2
           n     == IF lines <= KnownMax THEN lines ELSE KnownMax
           line(i) == [server |-> file[2 * i - 1].server,
                     key    |-> IF 2 * i <= Len(file) THEN file[2 * i].key ELSE Cut]
<1>1. n \in Nat /\ n <= lines /\ n <= KnownMax
  BY KnownAssumption
<1>2. Decode(file) = [i \in 1..n |-> line(i)]
  BY DEF Decode
<1>3. ASSUME NEW i \in 1..n
      PROVE  line(i) \in Entry
  <2>1. 2 * i - 1 \in 1..Len(file)
    BY <1>1
  <2>2. 2 * i <= Len(file) => 2 * i \in 1..Len(file)
    BY <1>1
  <2>3. file[2 * i - 1].server \in Server
    <3>1. file[2 * i - 1] \in Chunk
      BY <2>1
    <3> QED
      BY <3>1 DEF Chunk
  <2>4. 2 * i <= Len(file) => file[2 * i].key \in Stored
    <3>1. 2 * i <= Len(file) => file[2 * i] \in Chunk
      BY <2>2
    <3> QED
      BY <3>1 DEF Chunk
  <2> QED
    BY <2>3, <2>4 DEF Entry, Stored
<1>4. Decode(file) \in [1..n -> Entry]
  BY <1>2, <1>3
<1>5. Decode(file) \in Seq(Entry) /\ Len(Decode(file)) = n
  BY <1>1, <1>4
<1> QED
  BY <1>1, <1>2, <1>5 DEF Listed

\* A list that was saved is read back as it was: what fits in memory fits in
\* the file.
LEMMA RoundTrip ==
    ASSUME NEW m \in Listed
    PROVE  Decode(Encode(m)) = m /\ OnFile(Encode(m)) = m
<1> DEFINE f == Encode(m)
<1>0. m \in Seq(Entry) /\ Len(m) <= KnownMax
  BY DEF Listed
<1>1. f \in Seq(Chunk) /\ Len(f) = 2 * Len(m)
  BY <1>0, EncodeShape
<1>2. (Len(f) + 1) \div 2 = Len(m)
  BY <1>0, <1>1
<1>3. Decode(f) \in Seq(Entry) /\ Len(Decode(f)) = Len(m)
  BY <1>0, <1>1, <1>2, DecodeShape DEF Listed
<1>4. ASSUME NEW i \in 1..Len(m)
      PROVE  Decode(f)[i] = m[i]
  <2>1. Decode(f)[i] = [server |-> f[2 * i - 1].server,
                        key    |-> IF 2 * i <= Len(f) THEN f[2 * i].key ELSE Cut]
    BY <1>1, <1>3, DecodeShape
  <2>2. 2 * i <= Len(f)
    BY <1>0, <1>1
  <2>3. f[2 * i - 1].server = m[i].server /\ f[2 * i].key = m[i].key
    BY <1>0, EncodeShape
  <2>4. m[i] \in Entry
    BY <1>0
  <2> QED
    BY <2>1, <2>2, <2>3, <2>4 DEF Entry
<1>5. Decode(f) = m
  BY <1>0, <1>3, <1>4
<1>6. f # Absent /\ ~(Len(f) >= MaxLen)
  BY <1>0, <1>1, KnownAssumption, CardAssumption
<1> QED
  BY <1>5, <1>6 DEF OnFile

\* What is left of a saved list that was cut anywhere reads as its beginning; of
\* the last entry the key may be cut.
LEMMA TornPrefix ==
    ASSUME NEW m \in Listed, NEW n \in 0..Len(Encode(m))
    PROVE  LET f == SubSeq(Encode(m), 1, n)
           IN  /\ OnFile(f) \in Listed
               /\ \A i \in 1..Len(OnFile(f)) :
                      /\ i \in 1..Len(m)
                      /\ OnFile(f)[i].server = m[i].server
                      /\ OnFile(f)[i].key \in {m[i].key, Cut}
<1> DEFINE c == Encode(m)
           f == SubSeq(c, 1, n)
<1>0. m \in Seq(Entry) /\ Len(m) <= KnownMax
  BY DEF Listed
<1>1. c \in Seq(Chunk) /\ Len(c) = 2 * Len(m)
  BY <1>0, EncodeShape
<1>2. f \in Seq(Chunk) /\ Len(f) = n /\ \A i \in 1..n : f[i] = c[i]
  BY <1>1
<1>3. f # Absent /\ ~(Len(f) >= MaxLen)
  BY <1>0, <1>1, <1>2, KnownAssumption, CardAssumption
<1>4. OnFile(f) = Decode(f)
  BY <1>3 DEF OnFile
<1>5. Decode(f) \in Listed
  BY <1>2, DecodeShape
<1>6. ASSUME NEW i \in 1..Len(Decode(f))
      PROVE  /\ i \in 1..Len(m)
             /\ Decode(f)[i].server = m[i].server
             /\ Decode(f)[i].key \in {m[i].key, Cut}
  <2>1. Len(Decode(f)) = IF (n + 1) \div 2 <= KnownMax THEN (n + 1) \div 2 ELSE KnownMax
    BY <1>2, DecodeShape
  <2>2. i \in 1..(n + 1) \div 2
    BY <2>1, KnownAssumption
  <2>3. i \in 1..Len(m) /\ 2 * i - 1 \in 1..n
    BY <1>0, <1>1, <2>2
  <2>4. Decode(f)[i] = [server |-> f[2 * i - 1].server,
                        key    |-> IF 2 * i <= n THEN f[2 * i].key ELSE Cut]
    BY <1>2, DecodeShape
  <2>5. c[2 * i - 1].server = m[i].server /\ c[2 * i].key = m[i].key
    BY <1>0, <2>3, EncodeShape
  <2>6. f[2 * i - 1] = c[2 * i - 1]
    BY <1>2, <2>3
  <2>7. 2 * i <= n => f[2 * i] = c[2 * i]
    BY <1>2, <2>3
  <2> QED
    BY <2>3, <2>4, <2>5, <2>6, <2>7
<1> QED
  BY <1>4, <1>5, <1>6

-----------------------------------------------------------------------------
(* The changes to the array. *)

\* knownhosts_remember keeps every entry but the server's own, which it sets.
LEMMA RememberShape ==
    ASSUME NEW m \in Seq(Entry), NEW s \in Server, NEW k \in Stored
    PROVE  /\ Remember(m, s, k) \in Seq(Entry)
           /\ Len(Remember(m, s, k)) = IF Places(m, s) # {} THEN Len(m) ELSE Len(m) + 1
           /\ \A i \in 1..Len(Remember(m, s, k)) :
                  \/ Remember(m, s, k)[i] = [server |-> s, key |-> k]
                  \/ i \in 1..Len(m) /\ Remember(m, s, k)[i] = m[i]
<1> DEFINE e == [server |-> s, key |-> k]
<1>0. e \in Entry
  BY DEF Entry
<1>1. CASE Places(m, s) # {}
  <2>1. First(m, s) \in 1..Len(m) /\ m[First(m, s)].server = s
    BY <1>1, FirstIsPlace
  <2>2. m[First(m, s)] \in Entry
    BY <2>1
  <2>3. [m[First(m, s)] EXCEPT !.key = k] = e
    BY <2>1, <2>2 DEF Entry
  <2>4. Remember(m, s, k) = [m EXCEPT ![First(m, s)] = e]
    BY <1>1, <2>3 DEF Remember
  <2> QED
    BY <1>0, <1>1, <2>1, <2>4
<1>2. CASE Places(m, s) = {}
  <2>1. Remember(m, s, k) = Append(m, e)
    BY <1>2 DEF Remember
  <2> QED
    BY <1>0, <1>2, <2>1
<1> QED
  BY <1>1, <1>2

\* So a list with room for the server stays one that fits.
LEMMA RememberFits ==
    ASSUME NEW m \in Listed, NEW s \in Server, NEW k \in Key,
           Places(m, s) # {} \/ Len(m) < KnownMax
    PROVE  /\ Remember(m, s, k) \in Listed
           /\ \A i \in 1..Len(Remember(m, s, k)) :
                  \/ Remember(m, s, k)[i] = [server |-> s, key |-> k]
                  \/ i \in 1..Len(m) /\ Remember(m, s, k)[i] = m[i]
<1> DEFINE new == Remember(m, s, k)
<1>1. m \in Seq(Entry) /\ Len(m) <= KnownMax /\ k \in Stored
  BY DEF Listed, Stored
<1>2. /\ new \in Seq(Entry)
      /\ Len(new) = IF Places(m, s) # {} THEN Len(m) ELSE Len(m) + 1
      /\ \A i \in 1..Len(new) :
             \/ new[i] = [server |-> s, key |-> k]
             \/ i \in 1..Len(m) /\ new[i] = m[i]
  BY <1>1, RememberShape, Zenon
<1> HIDE DEF new
<1>3. Len(new) <= KnownMax
  BY <1>1, <1>2, KnownAssumption
<1>4. new \in Listed
  BY <1>2, <1>3 DEF Listed
<1> QED
  BY <1>2, <1>4 DEF new

\* knownhosts_forget takes out the server's first entry and moves the others up.
LEMMA ForgetShape ==
    ASSUME NEW m \in Seq(Entry), NEW s, Places(m, s) # {}
    PROVE  /\ Forget(m, s) \in Seq(Entry)
           /\ Len(Forget(m, s)) = Len(m) - 1
           /\ \A i \in 1 .. Len(m) - 1 :
                  Forget(m, s)[i] = IF i < First(m, s) THEN m[i] ELSE m[i + 1]
<1>1. First(m, s) \in 1..Len(m)
  BY FirstIsPlace
<1>2. PICK j \in 1..Len(m) : j = First(m, s)
  BY <1>1
<1> DEFINE before == SubSeq(m, 1, j - 1)
           after  == SubSeq(m, j + 1, Len(m))
<1>3. Forget(m, s) = before \o after
  BY <1>2 DEF Forget, RemoveAt
<1>4. /\ before \in Seq(Entry) /\ Len(before) = j - 1
      /\ \A i \in 1 .. j - 1 : before[i] = m[i]
  OBVIOUS
<1>5. /\ after \in Seq(Entry) /\ Len(after) = Len(m) - j
      /\ \A i \in 1 .. Len(m) - j : after[i] = m[i + j]
  OBVIOUS
<1> HIDE DEF before, after
<1>6. before \o after \in Seq(Entry) /\ Len(before \o after) = Len(m) - 1
  BY <1>4, <1>5
<1>7. ASSUME NEW i \in 1 .. Len(m) - 1
      PROVE  (before \o after)[i] = IF i < j THEN m[i] ELSE m[i + 1]
  <2>1. CASE i < j
    BY <1>4, <1>5, <2>1
  <2>2. CASE ~(i < j)
    <3>1. (before \o after)[i] = after[i - (j - 1)]
      BY <1>4, <1>5, <2>2
    <3>2. PICK l \in 1 .. Len(m) - j : l = i - (j - 1)
      BY <2>2
    <3>3. after[l] = m[l + j]
      BY <1>5
    <3> QED
      BY <2>2, <3>1, <3>2, <3>3
  <2> QED
    BY <2>1, <2>2
<1> QED
  BY <1>2, <1>3, <1>6, <1>7

-----------------------------------------------------------------------------
(* The invariant, whatever fails.                                           *)

Typed ==
    /\ entries \in Listed
    /\ at \in {"off", "loading", "list", "asking", "remembering", "forgetting"}
    /\ check \in [server : Server \union {None}, key : Key \union {None},
                  answer : {"none", "asking", "known", "changed", "declined", "accepted"}]
    /\ loaded \in {"none", "0", "-1"}
    /\ confirmed \subseteq Server \X Key
    /\ pinned \in [Server -> Stored \union {None}]
    /\ standing \subseteq Server \X Key

\* Which call on the file belongs to which place in the program.
Control ==
    /\ pc = "off" <=> at = "off"
    /\ at = "loading" => pc \in CP!Reading \union {"idle"}
    /\ at \in {"list", "asking"} => pc = "idle"
    /\ at \in {"remembering", "forgetting"} => pc \in CP!Writing \union {"idle"}

\* A load that answers 0 has a text that fits the buffer.
Loading ==
    /\ pc = "recover" => got = disk["temp"] /\ got # Absent /\ Len(got) < MaxLen
    /\ at = "loading" /\ pc = "idle"
           => /\ ret \in {"ok", "missing", "unreadable"}
              /\ ret = "ok" => got # Absent /\ Len(got) < MaxLen

\* A save is of the array in memory, and a finished one has put it in place.
Saving ==
    /\ pc \in CP!Writing => text = Encode(entries)
    /\ at \in {"remembering", "forgetting"} /\ pc = "idle" /\ ret = "ok"
           => disk["path"] = Encode(entries)

\* Whose key is asked about, and that it was confirmed before it is remembered.
Asking ==
    /\ at \in {"asking", "remembering"} => check.server \in Server /\ check.key \in Key
    /\ at = "forgetting" => check.server \in Server
    /\ at = "remembering" => <<check.server, check.key>> \in confirmed

\* Every whole key of a list was confirmed by the user.
Seen(m) ==
    \A i \in 1..Len(m) : m[i].key \in Key => <<m[i].server, m[i].key>> \in confirmed

\* So is every one in memory, on the card under either name, and on its way in.
Trusted ==
    /\ Seen(entries)
    /\ Seen(OnFile(disk["path"])) /\ Seen(OnFile(disk["temp"])) /\ Seen(OnFile(got))

IInv ==
    /\ CP!IInv /\ Typed /\ Control /\ Loading /\ Saving /\ Asking
    /\ Trusted /\ AcceptedWasConfirmed

-----------------------------------------------------------------------------
(* The file layer under it.                                                 *)

\* What CardFileProofs asks of its constants.
LEMMA Assumed ==
    /\ CP!FaultsAssumption /\ CP!TextsAssumption
    /\ CP!MaxLenAssumption /\ CP!AbsentAssumption
<1>1. Saveable \subseteq Seq(Chunk)
  BY EncodeShape DEF Saveable, Listed
<1> QED
  BY <1>1, KnownAssumption, CardAssumption
     DEF CP!FaultsAssumption, CP!TextsAssumption, CP!MaxLenAssumption, CP!AbsentAssumption,
         Card!FaultKinds, CP!FaultKinds

\* The two instances of CardFile differ only in the texts, and so not in this.
LEMMA SameCard ==
    /\ Card!Init => CP!Init
    /\ Card!Step => CP!Step
    /\ Card!BeginRead => CP!BeginRead
    /\ Card!PowerLoss => CP!PowerLoss
    /\ \A t : Card!BeginWrite(t) => CP!BeginWrite(t)
    /\ Card!Recoverable = CP!Recoverable
    /\ Card!Writing = CP!Writing
    /\ Card!TypeOK <=> CP!TypeOK
<1>1. Card!Step => CP!Step
  BY DEF Card!Step, Card!OpenTemp, Card!OpenTempFails, Card!WriteSome, Card!WriteFails,
         Card!Discard, Card!CloseTemp, Card!RemoveOld, Card!RenameNew, Card!RenameNewFails,
         Card!ReadPath, Card!ReadTemp, Card!Recover, Card!Return, Card!RenameWorks,
         Card!Moved, Card!NotFound, Card!Unreadable, Card!ReadWhole,
         CP!Step, CP!OpenTemp, CP!OpenTempFails, CP!WriteSome, CP!WriteFails,
         CP!Discard, CP!CloseTemp, CP!RemoveOld, CP!RenameNew, CP!RenameNewFails,
         CP!ReadPath, CP!ReadTemp, CP!Recover, CP!Return, CP!RenameWorks,
         CP!Moved, CP!NotFound, CP!Unreadable, CP!ReadWhole
<1>2. Card!TypeOK <=> CP!TypeOK
  BY DEF Card!TypeOK, CP!TypeOK, Card!File, CP!File, Card!Reading, CP!Reading,
         Card!Writing, CP!Writing, Card!Returns, CP!Returns
<1> QED
  BY <1>1, <1>2 DEF Card!Init, CP!Init, Card!BeginRead, CP!BeginRead, Card!PowerLoss,
     CP!PowerLoss, Card!BeginWrite, CP!BeginWrite, Card!Recoverable, CP!Recoverable,
     Card!Writing, CP!Writing

\* A call on the file keeps what CardFileProofs found about it.
LEMMA CardKept == ASSUME CP!IInv, CP!Next PROVE CP!IInv'
BY Assumed, CP!NextKeepsIInv

-----------------------------------------------------------------------------
(* A list cut short, an empty one and none at all are trusted as much as the *)
(* whole of it.                                                              *)

LEMMA NothingSeen ==
    /\ Seen(<<>>) /\ Seen(OnFile(Absent)) /\ Seen(OnFile(<<>>))
    /\ <<>> \in Listed
<1>1. <<>> \in Listed /\ Encode(<<>>) = <<>>
  BY KnownAssumption DEF Listed, Encode
<1>2. OnFile(<<>>) = <<>>
  BY <1>1, RoundTrip
<1> QED
  BY <1>1, <1>2 DEF Seen, OnFile

LEMMA PrefixSeen ==
    ASSUME NEW m \in Listed, Seen(m), NEW n \in 0..Len(Encode(m))
    PROVE  Seen(OnFile(SubSeq(Encode(m), 1, n)))
BY TornPrefix, KnownAssumption DEF Seen

\* A save in progress is one the program waits for.
LEMMA WhileSaving ==
    ASSUME IInv, pc \in CP!Writing
    PROVE  at \in {"remembering", "forgetting"} /\ text = Encode(entries)
BY DEF IInv, Typed, Control, Saving, CP!Writing, CP!Reading

LEMMA WhileReading ==
    ASSUME IInv, pc \in CP!Reading
    PROVE  at = "loading"
BY DEF IInv, Typed, Control, CP!Writing, CP!Reading

-----------------------------------------------------------------------------
(* Each step keeps the invariant. *)

\* What a step on the file can disturb.
CardPart == Control /\ Loading /\ Saving /\ Trusted

LEMMA SaveStep ==
    ASSUME IInv, CP!Step, pc \in CP!Writing, UNCHANGED <<memVars, history>>
    PROVE  CardPart'
<1> USE DEF CardPart, IInv, CP!IInv, CP!TypeOK
<1>0. /\ at \in {"remembering", "forgetting"} /\ at' = at /\ entries' = entries
      /\ confirmed' = confirmed /\ text = Encode(entries) /\ entries \in Listed
  BY WhileSaving DEF memVars, history, Typed
<1>s. Seen(entries)
  BY DEF Trusted
<1>1. CASE CP!OpenTemp
  <2>1. disk'["path"] = disk["path"] /\ disk'["temp"] = <<>>
    BY <1>1 DEF CP!OpenTemp
  <2> QED
    BY <1>0, <1>1, <2>1, NothingSeen
       DEF CP!OpenTemp, Control, Loading, Saving, Trusted, Seen, CP!Writing
<1>2. CASE CP!OpenTempFails
  BY <1>0, <1>2 DEF CP!OpenTempFails, CP!Return, Control, Loading, Saving, Trusted, Seen,
     CP!Writing
<1>3. CASE CP!WriteSome
  <2>1. PICK upTo \in written + 1 .. Len(text) :
            disk' = [disk EXCEPT !["temp"] = SubSeq(text, 1, upTo)]
    BY <1>3 DEF CP!WriteSome
  <2>2. disk'["path"] = disk["path"] /\ disk'["temp"] = SubSeq(text, 1, upTo)
    BY <2>1
  <2>3. upTo \in 0..Len(Encode(entries))
    BY <1>0, <2>1
  <2>4. Seen(OnFile(disk'["temp"]))
    BY <1>0, <1>s, <2>2, <2>3, PrefixSeen
  <2> QED
    BY <1>0, <1>3, <2>2, <2>4
       DEF CP!WriteSome, Control, Loading, Saving, Trusted, Seen, CP!Writing
<1>4. CASE CP!WriteFails \/ CP!CloseTemp
  BY <1>0, <1>4 DEF CP!WriteFails, CP!CloseTemp, Control, Loading, Saving, Trusted, Seen,
     CP!Writing
<1>5. CASE CP!Discard
  <2>1. disk'["path"] = disk["path"] /\ disk'["temp"] \in {disk["temp"], Absent}
    BY <1>5 DEF CP!Discard
  <2> QED
    BY <1>0, <1>5, <2>1, NothingSeen
       DEF CP!Discard, CP!Return, Control, Loading, Saving, Trusted, Seen, CP!Writing
<1>6. CASE CP!RemoveOld
  <2>1. disk'["temp"] = disk["temp"] /\ disk'["path"] \in {disk["path"], Absent}
    BY <1>6 DEF CP!RemoveOld
  <2> QED
    BY <1>0, <1>6, <2>1, NothingSeen
       DEF CP!RemoveOld, Control, Loading, Saving, Trusted, Seen, CP!Writing
<1>7. CASE CP!RenameNew
  <2>1. disk'["path"] = disk["temp"] /\ disk'["temp"] = Absent /\ disk["temp"] = text
    BY <1>7 DEF CP!RenameNew, CP!Moved, CP!TempWhole
  <2> QED
    BY <1>0, <1>7, <2>1, NothingSeen
       DEF CP!RenameNew, CP!Return, Control, Loading, Saving, Trusted, Seen, CP!Writing
<1>8. CASE CP!RenameNewFails
  BY <1>0, <1>8 DEF CP!RenameNewFails, CP!Return, Control, Loading, Saving, Trusted, Seen,
     CP!Writing
<1>9. ~CP!ReadPath /\ ~CP!ReadTemp /\ ~CP!Recover
  BY DEF CP!ReadPath, CP!ReadTemp, CP!Recover, CP!Writing
<1> QED
  BY <1>1, <1>2, <1>3, <1>4, <1>5, <1>6, <1>7, <1>8, <1>9 DEF CP!Step

LEMMA LoadStep ==
    ASSUME IInv, CP!Step, pc \in CP!Reading, UNCHANGED <<memVars, history>>
    PROVE  CardPart'
<1> USE DEF CardPart, IInv, CP!IInv, CP!TypeOK
<1>0. /\ at = "loading" /\ at' = at /\ entries' = entries /\ confirmed' = confirmed
  BY WhileReading DEF memVars, history
<1>l. disk["path"] \in CP!File /\ disk["temp"] \in CP!File /\ MaxLen \in Nat
  BY KnownAssumption
<1>1. CASE CP!ReadPath
  <2>1. CASE pc' = "readTemp" /\ UNCHANGED <<text, written, got, ret>>
    BY <1>0, <1>1, <2>1
       DEF CP!ReadPath, Control, Loading, Saving, Trusted, Seen, CP!Writing, CP!Reading
  <2>2. CASE CP!Return("unreadable") /\ UNCHANGED got
    BY <1>0, <1>1, <2>2 DEF CP!ReadPath, CP!Return, Control, Loading, Saving, Trusted,
       Seen, CP!Writing, CP!Reading
  <2>3. CASE CP!ReadWhole("path") /\ got' = disk["path"] /\ CP!Return("ok")
    BY <1>0, <1>1, <2>3 DEF CP!ReadPath, CP!ReadWhole, CP!Return, Control, Loading, Saving,
       Trusted, Seen, CP!Writing, CP!Reading
  <2> QED
    BY <1>1, <2>1, <2>2, <2>3 DEF CP!ReadPath
<1>2. CASE CP!ReadTemp
  <2>1. CASE CP!Return("missing") /\ UNCHANGED got
    BY <1>0, <1>2, <2>1 DEF CP!ReadTemp, CP!Return, Control, Loading, Saving, Trusted,
       Seen, CP!Writing, CP!Reading
  <2>2. CASE CP!ReadWhole("temp") /\ pc' = "recover" /\ got' = disk["temp"]
             /\ UNCHANGED <<text, written, ret>>
    BY <1>0, <1>2, <2>2 DEF CP!ReadTemp, CP!ReadWhole, Control, Loading, Saving, Trusted,
       Seen, CP!Writing, CP!Reading
  <2> QED
    BY <1>2, <2>1, <2>2 DEF CP!ReadTemp
<1>3. CASE CP!Recover
  <2>1. \/ UNCHANGED disk
        \/ disk'["path"] = disk["temp"] /\ disk'["temp"] = Absent
    BY <1>3 DEF CP!Recover, CP!Moved
  <2> QED
    BY <1>0, <1>3, <2>1, NothingSeen DEF CP!Recover, CP!Return, Control, Loading, Saving,
       Trusted, Seen, CP!Writing, CP!Reading
<1>4. pc \notin {"openTemp", "write", "discard", "removeOld", "rename"}
  BY DEF CP!Reading
<1> QED
  BY <1>1, <1>2, <1>3, <1>4 DEF CP!Step, CP!OpenTemp, CP!OpenTempFails, CP!WriteSome,
     CP!WriteFails, CP!Discard, CP!CloseTemp, CP!RemoveOld, CP!RenameNew, CP!RenameNewFails

LEMMA CardStepKeeps == ASSUME IInv, CardStep PROVE IInv'
<1>1. CP!Step /\ UNCHANGED <<memVars, history>>
  BY SameCard DEF CardStep
<1>2. CP!IInv'
  BY <1>1, CardKept DEF IInv, CP!Next
<1>3. pc \in CP!Writing \union CP!Reading
  BY <1>1 DEF CP!Step, CP!OpenTemp, CP!OpenTempFails, CP!WriteSome, CP!WriteFails,
     CP!Discard, CP!CloseTemp, CP!RemoveOld, CP!RenameNew, CP!RenameNewFails,
     CP!ReadPath, CP!ReadTemp, CP!Recover, CP!Writing, CP!Reading
<1>4. CardPart'
  BY <1>1, <1>3, SaveStep, LoadStep
<1>5. Typed' /\ Asking' /\ AcceptedWasConfirmed'
  BY <1>1 DEF IInv, Typed, Asking, AcceptedWasConfirmed, memVars, history
<1> QED
  BY <1>2, <1>4, <1>5 DEF IInv, CardPart

\* main's load begins, and ends with what the buffer holds.
LEMMA LoadKeeps == ASSUME IInv, StartLoad \/ FinishLoad PROVE IInv'
<1>1. CASE StartLoad
  <2>1. CP!BeginRead
    BY <1>1, SameCard DEF StartLoad
  <2>2. CP!IInv'
    BY <2>1, CardKept DEF IInv, CP!Next
  <2> QED
    BY <1>1, <2>1, <2>2 DEF StartLoad, CP!BeginRead, IInv, Typed, Control, Loading,
       Saving, Asking, Trusted, Seen, AcceptedWasConfirmed, history, CP!Reading, CP!Writing
<1>2. CASE FinishLoad
  <2>1. CP!IInv'
    BY <1>2 DEF FinishLoad, IInv, CP!IInv, CP!TypeOK, CP!File, CP!TempPrefix,
       CP!TempWhole, CP!Unanswered, CP!Recoverable
  <2>2. CASE ret = "ok"
    <3>1. got \in Seq(Chunk) /\ ~(Len(got) >= MaxLen) /\ got # Absent
      BY <1>2, <2>2, KnownAssumption
         DEF FinishLoad, IInv, CP!IInv, CP!TypeOK, CP!File, Loading
    <3>2. Decode(got) \in Listed /\ OnFile(got) = Decode(got)
      BY <3>1, DecodeShape DEF OnFile
    <3> QED
      BY <1>2, <2>1, <2>2, <3>2, NothingSeen
         DEF FinishLoad, IInv, Typed, Control, Loading, Saving, Asking, Trusted, Seen,
             AcceptedWasConfirmed, history, CP!Reading, CP!Writing
  <2>3. CASE ret # "ok"
    BY <1>2, <2>1, <2>3, NothingSeen
       DEF FinishLoad, IInv, Typed, Control, Loading, Saving, Asking, Trusted, Seen,
           AcceptedWasConfirmed, history, CP!Reading, CP!Writing
  <2> QED
    BY <2>2, <2>3
<1> QED
  BY <1>1, <1>2

\* Nothing but the answer changes: the parts that do not speak of it hold.
LEMMA FilesKept ==
    ASSUME IInv, UNCHANGED fileVars
    PROVE  CP!IInv'
BY DEF IInv, fileVars, CP!IInv, CP!TypeOK, CP!TempPrefix, CP!TempWhole, CP!Unanswered

\* The key a lookup answers is one of the array's.
LEMMA LookupFinds ==
    ASSUME NEW m \in Seq(Entry), NEW s
    PROVE  /\ LookupIn(m, s) = None <=> Places(m, s) = {}
           /\ LookupIn(m, s) # None
                 => \E i \in 1..Len(m) : m[i].server = s /\ m[i].key = LookupIn(m, s)
<1>1. CASE Places(m, s) = {}
  BY <1>1 DEF LookupIn
<1>2. CASE Places(m, s) # {}
  <2>1. First(m, s) \in 1..Len(m) /\ m[First(m, s)].server = s
    BY <1>2, FirstIsPlace
  <2>2. LookupIn(m, s) = m[First(m, s)].key
    BY <1>2 DEF LookupIn
  <2>3. m[First(m, s)] \in Entry
    BY <2>1
  <2>4. LookupIn(m, s) # None
    BY <2>2, <2>3, KnownAssumption DEF Entry, Stored
  <2> QED
    BY <1>2, <2>1, <2>2, <2>4
<1> QED
  BY <1>1, <1>2

\* check_hostkey, up to the point where something is saved.
LEMMA CheckKeeps ==
    ASSUME IInv,
           \/ \E s \in Server, k \in Key : KeyKnown(s, k) \/ KeyChanged(s, k) \/ KeyNew(s, k)
           \/ Decline \/ ConfirmFull \/ FinishRemember
    PROVE  IInv'
<1> USE DEF IInv
<1>0. UNCHANGED <<fileVars, entries, loaded>>
  BY DEF KeyKnown, KeyChanged, KeyNew, Decline, ConfirmFull, FinishRemember, memVars,
     history
<1>1. CP!IInv' /\ UNCHANGED <<disk, pc, text, got, ret, entries, loaded>>
  BY <1>0, FilesKept DEF fileVars
<1>2. ASSUME NEW s \in Server, NEW k \in Key, KeyKnown(s, k)
      PROVE  IInv'
  <2>1. PICK i \in 1..Len(entries) : entries[i].server = s /\ entries[i].key = k
    BY <1>2, LookupFinds, KnownAssumption DEF KeyKnown, Lookup, Typed, Listed
  <2>2. <<s, k>> \in confirmed
    BY <2>1 DEF Trusted, Seen
  <2> QED
    BY <1>1, <1>2, <2>2 DEF KeyKnown, Verdict, history, Typed, Control, Loading, Saving,
       Asking, Trusted, Seen, AcceptedWasConfirmed
<1>3. ASSUME NEW s \in Server, NEW k \in Key, KeyChanged(s, k) \/ KeyNew(s, k)
      PROVE  IInv'
  BY <1>1, <1>3 DEF KeyChanged, KeyNew, Verdict, history, Typed, Control, Loading, Saving,
     Asking, Trusted, Seen, AcceptedWasConfirmed
<1>4. CASE Decline
  BY <1>1, <1>4 DEF Decline, Verdict, history, Typed, Control, Loading, Saving,
     Asking, Trusted, Seen, AcceptedWasConfirmed
<1>5. CASE ConfirmFull
  BY <1>1, <1>5 DEF ConfirmFull, Verdict, Typed, Control, Loading, Saving,
     Asking, Trusted, Seen, AcceptedWasConfirmed
<1>6. CASE FinishRemember
  <2>1. pinned' \in [Server -> Stored \union {None}]
    BY <1>6 DEF FinishRemember, Typed, Asking, Stored
  <2> QED
    BY <1>1, <1>6, <2>1 DEF FinishRemember, Verdict, Typed, Control, Loading, Saving,
       Asking, Trusted, Seen, AcceptedWasConfirmed
<1> QED
  BY <1>2, <1>3, <1>4, <1>5, <1>6

\* "yes": the array with the new key is given to a save.
LEMMA ConfirmKeeps == ASSUME IInv, Confirm PROVE IInv'
<1> DEFINE s == check.server
           k == check.key
           new == Remember(entries, s, k)
<1> USE DEF IInv
<1>1. /\ s \in Server /\ k \in Key /\ entries \in Listed
      /\ Places(entries, s) # {} \/ Len(entries) < KnownMax
  BY DEF Confirm, Asking, Typed
<1>2. /\ new \in Listed
      /\ \A i \in 1..Len(new) :
             \/ new[i] = [server |-> s, key |-> k]
             \/ i \in 1..Len(entries) /\ new[i] = entries[i]
  BY <1>1, RememberFits, Zenon
<1>11. entries' = new /\ confirmed' = confirmed \union {<<s, k>>}
  BY DEF Confirm
<1>3. CP!BeginWrite(Encode(new)) /\ Encode(new) \in Saveable
  BY <1>2, SameCard DEF Confirm, Saveable
<1>4. CP!IInv'
  BY <1>3, CardKept DEF CP!Next
<1>5. ASSUME NEW i \in 1..Len(new), new[i].key \in Key
      PROVE  <<new[i].server, new[i].key>> \in confirmed'
  <2>1. CASE new[i] = [server |-> s, key |-> k]
    BY <1>11, <2>1
  <2>2. CASE i \in 1..Len(entries) /\ new[i] = entries[i]
    <3>1. Seen(entries)
      BY DEF Trusted
    <3> QED
      BY <1>11, <1>5, <2>2, <3>1 DEF Seen
  <2> HIDE DEF new
  <2> QED
    BY <1>2, <1>5, <2>1, <2>2
<1>6. Trusted'
  <2>1. Seen(entries)'
    BY <1>5 DEF Confirm, Seen
  <2>2. UNCHANGED disk /\ got' = Absent /\ confirmed \subseteq confirmed'
    BY <1>3 DEF CP!BeginWrite, Confirm
  <2> QED
    BY <2>1, <2>2, NothingSeen DEF Trusted, Seen
<1>7. pc' = "openTemp" /\ text' = Encode(entries') /\ at' = "remembering"
  BY <1>3 DEF CP!BeginWrite, Confirm
<1>8. Typed'
  BY <1>1, <1>2 DEF Confirm, Typed
<1>9. Control' /\ Loading' /\ Saving'
  BY <1>7 DEF Control, Loading, Saving, CP!Writing, CP!Reading
<1>10. Asking' /\ AcceptedWasConfirmed'
  BY <1>1, <1>7 DEF Confirm, Asking, AcceptedWasConfirmed
<1> QED
  BY <1>4, <1>6, <1>8, <1>9, <1>10

\* SELECT and "yes": the array without the server is given to a save.
LEMMA ForgetKeeps ==
    ASSUME IInv, (\E s \in Server : StartForget(s)) \/ FinishForget
    PROVE  IInv'
<1> USE DEF IInv
<1>1. ASSUME NEW s \in Server, StartForget(s)
      PROVE  IInv'
  <2> DEFINE new == Forget(entries, s)
  <2>1. entries \in Seq(Entry) /\ Len(entries) <= KnownMax /\ Places(entries, s) # {}
    BY <1>1 DEF StartForget, Typed, Listed
  <2>2. /\ new \in Seq(Entry) /\ Len(new) = Len(entries) - 1
        /\ \A i \in 1 .. Len(entries) - 1 :
               new[i] = IF i < First(entries, s) THEN entries[i] ELSE entries[i + 1]
    BY <2>1, ForgetShape
  <2>3. new \in Listed
    BY <2>1, <2>2, KnownAssumption DEF Listed
  <2>4. CP!BeginWrite(Encode(new)) /\ Encode(new) \in Saveable
    BY <1>1, <2>3, SameCard DEF StartForget, Saveable
  <2>5. CP!IInv'
    BY <2>4, CardKept DEF CP!Next
  <2>6. ASSUME NEW i \in 1..Len(new), new[i].key \in Key
        PROVE  <<new[i].server, new[i].key>> \in confirmed
    <3>1. PICK j \in 1..Len(entries) : new[i] = entries[j]
      <4>1. i \in 1..Len(entries) /\ i + 1 \in 1..Len(entries)
        BY <2>1, <2>2
      <4> QED
        BY <2>2, <4>1
    <3> QED
      BY <2>6, <3>1 DEF Trusted, Seen
  <2>7. Trusted'
    <3>1. Seen(entries)'
      BY <1>1, <2>6 DEF StartForget, Seen
    <3>2. UNCHANGED disk /\ got' = Absent /\ confirmed' = confirmed
      BY <1>1, <2>4 DEF CP!BeginWrite, StartForget
    <3> QED
      BY <3>1, <3>2, NothingSeen DEF Trusted, Seen
  <2>8. pc' = "openTemp" /\ text' = Encode(entries') /\ at' = "forgetting"
    BY <1>1, <2>4 DEF CP!BeginWrite, StartForget
  <2>9. Typed'
    <3>1. pinned' \in [Server -> Stored \union {None}]
      BY <1>1 DEF StartForget, Typed
    <3> QED
      BY <1>1, <2>3, <3>1 DEF StartForget, Typed
  <2>10. Control' /\ Loading' /\ Saving'
    BY <2>8 DEF Control, Loading, Saving, CP!Writing, CP!Reading
  <2>11. Asking' /\ AcceptedWasConfirmed'
    BY <1>1, <2>8 DEF StartForget, Asking, AcceptedWasConfirmed
  <2> QED
    BY <2>5, <2>7, <2>9, <2>10, <2>11
<1>2. CASE FinishForget
  <2>1. CP!IInv'
    BY <1>2, FilesKept DEF FinishForget
  <2> QED
    BY <1>2, <2>1 DEF FinishForget, fileVars, Typed, Control, Loading, Saving, Asking,
       Trusted, Seen, AcceptedWasConfirmed
<1> QED
  BY <1>1, <1>2

LEMMA PowerLossKeeps == ASSUME IInv, PowerLoss PROVE IInv'
<1>1. CP!PowerLoss
  BY SameCard DEF PowerLoss
<1>2. CP!IInv'
  BY <1>1, CardKept DEF IInv, CP!Next
<1> QED
  BY <1>1, <1>2, NothingSeen DEF PowerLoss, CP!PowerLoss, IInv, Typed, Control, Loading,
     Saving, Asking, Trusted, Seen, AcceptedWasConfirmed, history, CP!Writing, CP!Reading

LEMMA InitKeeps == Init => IInv
<1> SUFFICES ASSUME Init PROVE IInv
  OBVIOUS
<1>1. CP!Init /\ CP!IInv
  BY Assumed, CP!InitIInv, SameCard DEF Init
<1>2. /\ disk["path"] \in Seq(Chunk) \union {Absent} /\ disk["temp"] = Absent
      /\ got = Absent /\ pc = "off"
  BY <1>1, CardAssumption DEF CP!Init
<1> DEFINE file == OnFile(disk["path"])
<1>3. file \in Listed
  BY <1>2, DecodeShape, NothingSeen DEF OnFile
<1>4. Seen(file)
  <2> SUFFICES ASSUME NEW i \in 1..Len(file), file[i].key \in Key
               PROVE  <<file[i].server, file[i].key>> \in confirmed
    BY DEF Seen
  <2>1. file[i] \in Entry /\ i \in DOMAIN file
    BY <1>3 DEF Listed
  <2>2. file[i] = [server |-> file[i].server, key |-> file[i].key]
    BY <2>1 DEF Entry
  <2>3. <<file[i].server, file[i].key>> \in Server \X Key
    BY <2>1 DEF Entry
  <2> QED
    BY <2>1, <2>2, <2>3 DEF Init
<1>5. pinned \in [Server -> Stored \union {None}]
  <2>1. ASSUME NEW s \in Server
        PROVE  LookupIn(file, s) \in Stored \union {None}
    <3>1. CASE LookupIn(file, s) = None
      BY <3>1
    <3>2. CASE LookupIn(file, s) # None
      <4>1. PICK i \in 1..Len(file) : file[i].key = LookupIn(file, s)
        BY <1>3, <3>2, LookupFinds DEF Listed
      <4>2. file[i] \in Entry
        BY <1>3 DEF Listed
      <4> QED
        BY <4>1, <4>2 DEF Entry
    <3> QED
      BY <3>1, <3>2
  <2> QED
    BY <2>1 DEF Init
<1>6. Typed
  BY <1>5, NothingSeen DEF Init, Typed
<1> QED
  BY <1>1, <1>2, <1>4, <1>6, NothingSeen DEF Init, IInv, Control, Loading, Saving, Asking,
     Trusted, AcceptedWasConfirmed, CP!Writing, CP!Reading

LEMMA NextKeeps == IInv /\ [Next]_vars => IInv'
<1> SUFFICES ASSUME IInv, [Next]_vars PROVE IInv'
  OBVIOUS
<1>1. CASE UNCHANGED vars
  <2>1. CP!IInv'
    BY <1>1, FilesKept DEF vars
  <2> QED
    BY <1>1, <2>1 DEF vars, fileVars, memVars, history, IInv, Typed, Control, Loading,
       Saving, Asking, Trusted, Seen, AcceptedWasConfirmed
<1> QED
  BY <1>1, CardStepKeeps, LoadKeeps, CheckKeeps, ConfirmKeeps, ForgetKeeps, PowerLossKeeps
     DEF Next

LEMMA Inductive == Spec => []IInv
BY InitKeeps, NextKeeps, PTL DEF Spec

-----------------------------------------------------------------------------
\* Every variable keeps its type; in particular the array never outgrows
\* KNOWN_MAX, whatever the file held.
THEOREM TypeCorrect == Spec => []TypeOK
<1>1. IInv => TypeOK
  BY SameCard DEF IInv, CP!IInv, Typed, Control, TypeOK, Listed
<1> QED
  BY <1>1, Inductive, PTL

\* A connection is let through only to a server whose very key the user once
\* said "yes" to, whatever sceIo calls fail, whatever is torn and wherever the
\* battery is pulled (check_hostkey over knownhosts.c and cardfile.c).
THEOREM OnlyConfirmedAccepted == Spec => []AcceptedWasConfirmed
<1>1. IInv => AcceptedWasConfirmed
  BY DEF IInv
<1> QED
  BY <1>1, Inductive, PTL

\* When a save has answered 0, reading the file back gives the array.
THEOREM SavedIsRead == Spec => []FileIsMemory
<1>1. IInv => FileIsMemory
  BY RoundTrip DEF IInv, Typed, Saving, FileIsMemory
<1> QED
  BY <1>1, Inductive, PTL

-----------------------------------------------------------------------------
(* What a step does to the card, whatever fails.                            *)

\* Only a sceIo call of the call in progress touches the card.
LEMMA CardTouched == ASSUME Next PROVE CP!Step \/ UNCHANGED disk
<1>1. CardStep => CP!Step
  BY SameCard DEF CardStep
<1>2. StartLoad \/ FinishLoad \/ PowerLoss => UNCHANGED disk
  BY DEF StartLoad, Card!BeginRead, FinishLoad, PowerLoss, Card!PowerLoss
<1>3. Decline \/ ConfirmFull \/ FinishRemember \/ FinishForget => UNCHANGED disk
  BY DEF Decline, ConfirmFull, FinishRemember, FinishForget, fileVars
<1>4. Confirm => UNCHANGED disk
  BY DEF Confirm, Card!BeginWrite
<1>5. ASSUME NEW s \in Server, NEW k \in Key
      PROVE  KeyKnown(s, k) \/ KeyChanged(s, k) \/ KeyNew(s, k) => UNCHANGED disk
  BY DEF KeyKnown, KeyChanged, KeyNew, fileVars
<1>6. ASSUME NEW s \in Server
      PROVE  StartForget(s) => UNCHANGED disk
  BY DEF StartForget, Card!BeginWrite
<1> QED
  BY <1>1, <1>2, <1>3, <1>4, <1>5, <1>6 DEF Next

\* While a save is in progress, nothing else happens but the battery.
LEMMA SaveIsAlone ==
    ASSUME IInv, Next, pc \in CP!Writing
    PROVE  CP!Step \/ ret' = "none"
<1>1. at \in {"remembering", "forgetting"} /\ pc # "idle" /\ pc # "off"
  BY WhileSaving DEF CP!Writing
<1>2. CardStep => CP!Step
  BY SameCard DEF CardStep
<1>3. PowerLoss => ret' = "none"
  BY DEF PowerLoss, Card!PowerLoss
<1>4. ~StartLoad /\ ~FinishLoad /\ ~Decline /\ ~Confirm /\ ~ConfirmFull
      /\ ~FinishRemember /\ ~FinishForget
  BY <1>1 DEF StartLoad, Card!BeginRead, FinishLoad, Decline, Confirm, ConfirmFull,
     FinishRemember, FinishForget
<1>5. \A s \in Server, k \in Key : ~KeyKnown(s, k) /\ ~KeyChanged(s, k) /\ ~KeyNew(s, k)
  BY <1>1 DEF KeyKnown, KeyChanged, KeyNew
<1>6. \A s \in Server : ~StartForget(s)
  BY <1>1 DEF StartForget
<1> QED
  BY <1>2, <1>3, <1>4, <1>5, <1>6 DEF Next

\* A step taken while the file is in place leaves the old lines or the new ones,
\* under one name or the other: no other server's key is lost with them.
THEOREM NeverTorn == Spec => NoTear
<1>1. ASSUME IInv, [Next]_vars, disk["path"] # Absent
      PROVE  Card!Recoverable' \in {Card!Recoverable, text}
  <2>1. CASE UNCHANGED disk
    BY <2>1 DEF Card!Recoverable
  <2>2. CASE CP!Step
    <3>1. CP!Recoverable' \in {CP!Recoverable, text}
      BY <1>1, <2>2, Assumed, CP!StepTearsNothing DEF IInv, CP!Next
    <3> QED
      BY <3>1 DEF CP!Recoverable, Card!Recoverable
  <2> QED
    BY <1>1, <2>1, <2>2, CardTouched DEF vars, fileVars
<1>2. IInv /\ [Next]_vars
         => [disk["path"] # Absent => Card!Recoverable' \in {Card!Recoverable, text}]_vars
  BY <1>1
<1> QED
  BY <1>2, Inductive, PTL DEF Spec, NoTear

\* knownhosts_remember and knownhosts_forget answer 0 only when the file, under
\* its real name, is exactly the array, and no side file is left.
THEOREM SavedMeansSaved == Spec => SaveResult
<1>1. ASSUME IInv, [Next]_vars, pc \in Card!Writing, ret' = "ok"
      PROVE  disk' = [path |-> Encode(entries), temp |-> Absent]
  <2>1. pc \in CP!Writing /\ text = Encode(entries) /\ ret = "none"
    BY <1>1, SameCard, WhileSaving DEF IInv, CP!IInv, CP!Unanswered, CP!Writing
  <2>2. CP!Step
    BY <1>1, <2>1, SaveIsAlone DEF vars, fileVars
  <2> QED
    BY <1>1, <2>1, <2>2, Assumed, CP!StepSaves DEF IInv, CP!Next
<1>2. IInv /\ [Next]_vars
         => [(pc \in Card!Writing /\ ret' = "ok")
                => disk' = [path |-> Encode(entries), temp |-> Absent]]_vars
  BY <1>1
<1> QED
  BY <1>2, Inductive, PTL DEF Spec, SaveResult

=============================================================================
