-------------------------- MODULE HostStoreProofs --------------------------
(* Machine-checked facts about HostStore, for any names, any room, any card *)
(* found and any faults.                                                    *)
EXTENDS HostStore, WellFoundedInduction, TLAPS

\* The lists there is room for, and what they look like on the card.
Listed   == {l \in Seq(Host) : Len(l) <= HostsMax}
Saveable == {Encode(l) : l \in Listed}

\* What CardFileProofs proves, for just these texts.
CP == INSTANCE CardFileProofs WITH Texts <- Saveable

-----------------------------------------------------------------------------
(* The loop of parse: what it has kept after each line.                     *)

Less == {p \in Nat \X Nat : p[1] < p[2]}

LEMMA LeastOf ==
    ASSUME NEW P \in SUBSET Nat, P # {}
    PROVE  \E m \in P : \A x \in P : m <= x
<1>1. IsWellFoundedOn(Less, Nat)
  <2>1. OpToRel(<, Nat) = Less
    BY DEF OpToRel, Less
  <2> QED
    BY <2>1, NatLessThanWellFounded
<1>2. PICK m \in P : \A y \in P : <<y, m>> \notin Less
  BY <1>1, WFMin
<1>3. \A y \in P : y >= m
  <2> SUFFICES ASSUME NEW y \in P, y < m
               PROVE  FALSE
    OBVIOUS
  <2>1. <<y, m>> \in Nat \X Nat
    OBVIOUS
  <2>2. <<y, m>> \in Less
    BY <2>1 DEF Less
  <2> QED
    BY <2>2, <1>2
<1> QED
  BY <1>3

\* One turn of the loop.
Turn(so, h, max) == IF Taken(h) /\ Len(so) < max THEN Append(so, h) ELSE so

\* The list after each of the first n lines.
Run(f, line, n, max) ==
    /\ f \in [0..n -> Seq(Host)]
    /\ f[0] = <<>>
    /\ \A i \in 1..n : f[i] = Turn(f[i - 1], line[i], max)

LEMMA TurnShape ==
    ASSUME NEW so \in Seq(Host), NEW h \in Host, NEW max \in Nat
    PROVE  Turn(so, h, max) \in Seq(Host)
BY DEF Turn

\* The loop gets through any number of lines.
LEMMA Runs ==
    ASSUME NEW line \in Seq(Host), NEW max \in Nat
    PROVE  \E f : Run(f, line, Len(line), max)
<1> DEFINE Stuck == {n \in 0..Len(line) : ~ \E f : Run(f, line, n, max)}
<1>0. Len(line) \in 0..Len(line)
  OBVIOUS
<1> SUFFICES ASSUME Stuck # {}
             PROVE  FALSE
  BY <1>0
<1>a. Stuck \in SUBSET Nat
  OBVIOUS
<1>1. PICK n \in Stuck : \A x \in Stuck : n <= x
  <2> HIDE DEF Stuck
  <2> QED
    BY <1>a, LeastOf
<1>2. n \in 0..Len(line) /\ ~ \E f : Run(f, line, n, max)
  OBVIOUS
<1>3. n # 0
  <2> DEFINE f == [i \in 0..0 |-> <<>>]
  <2>1. f \in [0..0 -> Seq(Host)] /\ f[0] = <<>>
    OBVIOUS
  <2>2. Run(f, line, 0, max)
    BY <2>1 DEF Run
  <2> QED
    BY <1>2, <2>2
<1>4. n - 1 \in 0..Len(line) /\ n - 1 \notin Stuck
  BY <1>1, <1>2, <1>3
<1>5. PICK f : Run(f, line, n - 1, max)
  BY <1>4
<1> DEFINE new == Turn(f[n - 1], line[n], max)
           g   == [i \in 0..n |-> IF i = n THEN new ELSE f[i]]
<1>6. f \in [0..(n - 1) -> Seq(Host)] /\ f[n - 1] \in Seq(Host) /\ line[n] \in Host
  BY <1>2, <1>3, <1>5 DEF Run
<1>7. new \in Seq(Host)
  BY <1>6, TurnShape
<1>8. g \in [0..n -> Seq(Host)]
  <2>1. ASSUME NEW i \in 0..n, i # n
        PROVE  f[i] \in Seq(Host)
    <3>1. i \in 0..(n - 1)
      BY <1>2, <2>1
    <3> QED
      BY <3>1, <1>6
  <2> HIDE DEF new
  <2> QED
    BY <1>7, <2>1
<1>9. g[0] = <<>>
  BY <1>2, <1>3, <1>5 DEF Run
<1>10. ASSUME NEW i \in 1..n
       PROVE  g[i] = Turn(g[i - 1], line[i], max)
  <2>1. i - 1 \in 0..n /\ i - 1 # n /\ g[i - 1] = f[i - 1]
    BY <1>2
  <2>2. CASE i = n
    BY <2>1, <2>2
  <2>3. CASE i # n
    <3>1. i \in 1..(n - 1) /\ g[i] = f[i]
      BY <1>2, <2>3
    <3> QED
      BY <1>5, <2>1, <3>1 DEF Run
  <2> QED
    BY <2>2, <2>3
<1>11. Run(g, line, n, max)
  BY <1>8, <1>9, <1>10 DEF Run
<1> QED
  BY <1>2, <1>11

\* Parsed is what the loop comes to.
LEMMA ParsedRun ==
    ASSUME NEW line \in Seq(Host), NEW max \in Nat
    PROVE  \E f : Run(f, line, Len(line), max) /\ Parsed(line, max) = f[Len(line)]
<1> DEFINE N == Len(line)
           Defines(g) == g = [n \in 0..N |->
                                IF n = 0 THEN <<>>
                                ELSE IF Taken(line[n]) /\ Len(g[n - 1]) < max
                                     THEN Append(g[n - 1], line[n])
                                     ELSE g[n - 1]]
           F == CHOOSE g : Defines(g)
<1>0. N \in Nat
  OBVIOUS
<1>1. PICK f : Run(f, line, N, max)
  BY Runs
<1>2. Defines(f)
  <2>1. f = [n \in 0..N |-> f[n]]
    BY <1>1 DEF Run
  <2>2. ASSUME NEW n \in 0..N
        PROVE  f[n] = IF n = 0 THEN <<>>
                      ELSE IF Taken(line[n]) /\ Len(f[n - 1]) < max
                           THEN Append(f[n - 1], line[n])
                           ELSE f[n - 1]
    <3>1. n # 0 => n \in 1..N
      OBVIOUS
    <3> QED
      BY <1>1, <3>1 DEF Run, Turn
  <2> QED
    BY <2>1, <2>2
<1>3. Defines(F)
  BY <1>2
<1>4. Parsed(line, max) = F[N]
  BY DEF Parsed
<1> HIDE DEF F
<1>5. \A n \in 0..N : F[n] = IF n = 0 THEN <<>> ELSE Turn(F[n - 1], line[n], max)
  BY <1>3 DEF Turn
<1>6. \A n \in 0..N : F[n] \in Seq(Host)
  <2> DEFINE Bad == {n \in 0..N : F[n] \notin Seq(Host)}
  <2> SUFFICES ASSUME Bad # {}
               PROVE  FALSE
    OBVIOUS
  <2>a. Bad \in SUBSET Nat
    OBVIOUS
  <2>1. PICK n \in Bad : \A x \in Bad : n <= x
    <3> HIDE DEF Bad
    <3> QED
      BY <2>a, LeastOf
  <2>2. n # 0
    <3>1. F[0] = <<>>
      BY <1>0, <1>5
    <3>2. <<>> \in Seq(Host)
      OBVIOUS
    <3> QED
      BY <3>1, <3>2
  <2>3. n - 1 \in 0..N /\ n - 1 \notin Bad
    BY <2>1, <2>2
  <2>4. F[n - 1] \in Seq(Host) /\ line[n] \in Host
    BY <2>2, <2>3
  <2> QED
    BY <1>5, <2>2, <2>4, TurnShape
<1>7. Run(F, line, N, max)
  <2>1. F \in [0..N -> Seq(Host)]
    BY <1>3, <1>6
  <2>2. F[0] = <<>>
    BY <1>0, <1>5
  <2>3. \A n \in 1..N : F[n] = Turn(F[n - 1], line[n], max)
    BY <1>5
  <2> QED
    BY <2>1, <2>2, <2>3 DEF Run
<1> QED
  BY <1>4, <1>7

-----------------------------------------------------------------------------
(* The file format. *)

\* Every line there is, whatever the file holds.
LEMMA LinesShape ==
    ASSUME NEW file \in Seq(Chunk)
    PROVE  Lines(file) \in Seq(Host) /\ Len(Lines(file)) = (Len(file) + 1) \div 2
<1> DEFINE n == (Len(file) + 1) \div 2
           line(i) == [name    |-> file[2 * i - 1].name,
                       profile |-> IF 2 * i <= Len(file) THEN file[2 * i].profile ELSE 0]
<1>1. n \in Nat
  OBVIOUS
<1>2. Lines(file) = [i \in 1..n |-> line(i)]
  BY DEF Lines
<1>3. ASSUME NEW i \in 1..n
      PROVE  line(i) \in Host
  <2>1. 2 * i - 1 \in 1..Len(file)
    BY <1>1
  <2>2. 2 * i <= Len(file) => 2 * i \in 1..Len(file)
    BY <1>1
  <2>3. file[2 * i - 1].name \in Name
    <3>1. file[2 * i - 1] \in Chunk
      BY <2>1
    <3> QED
      BY <3>1 DEF Chunk
  <2>4. 2 * i <= Len(file) => file[2 * i].profile \in 0..10
    <3>1. 2 * i <= Len(file) => file[2 * i] \in Chunk
      BY <2>2
    <3> QED
      BY <3>1 DEF Chunk
  <2> QED
    BY <2>3, <2>4 DEF Host
<1>4. Lines(file) \in [1..n -> Host]
  BY <1>2, <1>3
<1> QED
  BY <1>1, <1>4

\* Every entry of a list is one that take_line takes.
AllTaken(l) == \A i \in 1..Len(l) : Taken(l[i])

\* What parse keeps fits in the array, and is all taken.
LEMMA ParsedShape ==
    ASSUME NEW line \in Seq(Host), NEW max \in Nat
    PROVE  /\ Parsed(line, max) \in Seq(Host)
           /\ Len(Parsed(line, max)) <= max
           /\ AllTaken(Parsed(line, max))
<1> DEFINE N == Len(line)
<1>0. N \in Nat /\ N \in 0..N
  OBVIOUS
<1>1. PICK f : Run(f, line, N, max) /\ Parsed(line, max) = f[N]
  BY ParsedRun
<1>2. \A n \in 0..N : Len(f[n]) <= max /\ AllTaken(f[n])
  <2> DEFINE Bad == {n \in 0..N : ~(Len(f[n]) <= max /\ AllTaken(f[n]))}
  <2> SUFFICES ASSUME Bad # {}
               PROVE  FALSE
    OBVIOUS
  <2>a. Bad \in SUBSET Nat
    OBVIOUS
  <2>1. PICK n \in Bad : \A x \in Bad : n <= x
    <3> HIDE DEF Bad
    <3> QED
      BY <2>a, LeastOf
  <2>2. n # 0
    <3>1. f[0] = <<>>
      BY <1>1 DEF Run
    <3>2. Len(<<>>) <= max /\ AllTaken(<<>>)
      BY DEF AllTaken
    <3> QED
      BY <3>1, <3>2
  <2>3. n - 1 \in 0..N /\ n - 1 \notin Bad
    BY <2>1, <2>2
  <2> DEFINE so == f[n - 1]
  <2>4. so \in Seq(Host) /\ line[n] \in Host /\ f[n] = Turn(so, line[n], max)
    <3>1. n \in 1..N
      BY <2>2, <2>3
    <3> HIDE DEF Bad
    <3> QED
      BY <1>1, <2>3, <3>1 DEF Run
  <2>5. Len(so) <= max /\ AllTaken(so)
    BY <2>3
  <2> HIDE DEF so
  <2>6. CASE Taken(line[n]) /\ Len(so) < max
    <3>1. f[n] = Append(so, line[n])
      BY <2>4, <2>6 DEF Turn
    <3>2. Len(f[n]) = Len(so) + 1 /\ Len(f[n]) <= max
      BY <2>4, <2>6, <3>1
    <3>3. ASSUME NEW i \in 1..Len(f[n])
          PROVE  Taken(f[n][i])
      <4>1. i <= Len(so) => f[n][i] = so[i] /\ i \in 1..Len(so)
        BY <2>4, <3>1, <3>2
      <4>2. ~(i <= Len(so)) => f[n][i] = line[n]
        BY <2>4, <3>1, <3>2
      <4> QED
        BY <2>5, <2>6, <4>1, <4>2 DEF AllTaken
    <3> QED
      BY <3>2, <3>3 DEF AllTaken
  <2>7. CASE ~(Taken(line[n]) /\ Len(so) < max)
    BY <2>4, <2>5, <2>7 DEF Turn
  <2> QED
    BY <2>6, <2>7
<1> QED
  BY <1>0, <1>1, <1>2 DEF Run

\* A list that is all taken and fits is parsed as it is.
LEMMA ParsedWhole ==
    ASSUME NEW l \in Seq(Host), NEW max \in Nat, Len(l) <= max, AllTaken(l)
    PROVE  Parsed(l, max) = l
<1> DEFINE N == Len(l)
<1>0. N \in Nat /\ N \in 0..N
  OBVIOUS
<1>1. PICK f : Run(f, l, N, max) /\ Parsed(l, max) = f[N]
  BY ParsedRun
<1>2. \A n \in 0..N : f[n] = SubSeq(l, 1, n)
  <2> DEFINE Bad == {n \in 0..N : f[n] # SubSeq(l, 1, n)}
  <2> SUFFICES ASSUME Bad # {}
               PROVE  FALSE
    OBVIOUS
  <2>a. Bad \in SUBSET Nat
    OBVIOUS
  <2>1. PICK n \in Bad : \A x \in Bad : n <= x
    <3> HIDE DEF Bad
    <3> QED
      BY <2>a, LeastOf
  <2>2. n # 0
    <3>1. f[0] = <<>> /\ SubSeq(l, 1, 0) = <<>>
      BY <1>1 DEF Run
    <3> QED
      BY <3>1
  <2>3. n \in 1..N /\ n - 1 \in 0..N /\ n - 1 \notin Bad
    BY <2>1, <2>2
  <2>4. f[n - 1] = SubSeq(l, 1, n - 1) /\ Len(SubSeq(l, 1, n - 1)) = n - 1
    BY <2>3
  <2>5. Taken(l[n]) /\ n - 1 < max
    BY <2>3 DEF AllTaken
  <2>6. f[n] = Append(SubSeq(l, 1, n - 1), l[n])
    BY <1>1, <2>3, <2>4, <2>5 DEF Run, Turn
  <2>7. Append(SubSeq(l, 1, n - 1), l[n]) = SubSeq(l, 1, n)
    BY <2>3
  <2> QED
    BY <2>6, <2>7
<1>3. SubSeq(l, 1, N) = l
  OBVIOUS
<1> QED
  BY <1>0, <1>1, <1>2, <1>3

\* So is what any file is read as.
LEMMA DecodeShape ==
    ASSUME NEW file \in Seq(Chunk)
    PROVE  Decode(file) \in Listed /\ AllTaken(Decode(file))
BY LinesShape, ParsedShape, HostAssumption DEF Decode, Listed

\* A saved list has two chunks for each entry, and a line is made of these.
LEMMA EncodeShape ==
    ASSUME NEW l \in Seq(Host)
    PROVE  /\ Encode(l) \in Seq(Chunk)
           /\ Len(Encode(l)) = 2 * Len(l)
           /\ Lines(Encode(l)) = l
<1> DEFINE n == 2 * Len(l)
           c == Encode(l)
<1>0. n \in Nat
  OBVIOUS
<1>1. \A i \in 1..n : (i + 1) \div 2 \in 1..Len(l)
  OBVIOUS
<1>2. \A i \in 1..n : c[i] = [name    |-> l[(i + 1) \div 2].name,
                              profile |-> l[(i + 1) \div 2].profile,
                              part    |-> IF i % 2 = 1 THEN "head" ELSE "tail"]
  BY DEF Encode
<1>3. ASSUME NEW i \in 1..n
      PROVE  c[i] \in Chunk
  <2>1. l[(i + 1) \div 2] \in Host
    BY <1>1
  <2>2. l[(i + 1) \div 2].name \in Name /\ l[(i + 1) \div 2].profile \in 0..10
    BY <2>1 DEF Host
  <2>3. c[i] = [name    |-> l[(i + 1) \div 2].name,
                profile |-> l[(i + 1) \div 2].profile,
                part    |-> IF i % 2 = 1 THEN "head" ELSE "tail"]
    BY <1>2
  <2> HIDE DEF c
  <2> QED
    BY <2>2, <2>3 DEF Chunk
<1>4. c \in [1..n -> Chunk]
  BY <1>3 DEF Encode
<1>5. c \in Seq(Chunk) /\ Len(c) = n
  BY <1>0, <1>4
<1>6. \A i \in 1..n : c[i].name = l[(i + 1) \div 2].name
                      /\ c[i].profile = l[(i + 1) \div 2].profile
  BY DEF Encode
<1> HIDE DEF c
<1>7. (Len(c) + 1) \div 2 = Len(l)
  BY <1>5
<1>8. Lines(c) \in Seq(Host) /\ Len(Lines(c)) = Len(l)
  BY <1>5, <1>7, LinesShape
<1>9. ASSUME NEW i \in 1..Len(l)
      PROVE  Lines(c)[i] = l[i]
  <2>1. 2 * i - 1 \in 1..n /\ 2 * i \in 1..n /\ 2 * i <= Len(c)
    BY <1>5
  <2>2. ((2 * i - 1) + 1) \div 2 = i /\ (2 * i + 1) \div 2 = i
    OBVIOUS
  <2>3. c[2 * i - 1].name = l[i].name
    <3>1. PICK j \in 1..n : j = 2 * i - 1
      BY <2>1
    <3> QED
      BY <1>6, <2>2, <3>1
  <2>4. c[2 * i].profile = l[i].profile
    <3>1. PICK j \in 1..n : j = 2 * i
      BY <2>1
    <3> QED
      BY <1>6, <2>2, <3>1
  <2>5. Lines(c)[i] = [name |-> c[2 * i - 1].name, profile |-> c[2 * i].profile]
    BY <1>7, <2>1 DEF Lines
  <2>6. l[i] \in Host
    OBVIOUS
  <2> QED
    BY <2>3, <2>4, <2>5, <2>6 DEF Host
<1>10. Lines(c) = l
  BY <1>8, <1>9
<1> QED
  BY <1>5, <1>10 DEF c

\* A list that was saved is read back as it was, if no entry of it looks like a
\* comment or is unusable: what fits in memory fits in the file.
LEMMA RoundTrip ==
    ASSUME NEW l \in Listed, AllTaken(l)
    PROVE  OnFile(Encode(l)) = l
<1>0. l \in Seq(Host) /\ Len(l) <= HostsMax
  BY DEF Listed
<1>1. /\ Encode(l) \in Seq(Chunk) /\ Len(Encode(l)) = 2 * Len(l)
      /\ Lines(Encode(l)) = l
  BY <1>0, EncodeShape
<1>2. Decode(Encode(l)) = l
  BY <1>0, <1>1, ParsedWhole, HostAssumption DEF Decode
<1>3. Encode(l) # Absent /\ ~(Len(Encode(l)) >= MaxLen)
  BY <1>0, <1>1, HostAssumption, CardAssumption
<1> QED
  BY <1>2, <1>3 DEF OnFile

-----------------------------------------------------------------------------
(* The invariant, whatever fails and whatever is typed.                      *)

\* What any of the variables above the file may be.
Kinds ==
    /\ list \in Listed
    /\ at \in {"off", "loading", "importing", "list", "form", "saving", "removing"}
    /\ form \in {None} \union 0..Len(list)
    /\ legacy \in Legacy
    /\ acked \in {None} \union Listed
    /\ saving \in {None} \union Listed
    /\ form # None <=> at \in {"form", "saving"}

\* The places at which the program waits for a save.
Waits == {"importing", "saving", "removing"}

\* Which call on the file belongs to which place in the program.
Control ==
    /\ pc = "off" <=> at = "off"
    /\ at = "loading" => pc \in CP!Reading \union {"idle"}
    /\ at \in {"list", "form"} => pc = "idle"
    /\ at \in Waits => pc \in CP!Writing \union {"idle"}

\* A load that answers 0 has a text that fits the buffer.
Loading ==
    /\ pc = "recover" => got = disk["temp"] /\ got # Absent /\ Len(got) < MaxLen
    /\ at = "loading" /\ pc = "idle"
           => /\ ret \in {"ok", "missing", "unreadable"}
              /\ ret = "ok" => got # Absent /\ Len(got) < MaxLen

\* A save is of the list last given to one, and a finished one has put it in
\* place.
Saving ==
    /\ pc \in CP!Writing => saving \in Listed /\ text = Encode(saving)
    /\ at \in Waits /\ pc = "idle" /\ ret = "ok"
           => saving \in Listed /\ disk["path"] = Encode(saving)

IInv == CP!IInv /\ Kinds /\ Control /\ Loading /\ Saving

-----------------------------------------------------------------------------
(* What a saved list needs beside, if no name begins with '#'.              *)

\* Nothing the user types, and nothing the old file holds, looks like a comment.
NoHash == \A h \in Typed \union (Legacy \ {None}) : h.name \notin Comment

\* No list is given to a save of which a load would drop something.
Clean ==
    /\ AllTaken(list)
    /\ saving # None => AllTaken(saving)

\* While something is promised, the file in place is the list promised or the
\* one given to a save, ...
InPlace ==
    acked # None /\ disk["path"] # Absent
        => /\ OnFile(disk["path"]) \in {acked, saving}
           /\ at \in {"list", "form"} => OnFile(disk["path"]) = acked
           /\ at \in Waits => OnFile(disk["path"]) = acked \/ (pc = "idle" /\ ret = "ok")

\* ... and it is only ever missing while the next sceIo call is the rename, or
\* from there to the next load; then the whole of the new list is beside it.
Beside ==
    acked # None /\ disk["path"] = Absent
        => /\ saving # None
           /\ disk["temp"] = Encode(saving)
           /\ \/ pc \in {"off", "rename"} \union CP!Reading
              \/ at = "loading" /\ pc = "idle" /\ ret = "missing"

KInv == Clean /\ InPlace /\ Beside

-----------------------------------------------------------------------------
(* The file layer under it.                                                 *)

\* What CardFileProofs asks of its constants.
LEMMA Assumed ==
    /\ CP!FaultsAssumption /\ CP!TextsAssumption
    /\ CP!MaxLenAssumption /\ CP!AbsentAssumption
<1>1. Saveable \subseteq Seq(Chunk)
  BY EncodeShape DEF Saveable, Listed
<1> QED
  BY <1>1, HostAssumption, CardAssumption
     DEF CP!FaultsAssumption, CP!TextsAssumption, CP!MaxLenAssumption, CP!AbsentAssumption,
         Card!FaultKinds, CP!FaultKinds

\* The two instances of CardFile differ only in the texts, and so not in this.
LEMMA SameCard ==
    /\ Card!Init => CP!Init
    /\ Card!Step => CP!Step
    /\ Card!BeginRead => CP!BeginRead
    /\ Card!PowerLoss => CP!PowerLoss
    /\ \A t : Card!BeginWrite(t) => CP!BeginWrite(t)
    /\ Card!Recoverable = CP!Recoverable
    /\ Card!TypeOK <=> CP!TypeOK
<1>1. Card!Step => CP!Step
  BY DEF Card!Step, Card!OpenTemp, Card!OpenTempFails, Card!WriteSome, Card!WriteFails,
         Card!Discard, Card!CloseTemp, Card!RemoveOld, Card!RenameNew, Card!RenameNewFails,
         Card!ReadPath, Card!ReadTemp, Card!Recover, Card!Return, Card!RenameWorks,
         Card!Moved, Card!NotFound, Card!Unreadable, Card!ReadWhole,
         CP!Step, CP!OpenTemp, CP!OpenTempFails, CP!WriteSome, CP!WriteFails,
         CP!Discard, CP!CloseTemp, CP!RemoveOld, CP!RenameNew, CP!RenameNewFails,
         CP!ReadPath, CP!ReadTemp, CP!Recover, CP!Return, CP!RenameWorks,
         CP!Moved, CP!NotFound, CP!Unreadable, CP!ReadWhole
<1>2. Card!TypeOK <=> CP!TypeOK
  BY DEF Card!TypeOK, CP!TypeOK, Card!File, CP!File, Card!Reading, CP!Reading,
         Card!Writing, CP!Writing, Card!Returns, CP!Returns
<1> QED
  BY <1>1, <1>2 DEF Card!Init, CP!Init, Card!BeginRead, CP!BeginRead, Card!PowerLoss,
     CP!PowerLoss, Card!BeginWrite, CP!BeginWrite, Card!Recoverable, CP!Recoverable

\* A call on the file keeps what CardFileProofs found about it, ...
LEMMA CardKept == ASSUME CP!IInv, CP!Next PROVE CP!IInv'
BY Assumed, CP!NextKeepsIInv

\* ... and so does a step that leaves the file alone.
LEMMA FilesKept == ASSUME CP!IInv, UNCHANGED fileVars PROVE CP!IInv'
BY DEF fileVars, CP!IInv, CP!TypeOK, CP!TempPrefix, CP!TempWhole, CP!Unanswered

-----------------------------------------------------------------------------
(* Each step keeps the invariant. *)

\* The start of a save of a list there is room for.
LEMMA SaveBegins ==
    ASSUME IInv, NEW l \in Listed, Save(l), at' \in Waits
    PROVE  /\ CP!IInv' /\ Control' /\ Loading' /\ Saving'
           /\ list' = l /\ saving' = l /\ pc' = "openTemp" /\ pc = "idle"
           /\ UNCHANGED disk
<1>1. CP!BeginWrite(Encode(l)) /\ Encode(l) \in Saveable /\ list' = l /\ saving' = l
  BY SameCard DEF Save, Saveable
<1>2. CP!IInv'
  BY <1>1, CardKept DEF IInv, CP!Next
<1>3. pc' = "openTemp" /\ pc = "idle" /\ text' = Encode(saving') /\ UNCHANGED disk
  BY <1>1 DEF CP!BeginWrite
<1> QED
  BY <1>1, <1>2, <1>3 DEF Control, Loading, Saving, Waits, CP!Writing, CP!Reading

\* A save's next call: only the rename answers "ok", and it puts text in place.
LEMMA SaveStep ==
    ASSUME IInv, CP!Step, pc \in CP!Writing, UNCHANGED memVars,
           saving' = saving \/ (pc = "rename" /\ disk'["path"] = Absent)
    PROVE  Control' /\ Loading' /\ Saving'
<1> USE DEF IInv, CP!IInv, CP!TypeOK
<1>0. /\ at \in Waits /\ at' = at /\ text = Encode(saving) /\ saving \in Listed
      /\ ret = "none"
  BY DEF memVars, Kinds, Control, Saving, CP!Unanswered, Waits, CP!Writing, CP!Reading
<1>1. CASE CP!RenameNew
  <2>1. /\ disk'["path"] = disk["temp"] /\ disk["temp"] = text /\ disk["temp"] # Absent
        /\ pc' = "idle"
    BY <1>1 DEF CP!RenameNew, CP!RenameWorks, CP!Moved, CP!TempWhole, CP!Return
  <2> QED
    BY <1>0, <2>1 DEF Control, Loading, Saving, Waits, CP!Writing, CP!Reading
<1>2. CASE CP!RenameNewFails
  <2>1. pc' = "idle" /\ ret' = "failed"
    BY <1>2 DEF CP!RenameNewFails, CP!Return
  <2> QED
    BY <1>0, <2>1 DEF Control, Loading, Saving, Waits, CP!Writing, CP!Reading
<1>3. CASE CP!OpenTempFails \/ CP!Discard
  <2>1. pc' = "idle" /\ ret' = "failed"
    BY <1>3 DEF CP!OpenTempFails, CP!Discard, CP!Return
  <2> QED
    BY <1>0, <2>1 DEF Control, Loading, Saving, Waits, CP!Writing, CP!Reading
<1>4. CASE CP!OpenTemp \/ CP!WriteSome \/ CP!WriteFails \/ CP!CloseTemp \/ CP!RemoveOld
  <2>1. pc' \in CP!Writing /\ pc # "rename" /\ text' = text
    BY <1>4 DEF CP!OpenTemp, CP!WriteSome, CP!WriteFails, CP!CloseTemp, CP!RemoveOld,
       CP!Writing
  <2> QED
    BY <1>0, <2>1 DEF Control, Loading, Saving, Waits, CP!Writing, CP!Reading
<1>5. ~CP!ReadPath /\ ~CP!ReadTemp /\ ~CP!Recover
  BY DEF CP!ReadPath, CP!ReadTemp, CP!Recover, CP!Writing
<1> QED
  BY <1>1, <1>2, <1>3, <1>4, <1>5 DEF CP!Step

\* A load's next call.
LEMMA LoadStep ==
    ASSUME IInv, CP!Step, pc \in CP!Reading, UNCHANGED memVars
    PROVE  Control' /\ Loading' /\ Saving'
<1> USE DEF IInv, CP!IInv, CP!TypeOK
<1>0. at = "loading" /\ at' = at
  BY DEF memVars, Kinds, Control, Waits, CP!Writing, CP!Reading
<1>l. disk["path"] \in CP!File /\ disk["temp"] \in CP!File /\ MaxLen \in Nat
  BY HostAssumption
<1>1. CASE CP!ReadPath
  <2>1. CASE pc' = "readTemp" /\ UNCHANGED <<text, written, got, ret>>
    BY <1>0, <1>1, <2>1
       DEF CP!ReadPath, Control, Loading, Saving, Waits, CP!Writing, CP!Reading
  <2>2. CASE CP!Return("unreadable") /\ UNCHANGED got
    BY <1>0, <1>1, <2>2
       DEF CP!ReadPath, CP!Return, Control, Loading, Saving, Waits, CP!Writing, CP!Reading
  <2>3. CASE CP!ReadWhole("path") /\ got' = disk["path"] /\ CP!Return("ok")
    BY <1>0, <1>1, <2>3 DEF CP!ReadPath, CP!ReadWhole, CP!Return, Control, Loading,
       Saving, Waits, CP!Writing, CP!Reading
  <2> QED
    BY <1>1, <2>1, <2>2, <2>3 DEF CP!ReadPath
<1>2. CASE CP!ReadTemp
  <2>1. CASE CP!Return("missing") /\ UNCHANGED got
    BY <1>0, <1>2, <2>1
       DEF CP!ReadTemp, CP!Return, Control, Loading, Saving, Waits, CP!Writing, CP!Reading
  <2>2. CASE CP!ReadWhole("temp") /\ pc' = "recover" /\ got' = disk["temp"]
             /\ UNCHANGED <<text, written, ret>>
    BY <1>0, <1>2, <2>2 DEF CP!ReadTemp, CP!ReadWhole, Control, Loading, Saving, Waits,
       CP!Writing, CP!Reading
  <2> QED
    BY <1>2, <2>1, <2>2 DEF CP!ReadTemp
<1>3. CASE CP!Recover
  BY <1>0, <1>3
     DEF CP!Recover, CP!Return, Control, Loading, Saving, Waits, CP!Writing, CP!Reading
<1>4. pc \notin {"openTemp", "write", "discard", "removeOld", "rename"}
  BY DEF CP!Reading
<1> QED
  BY <1>1, <1>2, <1>3, <1>4 DEF CP!Step, CP!OpenTemp, CP!OpenTempFails, CP!WriteSome,
     CP!WriteFails, CP!Discard, CP!CloseTemp, CP!RemoveOld, CP!RenameNew, CP!RenameNewFails

\* A call is one of a save or one of a load.
LEMMA StepOf == ASSUME CP!Step PROVE pc \in CP!Writing \union CP!Reading
BY DEF CP!Step, CP!OpenTemp, CP!OpenTempFails, CP!WriteSome, CP!WriteFails,
   CP!Discard, CP!CloseTemp, CP!RemoveOld, CP!RenameNew, CP!RenameNewFails,
   CP!ReadPath, CP!ReadTemp, CP!Recover, CP!Writing, CP!Reading

LEMMA CardStepKeeps == ASSUME IInv, CardStep PROVE IInv'
<1>1. CP!Step /\ UNCHANGED <<memVars, legacy>>
  BY SameCard DEF CardStep
<1>2. CP!IInv'
  BY <1>1, CardKept DEF IInv, CP!Next
<1>3. /\ acked' \in {acked, None} /\ saving' \in {saving, None}
      /\ saving' = saving \/ (pc \in {"rename", "recover"} /\ disk'["path"] = Absent)
  BY DEF CardStep, Exposed, history
<1>4. Control' /\ Loading' /\ Saving'
  <2>1. CASE pc \in CP!Writing
    BY <1>1, <1>3, <2>1, SaveStep DEF CP!Writing
  <2>2. CASE pc \in CP!Reading
    BY <1>1, <2>2, LoadStep
  <2> QED
    BY <1>1, <2>1, <2>2, StepOf
<1>5. Kinds'
  BY <1>1, <1>3 DEF IInv, Kinds, memVars
<1> QED
  BY <1>2, <1>4, <1>5 DEF IInv

\* hosts_load begins, and ends with what the buffer holds.
LEMMA LoadKeeps == ASSUME IInv, StartLoad \/ FinishLoad PROVE IInv'
<1>1. CASE StartLoad
  <2>1. CP!BeginRead
    BY <1>1, SameCard DEF StartLoad
  <2>2. CP!IInv'
    BY <2>1, CardKept DEF IInv, CP!Next
  <2>3. Kinds'
    BY <1>1, <2>1 DEF StartLoad, history, CP!BeginRead, IInv, Kinds, Control
  <2> QED
    BY <1>1, <2>1, <2>2, <2>3 DEF StartLoad, CP!BeginRead, IInv, Control, Loading,
       Saving, Waits, CP!Reading, CP!Writing
<1>2. CASE FinishLoad
  <2>1. CP!IInv'
    BY <1>2 DEF FinishLoad, IInv, CP!IInv, CP!TypeOK, CP!File, CP!TempPrefix,
       CP!TempWhole, CP!Unanswered
  <2>2. list' \in Listed
    <3>1. CASE ret = "ok"
      <4>1. got \in Seq(Chunk)
        BY <1>2, <3>1 DEF FinishLoad, IInv, CP!IInv, CP!TypeOK, CP!File, Loading
      <4> QED
        BY <1>2, <3>1, <4>1, DecodeShape DEF FinishLoad
    <3>2. CASE ret # "ok"
      BY <1>2, <3>2, HostAssumption DEF FinishLoad, Listed
    <3> QED
      BY <3>1, <3>2
  <2>3. acked' \in {None, acked, list'} /\ saving' \in {None, saving}
    BY <1>2 DEF FinishLoad
  <2>4. at = "loading" /\ at' = "list" /\ UNCHANGED <<form, legacy>> /\ pc' = "idle"
    BY <1>2 DEF FinishLoad
  <2>5. Kinds'
    BY <2>2, <2>3, <2>4 DEF IInv, Kinds
  <2> QED
    BY <2>1, <2>4, <2>5 DEF IInv, Control, Loading, Saving, Waits, CP!Reading, CP!Writing
<1> QED
  BY <1>1, <1>2

\* import_legacy and the start of each save from the list and the form.
LEMMA ImportKeeps == ASSUME IInv, Import PROVE IInv'
<1>1. at = "loading" /\ pc = "idle" /\ UNCHANGED <<form, legacy>> /\ acked' \in {None, acked}
  BY DEF Import
<1>2. CASE Save(<<legacy>>) /\ at' = "importing" /\ legacy # None
  <2>1. <<legacy>> \in Listed
    BY <1>2, HostAssumption DEF IInv, Kinds, Listed
  <2>2. /\ CP!IInv' /\ Control' /\ Loading' /\ Saving'
        /\ list' = <<legacy>> /\ saving' = <<legacy>>
    BY <1>2, <2>1, SaveBegins DEF Waits
  <2>3. Kinds'
    BY <1>1, <1>2, <2>1, <2>2 DEF IInv, Kinds
  <2> QED
    BY <2>2, <2>3 DEF IInv
<1>3. CASE at' = "list" /\ saving' \in {None, saving} /\ UNCHANGED <<fileVars, list>>
  <2>1. CP!IInv' /\ UNCHANGED <<disk, pc, text, got, ret>>
    BY <1>3, FilesKept DEF IInv, fileVars
  <2>2. Kinds'
    BY <1>1, <1>3 DEF IInv, Kinds
  <2> QED
    BY <1>1, <1>3, <2>1, <2>2 DEF IInv, Control, Loading, Saving, Waits, CP!Reading,
       CP!Writing
<1> QED
  BY <1>2, <1>3 DEF Import

\* The array after a host was taken out of it.
LEMMA Removed ==
    ASSUME NEW l \in Seq(Host), NEW i \in 1..Len(l)
    PROVE  /\ RemoveAt(l, i) \in Seq(Host)
           /\ Len(RemoveAt(l, i)) = Len(l) - 1
           /\ \A j \in 1 .. Len(l) - 1 :
                  RemoveAt(l, i)[j] = IF j < i THEN l[j] ELSE l[j + 1]
<1> DEFINE before == SubSeq(l, 1, i - 1)
           after  == SubSeq(l, i + 1, Len(l))
<1>1. /\ before \in Seq(Host) /\ Len(before) = i - 1
      /\ \A j \in 1 .. i - 1 : before[j] = l[j]
  OBVIOUS
<1>2. /\ after \in Seq(Host) /\ Len(after) = Len(l) - i
      /\ \A j \in 1 .. Len(l) - i : after[j] = l[j + i]
  OBVIOUS
<1>3. RemoveAt(l, i) = before \o after
  BY DEF RemoveAt
<1> HIDE DEF before, after
<1>4. before \o after \in Seq(Host) /\ Len(before \o after) = Len(l) - 1
  BY <1>1, <1>2
<1>5. ASSUME NEW j \in 1 .. Len(l) - 1
      PROVE  (before \o after)[j] = IF j < i THEN l[j] ELSE l[j + 1]
  <2>1. CASE j < i
    BY <1>1, <1>2, <2>1
  <2>2. CASE ~(j < i)
    <3>1. (before \o after)[j] = after[j - (i - 1)]
      BY <1>1, <1>2, <2>2
    <3>2. PICK k \in 1 .. Len(l) - i : k = j - (i - 1)
      BY <2>2
    <3>3. after[k] = l[k + i]
      BY <1>2
    <3> QED
      BY <2>2, <3>1, <3>2, <3>3
  <2> QED
    BY <2>1, <2>2
<1> QED
  BY <1>3, <1>4, <1>5

\* What the three ways to change the list give to a save.
LEMMA ChangedFits ==
    ASSUME IInv
    PROVE  /\ \A h \in Typed : Add(h) => Append(list, h) \in Listed
           /\ \A h \in Typed : Replace(h) => [list EXCEPT ![form] = h] \in Listed
           /\ \A i \in DOMAIN list : RemoveAt(list, i) \in Listed
<1>0. list \in Seq(Host) /\ Len(list) <= HostsMax /\ HostsMax \in Nat
      /\ Typed \subseteq Host
  BY HostAssumption DEF IInv, Kinds, Listed
<1>1. ASSUME NEW h \in Typed, Add(h)
      PROVE  Append(list, h) \in Listed
  <2>1. Append(list, h) \in Seq(Host) /\ Len(Append(list, h)) = Len(list) + 1
    BY <1>0
  <2> QED
    BY <1>0, <1>1, <2>1 DEF Add, Listed
<1>2. ASSUME NEW h \in Typed, Replace(h)
      PROVE  [list EXCEPT ![form] = h] \in Listed
  <2>0. form \in 1..Len(list)
    BY <1>2 DEF Replace, IInv, Kinds
  <2>1. [list EXCEPT ![form] = h] \in Seq(Host)
        /\ Len([list EXCEPT ![form] = h]) = Len(list)
    BY <1>0, <2>0
  <2> QED
    BY <1>0, <2>1 DEF Listed
<1>3. ASSUME NEW i \in DOMAIN list
      PROVE  RemoveAt(list, i) \in Listed
  <2>1. RemoveAt(list, i) \in Seq(Host) /\ Len(RemoveAt(list, i)) = Len(list) - 1
    BY <1>0, Removed
  <2> QED
    BY <1>0, <2>1 DEF Listed
<1> QED
  BY <1>1, <1>2, <1>3

LEMMA ChangeKeeps ==
    ASSUME IInv,
           \/ \E h \in Typed : Add(h) \/ Replace(h)
           \/ \E i \in DOMAIN list : Delete(i)
    PROVE  IInv'
<1>1. PICK l \in Listed : Save(l)
  BY ChangedFits DEF Add, Replace, Delete
<1>2. /\ at' \in Waits /\ UNCHANGED <<legacy, acked>>
      /\ form' = form /\ (form # None <=> at' = "saving")
      /\ form # None => Len(list') >= Len(list)
  <2>1. ASSUME NEW h \in Typed, Add(h)
        PROVE  /\ at' = "saving" /\ form # None /\ UNCHANGED <<form, legacy, acked>>
               /\ list' = Append(list, h) /\ Len(list') >= Len(list)
    BY <2>1, HostAssumption DEF Add, Save, IInv, Kinds, Listed
  <2>2. ASSUME NEW h \in Typed, Replace(h)
        PROVE  /\ at' = "saving" /\ form # None /\ UNCHANGED <<form, legacy, acked>>
               /\ Len(list') >= Len(list)
    BY <2>2 DEF Replace, Save, IInv, Kinds, Listed
  <2>3. ASSUME NEW i \in DOMAIN list, Delete(i)
        PROVE  /\ at' = "removing" /\ form = None /\ UNCHANGED <<form, legacy, acked>>
    BY <2>3 DEF Delete, IInv, Kinds
  <2> QED
    BY <2>1, <2>2, <2>3 DEF Waits
<1>3. /\ CP!IInv' /\ Control' /\ Loading' /\ Saving' /\ list' = l /\ saving' = l
  BY <1>1, <1>2, SaveBegins
<1>4. Kinds'
  <2>1. form' \in {None} \union 0..Len(list')
    BY <1>2, <1>3 DEF IInv, Kinds, Listed
  <2> QED
    BY <1>2, <1>3, <2>1 DEF IInv, Kinds, Waits
<1> QED
  BY <1>3, <1>4 DEF IInv

\* The steps of the program that leave the file and the list alone.
LEMMA QuietKeeps ==
    ASSUME IInv, FinishImport \/ FinishForm \/ FinishRemove \/ OpenForm \/ CancelForm
    PROVE  IInv'
<1>1. /\ UNCHANGED <<disk, pc, text, got, ret, list, legacy, saving>> /\ pc = "idle"
      /\ CP!IInv'
  BY FilesKept DEF IInv, Control, FinishImport, FinishForm, FinishRemove, OpenForm,
     CancelForm, Saved, history, fileVars
<1>2. CASE FinishImport \/ FinishForm \/ FinishRemove
  <2>1. at \in Waits /\ acked' = IF ret = "ok" THEN saving ELSE acked
    BY <1>2 DEF FinishImport, FinishForm, FinishRemove, Saved, Waits
  <2>2. acked' \in {None} \union Listed
    BY <1>1, <2>1 DEF IInv, Kinds, Saving
  <2>3. /\ at' \in {"list", "form"} /\ form' \in {form, None}
        /\ form' # None <=> at' = "form"
    BY <1>2, HostAssumption
       DEF FinishImport, FinishForm, FinishRemove, Saved, IInv, Kinds
  <2>4. Kinds'
    BY <1>1, <2>2, <2>3 DEF IInv, Kinds
  <2> QED
    BY <1>1, <2>3, <2>4 DEF IInv, Control, Loading, Saving, Waits, CP!Reading, CP!Writing
<1>3. CASE OpenForm \/ CancelForm
  <2>1. /\ at' \in {"list", "form"} /\ form' \in {None} \union 0..Len(list)
        /\ form' # None <=> at' = "form"
    BY <1>3, HostAssumption DEF OpenForm, CancelForm, IInv, Kinds, Listed
  <2>2. acked' = acked
    BY <1>3 DEF OpenForm, CancelForm, history
  <2>3. Kinds'
    BY <1>1, <2>1, <2>2 DEF IInv, Kinds
  <2> QED
    BY <1>1, <2>1, <2>3 DEF IInv, Control, Loading, Saving, Waits, CP!Reading, CP!Writing
<1> QED
  BY <1>2, <1>3

LEMMA PowerLossKeeps == ASSUME IInv, PowerLoss PROVE IInv'
<1>1. CP!PowerLoss
  BY SameCard DEF PowerLoss
<1>2. CP!IInv'
  BY <1>1, CardKept DEF IInv, CP!Next
<1>3. <<>> \in Listed
  BY HostAssumption DEF Listed
<1> QED
  BY <1>1, <1>2, <1>3 DEF PowerLoss, CP!PowerLoss, IInv, Kinds, Control, Loading,
     Saving, Waits, history, CP!Writing, CP!Reading

\* What any card at all is read as.
LEMMA OnFileShape ==
    ASSUME NEW f \in Seq(Chunk) \union {Absent}
    PROVE  OnFile(f) \in Listed /\ AllTaken(OnFile(f))
<1>1. <<>> \in Listed /\ AllTaken(<<>>)
  BY HostAssumption DEF Listed, AllTaken
<1> QED
  BY <1>1, DecodeShape DEF OnFile

LEMMA InitKeeps == Init => IInv
<1> SUFFICES ASSUME Init PROVE IInv
  OBVIOUS
<1>1. CP!Init /\ CP!IInv
  BY Assumed, CP!InitIInv, SameCard DEF Init
<1>2. disk["path"] \in Seq(Chunk) \union {Absent} /\ pc = "off"
  BY <1>1, CardAssumption DEF CP!Init
<1>3. acked \in {None} \union Listed
  BY <1>2, OnFileShape DEF Init
<1>4. <<>> \in Listed
  BY HostAssumption DEF Listed
<1> QED
  BY <1>1, <1>2, <1>3, <1>4
     DEF Init, IInv, Kinds, Control, Loading, Saving, Waits, CP!Writing, CP!Reading

LEMMA NextKeeps == IInv /\ [Next]_vars => IInv'
<1> SUFFICES ASSUME IInv, [Next]_vars PROVE IInv'
  OBVIOUS
<1>1. CASE UNCHANGED vars
  <2>1. CP!IInv'
    BY <1>1, FilesKept DEF vars, IInv
  <2> QED
    BY <1>1, <2>1 DEF vars, fileVars, memVars, history, IInv, Kinds, Control, Loading,
       Saving
<1> QED
  BY <1>1, CardStepKeeps, LoadKeeps, ImportKeeps, ChangeKeeps, QuietKeeps,
     PowerLossKeeps DEF Next

LEMMA Inductive == Spec => []IInv
BY InitKeeps, NextKeeps, PTL DEF Spec

\* Every variable keeps its type, whatever the card held and whatever fails; in
\* particular the list never outgrows HOSTS_MAX, and the form is on an entry of it.
THEOREM TypeCorrect == Spec => []TypeOK
<1>1. IInv => TypeOK
  BY SameCard DEF IInv, CP!IInv, Kinds, Control, TypeOK, HostLists, Listed
<1> QED
  BY <1>1, Inductive, PTL

-----------------------------------------------------------------------------
(* The saved list.                                                          *)

\* A save that has come to an end or been cut off leaves something to read.
LEMMA SaveInPlace ==
    ASSUME IInv, KInv, CP!Step, pc \in CP!Writing, acked # None, ~Exposed,
           UNCHANGED <<at, acked, saving>>
    PROVE  InPlace' /\ Beside'
<1> USE DEF IInv, CP!IInv, CP!TypeOK, KInv
<1>0. /\ at \in Waits /\ text = Encode(saving) /\ saving \in Listed /\ saving # None
      /\ OnFile(Encode(saving)) = saving
  <2>1. saving \in Listed /\ saving # None
    BY HostAssumption DEF Saving, Listed
  <2> QED
    BY <2>1, RoundTrip DEF Kinds, Control, Saving, Clean, Waits, CP!Writing, CP!Reading
<1>a. disk["path"] # Absent => OnFile(disk["path"]) = acked
  BY <1>0 DEF InPlace, CP!Writing
<1>b. pc # "rename" => disk["path"] # Absent
  BY DEF Beside, CP!Writing, CP!Reading
<1>1. CASE disk'["path"] = disk["path"] /\ disk["path"] # Absent
  BY <1>0, <1>1, <1>a DEF InPlace, Beside, Waits
<1>2. CASE CP!OpenTemp \/ CP!WriteSome \/ CP!Discard
  <2>1. disk'["path"] = disk["path"] /\ pc # "rename"
    BY <1>2 DEF CP!OpenTemp, CP!WriteSome, CP!Discard
  <2> QED
    BY <1>1, <1>b, <2>1
<1>3. CASE CP!OpenTempFails \/ CP!WriteFails \/ CP!CloseTemp
  <2>1. disk' = disk /\ pc # "rename"
    BY <1>3 DEF CP!OpenTempFails, CP!WriteFails, CP!CloseTemp
  <2> QED
    BY <1>1, <1>b, <2>1
<1>4. CASE CP!RenameNewFails
  <2>1. disk' = disk /\ disk["path"] # Absent
    BY <1>4 DEF CP!RenameNewFails, Exposed
  <2> QED
    BY <1>1, <2>1
<1>5. CASE CP!RemoveOld
  <2>1. /\ disk'["temp"] = disk["temp"] /\ disk'["path"] \in {disk["path"], Absent}
        /\ disk["temp"] = text /\ pc' = "rename" /\ disk["path"] # Absent
    BY <1>5, <1>b DEF CP!RemoveOld, CP!TempWhole
  <2>2. CASE disk'["path"] = Absent
    BY <1>0, <2>1, <2>2 DEF InPlace, Beside, Waits
  <2> QED
    BY <1>1, <2>1, <2>2
<1>6. CASE CP!RenameNew
  <2>1. /\ disk'["path"] = text /\ text # Absent /\ pc' = "idle" /\ ret' = "ok"
    BY <1>6 DEF CP!RenameNew, CP!RenameWorks, CP!Moved, CP!TempWhole, CP!Return
  <2> QED
    BY <1>0, <2>1 DEF InPlace, Beside, Waits
<1>7. ~CP!ReadPath /\ ~CP!ReadTemp /\ ~CP!Recover
  BY DEF CP!ReadPath, CP!ReadTemp, CP!Recover, CP!Writing
<1> QED
  BY <1>2, <1>3, <1>4, <1>5, <1>6, <1>7 DEF CP!Step

\* A load loses nothing of it, unless its own rename fails.
LEMMA LoadInPlace ==
    ASSUME IInv, KInv, CP!Step, pc \in CP!Reading, acked # None, ~Exposed,
           UNCHANGED <<at, acked, saving>>
    PROVE  InPlace' /\ Beside'
<1> USE DEF IInv, CP!IInv, CP!TypeOK, KInv
<1>0. at = "loading" /\ at' = "loading"
  BY DEF Kinds, Control, Waits, CP!Writing, CP!Reading
<1>1. CASE CP!ReadPath
  <2>1. disk' = disk /\ (pc' = "readTemp" \/ disk["path"] # Absent)
    BY <1>1 DEF CP!ReadPath, CP!Unreadable, CP!ReadWhole
  <2> QED
    BY <1>0, <2>1 DEF InPlace, Beside, Waits, CP!Reading
<1>2. CASE CP!ReadTemp
  <2>1. disk' = disk /\ (pc' = "recover" \/ (pc' = "idle" /\ ret' = "missing"))
    BY <1>2 DEF CP!ReadTemp, CP!Return
  <2> QED
    BY <1>0, <2>1 DEF InPlace, Beside, Waits, CP!Reading
<1>3. CASE CP!Recover
  <2>1. CASE CP!RenameWorks /\ disk' = CP!Moved
    <3>1. /\ disk'["path"] = disk["temp"] /\ disk["temp"] # Absent
          /\ disk["path"] = Absent
      BY <2>1 DEF CP!RenameWorks, CP!Moved
    <3>2. saving # None /\ disk["temp"] = Encode(saving)
      BY <3>1 DEF Beside
    <3>3. OnFile(Encode(saving)) = saving
      BY <3>2, RoundTrip DEF Clean, Kinds
    <3> QED
      BY <1>0, <3>1, <3>2, <3>3 DEF InPlace, Beside, Waits
  <2>2. CASE disk' = disk
    <3>1. disk["path"] # Absent
      BY <1>3, <2>2 DEF CP!Recover, Exposed
    <3> QED
      BY <1>0, <2>2, <3>1 DEF InPlace, Beside, Waits
  <2> QED
    BY <1>3, <2>1, <2>2 DEF CP!Recover
<1>4. pc \notin {"openTemp", "write", "discard", "removeOld", "rename"}
  BY DEF CP!Reading
<1> QED
  BY <1>1, <1>2, <1>3, <1>4 DEF CP!Step, CP!OpenTemp, CP!OpenTempFails, CP!WriteSome,
     CP!WriteFails, CP!Discard, CP!CloseTemp, CP!RemoveOld, CP!RenameNew, CP!RenameNewFails

LEMMA CardStepKept == ASSUME IInv, KInv, CardStep PROVE KInv'
<1>1. CP!Step /\ UNCHANGED memVars
  BY SameCard DEF CardStep
<1>2. CASE Exposed
  BY <1>2 DEF CardStep, memVars, KInv, Clean, InPlace, Beside
<1>3. CASE ~Exposed
  <2>1. UNCHANGED <<at, list, acked, saving>>
    BY <1>3 DEF CardStep, memVars, history
  <2>2. Clean'
    BY <2>1 DEF KInv, Clean
  <2>3. CASE acked = None
    BY <2>1, <2>2, <2>3 DEF KInv, InPlace, Beside
  <2>4. CASE acked # None
    BY <1>1, <1>3, <2>1, <2>2, <2>4, StepOf, SaveInPlace, LoadInPlace DEF KInv
  <2> QED
    BY <2>3, <2>4
<1> QED
  BY <1>2, <1>3

\* The array that is loaded is what the card holds, if that is what was read.
LEMMA LoadKept == ASSUME IInv, KInv, StartLoad \/ FinishLoad PROVE KInv'
<1> USE DEF KInv
<1>1. CASE StartLoad
  <2>1. /\ UNCHANGED <<disk, list, acked, saving>> /\ pc' = "readPath" /\ at' = "loading"
    BY <1>1 DEF StartLoad, Card!BeginRead, history
  <2> QED
    BY <2>1 DEF Clean, InPlace, Beside, Waits, CP!Reading
<1>2. CASE FinishLoad
  <2>0. /\ at = "loading" /\ pc = "idle" /\ ret # "missing" /\ at' = "list"
        /\ UNCHANGED <<disk, pc, ret>>
    BY <1>2 DEF FinishLoad
  <2>1. Clean'
    <3>1. CASE ret = "ok"
      <4>1. got \in Seq(Chunk)
        BY <1>2, <3>1 DEF FinishLoad, IInv, CP!IInv, CP!TypeOK, CP!File, Loading
      <4> QED
        BY <1>2, <3>1, <4>1, DecodeShape DEF FinishLoad, Clean
    <3>2. CASE ret # "ok"
      BY <1>2, <3>2 DEF FinishLoad, Clean, AllTaken
    <3> QED
      BY <3>1, <3>2
  <2>2. CASE acked' = None
    BY <2>1, <2>2 DEF InPlace, Beside
  <2>3. CASE acked' # None
    <3>1. ~Missed
      BY <1>2, <2>3 DEF FinishLoad
    <3>2. disk["path"] # Absent
      <4> SUFFICES ASSUME disk["path"] = Absent
                   PROVE  FALSE
        OBVIOUS
      <4>1. acked' = acked
        BY <1>2, <3>1 DEF FinishLoad
      <4> QED
        BY <2>0, <2>3, <4>1 DEF Beside, CP!Reading
    <3>3. ret = "ok" /\ got = disk["path"]
      BY <3>1, <3>2 DEF Missed, Card!Recoverable
    <3>4. got # Absent /\ Len(got) < MaxLen /\ got \in Seq(Chunk)
      BY <2>0, <3>3 DEF IInv, CP!IInv, CP!TypeOK, CP!File, Loading
    <3>5. OnFile(disk["path"]) = Decode(got)
      BY <3>3, <3>4, HostAssumption DEF OnFile
    <3>6. acked' = Decode(got)
      BY <1>2, <3>1, <3>2, <3>3 DEF FinishLoad
    <3> QED
      BY <2>0, <2>1, <3>2, <3>5, <3>6 DEF InPlace, Beside, Waits
  <2> QED
    BY <2>2, <2>3
<1> QED
  BY <1>1, <1>2

\* Only what could not be read, or was not there, makes the old file be looked at.
LEMMA ImportForgets == ASSUME IInv, KInv, Import PROVE acked' = None
<1>1. CASE Missed
  BY <1>1 DEF Import
<1>2. CASE ~Missed
  <2>1. ret = "missing" /\ acked' = acked
    BY <1>2 DEF Import
  <2>2. disk["path"] = Absent /\ disk["temp"] = Absent
    BY <1>2, <2>1 DEF Missed, Card!Recoverable
  <2>3. acked = None
    <3> SUFFICES ASSUME acked # None
                 PROVE  FALSE
      OBVIOUS
    <3>1. saving \in Listed /\ Encode(saving) = Absent
      BY <2>2 DEF KInv, Beside, IInv, Kinds
    <3> QED
      BY <3>1, EncodeShape, CardAssumption DEF Listed
  <2> QED
    BY <2>1, <2>3
<1> QED
  BY <1>1, <1>2

LEMMA ImportKept == ASSUME NoHash, IInv, KInv, Import PROVE KInv'
<1>1. acked' = None
  BY ImportForgets
<1>2. Clean'
  <2>1. CASE Save(<<legacy>>) /\ legacy # None /\ legacy.name \notin Unusable
    <3>1. list' = <<legacy>> /\ saving' = <<legacy>>
      BY <2>1 DEF Save
    <3>2. Taken(legacy)
      BY <2>1 DEF NoHash, IInv, Kinds, Taken
    <3>3. AllTaken(<<legacy>>)
      BY <3>2 DEF AllTaken
    <3> QED
      BY <3>1, <3>3 DEF Clean
  <2>2. CASE saving' \in {None, saving} /\ UNCHANGED list
    BY <2>2 DEF KInv, Clean
  <2> QED
    BY <2>1, <2>2 DEF Import
<1> QED
  BY <1>1, <1>2 DEF KInv, InPlace, Beside

\* A change of the list is of a list that is in place.
LEMMA ChangeKept ==
    ASSUME NoHash, IInv, KInv,
           \/ \E h \in Typed : Add(h) \/ Replace(h)
           \/ \E i \in DOMAIN list : Delete(i)
    PROVE  KInv'
<1> USE DEF KInv
<1>0. /\ list \in Seq(Host) /\ AllTaken(list)
      /\ \A h \in Typed : h \in Host /\ Taken(h) /\ h # None
  BY HostAssumption DEF IInv, Kinds, Listed, Clean, NoHash, Taken
<1>1. PICK l : Save(l) /\ AllTaken(l)
  <2>1. ASSUME NEW h \in Typed, Add(h)
        PROVE  AllTaken(Append(list, h))
    <3>1. Append(list, h) \in Seq(Host) /\ Len(Append(list, h)) = Len(list) + 1
      BY <1>0
    <3>2. ASSUME NEW i \in 1 .. Len(list) + 1
          PROVE  Taken(Append(list, h)[i])
      <4>1. CASE i = Len(list) + 1
        BY <1>0, <4>1
      <4>2. CASE i # Len(list) + 1
        <5>1. i \in 1..Len(list) /\ Append(list, h)[i] = list[i]
          BY <1>0, <4>2
        <5> QED
          BY <1>0, <5>1 DEF AllTaken
      <4> QED
        BY <4>1, <4>2
    <3> QED
      BY <3>1, <3>2 DEF AllTaken
  <2>2. ASSUME NEW h \in Typed, Replace(h)
        PROVE  AllTaken([list EXCEPT ![form] = h])
    <3>1. form \in 1..Len(list)
      BY <2>2 DEF Replace, IInv, Kinds
    <3>2. /\ Len([list EXCEPT ![form] = h]) = Len(list)
          /\ \A i \in 1..Len(list) :
                 [list EXCEPT ![form] = h][i] = IF i = form THEN h ELSE list[i]
      BY <1>0, <3>1
    <3> QED
      BY <1>0, <3>2 DEF AllTaken
  <2>3. ASSUME NEW i \in DOMAIN list
        PROVE  AllTaken(RemoveAt(list, i))
    <3>1. i \in 1..Len(list)
      BY <1>0
    <3>2. /\ Len(RemoveAt(list, i)) = Len(list) - 1
          /\ \A j \in 1 .. Len(list) - 1 :
                 RemoveAt(list, i)[j] = IF j < i THEN list[j] ELSE list[j + 1]
      BY <1>0, <3>1, Removed
    <3>3. \A j \in 1 .. Len(list) - 1 : j \in 1..Len(list) /\ j + 1 \in 1..Len(list)
      BY <1>0
    <3> QED
      BY <1>0, <3>2, <3>3 DEF AllTaken
  <2> QED
    BY <2>1, <2>2, <2>3 DEF Add, Replace, Delete
<1>2. list' = l /\ saving' = l /\ UNCHANGED disk /\ pc' = "openTemp" /\ pc = "idle"
  BY <1>1 DEF Save, Card!BeginWrite
<1>3. at \in {"list", "form"} /\ at' \in Waits /\ acked' = acked
  BY DEF Add, Replace, Delete, Waits, IInv, Kinds
<1>4. Clean'
  BY <1>1, <1>2 DEF Clean
<1>5. acked # None => disk["path"] # Absent /\ OnFile(disk["path"]) = acked
  BY <1>2, <1>3 DEF InPlace, Beside, CP!Reading
<1> QED
  BY <1>2, <1>3, <1>4, <1>5 DEF InPlace, Beside, Waits

\* hosts.c answers 0 for a list that is in place, and -1 for one that is not.
LEMMA QuietKept ==
    ASSUME IInv, KInv,
           FinishImport \/ FinishForm \/ FinishRemove \/ OpenForm \/ CancelForm
    PROVE  KInv'
<1> USE DEF KInv
<1>1. UNCHANGED <<disk, pc, ret, list, saving>> /\ pc = "idle"
  BY DEF IInv, Control, FinishImport, FinishForm, FinishRemove, OpenForm, CancelForm,
     Saved, history, fileVars
<1>2. Clean' /\ at' \in {"list", "form"}
  BY <1>1 DEF Clean, FinishImport, FinishForm, FinishRemove, OpenForm, CancelForm
<1>3. CASE FinishImport \/ FinishForm \/ FinishRemove
  <2>1. at \in Waits /\ acked' = IF ret = "ok" THEN saving ELSE acked
    BY <1>3 DEF FinishImport, FinishForm, FinishRemove, Saved, Waits
  <2>2. CASE ret = "ok"
    <3>1. saving \in Listed /\ disk["path"] = Encode(saving)
      BY <1>1, <2>1, <2>2 DEF IInv, Saving
    <3>2. saving # None /\ AllTaken(saving)
      BY <3>1, HostAssumption DEF Listed, Clean
    <3>3. OnFile(disk["path"]) = saving
      BY <3>1, <3>2, RoundTrip
    <3>4. disk["path"] # Absent
      BY <3>1, EncodeShape, CardAssumption DEF Listed
    <3> QED
      BY <1>1, <1>2, <2>1, <2>2, <3>3, <3>4 DEF InPlace, Beside, Waits
  <2>3. CASE ret # "ok"
    BY <1>1, <1>2, <2>1, <2>3 DEF InPlace, Beside, Waits, CP!Reading
  <2> QED
    BY <2>2, <2>3
<1>4. CASE OpenForm \/ CancelForm
  <2>1. at \in {"list", "form"} /\ acked' = acked
    BY <1>4 DEF OpenForm, CancelForm, history
  <2> QED
    BY <1>1, <1>2, <2>1 DEF InPlace, Beside, Waits
<1> QED
  BY <1>3, <1>4

LEMMA PowerLossKept == ASSUME IInv, KInv, PowerLoss PROVE KInv'
<1>1. UNCHANGED <<disk, acked, saving>> /\ pc' = "off" /\ at' = "off" /\ list' = <<>>
  BY DEF PowerLoss, Card!PowerLoss, history
<1>2. AllTaken(<<>>)
  BY DEF AllTaken
<1> QED
  BY <1>1, <1>2 DEF KInv, Clean, InPlace, Beside, Waits

LEMMA KInductive == ASSUME NoHash PROVE Spec => []KInv
<1>1. Init => KInv
  BY DEF Init, Card!Init, KInv, Clean, AllTaken, InPlace, Beside, Waits
<1>2. IInv /\ KInv /\ [Next]_vars => KInv'
  <2> SUFFICES ASSUME IInv, KInv, [Next]_vars PROVE KInv'
    OBVIOUS
  <2>1. CASE UNCHANGED vars
    BY <2>1 DEF vars, fileVars, memVars, history, KInv, Clean, InPlace, Beside
  <2> QED
    BY <2>1, NoHash, CardStepKept, LoadKept, ImportKept, ChangeKept, QuietKept,
       PowerLossKept DEF Next
<1> QED
  BY <1>1, <1>2, Inductive, PTL DEF Spec

\* Once a list has been saved or loaded with success, what the card holds reads
\* as that list or as the whole of a later one a save was given, wherever the
\* battery is pulled and whichever call fails - until a load cannot read it or a
\* rename fails (hosts.c over cardfile.c, for hosts whose name does not begin
\* with '#').
THEOREM NoServerLost == ASSUME NoHash PROVE Spec => []SavedListKept
<1>1. IInv /\ KInv => SavedListKept
  <2> SUFFICES ASSUME IInv, KInv, acked # None
               PROVE  OnFile(Card!Recoverable) \in {acked, saving}
    BY DEF SavedListKept
  <2>1. CASE disk["path"] # Absent
    BY <2>1 DEF KInv, InPlace, Card!Recoverable
  <2>2. CASE disk["path"] = Absent
    <3>1. saving # None /\ disk["temp"] = Encode(saving)
      BY <2>2 DEF KInv, Beside
    <3>2. OnFile(Encode(saving)) = saving
      BY <3>1, RoundTrip DEF KInv, Clean, IInv, Kinds
    <3> QED
      BY <2>2, <3>1, <3>2 DEF Card!Recoverable
  <2> QED
    BY <2>1, <2>2
<1> QED
  BY <1>1, Inductive, KInductive, PTL

\* And hosts_load starts the program with that list.
LEMMA StepLoadsSaved ==
    ASSUME IInv, KInv, [Next]_vars, at = "loading", at' \in {"list", "importing"},
           acked # None, acked' # None
    PROVE  list' \in {acked, saving}
<1>1. FinishLoad
  <2>1. ~UNCHANGED vars /\ ~CardStep /\ ~PowerLoss /\ ~StartLoad
    BY DEF vars, memVars, CardStep, PowerLoss, StartLoad
  <2>2. ~Import
    BY ImportForgets
  <2>3. ~FinishImport /\ ~OpenForm /\ ~FinishForm /\ ~CancelForm /\ ~FinishRemove
    BY DEF FinishImport, OpenForm, FinishForm, CancelForm, FinishRemove, Saved
  <2>4. /\ ~ \E h \in Typed : Add(h) \/ Replace(h)
        /\ ~ \E i \in DOMAIN list : Delete(i)
    BY DEF Add, Replace, Delete
  <2> QED
    BY <2>1, <2>2, <2>3, <2>4 DEF Next
<1>2. ~Missed
  BY <1>1 DEF FinishLoad
<1>3. disk["path"] # Absent
  BY <1>1 DEF FinishLoad, KInv, Beside, CP!Reading
<1>4. ret = "ok" /\ got = disk["path"]
  BY <1>2, <1>3 DEF Missed, Card!Recoverable
<1>5. got # Absent /\ Len(got) < MaxLen /\ got \in Seq(Chunk)
  BY <1>1, <1>4 DEF FinishLoad, IInv, CP!IInv, CP!TypeOK, CP!File, Loading
<1>6. OnFile(disk["path"]) = Decode(got) /\ list' = Decode(got)
  BY <1>1, <1>4, <1>5, HostAssumption DEF OnFile, FinishLoad
<1> QED
  BY <1>3, <1>6 DEF KInv, InPlace

THEOREM StartsWithSaved == ASSUME NoHash PROVE Spec => LoadsSavedList
<1>1. IInv /\ KInv /\ [Next]_vars
         => [(/\ at = "loading" /\ at' \in {"list", "importing"}
              /\ acked # None /\ acked' # None)
                 => list' \in {acked, saving}]_vars
  BY StepLoadsSaved
<1> QED
  BY <1>1, Inductive, KInductive, PTL DEF Spec, LoadsSavedList

=============================================================================
