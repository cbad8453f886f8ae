----------------------------- MODULE KnownHosts -----------------------------
(***************************************************************************)
(* The host keys this device has seen: src/psp/knownhosts.c, with the one  *)
(* caller that asks about them, check_hostkey in src/psp/main.c, and the   *)
(* file they are kept in (CardFile, whose every sceIo call is a step here, *)
(* so that the battery may be pulled in the middle of a save).             *)
(*                                                                         *)
(* A server is an address and a port.  A line of the file is two chunks:   *)
(* what is stored when the card stops somewhere inside the fingerprint,    *)
(* and the rest.  (Stopping earlier in the line leaves a record that       *)
(* take_line drops, which is the file that stops before the line.)         *)
(***************************************************************************)
EXTENDS SequencesExt

CONSTANTS
    Server,     \* the addresses and ports in the host list
    Key,        \* the fingerprints a server may present
    Cut,        \* a fingerprint of which the end is missing
    None,       \* knownhosts_lookup's NULL
    KnownMax,   \* KNOWN_MAX
    MaxLen, OnCard, Faults, Absent      \* see CardFile

ASSUME KnownAssumption ==
    /\ KnownMax \in Nat \ {0}
    /\ MaxLen \in Nat
    /\ MaxLen > 2 * KnownMax     \* FILE_MAX holds KNOWN_MAX longest lines
    /\ Cut \notin Key /\ None \notin Key \union {Cut}

VARIABLES
    disk, pc, text, written, got, ret,  \* the file and the call on it
    entries,    \* the remembered keys in memory
    at,         \* where the program is
    check,      \* the last call of check_hostkey, and what came of it
    loaded,     \* what knownhosts_load returned: 0, -1, or nothing yet
    confirmed,  \* history: the keys the user has said "yes" to, by server
    pinned,     \* history: the key last remembered with success, per server
    standing    \* history: the keys given to knownhosts_remember, by server,
                \* of servers that were not forgotten with success since

fileVars == <<disk, pc, text, written, got, ret>>
memVars  == <<entries, at, check, loaded>>
history  == <<confirmed, pinned, standing>>
vars     == <<fileVars, memVars, history>>

Stored == Key \union {Cut}
Entry  == [server : Server, key : Stored]
Chunk  == [server : Server, key : Stored, part : {"head", "tail"}]

Card == INSTANCE CardFile WITH Texts <- Seq(Chunk)

ASSUME CardAssumption ==
    /\ Faults \subseteq Card!FaultKinds
    /\ OnCard \subseteq Seq(Chunk) \union {Absent}
    /\ Absent \notin Seq(Chunk)

-----------------------------------------------------------------------------
(* The file format. *)

\* Mutant: the last entry not written.
EncodeAllButLast(list) ==
    [i \in 1 .. 2 * (Len(list) - 1) |->
        [server |-> list[(i + 1) \div 2].server,
         key    |-> list[(i + 1) \div 2].key,
         part   |-> IF i % 2 = 1 THEN "head" ELSE "tail"]]

\* save: one line per entry.
Encode(list) ==
    [i \in 1 .. 2 * Len(list) |->
        [server |-> list[(i + 1) \div 2].server,
         key    |-> list[(i + 1) \div 2].key,
         part   |-> IF i % 2 = 1 THEN "head" ELSE "tail"]]

\* knownhosts_load and take_line: as many lines as there is room for; a last
\* line that stops in its fingerprint is still a line.
Decode(file) ==
    LET lines == (Len(file) + 1) \div 2
    IN  [i \in 1 .. IF lines <= KnownMax THEN lines ELSE KnownMax |->
            [server |-> file[2 * i - 1].server,
             key    |-> IF 2 * i <= Len(file) THEN file[2 * i].key ELSE Cut]]

-----------------------------------------------------------------------------
(* find, knownhosts_lookup, and the two changes to the array. *)

Places(list, s) == {i \in DOMAIN list : list[i].server = s}
First(list, s)  == Min(Places(list, s))

LookupIn(list, s) ==
    IF Places(list, s) = {} THEN None ELSE list[First(list, s)].key

Lookup(s) == LookupIn(entries, s)

Remember(list, s, k) ==
    IF Places(list, s) # {}
    THEN [list EXCEPT ![First(list, s)].key = k]
    ELSE Append(list, [server |-> s, key |-> k])

\* Mutants: the array shifted but not shortened; the wrong place removed.
ForgetWithoutCount(list, s) ==
    [i \in DOMAIN list |->
        IF i >= First(list, s) /\ i < Len(list) THEN list[i + 1] ELSE list[i]]

ForgetNext(list, s) ==
    RemoveAt(list, IF First(list, s) = Len(list) THEN 1 ELSE First(list, s) + 1)

Forget(list, s) == RemoveAt(list, First(list, s))

-----------------------------------------------------------------------------
\* A file that can be read is taken for true; the user has seen none of it
\* here, but did when it was written.
OnFile(file) == IF file = Absent \/ Len(file) >= MaxLen THEN <<>> ELSE Decode(file)

Init ==
    /\ Card!Init
    /\ entries = <<>>
    /\ at = "off"
    /\ check = [server |-> None, key |-> None, answer |-> "none"]
    /\ loaded = "none"
    /\ LET file == OnFile(disk["path"]) IN
        /\ confirmed = {p \in Server \X Key : \E i \in DOMAIN file :
               file[i] = [server |-> p[1], key |-> p[2]]}
        /\ pinned = [s \in Server |-> LookupIn(file, s)]
    /\ standing = confirmed

\* main calls knownhosts_load before anything else.
StartLoad ==
    /\ Card!BeginRead
    /\ at' = "loading"
    /\ UNCHANGED <<entries, check, loaded, history>>

\* The call on the file that is in progress goes one sceIo call further.
CardStep ==
    /\ Card!Step
    /\ UNCHANGED <<memVars, history>>

\* The rest of knownhosts_load.  On -1 main shows a message and carries on.
FinishLoad ==
    /\ at = "loading"
    /\ pc = "idle"
    /\ entries' = IF ret = "ok" THEN Decode(got) ELSE <<>>
    /\ got' = Absent            \* the buffer is parsed in place
    /\ loaded' = IF ret = "unreadable" THEN "-1" ELSE "0"
    /\ at' = "list"
    /\ UNCHANGED <<disk, pc, text, written, ret, check, history>>

-----------------------------------------------------------------------------
(* check_hostkey: server s presents the key k during a handshake. *)

Verdict(s, k, answer) == check' = [server |-> s, key |-> k, answer |-> answer]

KeyKnown(s, k) ==
    /\ at = "list"
    /\ Lookup(s) = k
    /\ Verdict(s, k, "known")
    /\ UNCHANGED <<fileVars, entries, at, loaded, history>>

\* Mutants: a server never seen taken for one that changed; "continue anyway".
KeyChangedUnseen(s, k) ==
    /\ at = "list"
    /\ Lookup(s) # k
    /\ Verdict(s, k, "changed")
    /\ UNCHANGED <<fileVars, entries, at, loaded, history>>

KeyChangedAccepted(s, k) ==
    /\ at = "list"
    /\ Lookup(s) \notin {None, k}
    /\ Verdict(s, k, "accepted")
    /\ UNCHANGED <<fileVars, entries, at, loaded, history>>

KeyChanged(s, k) ==
    /\ at = "list"
    /\ Lookup(s) \notin {None, k}
    /\ Verdict(s, k, "changed")
    /\ UNCHANGED <<fileVars, entries, at, loaded, history>>

KeyNew(s, k) ==
    /\ at = "list"
    /\ Lookup(s) = None
    /\ Verdict(s, k, "asking")
    /\ at' = "asking"
    /\ UNCHANGED <<fileVars, entries, loaded, history>>

Decline ==
    /\ at = "asking"
    /\ Verdict(check.server, check.key, "declined")
    /\ at' = "list"
    /\ UNCHANGED <<fileVars, entries, loaded, history>>

\* Mutant: no check that there is room.
ConfirmAnyRoom ==
    LET s == check.server
        k == check.key
        new == Remember(entries, s, k)
    IN  /\ at = "asking"
        /\ entries' = new
        /\ Card!BeginWrite(Encode(new))
        /\ at' = "remembering"
        /\ confirmed' = confirmed \union {<<s, k>>}
        /\ standing' = standing \union {<<s, k>>}
        /\ UNCHANGED <<check, loaded, pinned>>

\* "yes", and knownhosts_remember up to the sceIo calls of its save.
Confirm ==
    LET s == check.server
        k == check.key
        new == Remember(entries, s, k)
    IN  /\ at = "asking"
        /\ Places(entries, s) # {} \/ Len(entries) < KnownMax
        /\ entries' = new
        /\ Card!BeginWrite(Encode(new))
        /\ at' = "remembering"
        /\ confirmed' = confirmed \union {<<s, k>>}
        /\ standing' = standing \union {<<s, k>>}
        /\ UNCHANGED <<check, loaded, pinned>>

\* "yes", but there is no room to remember another server: accepted anyway.
ConfirmFull ==
    /\ at = "asking"
    /\ Places(entries, check.server) = {} /\ Len(entries) >= KnownMax
    /\ Verdict(check.server, check.key, "accepted")
    /\ confirmed' = confirmed \union {<<check.server, check.key>>}
    /\ at' = "list"
    /\ UNCHANGED <<fileVars, entries, loaded, pinned, standing>>

\* The save is over; accepted whether or not it worked.
FinishRemember ==
    /\ at = "remembering"
    /\ pc = "idle"
    /\ Verdict(check.server, check.key, "accepted")
    /\ pinned' = IF ret = "ok" THEN [pinned EXCEPT ![check.server] = check.key]
                 ELSE pinned
    /\ at' = "list"
    /\ UNCHANGED <<fileVars, entries, loaded, confirmed, standing>>

-----------------------------------------------------------------------------
(* knownhosts_forget, from the host list: SELECT, then "yes".  The list asks *)
(* only when there is a key to forget (ui.c).                                *)

StartForget(s) ==
    /\ at = "list"
    /\ Places(entries, s) # {}
    /\ LET new == Forget(entries, s)
       IN  entries' = new /\ Card!BeginWrite(Encode(new))
    /\ at' = "forgetting"
    /\ check' = [server |-> s, key |-> None, answer |-> "none"]
    /\ pinned' = [pinned EXCEPT ![s] = None]
    /\ UNCHANGED <<loaded, confirmed, standing>>

FinishForget ==
    /\ at = "forgetting"
    /\ pc = "idle"
    /\ standing' = IF ret = "ok" THEN {p \in standing : p[1] # check.server} ELSE standing
    /\ at' = "list"
    /\ UNCHANGED <<fileVars, entries, check, loaded, confirmed, pinned>>

-----------------------------------------------------------------------------
\* The battery is pulled, or the program is left and started again later.
PowerLoss ==
    /\ Card!PowerLoss
    /\ at' = "off"
    /\ entries' = <<>>
    /\ check' = [server |-> None, key |-> None, answer |-> "none"]
    /\ loaded' = "none"
    /\ UNCHANGED history

Next ==
    \/ StartLoad \/ CardStep \/ FinishLoad
    \/ \E s \in Server, k \in Key : KeyKnown(s, k) \/ KeyChanged(s, k) \/ KeyNew(s, k)
    \/ Decline \/ Confirm \/ ConfirmFull \/ FinishRemember
    \/ \E s \in Server : StartForget(s)
    \/ FinishForget
    \/ PowerLoss

Spec == Init /\ [][Next]_vars

-----------------------------------------------------------------------------
(* Properties *)

InMemory  == at \notin {"off", "loading"}
InFile(s) == LookupIn(OnFile(Card!Recoverable), s)

TypeOK ==
    /\ Card!TypeOK
    /\ entries \in Seq(Entry) /\ Len(entries) <= KnownMax
    /\ at \in {"off", "loading", "list", "asking", "remembering", "forgetting"}
    /\ check \in [server : Server \union {None}, key : Key \union {None},
                  answer : {"none", "asking", "known", "changed", "declined", "accepted"}]
    /\ loaded \in {"none", "0", "-1"}
    /\ confirmed \subseteq Server \X Key
    /\ pinned \in [Server -> Stored \union {None}]
    /\ standing \subseteq Server \X Key
    /\ pc = "off" <=> at = "off"

\* A connection is let through only to a server whose very key the user once
\* said "yes" to (check_hostkey), whatever was torn, lost or failed before: no
\* damage to the file turns into trust in a key nobody has seen.
AcceptedWasConfirmed ==
    check.answer \in {"known", "accepted"}
        => <<check.server, check.key>> \in confirmed

\* "The host key changed" is never said of the key that was last remembered
\* with success; and only if another key of that server was given to be
\* remembered after it was last forgotten with success.  An alarm that is wrong
\* "teaches people to click through it" (knownhosts.c, take_line).  (It may be
\* said of a key the user said "yes" to when neither that save nor the one of the
\* forget before it worked: the card still has the old key.)
NoFalseAlarm ==
    check.answer = "changed" =>
        /\ pinned[check.server] # check.key
        /\ \E k \in Key \ {check.key} : <<check.server, k>> \in standing

\* A key that knownhosts_remember said 0 for stays in the file until it is
\* forgotten, over every later save, failed save and restart.
KeepsInFile == \A s \in Server : pinned[s] # None => InFile(s) = pinned[s]

\* And it is what the program goes by whenever it is running, so another key
\* from that server is never accepted, nor even asked about.
KeepsInMemory ==
    InMemory => \A s \in Server : pinned[s] # None => Lookup(s) = pinned[s]

\* No server is listed twice, in memory or in what the card holds: find and
\* forget look at the first place only.
NoDuplicates ==
    \A s \in Server : /\ Cardinality(Places(entries, s)) <= 1
                      /\ Cardinality(Places(OnFile(Card!Recoverable), s)) <= 1

\* When a save has answered 0, reading the file back would give the array.
FileIsMemory ==
    (at \in {"remembering", "forgetting"} /\ pc = "idle" /\ ret = "ok")
        => OnFile(disk["path"]) = entries

\* Once knownhosts_forget has saved and answered 0 the server is unknown ("the
\* caller wants the address to be unknown afterwards, and it is",
\* knownhosts.h), like one never remembered, until a key of it is given to be
\* remembered again, over every failed save and restart in between.
ForgetLasts ==
    InMemory => \A s \in Server :
        (\A k \in Key : <<s, k>> \notin standing) => Lookup(s) = None

\* knownhosts_load returns 0 only with everything the card holds (knownhosts.h:
\* "-1 if it exists and could not be read whole").
LoadIsWhole ==
    [][(at = "loading" /\ at' = "list" /\ loaded' = "0")
           => entries' = OnFile(Card!Recoverable)]_vars

\* What cardfile.c promises of any text (see CardFile), of the texts that are
\* saved here, on any card and with any call failing.  A step taken while the
\* file is in place leaves the old contents or the new ones, under one name or
\* the other: no other server's key is lost with them.
NoTear ==
    [][disk["path"] # Absent => Card!Recoverable' \in {Card!Recoverable, text}]_vars

\* A save that answers 0 has left just the array, under the real name.
SaveResult ==
    [][(pc \in Card!Writing /\ ret' = "ok")
           => disk' = [path |-> Encode(entries), temp |-> Absent]]_vars

=============================================================================
