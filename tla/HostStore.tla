------------------------------ MODULE HostStore ------------------------------
(***************************************************************************)
(* The saved servers: src/psp/hosts.c, with what its one caller, the host  *)
(* list and its form in src/psp/ui.c, does to it, and the file they are    *)
(* kept in (CardFile, whose every sceIo call is a step here).              *)
(*                                                                         *)
(* A host is what the properties tell apart of a record: a name (standing  *)
(* for the fields up to the password) and the Wi-Fi profile, the last      *)
(* field of its line.  A line is two chunks: all of it that comes before   *)
(* the profile, and the profile.  A line that stops earlier has fewer than *)
(* six fields and is dropped, as if the file stopped before it.            *)
(***************************************************************************)
EXTENDS SequencesExt

CONSTANTS
    Name,       \* the names on the card and typed on the keyboard
    Comment,    \* those that begin with '#'
    Unusable,   \* those of a record in which hosts_problem finds a problem
    Typed,      \* the hosts the user may enter in the form
    Legacy,     \* the servers pspssh.cfg may hold, None for no such file
    None,
    HostsMax,   \* HOSTS_MAX
    MaxLen, OnCard, Faults, Absent      \* see CardFile

Host  == [name : Name, profile : 0..10]
Chunk == [name : Name, profile : 0..10, part : {"head", "tail"}]

ASSUME HostAssumption ==
    /\ HostsMax \in Nat \ {0}
    /\ MaxLen \in Nat
    /\ MaxLen > 2 * HostsMax         \* FILE_MAX holds HOSTS_MAX longest lines
    /\ Typed \subseteq {h \in Host : h.name \notin Unusable}
    /\ Legacy \subseteq Host \union {None}
    /\ None \notin Host \union Seq(Host) \union Nat

VARIABLES
    disk, pc, text, written, got, ret,  \* the file and the call on it
    list,       \* the entries in memory
    at,         \* where the program is
    form,       \* the entry in the form: its index, 0 if new; None if closed
    legacy,     \* the server in pspssh.cfg, which is never written
    acked,      \* history: the list last saved or loaded with success
    saving      \* history: the list last given to a save; both are forgotten when
                \* nothing can be promised of them any more, see Exposed and Missed

fileVars == <<disk, pc, text, written, got, ret>>
memVars  == <<list, at, form>>
history  == <<acked, saving>>
vars     == <<fileVars, memVars, legacy, history>>

Card == INSTANCE CardFile WITH Texts <- Seq(Chunk)

ASSUME CardAssumption ==
    /\ Faults \subseteq Card!FaultKinds
    /\ OnCard \subseteq Seq(Chunk) \union {Absent}
    /\ Absent \notin Seq(Chunk)

-----------------------------------------------------------------------------
(* The file format. *)

\* save
Encode(hosts) ==
    [i \in 1 .. 2 * Len(hosts) |->
        [name    |-> hosts[(i + 1) \div 2].name,
         profile |-> hosts[(i + 1) \div 2].profile,
         part    |-> IF i % 2 = 1 THEN "head" ELSE "tail"]]

\* parse: a last line that stops before its profile has profile 0, "any".
Lines(file) ==
    [i \in 1 .. (Len(file) + 1) \div 2 |->
        [name    |-> file[2 * i - 1].name,
         profile |-> IF 2 * i <= Len(file) THEN file[2 * i].profile ELSE 0]]

\* take_line
Taken(line) == line.name \notin Comment \union Unusable

\* parse: the lines in order, of which take_line keeps those it takes, while
\* there is room for `max`.
Parsed(line, max) ==
    LET taken[n \in 0..Len(line)] ==
            IF n = 0 THEN <<>>
            ELSE IF Taken(line[n]) /\ Len(taken[n - 1]) < max
                 THEN Append(taken[n - 1], line[n])
                 ELSE taken[n - 1]
    IN  taken[Len(line)]

\* Mutant: the array filled up to one place before its end.
DecodeOneShort(file) == Parsed(Lines(file), HostsMax - 1)

Decode(file) == Parsed(Lines(file), HostsMax)

OnFile(file) == IF file = Absent \/ Len(file) >= MaxLen THEN <<>> ELSE Decode(file)

-----------------------------------------------------------------------------
Init ==
    /\ Card!Init
    /\ list = <<>>
    /\ at = "off"
    /\ form = None
    /\ legacy \in Legacy
    /\ acked = IF disk["path"] = Absent THEN None ELSE OnFile(disk["path"])
    /\ saving = None

\* save: the array goes to the card.
Save(hosts) ==
    /\ list' = hosts
    /\ saving' = hosts
    /\ Card!BeginWrite(Encode(hosts))

\* What save returned, once its last sceIo call is over.
Saved(from) ==
    /\ at = from
    /\ pc = "idle"
    /\ acked' = IF ret = "ok" THEN saving ELSE acked
    /\ UNCHANGED <<fileVars, list, legacy, saving>>

\* main calls hosts_load once.
StartLoad ==
    /\ Card!BeginRead
    /\ at' = "loading"
    /\ UNCHANGED <<list, form, legacy, history>>

\* A rename failed, and has left the side file alone.
Exposed ==
    /\ pc \in {"rename", "recover"}
    /\ disk["path"] = Absent /\ disk'["path"] = Absent

CardStep ==
    /\ Card!Step
    /\ IF Exposed THEN acked' = None /\ saving' = None ELSE UNCHANGED history
    /\ UNCHANGED <<memVars, legacy>>

\* What cardfile_read answered is not what the card holds.
Missed == IF ret = "ok" THEN got # Card!Recoverable ELSE Card!Recoverable # Absent

\* On -1 main shows a message and carries on with an empty list.
FinishLoad ==
    /\ at = "loading"
    /\ pc = "idle"
    /\ ret # "missing"
    /\ list' = IF ret = "ok" THEN Decode(got) ELSE <<>>
    /\ got' = Absent            \* parsed in place, then wiped
    /\ at' = "list"
    /\ acked' = IF Missed THEN None
                ELSE IF ret = "ok" /\ disk["path"] # Absent THEN list'
                ELSE acked
    /\ saving' = IF Missed THEN None ELSE saving
    /\ UNCHANGED <<disk, pc, text, written, ret, form, legacy>>

\* Mutant: the old file looked at whenever there are no hosts.
ImportWhenEmpty ==
    /\ at = "loading"
    /\ pc = "idle"
    /\ ret = "missing" \/ (ret = "ok" /\ Decode(got) = <<>>)
    /\ IF legacy # None /\ legacy.name \notin Unusable
       THEN Save(<<legacy>>) /\ at' = "importing"
       ELSE /\ at' = "list"
            /\ saving' = IF Missed THEN None ELSE saving
            /\ UNCHANGED <<fileVars, list>>
    /\ acked' = IF Missed THEN None ELSE acked
    /\ UNCHANGED <<form, legacy>>

\* import_legacy: no host file, and a usable server in pspssh.cfg.
Import ==
    /\ at = "loading"
    /\ pc = "idle"
    /\ ret = "missing"
    /\ IF legacy # None /\ legacy.name \notin Unusable
       THEN Save(<<legacy>>) /\ at' = "importing"
       ELSE /\ at' = "list"
            /\ saving' = IF Missed THEN None ELSE saving
            /\ UNCHANGED <<fileVars, list>>
    /\ acked' = IF Missed THEN None ELSE acked
    /\ UNCHANGED <<form, legacy>>

\* What save answers is not looked at.
FinishImport == Saved("importing") /\ at' = "list" /\ UNCHANGED form

-----------------------------------------------------------------------------
(* The host list: ui_host_list and edit_host. *)

OpenForm ==
    /\ at = "list"
    /\ form' \in 0..Len(list)
    /\ at' = "form"
    /\ UNCHANGED <<fileVars, list, legacy, history>>

\* Mutant: no check that there is room.
AddAnyRoom(h) ==
    /\ at = "form" /\ form = 0
    /\ Save(Append(list, h))
    /\ at' = "saving"
    /\ UNCHANGED <<form, legacy, acked>>

\* SQUARE on a new host: hosts_add.
Add(h) ==
    /\ at = "form" /\ form = 0
    /\ Len(list) < HostsMax
    /\ Save(Append(list, h))
    /\ at' = "saving"
    /\ UNCHANGED <<form, legacy, acked>>

\* SQUARE on an old one: hosts_replace.
Replace(h) ==
    /\ at = "form" /\ form # 0
    /\ Save([list EXCEPT ![form] = h])
    /\ at' = "saving"
    /\ UNCHANGED <<form, legacy, acked>>

\* On -1 the form stays open, for another try.
FinishForm ==
    /\ Saved("saving")
    /\ IF ret = "ok" THEN at' = "list" /\ form' = None
                     ELSE at' = "form" /\ UNCHANGED form

\* CIRCLE; what is left when there is no room for another host.
CancelForm ==
    /\ at = "form"
    /\ at' = "list"
    /\ form' = None
    /\ UNCHANGED <<fileVars, list, legacy, history>>

\* TRIANGLE, then "yes": hosts_remove.
Delete(i) ==
    /\ at = "list"
    /\ Save(RemoveAt(list, i))
    /\ at' = "removing"
    /\ UNCHANGED <<form, legacy, acked>>

FinishRemove == Saved("removing") /\ at' = "list" /\ UNCHANGED form

\* The battery is pulled, or the program is left and started again later.
PowerLoss ==
    /\ Card!PowerLoss
    /\ at' = "off"
    /\ list' = <<>>
    /\ form' = None
    /\ UNCHANGED <<legacy, history>>

Next ==
    \/ StartLoad \/ CardStep \/ FinishLoad \/ Import \/ FinishImport
    \/ OpenForm \/ FinishForm \/ CancelForm
    \/ \E h \in Typed : Add(h) \/ Replace(h)
    \/ \E i \in DOMAIN list : Delete(i)
    \/ FinishRemove
    \/ PowerLoss

Spec == Init /\ [][Next]_vars

-----------------------------------------------------------------------------
(* Properties *)

HostLists == {None} \union Seq(Host)

TypeOK ==
    /\ Card!TypeOK
    /\ list \in Seq(Host) /\ Len(list) <= HostsMax
    /\ at \in {"off", "loading", "importing", "list", "form", "saving", "removing"}
    /\ form \in {None} \union 0..Len(list)
    /\ legacy \in Legacy
    /\ acked \in HostLists /\ saving \in HostLists
    /\ pc = "off" <=> at = "off"
    /\ form # None <=> at \in {"form", "saving"}

\* Once a list has been saved with success, the card always holds, entry for
\* entry as it would be read back, that list or the whole of a later one that a
\* save was given: no save, failed save or restart costs another server
\* (cardfile.h, hosts.c: a save writes the whole list, at once).  Two things
\* alone can end that: a load that could not read what was there, after which
\* the program goes on with less (main), and a failed rename, after which the
\* next save begins by truncating the only copy (cardfile_write).
SavedListKept ==
    acked # None => OnFile(Card!Recoverable) \in {acked, saving}

\* And that is what the program starts with the next time (hosts_load): never
\* fewer, and never the old pspssh.cfg in its place, unless it could not be read.
LoadsSavedList ==
    [][(/\ at = "loading" /\ at' \in {"list", "importing"}
        /\ acked # None /\ acked' # None)
           => list' \in {acked, saving}]_vars

=============================================================================
