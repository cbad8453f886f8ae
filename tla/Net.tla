-------------------------------- MODULE Net --------------------------------
(***************************************************************************)
(* src/psp/net.c: net_start, which tries the console's saved connections   *)
(* until the radio has an address, and net_connect.  The radio is a part   *)
(* of the system: it joins, is turned away or loses its network by itself, *)
(* and sceNetApctlGetState tells how it is.                                *)
(***************************************************************************)
EXTENDS Pad

CONSTANTS
    Profiles,   \* the numbers a saved connection may have: 1..10
    TriesMax    \* how often try_profile looks at the radio: 600

ASSUME NetAssumption ==
    /\ Profiles \subseteq Nat \ {0} /\ IsFiniteSet(Profiles)
    /\ TriesMax \in Nat \ {0}

VARIABLES
    radio,      \* off, joining or up: the last has an address
    stack,      \* stack_started
    connected,
    preferred,  \* net_start's argument
    available,  \* the saved connections, which the system is asked for each time
    net,        \* where net_start is
    turn,       \* which of available[] it tries; 0 for the one it was asked for
    tries,      \* the looks at the radio try_profile has taken
    tried       \* history: how often each was tried in this call

startVars == <<preferred, available, net, turn, tries, tried>>
netVars   == <<radio, stack, connected, startVars>>

NetTypeOK ==
    /\ radio \in {"off", "joining", "up"}
    /\ {stack, connected} \subseteq BOOLEAN
    /\ preferred \in Profiles \union {0} /\ available \subseteq Profiles
    /\ net \in {"idle", "start", "next", "join", "yes", "no"}
    /\ turn \in 0..Cardinality(Profiles) + 1
    /\ tries \in 0..TriesMax
    /\ tried \in [Profiles -> Nat]

NetInit ==
    /\ radio = "off" /\ stack = FALSE /\ connected = FALSE
    /\ preferred = 0 /\ available = {} /\ net = "idle" /\ turn = 0 /\ tries = 0
    /\ tried = [p \in Profiles |-> 0]

-----------------------------------------------------------------------------
(* The radio. *)

Joins == radio = "joining" /\ radio' = "up"

\* Turned away while joining; or the network is gone, or the switch turned.
Loses == radio # "off" /\ radio' = "off"

\* At any time; but only net_start looks, which finds it as it is by then.
Radio ==
    /\ net # "idle"
    /\ Joins \/ Loses
    /\ UNCHANGED <<exit, padVars, stack, connected, startVars>>

-----------------------------------------------------------------------------
(* net_start *)

netKept == <<exit, padVars>>

\* available[i], in the order list_profiles asks.
Available(i) == CHOOSE p \in available : Cardinality({q \in available : q <= p}) = i
Count == Cardinality(available)

\* Whose turn it is.
Candidate == IF turn = 0 THEN preferred ELSE Available(turn)

\* i < count && !pad_exit_requested()
MayGoOn == turn \in 1..Count /\ ~exit

NetStart(p) ==
    /\ net = "idle"
    /\ net' = "start" /\ preferred' = p
    /\ radio' \in IF connected THEN {"off", "up"} ELSE {"off"}
    /\ UNCHANGED <<stack, connected, available, turn, tries, tried, netKept>>

AlreadyConnected ==
    /\ net = "start" /\ connected
    /\ net' = "yes"
    /\ UNCHANGED <<radio, stack, connected, preferred, available, turn, tries, tried, netKept>>

\* pspSdkInetInit fails, now or when it is tried again.
NoStack ==
    /\ net = "start" /\ ~connected /\ ~stack
    /\ net' = "no"
    /\ UNCHANGED <<radio, stack, connected, preferred, available, turn, tries, tried, netKept>>

\* list_profiles; the one the host asked for goes first, if it is still there.
ListProfiles ==
    /\ net = "start" /\ ~connected
    /\ stack' = TRUE
    /\ available' \in SUBSET Profiles
    /\ net' = IF available' = {} THEN "no" ELSE "next"
    /\ turn' = IF preferred \in available' THEN 0 ELSE 1
    /\ UNCHANGED <<radio, connected, preferred, tries, tried, netKept>>

\* "already tried, and it did not work"
Skip ==
    /\ net = "next" /\ MayGoOn
    /\ Candidate = preferred
    /\ turn' = turn + 1
    /\ UNCHANGED <<radio, stack, connected, preferred, available, net, tries, tried, netKept>>

\* Mutant: the one that was tried first not skipped.
TryAgain ==
    /\ net = "next" /\ (turn = 0 \/ MayGoOn)
    /\ radio' \in {"joining", radio}
    /\ tried' = [tried EXCEPT ![Candidate] = @ + 1]
    /\ IF radio' = "joining" THEN net' = "join" /\ UNCHANGED turn
       ELSE net' = "next" /\ turn' = turn + 1
    /\ tries' = 0
    /\ UNCHANGED <<stack, connected, preferred, available, netKept>>

\* try_profile; sceNetApctlConnect starts joining, or will not.
Try ==
    /\ net = "next" /\ (turn = 0 \/ (MayGoOn /\ Candidate # preferred))
    /\ radio' \in {"joining", radio}
    /\ tried' = [tried EXCEPT ![Candidate] = @ + 1]
    /\ IF radio' = "joining" THEN net' = "join" /\ UNCHANGED turn
       ELSE net' = "next" /\ turn' = turn + 1
    /\ tries' = 0
    /\ UNCHANGED <<stack, connected, preferred, available, netKept>>

\* A look at the radio, which is still at it.
NotYet ==
    /\ net = "join" /\ tries < TriesMax /\ ~exit
    /\ radio # "up"
    /\ tries' = tries + 1
    /\ UNCHANGED <<radio, stack, connected, preferred, available, net, turn, tried, netKept>>

HasAddress ==
    /\ net = "join" /\ tries < TriesMax /\ ~exit
    /\ radio = "up"
    /\ connected' = TRUE
    /\ net' = "yes" /\ tries' = 0
    /\ UNCHANGED <<radio, stack, preferred, available, turn, tried, netKept>>

\* Mutant: no sceNetApctlDisconnect.
TurnedAwayJoining ==
    /\ net = "join"
    /\ net' = "next" /\ turn' = turn + 1 /\ tries' = 0
    /\ UNCHANGED <<radio, stack, connected, preferred, available, tried, netKept>>

\* Thirty seconds, the exit flag, or no state to be had.  Disconnected.
TurnedAway ==
    /\ net = "join"
    /\ radio' = "off"
    /\ net' = "next" /\ turn' = turn + 1 /\ tries' = 0
    /\ UNCHANGED <<stack, connected, preferred, available, tried, netKept>>

NoneLeft ==
    /\ net = "next" /\ turn > 0 /\ (turn > Count \/ exit)
    /\ net' = "no"
    /\ UNCHANGED <<radio, stack, connected, preferred, available, turn, tries, tried, netKept>>

NetStep ==
    \/ AlreadyConnected \/ NoStack \/ ListProfiles \/ Skip \/ Try
    \/ NotYet \/ HasAddress \/ TurnedAway \/ NoneLeft

\* The caller has the answer; nobody looks at the radio until the next call.
NetOver ==
    /\ net' = "idle" /\ preferred' = 0 /\ available' = {} /\ turn' = 0 /\ tries' = 0
    /\ tried' = [p \in Profiles |-> 0]
    /\ radio' = "off"
    /\ UNCHANGED <<stack, connected>>

=============================================================================
