---------------------------- MODULE MCKnownHosts ----------------------------
(* KnownHosts with two servers and two keys.                                *)
EXTENDS KnownHosts

CONSTANTS s1, s2, k1, k2

E(s, k) == [server |-> s, key |-> k]

MCServer == {s1, s2}
MCKey    == {k1, k2}
OneKey   == {k1}

\* An empty file, one with a server, one with both; and a card without it.
Present == {Encode(<<>>), Encode(<<E(s1, k1)>>),
            Encode(<<E(s1, k1), E(s2, k2)>>)}
Known   == {Encode(<<E(s1, k1)>>)}
Fresh   == {Absent}
AnyCard == Present \union Fresh

AllFaults  == {"openRead", "read", "openWrite", "write", "remove", "rename"}
SaveFaults == {"openWrite", "write", "remove"}
ReadFault  == {"read"}
NoFaults   == {}
=============================================================================
