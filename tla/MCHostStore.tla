---------------------------- MODULE MCHostStore ----------------------------
(* HostStore with room for two hosts, and three names of which one begins   *)
(* with '#' and one record is unusable.                                     *)
EXTENDS HostStore

CONSTANTS home, work, hash, bad

H(n, p) == [name |-> n, profile |-> p]

MCName    == {home, work, hash, bad}
MCComment == {hash}
MCBad     == {bad}
Plain     == {H(home, 0), H(work, 1)}
WithHash  == {H(home, 0), H(hash, 0)}
MCLegacy  == {None, H(home, 1)}
NoLegacy  == {None}

\* No file; an empty one; one edited by hand, with a remark and a bad record.
MCOnCard  == {Absent, Encode(<<>>), Encode(<<H(work, 1)>>),
              Encode(<<H(hash, 0), H(home, 0), H(bad, 1)>>)}
Empty     == {Encode(<<>>)}

AllFaults == {"openRead", "read", "openWrite", "write", "remove", "rename"}
NoFaults  == {}
=============================================================================
