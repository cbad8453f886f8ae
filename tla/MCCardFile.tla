----------------------------- MODULE MCCardFile -----------------------------
(* CardFile on small contents, one of which the reader has no room for.     *)
EXTENDS CardFile

CONSTANTS a, b

MCChunk    == {a, b}
MCTexts    == {<<a>>, <<a, b>>, <<b, a, b>>}
MCOnCard   == MCTexts \union {<<a, a, a, a>>}
SaveFaults == {"openWrite", "write", "remove"}
=============================================================================
