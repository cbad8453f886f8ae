------------------------------- MODULE MCTerm -------------------------------
(* Term on screens of a few cells, each with a far side that sends only some *)
(* of the bytes: those that make lines, those that set the region and go     *)
(* about in it, those that edit a line, and those that paint.                *)
EXTENDS Term

On(c, r, sent) == [cols |-> c, rows |-> r, bytes |-> sent]

Csis  == {"ESC", "["}
Text  == On(3, 2, {"x", "LF", "CR", "BS", "TAB", "BEL", "ESC", "M", "D", "E", "c", " "})
Eaten == On(1, 1, {"ESC", "]", "\\", "(", "BEL", "[", "?", ";", "1", "NUL"})
Area  == On(1, 3, Csis \union {"2", ";", "r", "L", "M", "S", "T", "H", "x", "LF"})
Moved == On(2, 2, Csis \union {"2", ";", "s", "u", "H", "f", "A", "B", "C", "D",
                                "E", "F", "G", "d"})
Edit  == On(3, 2, Csis \union {"1", "2", "P", "@", "X", "J", "K", "D"})
Paint == On(1, 1, Csis \union {"3", "8", "5", ";", "m"})

Lines == {Text, Eaten, Area, Moved, Edit, Paint}
=============================================================================
