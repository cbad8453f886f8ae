-------------------------------- MODULE Term --------------------------------
(***************************************************************************)
(* The terminal: src/psp/term.c.  term_feed takes one byte at a time and   *)
(* keeps what it has understood so far in its state, so a step is a byte.  *)
(*                                                                         *)
(* Bytes are named by their character.  "x" stands for every letter that   *)
(* is no command here, "NUL" for the control characters that are ignored.  *)
(* Of a cell the model keeps its colours and whether there is ink in it.   *)
(* A byte that nothing is done with is no step.                            *)
(***************************************************************************)
EXTENDS Integers, Sequences

CONSTANTS
    Screens,            \* what term_reset is called with, and what is sent
    MaxCols, MaxRows,   \* TERM_MAX_COLS, TERM_MAX_ROWS
    MaxParams,          \* MAX_PARAMS: 8
    ParamCap,           \* the largest parameter: 9999
    TabStop             \* 8

Digits  == <<"0", "1", "2", "3", "4", "5", "6", "7", "8", "9">>
Digit   == {Digits[i] : i \in 1..10}
Control == {"NUL", "BEL", "BS", "TAB", "LF", "CR", "ESC"}
\* 0x40 to 0x7e, which end a CSI sequence
Moves   == {"A", "B", "C", "D", "E", "F", "G", "d", "H", "f"}
Others  == {"[", "]", "\\", "c", "x"}
Final   == Moves \union Others
               \union {"J", "K", "L", "M", "P", "@", "S", "T", "X", "m", "r", "s", "u"}
Byte    == Digit \union Control \union Final \union {" ", ";", "?", "(", "#"}

ASSUME TermAssumption ==
    /\ Screens \subseteq [cols : Int, rows : Int, bytes : SUBSET Byte]
    /\ {MaxCols, MaxRows, MaxParams, ParamCap, TabStop} \subseteq Nat \ {0}

VARIABLES
    cols, rows,
    bytes,                  \* what the far side of this screen ever sends
    grid,
    cursor_col, cursor_row,
    saved_col, saved_row,
    scroll_top, scroll_bottom,
    pen,                    \* pen_fg, pen_bg, bold and reverse
    state,
    params, param_count, param_seen,
    bell_rang

size   == <<cols, rows, bytes>>
cursor == <<cursor_col, cursor_row>>
saved  == <<saved_col, saved_row>>
region == <<scroll_top, scroll_bottom>>
parsed == <<params, param_count, param_seen>>
vars   == <<size, grid, cursor, saved, region, pen, state, parsed, bell_rang>>

States  == {"ground", "esc", "csi", "osc", "oscEsc", "skip"}
Colour  == 0..15
Cell    == [ink : BOOLEAN, fg : Colour, bg : Colour]
Columns == 0 .. cols - 1
Rows    == 0 .. rows - 1

DefaultPen == [fg |-> 7, bg |-> 0, bold |-> FALSE, reverse |-> FALSE]
NoParams   == [i \in 1..MaxParams |-> 0]

-----------------------------------------------------------------------------
(* Cells, and the loops over them.  They work in place: each turn of a loop  *)
(* sees what the turns before it left.                                       *)

\* n | 8
Bright(n) == IF n < 8 THEN n + 8 ELSE n

Blank(p) == [ink |-> FALSE, fg |-> 7, bg |-> IF p.reverse THEN p.fg ELSE p.bg]

\* What put_char leaves in a cell.
Printed(ch) ==
    LET front == IF pen.bold THEN Bright(pen.fg) ELSE pen.fg
    IN  [ink |-> ch # " ",
         fg  |-> IF pen.reverse THEN pen.bg ELSE front,
         bg  |-> IF pen.reverse THEN front ELSE pen.bg]

BlankRow == [c \in Columns |-> Blank(pen)]

\* Row r with the cells in the columns of which blanked.
Blanked(r, which) == [c \in Columns |-> IF c \in which THEN Blank(pen) ELSE grid[r][c]]

\* One turn of scroll_region_up, and of scroll_region_down.
Up(g, top, bottom) ==
    LET copied[r \in top - 1 .. bottom - 1] ==
            IF r < top THEN g
            ELSE [copied[r - 1] EXCEPT ![r] = copied[r - 1][r + 1]]
    IN  [copied[bottom - 1] EXCEPT ![bottom] = BlankRow]

\* Mutant: the rows copied in the order of scroll_region_up.
DownSmeared(g, top, bottom) ==
    LET copied[r \in top .. bottom] ==
            IF r = top THEN g
            ELSE [copied[r - 1] EXCEPT ![r] = copied[r - 1][r - 1]]
    IN  [copied[bottom] EXCEPT ![top] = BlankRow]

Down(g, top, bottom) ==
    LET copied[r \in top + 1 .. bottom + 1] ==
            IF r > bottom THEN g
            ELSE [copied[r + 1] EXCEPT ![r] = copied[r + 1][r - 1]]
    IN  [copied[top + 1] EXCEPT ![top] = BlankRow]

\* All of their turns.
ScrolledUp(top, bottom, lines) ==
    LET after[i \in 0..lines] == IF i = 0 THEN grid ELSE Up(after[i - 1], top, bottom)
    IN  after[lines]

ScrolledDown(top, bottom, lines) ==
    LET after[i \in 0..lines] == IF i = 0 THEN grid ELSE Down(after[i - 1], top, bottom)
    IN  after[lines]

\* The cursor's row after delete_chars, and after insert_chars.
Deleted(count) ==
    LET line == grid[cursor_row]
        after[c \in cursor_col - 1 .. cols - 1] ==
            IF c < cursor_col THEN line
            ELSE [after[c - 1] EXCEPT ![c] =
                     IF c + count < cols THEN after[c - 1][c + count] ELSE Blank(pen)]
    IN  after[cols - 1]

Inserted(count) ==
    LET line == grid[cursor_row]
        after[c \in cursor_col .. cols] ==
            IF c = cols THEN line
            ELSE [after[c + 1] EXCEPT ![c] =
                     IF c - count >= cursor_col THEN after[c + 1][c - count]
                     ELSE Blank(pen)]
    IN  after[cursor_col]

-----------------------------------------------------------------------------
(* term_reset, from main, and again for ESC c with the size it has. *)

SizeOr(n, max) == IF n > 0 /\ n <= max THEN n ELSE max

ResetTo(c, r) ==
    /\ grid' = [y \in 0 .. r - 1 |-> [x \in 0 .. c - 1 |-> Blank(DefaultPen)]]
    /\ cursor_col' = 0 /\ cursor_row' = 0 /\ saved_col' = 0 /\ saved_row' = 0
    /\ scroll_top' = 0 /\ scroll_bottom' = r - 1
    /\ pen' = DefaultPen
    /\ state' = "ground"
    /\ params' = NoParams /\ param_count' = 0 /\ param_seen' = FALSE
    /\ bell_rang' = FALSE

Init ==
    /\ \E screen \in Screens :
          /\ cols = SizeOr(screen.cols, MaxCols)
          /\ rows = SizeOr(screen.rows, MaxRows)
          /\ bytes = screen.bytes
    /\ grid = [y \in Rows |-> [x \in Columns |-> Blank(DefaultPen)]]
    /\ cursor_col = 0 /\ cursor_row = 0 /\ saved_col = 0 /\ saved_row = 0
    /\ scroll_top = 0 /\ scroll_bottom = rows - 1
    /\ pen = DefaultPen
    /\ state = "ground"
    /\ params = NoParams /\ param_count = 0 /\ param_seen = FALSE
    /\ bell_rang = FALSE

\* The byte ch comes while the parser is in state s.
Heard(s, ch) == state = s /\ ch \in bytes

-----------------------------------------------------------------------------
(* GROUND *)

\* line_feed
NextRow ==
    IF cursor_row # scroll_bottom /\ cursor_row < rows - 1 THEN cursor_row + 1
    ELSE cursor_row

FedGrid ==
    IF cursor_row = scroll_bottom THEN Up(grid, scroll_top, scroll_bottom) ELSE grid

LineFeed == cursor_row' = NextRow /\ grid' = FedGrid

inGround == <<size, saved, region, pen, state, parsed>>

Newline ==
    /\ Heard("ground", "LF")
    /\ LineFeed
    /\ UNCHANGED <<inGround, cursor_col, bell_rang>>

CarriageReturn ==
    /\ Heard("ground", "CR")
    /\ cursor_col' = 0
    /\ UNCHANGED <<inGround, grid, cursor_row, bell_rang>>

Backspace ==
    /\ Heard("ground", "BS") /\ cursor_col > 0
    /\ cursor_col' = cursor_col - 1
    /\ UNCHANGED <<inGround, grid, cursor_row, bell_rang>>

\* Spaces are put up to the next tab stop or the last column; that never wraps.
Tab ==
    LET stop == TabStop * (cursor_col \div TabStop + 1)
        next == IF stop >= cols THEN cols - 1 ELSE stop
    IN  /\ Heard("ground", "TAB") /\ cursor_col < next
        /\ grid' = [grid EXCEPT ![cursor_row] = [c \in Columns |->
                       IF c \in cursor_col .. next - 1 THEN Printed(" ")
                       ELSE grid[cursor_row][c]]]
        /\ cursor_col' = next
        /\ UNCHANGED <<inGround, cursor_row, bell_rang>>

Bell ==
    /\ Heard("ground", "BEL")
    /\ bell_rang' = TRUE
    /\ UNCHANGED <<inGround, grid, cursor>>

\* put_char
PutChar(ch) ==
    /\ Heard("ground", ch) /\ ch \notin Control
    /\ IF cursor_col >= cols
       THEN /\ cursor_row' = NextRow
            /\ grid' = [FedGrid EXCEPT ![NextRow][0] = Printed(ch)]
            /\ cursor_col' = 1
       ELSE /\ grid' = [grid EXCEPT ![cursor_row][cursor_col] = Printed(ch)]
            /\ cursor_col' = cursor_col + 1
            /\ UNCHANGED cursor_row
    /\ UNCHANGED <<inGround, bell_rang>>

-----------------------------------------------------------------------------
(* SAW_ESC, and the sequences that are eaten *)

inEscape == <<size, saved, region, pen, parsed, bell_rang>>
nothing  == <<inEscape, grid, cursor>>

\* From one state of the parser to another, and nothing else.
Becomes(s, ch, next) == Heard(s, ch) /\ state' = next /\ UNCHANGED nothing

OpenCsi ==
    /\ Heard("esc", "[")
    /\ state' = "csi"
    /\ params' = NoParams /\ param_count' = 0 /\ param_seen' = FALSE
    /\ UNCHANGED <<size, grid, cursor, saved, region, pen, bell_rang>>

ReverseIndex ==
    /\ Heard("esc", "M")
    /\ grid' = IF cursor_row = scroll_top
               THEN Down(grid, scroll_top, scroll_bottom) ELSE grid
    /\ cursor_row' = IF cursor_row # scroll_top /\ cursor_row > 0
                     THEN cursor_row - 1 ELSE cursor_row
    /\ state' = "ground"
    /\ UNCHANGED <<inEscape, cursor_col>>

Index    == /\ Heard("esc", "D") /\ LineFeed
            /\ state' = "ground"
            /\ UNCHANGED <<inEscape, cursor_col>>
NextLine == /\ Heard("esc", "E") /\ LineFeed
            /\ cursor_col' = 0
            /\ state' = "ground"
            /\ UNCHANGED inEscape
Reset    == Heard("esc", "c") /\ ResetTo(cols, rows) /\ UNCHANGED size

Escapes ==
    \/ Becomes("ground", "ESC", "esc")
    \/ OpenCsi
    \/ Becomes("esc", "]", "osc")
    \/ \E ch \in {"(", "#"} : Becomes("esc", ch, "skip")
    \/ ReverseIndex \/ Index \/ NextLine \/ Reset
    \/ \E ch \in Byte \ {"[", "]", "(", "#", "M", "D", "E", "c"} :
          Becomes("esc", ch, "ground")
    \/ Becomes("osc", "BEL", "ground")
    \/ Becomes("osc", "ESC", "oscEsc")
    \/ \E ch \in Byte : Becomes("oscEsc", ch, IF ch = "\\" THEN "ground" ELSE "osc")
    \/ \E ch \in Byte : Becomes("skip", ch, "ground")

-----------------------------------------------------------------------------
(* IN_CSI.  What is neither a parameter nor the end of it is consumed. *)

inCsi == <<size, grid, cursor, saved, region, pen, state, bell_rang>>

Value(d) == CHOOSE v \in 0..9 : Digits[v + 1] = d

ParamDigit(d) ==
    LET at == IF param_count = 0 THEN 1 ELSE param_count
        n  == params[at] * 10 + Value(d)
    IN  /\ Heard("csi", d)
        /\ params' = [params EXCEPT ![at] = IF n > ParamCap THEN ParamCap ELSE n]
        /\ param_count' = at
        /\ param_seen' = TRUE
        /\ UNCHANGED inCsi

NextParam ==
    /\ Heard("csi", ";")
    /\ param_count' = IF param_count < MaxParams THEN param_count + 1 ELSE param_count
    /\ param_seen' = TRUE
    /\ UNCHANGED <<inCsi, params>>

\* param_at and param_or_zero, with indices from 1
ParamAt(i, fallback) ==
    IF i > param_count \/ (i = 1 /\ ~param_seen) \/ params[i] <= 0
    THEN fallback ELSE params[i]

ParamOrZero(i) == IF i > param_count THEN 0 ELSE params[i]

\* The letter that ends it.  The parameters are dead from here until OpenCsi
\* clears them, and are cleared here too.
Dispatch(final) ==
    /\ Heard("csi", final)
    /\ state' = "ground"
    /\ params' = NoParams /\ param_count' = 0 /\ param_seen' = FALSE
    /\ UNCHANGED <<size, bell_rang>>

drawn == <<cursor, saved, region, pen>>

Within(n, last) == IF n < 0 THEN 0 ELSE IF n > last THEN last ELSE n

\* clamp_cursor
MoveTo(c, r) ==
    /\ cursor_col' = Within(c, cols - 1)
    /\ cursor_row' = Within(r, rows - 1)

Move(final) ==
    LET n == ParamAt(1, 1)
    IN  /\ Dispatch(final)
        /\ CASE final = "A" -> MoveTo(cursor_col, cursor_row - n)
             [] final = "B" -> MoveTo(cursor_col, cursor_row + n)
             [] final = "C" -> MoveTo(cursor_col + n, cursor_row)
             [] final = "D" -> MoveTo(cursor_col - n, cursor_row)
             [] final = "E" -> MoveTo(0, cursor_row + n)
             [] final = "F" -> MoveTo(0, cursor_row - n)
             [] final = "G" -> MoveTo(n - 1, cursor_row)
             [] final = "d" -> MoveTo(cursor_col, n - 1)
             [] OTHER       -> MoveTo(ParamAt(2, 1) - 1, n - 1)     \* H, f
        /\ UNCHANGED <<grid, saved, region, pen>>

EraseDisplay ==
    LET mode == ParamOrZero(1)
        whole == CASE mode \in {2, 3} -> Rows
                   [] mode = 1        -> 0 .. cursor_row - 1
                   [] OTHER           -> cursor_row + 1 .. rows - 1
        part  == IF mode = 1 THEN 0..cursor_col ELSE cursor_col .. cols - 1
    IN  /\ Dispatch("J")
        /\ grid' = [r \in Rows |->
                       IF r \in whole THEN BlankRow
                       ELSE IF r = cursor_row THEN Blanked(r, part)
                       ELSE grid[r]]
        /\ UNCHANGED drawn

EraseLine ==
    LET mode == ParamOrZero(1)
        part == CASE mode = 1 -> 0..cursor_col
                  [] mode = 2 -> Columns
                  [] OTHER    -> cursor_col .. cols - 1
    IN  /\ Dispatch("K")
        /\ grid' = [grid EXCEPT ![cursor_row] = Blanked(cursor_row, part)]
        /\ UNCHANGED drawn

EraseChars ==
    LET part == cursor_col .. cursor_col + ParamAt(1, 1) - 1
    IN  /\ Dispatch("X")
        /\ grid' = [grid EXCEPT ![cursor_row] = Blanked(cursor_row, part)]
        /\ UNCHANGED drawn

InRegion == cursor_row >= scroll_top /\ cursor_row <= scroll_bottom

\* Mutant: the lines below the region pushed down as well.
InsertLinesToEnd ==
    /\ Dispatch("L")
    /\ grid' = IF InRegion
               THEN ScrolledDown(cursor_row, rows - 1, ParamAt(1, 1)) ELSE grid
    /\ UNCHANGED drawn

InsertLines ==
    /\ Dispatch("L")
    /\ grid' = IF InRegion
               THEN ScrolledDown(cursor_row, scroll_bottom, ParamAt(1, 1)) ELSE grid
    /\ UNCHANGED drawn

DeleteLines ==
    /\ Dispatch("M")
    /\ grid' = IF InRegion
               THEN ScrolledUp(cursor_row, scroll_bottom, ParamAt(1, 1)) ELSE grid
    /\ UNCHANGED drawn

ScrollUp ==
    /\ Dispatch("S")
    /\ grid' = ScrolledUp(scroll_top, scroll_bottom, ParamAt(1, 1))
    /\ UNCHANGED drawn

ScrollDown ==
    /\ Dispatch("T")
    /\ grid' = ScrolledDown(scroll_top, scroll_bottom, ParamAt(1, 1))
    /\ UNCHANGED drawn

DeleteChars ==
    /\ Dispatch("P")
    /\ grid' = [grid EXCEPT ![cursor_row] = Deleted(ParamAt(1, 1))]
    /\ UNCHANGED drawn

InsertChars ==
    /\ Dispatch("@")
    /\ grid' = [grid EXCEPT ![cursor_row] = Inserted(ParamAt(1, 1))]
    /\ UNCHANGED drawn

\* Mutant: a bottom below the screen not noticed.
SetRegionTooFar ==
    LET top    == ParamAt(1, 1) - 1
        bottom == IF param_count > 1 THEN ParamAt(2, rows) - 1 ELSE rows - 1
        usable == top >= 0 /\ top < bottom
    IN  /\ Dispatch("r")
        /\ scroll_top' = IF usable THEN top ELSE 0
        /\ scroll_bottom' = IF usable THEN bottom ELSE rows - 1
        /\ cursor_col' = 0
        /\ cursor_row' = scroll_top'
        /\ UNCHANGED <<grid, saved, pen>>

\* A region has two rows or more, unless the screen has one: else it is the
\* whole screen again.
SetRegion ==
    LET top    == ParamAt(1, 1) - 1
        bottom == IF param_count > 1 THEN ParamAt(2, rows) - 1 ELSE rows - 1
        usable == top >= 0 /\ bottom < rows /\ top < bottom
    IN  /\ Dispatch("r")
        /\ scroll_top' = IF usable THEN top ELSE 0
        /\ scroll_bottom' = IF usable THEN bottom ELSE rows - 1
        /\ cursor_col' = 0
        /\ cursor_row' = scroll_top'
        /\ UNCHANGED <<grid, saved, pen>>

SaveCursor ==
    /\ Dispatch("s")
    /\ saved_col' = cursor_col /\ saved_row' = cursor_row
    /\ UNCHANGED <<grid, cursor, region, pen>>

RestoreCursor ==
    /\ Dispatch("u")
    /\ MoveTo(saved_col, saved_row)
    /\ UNCHANGED <<grid, saved, region, pen>>

\* Mutant: n taken as it is.
Unfolded(n) == n

\* 38;5;n and 48;5;n: n folded onto the sixteen colours.
Folded(n) == IF n <= 15 THEN n ELSE IF n >= 244 THEN 15 ELSE 7

\* apply_sgr.  first[i]: parameter i is not the 5 or the n of one before it.
Painted ==
    LET count == IF param_count = 0 THEN 1 ELSE param_count
        Wide(i) == params[i] \in {38, 48} /\ i + 2 <= count /\ params[i + 1] = 5
        first[i \in 1..count] ==
            ~ \E j \in 1 .. i - 1 : i - j <= 2 /\ first[j] /\ Wide(j)
        Applied(q, i) ==
            LET p == params[i] IN
            CASE p = 0           -> DefaultPen
              [] p = 1           -> [q EXCEPT !.bold = TRUE]
              [] p \in {2, 22}   -> [q EXCEPT !.bold = FALSE]
              [] p = 7           -> [q EXCEPT !.reverse = TRUE]
              [] p = 27          -> [q EXCEPT !.reverse = FALSE]
              [] p \in 30..37    -> [q EXCEPT !.fg = p - 30]
              [] p = 39          -> [q EXCEPT !.fg = DefaultPen.fg]
              [] p \in 40..47    -> [q EXCEPT !.bg = p - 40]
              [] p = 49          -> [q EXCEPT !.bg = DefaultPen.bg]
              [] p \in 90..97    -> [q EXCEPT !.fg = p - 82]
              [] p \in 100..107  -> [q EXCEPT !.bg = p - 92]
              [] p = 38 /\ Wide(i) -> [q EXCEPT !.fg = Folded(params[i + 2])]
              [] p = 48 /\ Wide(i) -> [q EXCEPT !.bg = Folded(params[i + 2])]
              [] OTHER           -> q
        after[i \in 0..count] ==
            IF i = 0 THEN pen
            ELSE IF first[i] THEN Applied(after[i - 1], i) ELSE after[i - 1]
    IN  after[count]

Sgr ==
    /\ Dispatch("m")
    /\ pen' = Painted
    /\ UNCHANGED <<grid, cursor, saved, region>>

OtherCsi(final) ==
    /\ final \in Others
    /\ Dispatch(final)
    /\ UNCHANGED <<grid, drawn>>

Csi ==
    \/ \E d \in Digit : ParamDigit(d)
    \/ NextParam
    \/ \E final \in Moves : Move(final)
    \/ EraseDisplay \/ EraseLine \/ EraseChars
    \/ InsertLines \/ DeleteLines \/ DeleteChars \/ InsertChars
    \/ ScrollUp \/ ScrollDown
    \/ SetRegion \/ SaveCursor \/ RestoreCursor \/ Sgr
    \/ \E final \in Others : OtherCsi(final)

-----------------------------------------------------------------------------
\* term_take_bell, when main draws the next frame.
TakeBell ==
    /\ bell_rang
    /\ bell_rang' = FALSE
    /\ UNCHANGED <<inGround, grid, cursor>>

Next ==
    \/ Newline \/ CarriageReturn \/ Backspace \/ Tab \/ Bell
    \/ \E ch \in bytes : PutChar(ch)
    \/ Escapes
    \/ Csi
    \/ TakeBell

Spec == Init /\ [][Next]_vars

-----------------------------------------------------------------------------
(* Properties *)

\* Every index the code will use on the grid and on the parameters is inside
\* it, after any sequence of any bytes: the cursor may wait one column past the
\* last one (put_char), but on no row that is not there; the rows that scroll
\* are rows of the screen, in order; and the parameter counted is one of
\* MAX_PARAMS.  In C the step outside would be a write outside the array.
InBounds ==
    /\ cols \in 1..MaxCols /\ rows \in 1..MaxRows
    /\ cursor_row \in 0 .. rows - 1 /\ cursor_col \in 0..cols
    /\ saved_row \in 0 .. rows - 1 /\ saved_col \in 0..cols
    /\ scroll_top \in 0 .. rows - 1 /\ scroll_bottom \in scroll_top .. rows - 1
    /\ param_count \in 0..MaxParams

TypeOK ==
    /\ bytes \subseteq Byte
    /\ grid \in [Rows -> [Columns -> Cell]]
    /\ pen \in [fg : Colour, bg : Colour, bold : BOOLEAN, reverse : BOOLEAN]
    /\ state \in States
    /\ params \in [1..MaxParams -> 0..ParamCap]
    /\ {param_seen, bell_rang} \subseteq BOOLEAN

\* The closed form of the row-by-row copies, for rows top to bottom.
Lifted(top, bottom, n) ==
    [r \in Rows |-> IF r \notin top..bottom THEN grid[r]
                    ELSE IF r + n <= bottom THEN grid[r + n] ELSE BlankRow]
Lowered(top, bottom, n) ==
    [r \in Rows |-> IF r \notin top..bottom THEN grid[r]
                    ELSE IF r - n >= top THEN grid[r - n] ELSE BlankRow]

\* The copies in place come to what they are meant to: however many lines are
\* scrolled, inserted or deleted, every line arrives whole, once, in its order,
\* and the lines behind them are blank (scroll_region_up, scroll_region_down).
LinesArrive ==
    [][LET n == ParamAt(1, 1) IN
       /\ ScrollUp     => grid' = Lifted(scroll_top, scroll_bottom, n)
       /\ ScrollDown   => grid' = Lowered(scroll_top, scroll_bottom, n)
       /\ InsertLines /\ InRegion => grid' = Lowered(cursor_row, scroll_bottom, n)
       /\ DeleteLines /\ InRegion => grid' = Lifted(cursor_row, scroll_bottom, n)]_vars

\* "Everything outside it stays put when the text inside it scrolls": whatever
\* byte comes, a row outside the region is changed only where the cursor is,
\* or by erasing the display or resetting the terminal.
OutsideStaysPut ==
    [][~EraseDisplay /\ ~Reset =>
          \A r \in Rows \ (scroll_top..scroll_bottom \union {cursor_row, cursor_row'}) :
              grid'[r] = grid[r]]_vars

=============================================================================
