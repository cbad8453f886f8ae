----------------------------- MODULE TermProofs -----------------------------
(***************************************************************************)
(* The terminal, for every size of screen that term_reset can be asked for *)
(* and every stream of bytes: its indices stay inside its arrays, its      *)
(* cells are cells, the loops that copy lines in place move each line      *)
(* whole, and what is outside the region stays put.                        *)
(*                                                                         *)
(* The loops are functions of how far they have come.  That such a         *)
(* function is what it is meant to be is an induction over the turns, by   *)
(* the least turn at which it would differ.                                *)
(***************************************************************************)
EXTENDS Term, WellFoundedInduction, TLAPS

\* The parameters are natural numbers in an array of MAX_PARAMS.
ParamsTyped == params \in [1..MaxParams -> Nat]

\* InBounds alone is not inductive: where a CSI sequence moves the cursor, or
\* the region, depends on its parameters.
IInv == InBounds /\ ParamsTyped

\* term_reset's size is one the arrays have room for.
LEMMA SizeFits ==
    ASSUME NEW n \in Int, NEW max \in Nat \ {0}
    PROVE  SizeOr(n, max) \in 1..max
BY DEF SizeOr

\* A digit has a value.
LEMMA ValueOfDigit ==
    ASSUME NEW d \in Digit
    PROVE  Value(d) \in 0..9
<1>1. PICK i \in 1..10 : Digits[i] = d
  BY DEF Digit
<1>2. i - 1 \in 0..9 /\ Digits[(i - 1) + 1] = d
  BY <1>1
<1> QED
  BY <1>2 DEF Value

\* A parameter is a number, whichever is asked for.
LEMMA ParamIsNumber ==
    ASSUME IInv, NEW i \in Nat \ {0}, NEW fallback \in Nat
    PROVE  ParamAt(i, fallback) \in Nat
<1>1. CASE i > param_count
  BY <1>1 DEF ParamAt
<1>2. CASE ~(i > param_count)
  <2>1. param_count \in 0..MaxParams /\ MaxParams \in Nat
    BY TermAssumption DEF IInv, InBounds
  <2>2. i \in 1..MaxParams
    BY <1>2, <2>1
  <2>3. params[i] \in Nat
    BY <2>2 DEF IInv, ParamsTyped
  <2> QED
    BY <2>3 DEF ParamAt
<1> QED
  BY <1>1, <1>2

\* clamp_cursor brings any cursor back onto the screen.
LEMMA ClampedInside ==
    ASSUME NEW n \in Int, NEW last \in Nat
    PROVE  Within(n, last) \in 0..last
BY DEF Within

-----------------------------------------------------------------------------
\* term_reset leaves everything at the top left of a screen that fits.
LEMMA InitInside == Init => IInv
<1> SUFFICES ASSUME Init PROVE IInv
  OBVIOUS
<1>1. PICK screen \in Screens : /\ cols = SizeOr(screen.cols, MaxCols)
                                /\ rows = SizeOr(screen.rows, MaxRows)
  BY DEF Init
<1>2. screen.cols \in Int /\ screen.rows \in Int
  BY TermAssumption
<1>3. MaxCols \in Nat \ {0} /\ MaxRows \in Nat \ {0} /\ MaxParams \in Nat \ {0}
  BY TermAssumption
<1>4. cols \in 1..MaxCols /\ rows \in 1..MaxRows
  BY <1>1, <1>2, <1>3, SizeFits
<1>5. ParamsTyped
  BY DEF Init, NoParams, ParamsTyped
<1>6. InBounds
  BY <1>3, <1>4 DEF Init, InBounds
<1> QED
  BY <1>5, <1>6 DEF IInv

\* What each conjunct of the invariant says of the numbers, for use below.
LEMMA Numbers ==
    ASSUME IInv
    PROVE  /\ cols \in Nat /\ cols > 0 /\ cols - 1 \in Nat
           /\ rows \in Nat /\ rows > 0 /\ rows - 1 \in Nat
           /\ cursor_col \in Nat /\ cursor_row \in Nat
           /\ saved_col \in Nat /\ saved_row \in Nat
           /\ MaxParams \in Nat /\ MaxParams > 0
BY TermAssumption DEF IInv, InBounds

\* line_feed stays on the screen.
LEMMA NextRowInside ==
    ASSUME IInv
    PROVE  NextRow \in 0 .. rows - 1
BY Numbers DEF IInv, InBounds, NextRow

\* A step that changes only the cursor, and keeps it on the screen.
LEMMA CursorStep ==
    ASSUME IInv, UNCHANGED <<size, saved, region, parsed>>,
           cursor_col' \in 0..cols, cursor_row' \in 0 .. rows - 1
    PROVE  IInv'
BY DEF IInv, InBounds, ParamsTyped, size, saved, region, parsed

\* The end of a CSI sequence that leaves the region and the saved cursor alone.
LEMMA DispatchStep ==
    ASSUME IInv, NEW final, Dispatch(final), UNCHANGED <<saved, region>>,
           cursor_col' \in 0..cols, cursor_row' \in 0 .. rows - 1
    PROVE  IInv'
<1>1. param_count' \in 0..MaxParams
  BY Numbers DEF Dispatch
<1>2. ParamsTyped'
  BY DEF Dispatch, NoParams, ParamsTyped
<1>3. InBounds'
  BY <1>1 DEF IInv, InBounds, Dispatch, size, saved, region
<1> QED
  BY <1>2, <1>3 DEF IInv

\* And one that draws only.
LEMMA DrawingStep ==
    ASSUME IInv, NEW final, Dispatch(final), UNCHANGED drawn
    PROVE  IInv'
<1>1. UNCHANGED <<saved, region>> /\ cursor_col' = cursor_col /\ cursor_row' = cursor_row
  BY DEF drawn, cursor, saved, region
<1>2. cursor_col' \in 0..cols /\ cursor_row' \in 0 .. rows - 1
  BY <1>1 DEF IInv, InBounds
<1> QED
  BY <1>1, <1>2, DispatchStep

\* A cursor that is moved is clamped.
LEMMA MovedInside ==
    ASSUME IInv, NEW c \in Int, NEW r \in Int, MoveTo(c, r)
    PROVE  cursor_col' \in 0..cols /\ cursor_row' \in 0 .. rows - 1
<1>1. cursor_col' \in 0 .. cols - 1 /\ cursor_row' \in 0 .. rows - 1
  BY Numbers, ClampedInside DEF MoveTo
<1> QED
  BY <1>1, Numbers

-----------------------------------------------------------------------------
\* What text does.
LEMMA GroundStep ==
    ASSUME IInv,
           \/ Newline \/ CarriageReturn \/ Backspace \/ Tab \/ Bell \/ TakeBell
           \/ \E ch \in bytes : PutChar(ch)
    PROVE  IInv'
<1>0. cursor_col \in 0..cols /\ cursor_row \in 0 .. rows - 1
  BY DEF IInv, InBounds
<1>1. CASE Newline
  BY <1>0, <1>1, NextRowInside, CursorStep DEF Newline, LineFeed, inGround
<1>2. CASE CarriageReturn
  BY <1>0, <1>2, Numbers, CursorStep DEF CarriageReturn, inGround
<1>3. CASE Backspace
  BY <1>0, <1>3, Numbers, CursorStep DEF Backspace, inGround
<1>4. CASE Tab
  <2>1. cursor_row' = cursor_row /\ UNCHANGED <<size, saved, region, parsed>>
    BY <1>4 DEF Tab, inGround
  <2>2. PICK next \in Int : cursor_col < next /\ next < cols /\ cursor_col' = next
    <3> DEFINE stop == TabStop * (cursor_col \div TabStop + 1)
               next == IF stop >= cols THEN cols - 1 ELSE stop
    <3>1. cursor_col < next /\ cursor_col' = next
      BY <1>4 DEF Tab
    <3>2. cursor_col \div TabStop \in Int
      BY Numbers, TermAssumption
    <3>3. stop \in Int
      BY <3>2, TermAssumption
    <3> HIDE DEF stop
    <3>4. next \in Int /\ next < cols
      BY <3>3, Numbers
    <3> QED
      BY <3>1, <3>4
  <2>3. cursor_col' \in 0..cols
    BY <2>2, Numbers
  <2> QED
    BY <1>0, <2>1, <2>3, CursorStep
<1>5. CASE Bell
  BY <1>0, <1>5, CursorStep DEF Bell, inGround, cursor
<1>6. CASE TakeBell
  BY <1>0, <1>6, CursorStep DEF TakeBell, inGround, cursor
<1>7. ASSUME NEW ch \in bytes, PutChar(ch) PROVE IInv'
  <2>1. UNCHANGED <<size, saved, region, parsed>>
    BY <1>7 DEF PutChar, inGround
  <2>2. cursor_col' \in 0..cols /\ cursor_row' \in 0 .. rows - 1
    <3>1. CASE cursor_col >= cols
      BY <1>7, <3>1, Numbers, NextRowInside DEF PutChar
    <3>2. CASE ~(cursor_col >= cols)
      BY <1>0, <1>7, <3>2, Numbers DEF PutChar
    <3> QED
      BY <3>1, <3>2
  <2> QED
    BY <2>1, <2>2, CursorStep
<1> QED
  BY <1>1, <1>2, <1>3, <1>4, <1>5, <1>6, <1>7

\* What escape sequences other than CSI do.
LEMMA EscapeStep ==
    ASSUME IInv, Escapes
    PROVE  IInv'
<1>0. cursor_col \in 0..cols /\ cursor_row \in 0 .. rows - 1
  BY DEF IInv, InBounds
<1>1. ASSUME NEW s, NEW ch, NEW next, Becomes(s, ch, next) PROVE IInv'
  BY <1>0, <1>1, CursorStep DEF Becomes, nothing, inEscape, cursor
<1>2. CASE OpenCsi
  <2>1. ParamsTyped'
    BY <1>2 DEF OpenCsi, NoParams, ParamsTyped
  <2>2. InBounds'
    BY <1>2, Numbers DEF OpenCsi, IInv, InBounds, size, cursor, saved, region
  <2> QED
    BY <2>1, <2>2 DEF IInv
<1>3. CASE ReverseIndex
  <2>1. cursor_row' \in 0 .. rows - 1
    BY <1>0, <1>3, Numbers DEF ReverseIndex
  <2> QED
    BY <1>0, <1>3, <2>1, CursorStep DEF ReverseIndex, inEscape
<1>4. CASE Index
  BY <1>0, <1>4, NextRowInside, CursorStep DEF Index, LineFeed, inEscape
<1>5. CASE NextLine
  <2>1. cursor_col' \in 0..cols
    BY <1>5, Numbers DEF NextLine
  <2> QED
    BY <1>5, <2>1, NextRowInside, CursorStep DEF NextLine, LineFeed, inEscape
<1>6. CASE Reset
  <2>1. ParamsTyped'
    BY <1>6 DEF Reset, ResetTo, NoParams, ParamsTyped
  <2>2. InBounds'
    BY <1>6, Numbers DEF Reset, ResetTo, IInv, InBounds, size
  <2> QED
    BY <2>1, <2>2 DEF IInv
<1> QED
  BY <1>1, <1>2, <1>3, <1>4, <1>5, <1>6 DEF Escapes

\* What the parameters of a CSI sequence do, and the letter that ends it.
LEMMA CsiStep ==
    ASSUME IInv, Csi
    PROVE  IInv'
<1>0. cursor_col \in 0..cols /\ cursor_row \in 0 .. rows - 1
  BY DEF IInv, InBounds
<1>1. ASSUME NEW d \in Digit, ParamDigit(d) PROVE IInv'
  <2> DEFINE at == IF param_count = 0 THEN 1 ELSE param_count
             n  == params[at] * 10 + Value(d)
  <2>1. at \in 1..MaxParams
    BY Numbers DEF IInv, InBounds
  <2>2. params[at] \in Nat /\ Value(d) \in 0..9
    BY <2>1, ValueOfDigit DEF IInv, ParamsTyped
  <2>3. n \in Nat
    BY <2>2
  <2>4. /\ params' = [params EXCEPT ![at] = IF n > ParamCap THEN ParamCap ELSE n]
        /\ param_count' = at
    BY <1>1 DEF ParamDigit
  <2> HIDE DEF at, n
  <2>5. ParamsTyped'
    BY <2>3, <2>4, TermAssumption DEF IInv, ParamsTyped
  <2>6. param_count' \in 0..MaxParams
    BY <2>1, <2>4, Numbers
  <2>7. InBounds'
    BY <1>1, <2>6 DEF ParamDigit, inCsi, IInv, InBounds, size, cursor, saved, region
  <2> QED
    BY <2>5, <2>7 DEF IInv
<1>2. CASE NextParam
  <2>1. param_count' \in 0..MaxParams
    <3>1. param_count' = IF param_count < MaxParams THEN param_count + 1
                         ELSE param_count
      BY <1>2 DEF NextParam
    <3>2. param_count \in 0..MaxParams
      BY DEF IInv, InBounds
    <3> QED
      BY <3>1, <3>2, Numbers
  <2>2. InBounds'
    BY <1>2, <2>1 DEF NextParam, inCsi, IInv, InBounds, size, cursor, saved, region
  <2>3. ParamsTyped'
    BY <1>2 DEF NextParam, IInv, ParamsTyped
  <2> QED
    BY <2>2, <2>3 DEF IInv
<1>3. ASSUME NEW final \in Moves, Move(final) PROVE IInv'
  <2>1. ParamAt(1, 1) \in Nat /\ ParamAt(2, 1) \in Nat
    BY ParamIsNumber
  <2>2. PICK c \in Int, r \in Int : MoveTo(c, r)
    <3> DEFINE n == ParamAt(1, 1)
    <3>1. /\ cursor_col \in Int /\ cursor_row \in Int /\ n \in Int
          /\ cursor_col + n \in Int /\ cursor_col - n \in Int /\ n - 1 \in Int
          /\ cursor_row + n \in Int /\ cursor_row - n \in Int
          /\ ParamAt(2, 1) - 1 \in Int /\ 0 \in Int
      BY <2>1, Numbers
    <3>2. \/ MoveTo(cursor_col, cursor_row - n) \/ MoveTo(cursor_col, cursor_row + n)
          \/ MoveTo(cursor_col + n, cursor_row) \/ MoveTo(cursor_col - n, cursor_row)
          \/ MoveTo(0, cursor_row + n) \/ MoveTo(0, cursor_row - n)
          \/ MoveTo(n - 1, cursor_row) \/ MoveTo(cursor_col, n - 1)
          \/ MoveTo(ParamAt(2, 1) - 1, n - 1)
      BY <1>3 DEF Move
    <3> HIDE DEF n
    <3> QED
      BY <3>1, <3>2
  <2>3. cursor_col' \in 0..cols /\ cursor_row' \in 0 .. rows - 1
    BY <2>2, MovedInside
  <2> QED
    BY <1>3, <2>3, DispatchStep DEF Move
<1>4. CASE EraseDisplay \/ EraseLine \/ EraseChars
  BY <1>4, DrawingStep DEF EraseDisplay, EraseLine, EraseChars
<1>5. CASE \/ InsertLines \/ DeleteLines \/ DeleteChars \/ InsertChars
           \/ ScrollUp \/ ScrollDown
  BY <1>5, DrawingStep DEF InsertLines, DeleteLines, DeleteChars, InsertChars,
     ScrollUp, ScrollDown
<1>6. CASE SetRegion
  <2> DEFINE top    == ParamAt(1, 1) - 1
             bottom == IF param_count > 1 THEN ParamAt(2, rows) - 1 ELSE rows - 1
             usable == top >= 0 /\ bottom < rows /\ top < bottom
  <2>1. top \in Int /\ bottom \in Int
    BY ParamIsNumber, Numbers
  <2>2. /\ scroll_top' = IF usable THEN top ELSE 0
        /\ scroll_bottom' = IF usable THEN bottom ELSE rows - 1
        /\ cursor_row' = scroll_top' /\ cursor_col' = 0
    BY <1>6 DEF SetRegion
  <2> HIDE DEF top, bottom
  <2>3. scroll_top' \in 0 .. rows - 1 /\ scroll_bottom' \in scroll_top' .. rows - 1
    BY <2>1, <2>2, Numbers
  <2>4. ParamsTyped' /\ param_count' \in 0..MaxParams /\ UNCHANGED <<size, saved>>
    BY <1>6, Numbers DEF SetRegion, Dispatch, NoParams, ParamsTyped
  <2>5. cursor_col' \in 0..cols
    BY <2>2, Numbers
  <2>6. InBounds'
    BY <2>2, <2>3, <2>4, <2>5 DEF IInv, InBounds, size, saved
  <2> QED
    BY <2>4, <2>6 DEF IInv
<1>7. CASE SaveCursor
  <2>1. ParamsTyped' /\ param_count' \in 0..MaxParams /\ UNCHANGED size
    BY <1>7, Numbers DEF SaveCursor, Dispatch, NoParams, ParamsTyped
  <2>2. InBounds'
    BY <1>0, <1>7, <2>1 DEF SaveCursor, IInv, InBounds, size, cursor, region
  <2> QED
    BY <2>1, <2>2 DEF IInv
<1>8. CASE RestoreCursor
  <2>1. cursor_col' \in 0..cols /\ cursor_row' \in 0 .. rows - 1
    BY <1>8, Numbers, MovedInside DEF RestoreCursor
  <2> QED
    BY <1>8, <2>1, DispatchStep DEF RestoreCursor
<1>9. CASE Sgr
  BY <1>0, <1>9, DispatchStep DEF Sgr, cursor
<1>10. ASSUME NEW final \in Others, OtherCsi(final) PROVE IInv'
  BY <1>10, DrawingStep DEF OtherCsi
<1> QED
  BY <1>1, <1>2, <1>3, <1>4, <1>5, <1>6, <1>7, <1>8, <1>9, <1>10 DEF Csi

-----------------------------------------------------------------------------
\* No byte takes the terminal out of the invariant, and none leaves it alone.
LEMMA NextInside == IInv /\ [Next]_vars => IInv'
<1> SUFFICES ASSUME IInv, [Next]_vars PROVE IInv'
  OBVIOUS
<1>1. CASE UNCHANGED vars
  BY <1>1 DEF vars, size, cursor, saved, region, parsed, IInv, InBounds, ParamsTyped
<1>2. CASE Next
  BY <1>2, GroundStep, EscapeStep, CsiStep DEF Next
<1> QED
  BY <1>1, <1>2

\* Whatever size is asked for and whatever bytes arrive, in any order and split
\* anywhere, the cursor, the saved cursor, the scroll region and the parameters
\* are indices that the terminal's arrays have (term_feed, dispatch_csi).
THEOREM StaysInside == Spec => []InBounds
<1>1. IInv => InBounds
  BY DEF IInv
<1> QED
  BY <1>1, InitInside, NextInside, PTL DEF Spec

-----------------------------------------------------------------------------
(* Loops that copy in place *)

\* The order of the natural numbers, as a relation.
Less == {p \in Nat \X Nat : p[1] < p[2]}

\* A set of natural numbers that is not empty has a least one.
LEMMA LeastOf ==
    ASSUME NEW P \in SUBSET Nat, P # {}
    PROVE  \E m \in P : \A x \in P : m <= x
<1>1. IsWellFoundedOn(Less, Nat)
  <2>1. OpToRel(<, Nat) = Less
    BY DEF OpToRel, Less
  <2> QED
    BY <2>1, NatLessThanWellFounded
<1>2. PICK m \in P : \A y \in P : <<y, m>> \notin Less
  BY <1>1, WFMin
<1>3. \A y \in P : y >= m
  <2> SUFFICES ASSUME NEW y \in P, y < m
               PROVE  FALSE
    OBVIOUS
  <2>1. <<y, m>> \in Nat \X Nat
    OBVIOUS
  <2>2. <<y, m>> \in Less
    BY <2>1 DEF Less
  <2> QED
    BY <2>2, <1>2
<1> QED
  BY <1>3

\* Two functions that start alike and go on alike are alike: induction over the
\* turns of a loop that counts up from a to b, ...
LEMMA CountingUp ==
    ASSUME NEW a \in Int, NEW b \in Int, a <= b + 1
    PROVE  \A F, C : /\ F[a - 1] = C[a - 1]
                     /\ \A r \in a..b : F[r - 1] = C[r - 1] => F[r] = C[r]
                     => \A r \in a - 1 .. b : F[r] = C[r]
<1> SUFFICES ASSUME NEW F, NEW C, F[a - 1] = C[a - 1],
                    \A r \in a..b : F[r - 1] = C[r - 1] => F[r] = C[r],
                    NEW z \in a - 1 .. b, F[z] # C[z]
             PROVE  FALSE
  OBVIOUS
<1> DEFINE Bad == {n \in Nat : a - 1 + n <= b /\ F[a - 1 + n] # C[a - 1 + n]}
<1>1. Bad \in SUBSET Nat /\ Bad # {}
  <2>1. z - (a - 1) \in Nat /\ a - 1 + (z - (a - 1)) = z
    OBVIOUS
  <2>2. z - (a - 1) \in Bad
    BY <2>1
  <2> QED
    BY <2>2
<1>2. PICK n \in Bad : \A x \in Bad : n <= x
  <2> HIDE DEF Bad
  <2> QED
    BY <1>1, LeastOf
<1>3. PICK r \in Int : r = a - 1 + n
  OBVIOUS
<1>4. r <= b /\ F[r] # C[r]
  BY <1>3
<1>5. n # 0
  BY <1>3, <1>4
<1>6. r \in a..b /\ n - 1 \in Nat /\ r - 1 = a - 1 + (n - 1)
  BY <1>3, <1>4, <1>5
<1>7. n - 1 \notin Bad
  BY <1>2, <1>6
<1>8. F[r - 1] = C[r - 1]
  BY <1>4, <1>6, <1>7
<1> QED
  BY <1>4, <1>6, <1>8

\* ... and of one that counts down from b to a.
LEMMA CountingDown ==
    ASSUME NEW a \in Int, NEW b \in Int, a <= b + 1
    PROVE  \A F, C : /\ F[b + 1] = C[b + 1]
                     /\ \A r \in a..b : F[r + 1] = C[r + 1] => F[r] = C[r]
                     => \A r \in a .. b + 1 : F[r] = C[r]
<1> SUFFICES ASSUME NEW F, NEW C, F[b + 1] = C[b + 1],
                    \A r \in a..b : F[r + 1] = C[r + 1] => F[r] = C[r],
                    NEW z \in a .. b + 1, F[z] # C[z]
             PROVE  FALSE
  OBVIOUS
<1> DEFINE Bad == {n \in Nat : b + 1 - n >= a /\ F[b + 1 - n] # C[b + 1 - n]}
<1>1. Bad \in SUBSET Nat /\ Bad # {}
  <2>1. b + 1 - z \in Nat /\ b + 1 - (b + 1 - z) = z
    OBVIOUS
  <2>2. b + 1 - z \in Bad
    BY <2>1
  <2> QED
    BY <2>2
<1>2. PICK n \in Bad : \A x \in Bad : n <= x
  <2> HIDE DEF Bad
  <2> QED
    BY <1>1, LeastOf
<1>3. PICK r \in Int : r = b + 1 - n
  OBVIOUS
<1>4. r >= a /\ F[r] # C[r]
  BY <1>3
<1>5. n # 0
  BY <1>3, <1>4
<1>6. r \in a..b /\ n - 1 \in Nat /\ r + 1 = b + 1 - (n - 1)
  BY <1>3, <1>4, <1>5
<1>7. n - 1 \notin Bad
  BY <1>2, <1>6
<1>8. F[r + 1] = C[r + 1]
  BY <1>4, <1>6, <1>7
<1> QED
  BY <1>4, <1>6, <1>8

-----------------------------------------------------------------------------
\* A row of the screen.
Line == [Columns -> Cell]

\* One turn of scroll_region_up: the rows from top to bottom move up by one.
LEMMA UpShape ==
    ASSUME NEW g \in [Rows -> Line], NEW top \in Rows, NEW bottom \in Rows,
           rows \in Nat, top <= bottom
    PROVE  Up(g, top, bottom) =
               [r \in Rows |-> IF r \notin top..bottom THEN g[r]
                               ELSE IF r < bottom THEN g[r + 1] ELSE BlankRow]
<1> DEFINE D == top - 1 .. bottom - 1
           Defines(h) == h = [r \in D |->
                                IF r < top THEN g
                                ELSE [h[r - 1] EXCEPT ![r] = h[r - 1][r + 1]]]
           F == CHOOSE h : Defines(h)
           C == [r \in D |-> [k \in Rows |-> IF k \in top..r THEN g[k + 1] ELSE g[k]]]
<1>0. top \in Int /\ bottom \in Int /\ top - 1 \in D /\ bottom - 1 \in D
  BY DEF Rows
<1>1. ASSUME NEW r \in D
      PROVE  C[r] = IF r < top THEN g
                    ELSE [C[r - 1] EXCEPT ![r] = C[r - 1][r + 1]]
  <2>1. C[r] = [k \in Rows |-> IF k \in top..r THEN g[k + 1] ELSE g[k]]
    OBVIOUS
  <2>2. CASE r < top
    <3>1. \A k \in Rows : k \notin top..r
      BY <1>0, <2>2 DEF Rows
    <3>2. C[r] = [k \in Rows |-> g[k]]
      BY <2>1, <3>1
    <3> QED
      BY <2>2, <3>2
  <2>3. CASE ~(r < top)
    <3>1. r - 1 \in D /\ r \in Rows /\ r + 1 \in Rows
      BY <1>0, <2>3 DEF Rows
    <3>2. C[r - 1] = [k \in Rows |-> IF k \in top .. r - 1 THEN g[k + 1] ELSE g[k]]
      BY <3>1
    <3> HIDE DEF C
    <3>3. C[r - 1][r + 1] = g[r + 1]
      BY <1>0, <3>1, <3>2
    <3>4. \A k \in Rows : k \in top..r <=> k = r \/ k \in top .. r - 1
      BY <1>0, <2>3 DEF Rows
    <3> QED
      BY <2>1, <2>3, <3>1, <3>2, <3>3, <3>4
  <2> QED
    BY <2>2, <2>3
<1>2. Defines(C)
  <2>1. C = [r \in D |-> C[r]]
    OBVIOUS
  <2> HIDE DEF C
  <2> QED
    BY <1>1, <2>1
<1>3. Defines(F)
  BY <1>2
<1>4. Up(g, top, bottom) = [F[bottom - 1] EXCEPT ![bottom] = BlankRow]
  BY DEF Up
<1> HIDE DEF F, C
<1>5. \A r \in D : F[r] = IF r < top THEN g
                          ELSE [F[r - 1] EXCEPT ![r] = F[r - 1][r + 1]]
  BY <1>3
<1>a. ASSUME NEW r \in top .. bottom - 1
      PROVE  r \in D /\ ~(r < top)
  BY <1>0
<1>b. top - 1 < top
  BY <1>0
<1>6. \A r \in D : F[r] = C[r]
  <2> HIDE DEF D
  <2>1. F[top - 1] = C[top - 1]
    BY <1>0, <1>b, <1>1, <1>5
  <2>2. ASSUME NEW r \in top .. bottom - 1, F[r - 1] = C[r - 1]
        PROVE  F[r] = C[r]
    BY <1>a, <1>1, <1>5, <2>2
  <2>3. \A f, c : /\ f[top - 1] = c[top - 1]
                  /\ \A r \in top .. bottom - 1 : f[r - 1] = c[r - 1] => f[r] = c[r]
                  => \A r \in top - 1 .. bottom - 1 : f[r] = c[r]
    BY <1>0, CountingUp
  <2>4. \A r \in top - 1 .. bottom - 1 : F[r] = C[r]
    BY <2>1, <2>2, <2>3
  <2> QED
    BY <2>4 DEF D
<1>7. F[bottom - 1] = [k \in Rows |-> IF k \in top .. bottom - 1 THEN g[k + 1] ELSE g[k]]
  BY <1>0, <1>6 DEF C
<1>8. ASSUME NEW k \in Rows
      PROVE  /\ k \in top .. bottom - 1 <=> k \in top..bottom /\ k < bottom
             /\ k \in top..bottom /\ ~(k < bottom) => k = bottom
  BY <1>0 DEF Rows
<1>9. Up(g, top, bottom) = [k \in Rows |-> IF k = bottom THEN BlankRow
                                           ELSE IF k \in top .. bottom - 1 THEN g[k + 1]
                                           ELSE g[k]]
  BY <1>4, <1>7
<1>10. bottom \in top..bottom /\ ~(bottom < bottom)
  BY <1>0
<1> QED
  BY <1>8, <1>9, <1>10

\* And one of scroll_region_down: they move down by one.
LEMMA DownShape ==
    ASSUME NEW g \in [Rows -> Line], NEW top \in Rows, NEW bottom \in Rows,
           rows \in Nat, top <= bottom
    PROVE  Down(g, top, bottom) =
               [r \in Rows |-> IF r \notin top..bottom THEN g[r]
                               ELSE IF r > top THEN g[r - 1] ELSE BlankRow]
<1> DEFINE D == top + 1 .. bottom + 1
           Defines(h) == h = [r \in D |->
                                IF r > bottom THEN g
                                ELSE [h[r + 1] EXCEPT ![r] = h[r + 1][r - 1]]]
           F == CHOOSE h : Defines(h)
           C == [r \in D |-> [k \in Rows |-> IF k \in r..bottom THEN g[k - 1] ELSE g[k]]]
<1>0. top \in Int /\ bottom \in Int /\ top + 1 \in D /\ bottom + 1 \in D
  BY DEF Rows
<1>1. ASSUME NEW r \in D
      PROVE  C[r] = IF r > bottom THEN g
                    ELSE [C[r + 1] EXCEPT ![r] = C[r + 1][r - 1]]
  <2>1. C[r] = [k \in Rows |-> IF k \in r..bottom THEN g[k - 1] ELSE g[k]]
    OBVIOUS
  <2>2. CASE r > bottom
    <3>1. \A k \in Rows : k \notin r..bottom
      BY <1>0, <2>2 DEF Rows
    <3>2. C[r] = [k \in Rows |-> g[k]]
      BY <2>1, <3>1
    <3> QED
      BY <2>2, <3>2
  <2>3. CASE ~(r > bottom)
    <3>1. r + 1 \in D /\ r \in Rows /\ r - 1 \in Rows
      BY <1>0, <2>3 DEF Rows
    <3>2. C[r + 1] = [k \in Rows |-> IF k \in r + 1 .. bottom THEN g[k - 1] ELSE g[k]]
      BY <3>1
    <3> HIDE DEF C
    <3>3. C[r + 1][r - 1] = g[r - 1]
      BY <1>0, <3>1, <3>2
    <3>4. \A k \in Rows : k \in r..bottom <=> k = r \/ k \in r + 1 .. bottom
      BY <1>0, <2>3 DEF Rows
    <3> QED
      BY <2>1, <2>3, <3>1, <3>2, <3>3, <3>4
  <2> QED
    BY <2>2, <2>3
<1>2. Defines(C)
  <2>1. C = [r \in D |-> C[r]]
    OBVIOUS
  <2> HIDE DEF C
  <2> QED
    BY <1>1, <2>1
<1>3. Defines(F)
  BY <1>2
<1>4. Down(g, top, bottom) = [F[top + 1] EXCEPT ![top] = BlankRow]
  BY DEF Down
<1> HIDE DEF F, C
<1>5. \A r \in D : F[r] = IF r > bottom THEN g
                          ELSE [F[r + 1] EXCEPT ![r] = F[r + 1][r - 1]]
  BY <1>3
<1>a. ASSUME NEW r \in top + 1 .. bottom
      PROVE  r \in D /\ ~(r > bottom)
  BY <1>0
<1>b. bottom + 1 > bottom
  BY <1>0
<1>6. \A r \in D : F[r] = C[r]
  <2> HIDE DEF D
  <2>1. F[bottom + 1] = C[bottom + 1]
    BY <1>0, <1>b, <1>1, <1>5
  <2>2. ASSUME NEW r \in top + 1 .. bottom, F[r + 1] = C[r + 1]
        PROVE  F[r] = C[r]
    BY <1>a, <1>1, <1>5, <2>2
  <2>3. \A f, c : /\ f[bottom + 1] = c[bottom + 1]
                  /\ \A r \in top + 1 .. bottom : f[r + 1] = c[r + 1] => f[r] = c[r]
                  => \A r \in top + 1 .. bottom + 1 : f[r] = c[r]
    <3>1. PICK a \in Int : a = top + 1
      BY <1>0
    <3>2. a <= bottom + 1
      BY <1>0, <3>1
    <3> QED
      BY <1>0, <3>1, <3>2, CountingDown
  <2>4. \A r \in top + 1 .. bottom + 1 : F[r] = C[r]
    BY <2>1, <2>2, <2>3
  <2> QED
    BY <2>4 DEF D
<1>7. F[top + 1] = [k \in Rows |-> IF k \in top + 1 .. bottom THEN g[k - 1] ELSE g[k]]
  BY <1>0, <1>6 DEF C
<1>8. ASSUME NEW k \in Rows
      PROVE  /\ k \in top + 1 .. bottom <=> k \in top..bottom /\ k > top
             /\ k \in top..bottom /\ ~(k > top) => k = top
  BY <1>0 DEF Rows
<1>9. Down(g, top, bottom) = [k \in Rows |-> IF k = top THEN BlankRow
                                             ELSE IF k \in top + 1 .. bottom THEN g[k - 1]
                                             ELSE g[k]]
  BY <1>4, <1>7
<1>10. top \in top..bottom /\ ~(top > top)
  BY <1>0
<1> QED
  BY <1>8, <1>9, <1>10

\* So any number of turns comes to the closed form.
LEMMA ScrolledUpShape ==
    ASSUME grid \in [Rows -> Line], BlankRow \in Line, rows \in Nat,
           NEW top \in Rows, NEW bottom \in Rows, top <= bottom, NEW lines \in Nat
    PROVE  ScrolledUp(top, bottom, lines) = Lifted(top, bottom, lines)
<1> DEFINE D == 0..lines
           Defines(h) == h = [i \in D |-> IF i = 0 THEN grid
                                          ELSE Up(h[i - 1], top, bottom)]
           F == CHOOSE h : Defines(h)
           C == [i \in D |-> Lifted(top, bottom, i)]
<1>0. top \in Int /\ bottom \in Int /\ 0 \in D /\ lines \in D
  BY DEF Rows
<1>1. \A i \in D : Lifted(top, bottom, i) \in [Rows -> Line]
  <2> SUFFICES ASSUME NEW i \in D, NEW r \in Rows
               PROVE  (IF r \notin top..bottom THEN grid[r]
                       ELSE IF r + i <= bottom THEN grid[r + i] ELSE BlankRow) \in Line
    BY DEF Lifted
  <2>1. r \in top..bottom /\ r + i <= bottom => r + i \in Rows
    BY <1>0 DEF Rows
  <2> QED
    BY <2>1
<1>2. ASSUME NEW i \in D
      PROVE  C[i] = IF i = 0 THEN grid ELSE Up(C[i - 1], top, bottom)
  <2>1. CASE i = 0
    <3>1. \A r \in Rows : r \in top..bottom => r + 0 <= bottom /\ r + 0 = r
      BY <1>0 DEF Rows
    <3>2. Lifted(top, bottom, 0) = [r \in Rows |-> grid[r]]
      BY <3>1 DEF Lifted
    <3> QED
      BY <2>1, <3>2
  <2>2. CASE i # 0
    <3>1. i - 1 \in D
      BY <2>2
    <3> DEFINE g == Lifted(top, bottom, i - 1)
    <3>2. C[i - 1] = g /\ g \in [Rows -> Line]
      BY <1>1, <3>1
    <3>3. g = [r \in Rows |-> IF r \notin top..bottom THEN grid[r]
                              ELSE IF r + (i - 1) <= bottom THEN grid[r + (i - 1)]
                              ELSE BlankRow]
      BY DEF Lifted
    <3> HIDE DEF g
    <3>4. Up(g, top, bottom) =
             [r \in Rows |-> IF r \notin top..bottom THEN g[r]
                             ELSE IF r < bottom THEN g[r + 1] ELSE BlankRow]
      BY <3>2, UpShape
    <3>5. ASSUME NEW r \in Rows
          PROVE  (IF r \notin top..bottom THEN g[r]
                  ELSE IF r < bottom THEN g[r + 1] ELSE BlankRow)
                 = (IF r \notin top..bottom THEN grid[r]
                    ELSE IF r + i <= bottom THEN grid[r + i] ELSE BlankRow)
      <4>1. CASE r \notin top..bottom
        BY <3>3, <4>1
      <4>2. CASE r \in top..bottom /\ r < bottom
        <5>1. r + 1 \in Rows /\ r + 1 \in top..bottom /\ (r + 1) + (i - 1) = r + i
          BY <1>0, <4>2 DEF Rows
        <5>2. g[r + 1] = IF r + i <= bottom THEN grid[r + i] ELSE BlankRow
          BY <3>3, <5>1
        <5> QED
          BY <4>2, <5>2
      <4>3. CASE r \in top..bottom /\ ~(r < bottom)
        <5>1. ~(r + i <= bottom)
          BY <1>0, <2>2, <4>3
        <5> QED
          BY <4>3, <5>1
      <4> QED
        BY <4>1, <4>2, <4>3
    <3>6. Up(g, top, bottom) = Lifted(top, bottom, i)
      BY <3>4, <3>5 DEF Lifted
    <3> QED
      BY <2>2, <3>2, <3>6
  <2> QED
    BY <2>1, <2>2
<1>3. Defines(C)
  <2>1. C = [i \in D |-> C[i]]
    OBVIOUS
  <2> HIDE DEF C
  <2> QED
    BY <1>2, <2>1
<1>4. Defines(F)
  BY <1>3
<1>5. ScrolledUp(top, bottom, lines) = F[lines]
  BY DEF ScrolledUp
<1> HIDE DEF F, C
<1>6. \A i \in D : F[i] = IF i = 0 THEN grid ELSE Up(F[i - 1], top, bottom)
  BY <1>4
<1>7. F[lines] = C[lines]
  <2> HIDE DEF D
  <2>1. F[1 - 1] = C[1 - 1]
    BY <1>0, <1>2, <1>6
  <2>2. ASSUME NEW i \in 1..lines, F[i - 1] = C[i - 1]
        PROVE  F[i] = C[i]
    <3>1. i \in D /\ i # 0
      BY DEF D
    <3> QED
      BY <1>2, <1>6, <2>2, <3>1
  <2>3. \A f, c : /\ f[1 - 1] = c[1 - 1]
                  /\ \A i \in 1..lines : f[i - 1] = c[i - 1] => f[i] = c[i]
                  => \A i \in 1 - 1 .. lines : f[i] = c[i]
    <3>1. PICK a \in Int : a = 1
      OBVIOUS
    <3>2. lines \in Int /\ a <= lines + 1
      BY <3>1
    <3> QED
      BY <3>1, <3>2, CountingUp
  <2>4. \A i \in 1 - 1 .. lines : F[i] = C[i]
    BY <2>1, <2>2, <2>3
  <2> QED
    BY <2>4
<1> QED
  BY <1>0, <1>5, <1>7 DEF C

\* And so it does the other way.
LEMMA ScrolledDownShape ==
    ASSUME grid \in [Rows -> Line], BlankRow \in Line, rows \in Nat,
           NEW top \in Rows, NEW bottom \in Rows, top <= bottom, NEW lines \in Nat
    PROVE  ScrolledDown(top, bottom, lines) = Lowered(top, bottom, lines)
<1> DEFINE D == 0..lines
           Defines(h) == h = [i \in D |-> IF i = 0 THEN grid
                                          ELSE Down(h[i - 1], top, bottom)]
           F == CHOOSE h : Defines(h)
           C == [i \in D |-> Lowered(top, bottom, i)]
<1>0. top \in Int /\ bottom \in Int /\ 0 \in D /\ lines \in D
  BY DEF Rows
<1>1. \A i \in D : Lowered(top, bottom, i) \in [Rows -> Line]
  <2> SUFFICES ASSUME NEW i \in D, NEW r \in Rows
               PROVE  (IF r \notin top..bottom THEN grid[r]
                       ELSE IF r - i >= top THEN grid[r - i] ELSE BlankRow) \in Line
    BY DEF Lowered
  <2>1. r \in top..bottom /\ r - i >= top => r - i \in Rows
    BY <1>0 DEF Rows
  <2> QED
    BY <2>1
<1>2. ASSUME NEW i \in D
      PROVE  C[i] = IF i = 0 THEN grid ELSE Down(C[i - 1], top, bottom)
  <2>1. CASE i = 0
    <3>1. \A r \in Rows : r \in top..bottom => r - 0 >= top /\ r - 0 = r
      BY <1>0 DEF Rows
    <3>2. Lowered(top, bottom, 0) = [r \in Rows |-> grid[r]]
      BY <3>1 DEF Lowered
    <3> QED
      BY <2>1, <3>2
  <2>2. CASE i # 0
    <3>1. i - 1 \in D
      BY <2>2
    <3> DEFINE g == Lowered(top, bottom, i - 1)
    <3>2. C[i - 1] = g /\ g \in [Rows -> Line]
      BY <1>1, <3>1
    <3>3. g = [r \in Rows |-> IF r \notin top..bottom THEN grid[r]
                              ELSE IF r - (i - 1) >= top THEN grid[r - (i - 1)]
                              ELSE BlankRow]
      BY DEF Lowered
    <3> HIDE DEF g
    <3>4. Down(g, top, bottom) =
             [r \in Rows |-> IF r \notin top..bottom THEN g[r]
                             ELSE IF r > top THEN g[r - 1] ELSE BlankRow]
      BY <3>2, DownShape
    <3>5. ASSUME NEW r \in Rows
          PROVE  (IF r \notin top..bottom THEN g[r]
                  ELSE IF r > top THEN g[r - 1] ELSE BlankRow)
                 = (IF r \notin top..bottom THEN grid[r]
                    ELSE IF r - i >= top THEN grid[r - i] ELSE BlankRow)
      <4>1. CASE r \notin top..bottom
        BY <3>3, <4>1
      <4>2. CASE r \in top..bottom /\ r > top
        <5>1. r - 1 \in Rows /\ r - 1 \in top..bottom /\ (r - 1) - (i - 1) = r - i
          BY <1>0, <4>2 DEF Rows
        <5>2. g[r - 1] = IF r - i >= top THEN grid[r - i] ELSE BlankRow
          BY <3>3, <5>1
        <5> QED
          BY <4>2, <5>2
      <4>3. CASE r \in top..bottom /\ ~(r > top)
        <5>1. ~(r - i >= top)
          BY <1>0, <2>2, <4>3
        <5> QED
          BY <4>3, <5>1
      <4> QED
        BY <4>1, <4>2, <4>3
    <3>6. Down(g, top, bottom) = Lowered(top, bottom, i)
      BY <3>4, <3>5 DEF Lowered
    <3> QED
      BY <2>2, <3>2, <3>6
  <2> QED
    BY <2>1, <2>2
<1>3. Defines(C)
  <2>1. C = [i \in D |-> C[i]]
    OBVIOUS
  <2> HIDE DEF C
  <2> QED
    BY <1>2, <2>1
<1>4. Defines(F)
  BY <1>3
<1>5. ScrolledDown(top, bottom, lines) = F[lines]
  BY DEF ScrolledDown
<1> HIDE DEF F, C
<1>6. \A i \in D : F[i] = IF i = 0 THEN grid ELSE Down(F[i - 1], top, bottom)
  BY <1>4
<1>7. F[lines] = C[lines]
  <2> HIDE DEF D
  <2>1. F[1 - 1] = C[1 - 1]
    BY <1>0, <1>2, <1>6
  <2>2. ASSUME NEW i \in 1..lines, F[i - 1] = C[i - 1]
        PROVE  F[i] = C[i]
    <3>1. i \in D /\ i # 0
      BY DEF D
    <3> QED
      BY <1>2, <1>6, <2>2, <3>1
  <2>3. \A f, c : /\ f[1 - 1] = c[1 - 1]
                  /\ \A i \in 1..lines : f[i - 1] = c[i - 1] => f[i] = c[i]
                  => \A i \in 1 - 1 .. lines : f[i] = c[i]
    <3>1. PICK a \in Int : a = 1
      OBVIOUS
    <3>2. lines \in Int /\ a <= lines + 1
      BY <3>1
    <3> QED
      BY <3>1, <3>2, CountingUp
  <2>4. \A i \in 1 - 1 .. lines : F[i] = C[i]
    BY <2>1, <2>2, <2>3
  <2> QED
    BY <2>4
<1> QED
  BY <1>0, <1>5, <1>7 DEF C

-----------------------------------------------------------------------------
\* delete_chars: each character takes the place of the one count to the left.
LEMMA DeletedShape ==
    ASSUME grid[cursor_row] \in Line, cols \in Nat, cursor_col \in 0..cols,
           NEW count \in Nat \ {0}
    PROVE  Deleted(count) =
               [k \in Columns |-> IF k < cursor_col THEN grid[cursor_row][k]
                                  ELSE IF k + count < cols THEN grid[cursor_row][k + count]
                                  ELSE Blank(pen)]
<1> DEFINE line == grid[cursor_row]
           D == cursor_col - 1 .. cols - 1
           Defines(h) == h = [c \in D |->
                                IF c < cursor_col THEN line
                                ELSE [h[c - 1] EXCEPT ![c] =
                                        IF c + count < cols THEN h[c - 1][c + count]
                                        ELSE Blank(pen)]]
           F == CHOOSE h : Defines(h)
           C == [c \in D |->
                   [k \in Columns |-> IF k \notin cursor_col..c THEN line[k]
                                      ELSE IF k + count < cols THEN line[k + count]
                                      ELSE Blank(pen)]]
<1>0. cursor_col \in Nat /\ cursor_col - 1 \in D /\ cols - 1 \in D
  OBVIOUS
<1>1. ASSUME NEW c \in D
      PROVE  C[c] = IF c < cursor_col THEN line
                    ELSE [C[c - 1] EXCEPT ![c] =
                            IF c + count < cols THEN C[c - 1][c + count] ELSE Blank(pen)]
  <2>1. C[c] = [k \in Columns |-> IF k \notin cursor_col..c THEN line[k]
                                  ELSE IF k + count < cols THEN line[k + count]
                                  ELSE Blank(pen)]
    OBVIOUS
  <2>0. line = [k \in Columns |-> line[k]]
    BY DEF Line
  <2> HIDE DEF line
  <2>2. CASE c < cursor_col
    <3>1. \A k \in Columns : k \notin cursor_col..c
      BY <1>0, <2>2 DEF Columns
    <3>2. C[c] = [k \in Columns |-> line[k]]
      BY <2>1, <3>1
    <3> QED
      BY <2>0, <2>2, <3>2
  <2>3. CASE ~(c < cursor_col)
    <3>1. c - 1 \in D /\ c \in Columns /\ (c + count < cols => c + count \in Columns)
      BY <1>0, <2>3 DEF Columns
    <3>2. C[c - 1] = [k \in Columns |-> IF k \notin cursor_col .. c - 1 THEN line[k]
                                        ELSE IF k + count < cols THEN line[k + count]
                                        ELSE Blank(pen)]
      BY <3>1
    <3> HIDE DEF C
    <3>3. c + count < cols => C[c - 1][c + count] = line[c + count]
      BY <1>0, <3>1, <3>2
    <3>4. \A k \in Columns : k \in cursor_col..c <=> k = c \/ k \in cursor_col .. c - 1
      BY <1>0, <2>3 DEF Columns
    <3> QED
      BY <2>1, <2>3, <3>1, <3>2, <3>3, <3>4
  <2> QED
    BY <2>2, <2>3
<1>2. Defines(C)
  <2>1. C = [c \in D |-> C[c]]
    OBVIOUS
  <2> HIDE DEF C
  <2> QED
    BY <1>1, <2>1
<1>3. Defines(F)
  BY <1>2
<1>4. Deleted(count) = F[cols - 1]
  BY DEF Deleted
<1> HIDE DEF F, C
<1>5. \A c \in D : F[c] = IF c < cursor_col THEN line
                          ELSE [F[c - 1] EXCEPT ![c] =
                                  IF c + count < cols THEN F[c - 1][c + count]
                                  ELSE Blank(pen)]
  BY <1>3
<1>6. F[cols - 1] = C[cols - 1]
  <2> HIDE DEF D
  <2>0. /\ cursor_col - 1 < cursor_col
        /\ \A c \in cursor_col .. cols - 1 : c \in D /\ ~(c < cursor_col)
    BY <1>0 DEF D
  <2>1. F[cursor_col - 1] = C[cursor_col - 1]
    BY <1>0, <1>1, <1>5, <2>0
  <2>2. ASSUME NEW c \in cursor_col .. cols - 1, F[c - 1] = C[c - 1]
        PROVE  F[c] = C[c]
    BY <1>1, <1>5, <2>0, <2>2
  <2>3. \A f, c : /\ f[cursor_col - 1] = c[cursor_col - 1]
                  /\ \A r \in cursor_col .. cols - 1 : f[r - 1] = c[r - 1] => f[r] = c[r]
                  => \A r \in cursor_col - 1 .. cols - 1 : f[r] = c[r]
    <3>1. PICK b \in Int : b = cols - 1
      OBVIOUS
    <3>2. cursor_col <= b + 1
      BY <3>1
    <3> QED
      BY <1>0, <3>1, <3>2, CountingUp
  <2>4. \A c \in cursor_col - 1 .. cols - 1 : F[c] = C[c]
    BY <2>1, <2>2, <2>3
  <2> QED
    BY <1>0, <2>4 DEF D
<1>7. \A k \in Columns : k \notin cursor_col .. cols - 1 <=> k < cursor_col
  BY <1>0 DEF Columns
<1>8. C[cols - 1] = [k \in Columns |-> IF k \notin cursor_col .. cols - 1 THEN line[k]
                                       ELSE IF k + count < cols THEN line[k + count]
                                       ELSE Blank(pen)]
  BY <1>0 DEF C
<1> QED
  BY <1>4, <1>6, <1>7, <1>8

\* insert_chars: it takes the place of the one count to the right.
LEMMA InsertedShape ==
    ASSUME grid[cursor_row] \in Line, cols \in Nat, cursor_col \in 0..cols,
           NEW count \in Nat \ {0}
    PROVE  Inserted(count) =
               [k \in Columns |-> IF k < cursor_col THEN grid[cursor_row][k]
                                  ELSE IF k - count >= cursor_col
                                       THEN grid[cursor_row][k - count]
                                  ELSE Blank(pen)]
<1> DEFINE line == grid[cursor_row]
           D == cursor_col .. cols
           Defines(h) == h = [c \in D |->
                                IF c = cols THEN line
                                ELSE [h[c + 1] EXCEPT ![c] =
                                        IF c - count >= cursor_col THEN h[c + 1][c - count]
                                        ELSE Blank(pen)]]
           F == CHOOSE h : Defines(h)
           C == [c \in D |->
                   [k \in Columns |-> IF k < c THEN line[k]
                                      ELSE IF k - count >= cursor_col THEN line[k - count]
                                      ELSE Blank(pen)]]
<1>0. cursor_col \in Nat /\ cursor_col \in D /\ cols \in D
  OBVIOUS
<1>1. ASSUME NEW c \in D
      PROVE  C[c] = IF c = cols THEN line
                    ELSE [C[c + 1] EXCEPT ![c] =
                            IF c - count >= cursor_col THEN C[c + 1][c - count]
                            ELSE Blank(pen)]
  <2>1. C[c] = [k \in Columns |-> IF k < c THEN line[k]
                                  ELSE IF k - count >= cursor_col THEN line[k - count]
                                  ELSE Blank(pen)]
    OBVIOUS
  <2>0. line = [k \in Columns |-> line[k]]
    BY DEF Line
  <2> HIDE DEF line
  <2>2. CASE c = cols
    <3>1. \A k \in Columns : k < c
      BY <2>2 DEF Columns
    <3>2. C[c] = [k \in Columns |-> line[k]]
      BY <2>1, <3>1
    <3> QED
      BY <2>0, <2>2, <3>2
  <2>3. CASE c # cols
    <3>1. /\ c + 1 \in D /\ c \in Columns
          /\ c - count >= cursor_col => c - count \in Columns /\ c - count < c + 1
      BY <1>0, <2>3 DEF Columns
    <3>2. C[c + 1] = [k \in Columns |-> IF k < c + 1 THEN line[k]
                                        ELSE IF k - count >= cursor_col THEN line[k - count]
                                        ELSE Blank(pen)]
      BY <3>1
    <3> HIDE DEF C
    <3>3. c - count >= cursor_col => C[c + 1][c - count] = line[c - count]
      BY <1>0, <3>1, <3>2
    <3>4. \A k \in Columns : k < c + 1 <=> k = c \/ k < c
      BY <1>0 DEF Columns
    <3>5. ~(c < c)
      BY <1>0
    <3> QED
      BY <2>1, <2>3, <3>1, <3>2, <3>3, <3>4, <3>5
  <2> QED
    BY <2>2, <2>3
<1>2. Defines(C)
  <2>1. C = [c \in D |-> C[c]]
    OBVIOUS
  <2> HIDE DEF C
  <2> QED
    BY <1>1, <2>1
<1>3. Defines(F)
  BY <1>2
<1>4. Inserted(count) = F[cursor_col]
  BY DEF Inserted
<1> HIDE DEF F, C
<1>5. \A c \in D : F[c] = IF c = cols THEN line
                          ELSE [F[c + 1] EXCEPT ![c] =
                                  IF c - count >= cursor_col THEN F[c + 1][c - count]
                                  ELSE Blank(pen)]
  BY <1>3
<1>6. F[cursor_col] = C[cursor_col]
  <2> HIDE DEF D
  <2>0. \A c \in cursor_col .. cols - 1 : c \in D /\ c # cols
    BY <1>0 DEF D
  <2>1. F[cols - 1 + 1] = C[cols - 1 + 1]
    <3>1. F[cols] = C[cols]
      BY <1>0, <1>1, <1>5
    <3>2. cols - 1 + 1 = cols
      OBVIOUS
    <3> QED
      BY <3>1, <3>2
  <2>2. ASSUME NEW c \in cursor_col .. cols - 1, F[c + 1] = C[c + 1]
        PROVE  F[c] = C[c]
    BY <1>1, <1>5, <2>0, <2>2
  <2>3. \A f, c : /\ f[cols - 1 + 1] = c[cols - 1 + 1]
                  /\ \A r \in cursor_col .. cols - 1 : f[r + 1] = c[r + 1] => f[r] = c[r]
                  => \A r \in cursor_col .. cols - 1 + 1 : f[r] = c[r]
    <3>1. PICK b \in Int : b = cols - 1
      OBVIOUS
    <3>2. cursor_col <= b + 1
      BY <3>1
    <3>3. \A f, c : /\ f[b + 1] = c[b + 1]
                    /\ \A r \in cursor_col..b : f[r + 1] = c[r + 1] => f[r] = c[r]
                    => \A r \in cursor_col .. b + 1 : f[r] = c[r]
      <4>1. cursor_col \in Int /\ b \in Int
        BY <1>0
      <4> QED
        BY <4>1, <3>2, CountingDown, Zenon
    <3> QED
      BY <3>1, <3>3
  <2>4. \A c \in cursor_col .. cols - 1 + 1 : F[c] = C[c]
    BY <2>1, <2>2, <2>3
  <2>5. cursor_col \in cursor_col .. cols - 1 + 1
    BY <1>0
  <2> QED
    BY <2>4, <2>5
<1>7. C[cursor_col] = [k \in Columns |-> IF k < cursor_col THEN line[k]
                                         ELSE IF k - count >= cursor_col THEN line[k - count]
                                         ELSE Blank(pen)]
  BY <1>0 DEF C
<1> QED
  BY <1>4, <1>6, <1>7

-----------------------------------------------------------------------------
(* The pen *)

Pen   == [fg : Colour, bg : Colour, bold : BOOLEAN, reverse : BOOLEAN]

\* There is a sequence of pens that starts at the one there is and goes on by a
\* given step.
LEMMA PensIterate ==
    ASSUME pen \in Pen, NEW n \in Nat, NEW step \in [1..n -> [Pen -> Pen]]
    PROVE  \E h \in [0..n -> Pen] :
              h[0] = pen /\ \A i \in 1..n : h[i] = step[i][h[i - 1]]
<1> DEFINE Good(m, h) == /\ h \in [0..m -> Pen]
                         /\ h[0] = pen
                         /\ \A i \in 1..m : h[i] = step[i][h[i - 1]]
           Bad == {m \in Nat : m <= n /\ ~ \E h : Good(m, h)}
<1>1. CASE Bad = {}
  <2>1. PICK h : Good(n, h)
    <3> HIDE DEF Good
    <3>1. n \notin Bad
      BY <1>1, Zenon
    <3> QED
      BY <3>1
  <2> QED
    BY <2>1
<1>2. CASE Bad # {}
  <2>1. PICK m \in Bad : \A y \in Bad : m <= y
    <3> HIDE DEF Bad
    <3>1. Bad \in SUBSET Nat
      BY DEF Bad
    <3> QED
      BY <1>2, <3>1, LeastOf
  <2>2. m # 0
    <3>1. Good(0, [i \in 0..0 |-> pen])
      OBVIOUS
    <3> QED
      BY <2>1, <3>1
  <2>3. m - 1 \in Nat /\ m - 1 \notin Bad /\ m \in 1..n
    BY <2>1, <2>2
  <2>4. PICK h : Good(m - 1, h)
    BY <2>3
  <2> DEFINE g == [i \in 0..m |-> IF i = m THEN step[m][h[m - 1]] ELSE h[i]]
  <2>5. Good(m, g)
    <3>1. h[m - 1] \in Pen /\ step[m] \in [Pen -> Pen]
      BY <2>3, <2>4
    <3>2. g \in [0..m -> Pen]
      BY <2>3, <2>4, <3>1
    <3>3. g[0] = pen
      BY <2>2, <2>3, <2>4
    <3>4. ASSUME NEW i \in 1..m
          PROVE  g[i] = step[i][g[i - 1]]
      BY <2>3, <2>4
    <3> HIDE DEF g
    <3> QED
      BY <3>2, <3>3, <3>4
  <2> QED
    BY <2>1, <2>5
<1> QED
  BY <1>1, <1>2

\* Any number folds onto a colour there is.
LEMMA FoldedIsColour ==
    ASSUME NEW n \in Nat
    PROVE  Folded(n) \in Colour
BY DEF Folded, Colour

\* A pen with one of its parts changed is a pen.
LEMMA PenKept ==
    ASSUME NEW q \in Pen, NEW c \in Colour, NEW b \in BOOLEAN
    PROVE  /\ [q EXCEPT !.fg = c] \in Pen /\ [q EXCEPT !.bg = c] \in Pen
           /\ [q EXCEPT !.bold = b] \in Pen /\ [q EXCEPT !.reverse = b] \in Pen
           /\ DefaultPen \in Pen /\ DefaultPen.fg \in Colour /\ DefaultPen.bg \in Colour
BY DEF Pen, Colour, DefaultPen

\* apply_sgr leaves a pen, whatever the parameters.
LEMMA PaintedIsPen ==
    ASSUME pen \in Pen, param_count \in 0..MaxParams, MaxParams \in Nat \ {0},
           params \in [1..MaxParams -> Nat]
    PROVE  Painted \in Pen
<1> DEFINE count == IF param_count = 0 THEN 1 ELSE param_count
           Wide(i) == params[i] \in {38, 48} /\ i + 2 <= count /\ params[i + 1] = 5
           first == CHOOSE first : first = [i \in 1..count |->
                       ~ \E j \in 1 .. i - 1 : i - j <= 2 /\ first[j] /\ Wide(j)]
           Applied(q, i) ==
            LET p == params[i] IN
            CASE p = 0           -> DefaultPen
              [] p = 1           -> [q EXCEPT !.bold = TRUE]
              [] p \in {2, 22}   -> [q EXCEPT !.bold = FALSE]
              [] p = 7           -> [q EXCEPT !.reverse = TRUE]
              [] p = 27          -> [q EXCEPT !.reverse = FALSE]
              [] p \in 30..37    -> [q EXCEPT !.fg = p - 30]
              [] p = 39          -> [q EXCEPT !.fg = DefaultPen.fg]
              [] p \in 40..47    -> [q EXCEPT !.bg = p - 40]
              [] p = 49          -> [q EXCEPT !.bg = DefaultPen.bg]
              [] p \in 90..97    -> [q EXCEPT !.fg = p - 82]
              [] p \in 100..107  -> [q EXCEPT !.bg = p - 92]
              [] p = 38 /\ Wide(i) -> [q EXCEPT !.fg = Folded(params[i + 2])]
              [] p = 48 /\ Wide(i) -> [q EXCEPT !.bg = Folded(params[i + 2])]
              [] OTHER           -> q
           D == 0..count
           Defines(h) == h = [i \in D |->
                                IF i = 0 THEN pen
                                ELSE IF first[i] THEN Applied(h[i - 1], i) ELSE h[i - 1]]
           F == CHOOSE h : Defines(h)
<1>0. count \in Nat /\ count \in 1..MaxParams /\ 0 \in D /\ count \in D
  OBVIOUS
<1>1. Painted = F[count]
  BY DEF Painted
<1> HIDE DEF count, first
<1>2. ASSUME NEW q \in Pen, NEW i \in 1..count
      PROVE  Applied(q, i) \in Pen
  <2> DEFINE p == params[i]
  <2>1. p \in Nat
    BY <1>0
  <2>2. Wide(i) => Folded(params[i + 2]) \in Colour
    BY <1>0, FoldedIsColour
  <2>3. /\ p \in 30..37 => p - 30 \in Colour
        /\ p \in 40..47 => p - 40 \in Colour
        /\ p \in 90..97 => p - 82 \in Colour
        /\ p \in 100..107 => p - 92 \in Colour
    BY <2>1 DEF Colour
  <2>4. \A c \in Colour : [q EXCEPT !.fg = c] \in Pen /\ [q EXCEPT !.bg = c] \in Pen
    BY PenKept
  <2>5. /\ [q EXCEPT !.bold = TRUE] \in Pen /\ [q EXCEPT !.bold = FALSE] \in Pen
        /\ [q EXCEPT !.reverse = TRUE] \in Pen /\ [q EXCEPT !.reverse = FALSE] \in Pen
    BY PenKept, 0 \in Colour DEF Colour
  <2>6. DefaultPen \in Pen /\ DefaultPen.fg \in Colour /\ DefaultPen.bg \in Colour
    BY PenKept, 0 \in Colour DEF Colour
  <2> HIDE DEF Wide
  <2> QED
    BY <2>2, <2>3, <2>4, <2>5, <2>6
<1> HIDE DEF Applied
<1> DEFINE step == [i \in 1..count |-> [q \in Pen |->
                        IF first[i] THEN Applied(q, i) ELSE q]]
<1>3. step \in [1..count -> [Pen -> Pen]]
  BY <1>2
<1>4. PICK C \in [0..count -> Pen] :
         C[0] = pen /\ \A i \in 1..count : C[i] = step[i][C[i - 1]]
  <2> HIDE DEF step
  <2> QED
    <3>1. count \in Nat
      BY <1>0
    <3> QED
      BY <1>3, <3>1, PensIterate
<1>5. ASSUME NEW i \in 1..count
      PROVE  /\ C[i] = IF first[i] THEN Applied(C[i - 1], i) ELSE C[i - 1]
             /\ i \in D /\ i # 0
  <2>1. C[i - 1] \in Pen
    BY <1>0, <1>4
  <2>2. step[i] = [q \in Pen |-> IF first[i] THEN Applied(q, i) ELSE q]
    OBVIOUS
  <2> HIDE DEF step
  <2>3. step[i][C[i - 1]] = IF first[i] THEN Applied(C[i - 1], i) ELSE C[i - 1]
    BY <2>1, <2>2
  <2>4. C[i] = step[i][C[i - 1]]
    BY <1>4
  <2> QED
    BY <1>0, <2>3, <2>4
<1> HIDE DEF step
<1>6. Defines(C)
  <2>1. ASSUME NEW i \in D
        PROVE  C[i] = IF i = 0 THEN pen
                      ELSE IF first[i] THEN Applied(C[i - 1], i) ELSE C[i - 1]
    BY <1>0, <1>4, <1>5
  <2>2. C = [i \in D |-> C[i]]
    BY <1>4
  <2> QED
    BY <2>1, <2>2
<1>7. Defines(F)
  BY <1>6
<1> HIDE DEF F
<1>8. \A i \in D : F[i] = IF i = 0 THEN pen
                          ELSE IF first[i] THEN Applied(F[i - 1], i) ELSE F[i - 1]
  BY <1>7
<1>9. F[count] = C[count]
  <2>1. F[1 - 1] = C[1 - 1]
    BY <1>0, <1>4, <1>8
  <2>2. ASSUME NEW i \in 1..count, F[i - 1] = C[i - 1]
        PROVE  F[i] = C[i]
    BY <1>5, <1>8, <2>2
  <2>3. \A f, c : /\ f[1 - 1] = c[1 - 1]
                  /\ \A i \in 1..count : f[i - 1] = c[i - 1] => f[i] = c[i]
                  => \A i \in 1 - 1 .. count : f[i] = c[i]
    <3>1. PICK a \in Int : a = 1
      OBVIOUS
    <3>2. count \in Int /\ a <= count + 1
      BY <1>0, <3>1
    <3> QED
      BY <3>1, <3>2, CountingUp
  <2>4. \A i \in 1 - 1 .. count : F[i] = C[i]
    BY <2>1, <2>2, <2>3
  <2> QED
    BY <1>0, <2>4
<1> QED
  BY <1>0, <1>1, <1>4, <1>9

-----------------------------------------------------------------------------
(* The cells *)

\* InBounds and the types: neither stands alone, since a row that scrolls is a
\* row there is, and a parameter, which moves the cursor, is a number.
TInv == IInv /\ TypeOK

\* blank_cell leaves a cell.
LEMMA BlankIsCell ==
    ASSUME NEW p \in Pen
    PROVE  Blank(p) \in Cell
BY DEF Blank, Pen, Cell, Colour

\* put_char leaves a cell, whatever the character.
LEMMA PrintedIsCell ==
    ASSUME pen \in Pen, NEW ch
    PROVE  Printed(ch) \in Cell
<1> DEFINE front == IF pen.bold THEN Bright(pen.fg) ELSE pen.fg
<1>1. pen.fg \in Colour /\ pen.bg \in Colour
  BY DEF Pen
<1>2. front \in Colour
  BY <1>1 DEF Bright, Colour
<1>3. PICK ink \in BOOLEAN : ink = (ch # " ")
  BY Zenon
<1>4. Printed(ch) = [ink |-> ink,
                     fg  |-> IF pen.reverse THEN pen.bg ELSE front,
                     bg  |-> IF pen.reverse THEN front ELSE pen.bg]
  BY <1>3, Zenon DEF Printed
<1> HIDE DEF front
<1> QED
  BY <1>1, <1>2, <1>4 DEF Cell

\* What the invariant says of the screen, for use below.
LEMMA Drawn ==
    ASSUME TInv
    PROVE  /\ rows \in Nat /\ cols \in Nat /\ cursor_row \in Rows
           /\ scroll_top \in Rows /\ scroll_bottom \in Rows /\ scroll_top <= scroll_bottom
           /\ grid \in [Rows -> Line] /\ grid[cursor_row] \in Line
           /\ pen \in Pen /\ Blank(pen) \in Cell /\ BlankRow \in Line
<1>1. /\ rows \in Nat /\ cols \in Nat /\ cursor_row \in Rows
      /\ scroll_top \in Rows /\ scroll_bottom \in Rows /\ scroll_top <= scroll_bottom
  BY Numbers DEF TInv, IInv, InBounds, Rows
<1>2. grid \in [Rows -> Line] /\ pen \in Pen
  BY DEF TInv, TypeOK, Line, Pen
<1>3. Blank(pen) \in Cell
  BY <1>2, BlankIsCell
<1>4. BlankRow \in Line
  BY <1>3 DEF BlankRow, Line
<1> QED
  BY <1>1, <1>2, <1>3, <1>4

\* A count is one line, or one character, at least.
LEMMA CountIsOne ==
    ASSUME IInv
    PROVE  ParamAt(1, 1) \in Nat \ {0}
<1>1. ParamAt(1, 1) \in Nat
  BY ParamIsNumber
<1>2. ParamAt(1, 1) = 1 \/ (ParamAt(1, 1) = params[1] /\ ~(params[1] <= 0))
  BY DEF ParamAt
<1> QED
  BY <1>1, <1>2

\* Scrolled lines are lines.
LEMMA TurnTyped ==
    ASSUME TInv
    PROVE  /\ Up(grid, scroll_top, scroll_bottom) \in [Rows -> Line]
           /\ Down(grid, scroll_top, scroll_bottom) \in [Rows -> Line]
<1> DEFINE top == scroll_top
           bottom == scroll_bottom
<1>1. ASSUME NEW r \in Rows, r \in top..bottom
      PROVE  /\ r < bottom => r + 1 \in Rows
             /\ r > top => r - 1 \in Rows
  BY <1>1, Drawn DEF Rows
<1>2. Up(grid, top, bottom) =
           [r \in Rows |-> IF r \notin top..bottom THEN grid[r]
                           ELSE IF r < bottom THEN grid[r + 1] ELSE BlankRow]
  BY Drawn, UpShape
<1>3. Down(grid, top, bottom) =
           [r \in Rows |-> IF r \notin top..bottom THEN grid[r]
                           ELSE IF r > top THEN grid[r - 1] ELSE BlankRow]
  BY Drawn, DownShape
<1> QED
  BY <1>1, <1>2, <1>3, Drawn

\* So are those of any number of turns.
LEMMA ShiftedTyped ==
    ASSUME TInv, NEW top \in Rows, NEW bottom \in Rows, top <= bottom, NEW n \in Nat
    PROVE  /\ ScrolledUp(top, bottom, n) \in [Rows -> Line]
           /\ ScrolledDown(top, bottom, n) \in [Rows -> Line]
<1>1. ASSUME NEW r \in Rows, r \in top..bottom
      PROVE  /\ r + n <= bottom => r + n \in Rows
             /\ r - n >= top => r - n \in Rows
  BY <1>1, Drawn DEF Rows
<1>2. Lifted(top, bottom, n) \in [Rows -> Line]
  BY <1>1, Drawn DEF Lifted
<1>3. Lowered(top, bottom, n) \in [Rows -> Line]
  BY <1>1, Drawn DEF Lowered
<1> QED
  BY <1>2, <1>3, Drawn, ScrolledUpShape, ScrolledDownShape

\* Shifted characters make a line.
LEMMA CharsTyped ==
    ASSUME TInv
    PROVE  /\ Deleted(ParamAt(1, 1)) \in Line
           /\ Inserted(ParamAt(1, 1)) \in Line
<1>0. PICK n \in Nat \ {0} : n = ParamAt(1, 1)
  BY CountIsOne DEF TInv
<1>1. cols \in Nat /\ cursor_col \in 0..cols
  BY Numbers DEF TInv, IInv, InBounds
<1>2. ASSUME NEW k \in Columns
      PROVE  /\ k + n < cols => k + n \in Columns
             /\ k - n >= cursor_col => k - n \in Columns
  BY <1>1 DEF Columns
<1>3. Deleted(n) =
          [k \in Columns |-> IF k < cursor_col THEN grid[cursor_row][k]
                             ELSE IF k + n < cols THEN grid[cursor_row][k + n]
                             ELSE Blank(pen)]
  BY <1>1, Drawn, DeletedShape
<1>4. Inserted(n) =
          [k \in Columns |-> IF k < cursor_col THEN grid[cursor_row][k]
                             ELSE IF k - n >= cursor_col THEN grid[cursor_row][k - n]
                             ELSE Blank(pen)]
  BY <1>1, Drawn, InsertedShape
<1>5. grid[cursor_row] \in [Columns -> Cell] /\ Blank(pen) \in Cell
  BY Drawn DEF Line
<1>6. Deleted(n) \in [Columns -> Cell]
  BY <1>2, <1>3, <1>5
<1>7. Inserted(n) \in [Columns -> Cell]
  BY <1>2, <1>4, <1>5
<1> QED
  BY <1>0, <1>6, <1>7 DEF Line

\* And so does a line with cells erased.
LEMMA BlankedTyped ==
    ASSUME TInv, NEW r \in Rows, NEW which
    PROVE  Blanked(r, which) \in Line
<1>1. grid[r] \in [Columns -> Cell] /\ Blank(pen) \in Cell
  BY Drawn DEF Line
<1> QED
  BY <1>1 DEF Blanked, Line

\* No step changes the size of the screen.
LEMMA SizeStays == Next => UNCHANGED size
<1>1. \A s, ch, next : Becomes(s, ch, next) => UNCHANGED size
  BY DEF Becomes, nothing, inEscape
<1>2. Escapes => UNCHANGED size
  BY <1>1 DEF Escapes, OpenCsi, ReverseIndex, Index, NextLine, Reset, inEscape
<1>3. \A final : Dispatch(final) => UNCHANGED size
  BY DEF Dispatch
<1>4. Csi => UNCHANGED size
  BY <1>3 DEF Csi, ParamDigit, NextParam, inCsi, Move, EraseDisplay, EraseLine,
     EraseChars, InsertLines, DeleteLines, DeleteChars, InsertChars, ScrollUp, ScrollDown,
     SetRegion, SaveCursor, RestoreCursor, Sgr, OtherCsi
<1>5. \/ Newline \/ CarriageReturn \/ Backspace \/ Tab \/ Bell \/ TakeBell
      \/ (\E ch \in bytes : PutChar(ch))
      => UNCHANGED size
  BY DEF Newline, CarriageReturn, Backspace, Tab, Bell, TakeBell, PutChar, inGround
<1> QED
  BY <1>2, <1>4, <1>5 DEF Next

\* What is on the screen after a character is cells, in the rows and columns there
\* are, ...
LEMMA GroundDraws ==
    ASSUME TInv,
           \/ Newline \/ CarriageReturn \/ Backspace \/ Tab \/ Bell \/ TakeBell
           \/ \E ch \in bytes : PutChar(ch)
    PROVE  grid' \in [Rows -> Line]
<1>0. FedGrid \in [Rows -> Line] /\ grid \in [Rows -> Line]
  BY Drawn, TurnTyped DEF FedGrid
<1>1. CASE Newline
  BY <1>0, <1>1 DEF Newline, LineFeed
<1>2. CASE CarriageReturn \/ Backspace \/ Bell \/ TakeBell
  BY <1>0, <1>2 DEF CarriageReturn, Backspace, Bell, TakeBell
<1>3. CASE Tab
  <2>1. PICK row : /\ row = [c \in Columns |->
                       IF c \in cursor_col .. cursor_col' - 1 THEN Printed(" ")
                       ELSE grid[cursor_row][c]]
                   /\ grid' = [grid EXCEPT ![cursor_row] = row]
    BY <1>3, Zenon DEF Tab
  <2>2. PICK cell \in Cell : cell = Printed(" ")
    BY PrintedIsCell, Drawn, Zenon
  <2>3. row = [c \in Columns |-> IF c \in cursor_col .. cursor_col' - 1 THEN cell
                                 ELSE grid[cursor_row][c]]
    BY <2>1, <2>2, Zenon
  <2>4. row \in Line
    BY <2>3, Drawn DEF Line
  <2> QED
    BY <1>0, <2>1, <2>4
<1>4. ASSUME NEW ch \in bytes, PutChar(ch)
      PROVE  grid' \in [Rows -> Line]
  <2>1. PICK cell \in Cell : cell = Printed(ch)
    BY PrintedIsCell, Drawn
  <2>2. NextRow \in Rows
    BY NextRowInside DEF TInv, Rows
  <2>3. 0 \in Columns /\ (~(cursor_col >= cols) => cursor_col \in Columns)
    BY Numbers DEF TInv, Columns
  <2>4. \/ grid' = [FedGrid EXCEPT ![NextRow][0] = cell]
        \/ ~(cursor_col >= cols) /\ grid' = [grid EXCEPT ![cursor_row][cursor_col] = cell]
    BY <1>4, <2>1 DEF PutChar
  <2>5. ASSUME NEW g \in [Rows -> Line], NEW r \in Rows, NEW c \in Columns
        PROVE  [g EXCEPT ![r][c] = cell] \in [Rows -> Line]
    <3>1. [g[r] EXCEPT ![c] = cell] \in Line
      BY DEF Line
    <3> QED
      BY <3>1
  <2> QED
    <3>1. [FedGrid EXCEPT ![NextRow][0] = cell] \in [Rows -> Line]
      BY <1>0, <2>2, <2>3, <2>5
    <3>2. ~(cursor_col >= cols)
             => [grid EXCEPT ![cursor_row][cursor_col] = cell] \in [Rows -> Line]
      BY <1>0, <2>3, <2>5, Drawn
    <3> QED
      BY <2>4, <3>1, <3>2
<1> QED
  BY <1>1, <1>2, <1>3, <1>4

\* What is on the screen after an escape sequence is cells, ...
LEMMA EscapesDraw ==
    ASSUME TInv, Escapes
    PROVE  grid' \in [Rows -> Line]
<1>0. /\ FedGrid \in [Rows -> Line] /\ grid \in [Rows -> Line]
      /\ Down(grid, scroll_top, scroll_bottom) \in [Rows -> Line]
  BY Drawn, TurnTyped DEF FedGrid
<1>1. ASSUME NEW s, NEW ch, NEW next, Becomes(s, ch, next)
      PROVE  grid' \in [Rows -> Line]
  BY <1>0, <1>1 DEF Becomes, nothing
<1>2. CASE OpenCsi
  BY <1>0, <1>2 DEF OpenCsi
<1>3. CASE ReverseIndex \/ Index \/ NextLine
  BY <1>0, <1>3 DEF ReverseIndex, Index, NextLine, LineFeed
<1>4. CASE Reset
  <2>1. Blank(DefaultPen) \in Cell
    <3>1. DefaultPen \in Pen
      BY DEF Pen, DefaultPen, Colour
    <3> QED
      BY <3>1, BlankIsCell
  <2> QED
    BY <1>4, <2>1 DEF Reset, ResetTo, Line, Rows, Columns
<1> QED
  BY <1>1, <1>2, <1>3, <1>4 DEF Escapes

\* ... and after a byte of a CSI sequence.
LEMMA CsiDraws ==
    ASSUME TInv, Csi
    PROVE  grid' \in [Rows -> Line]
<1>0. grid \in [Rows -> Line] /\ cursor_row \in Rows /\ BlankRow \in Line
  BY Drawn
<1>1. CASE (\E d \in Digit : ParamDigit(d)) \/ NextParam
  BY <1>0, <1>1 DEF ParamDigit, NextParam, inCsi
<1>2. CASE \/ \E final \in Moves : Move(final)
           \/ SetRegion \/ SaveCursor \/ RestoreCursor \/ Sgr
           \/ \E final \in Others : OtherCsi(final)
  BY <1>0, <1>2 DEF Move, SetRegion, SaveCursor, RestoreCursor, Sgr, OtherCsi
<1>3. CASE EraseDisplay
  <2>1. PICK whole, part : grid' = [r \in Rows |->
                              IF r \in whole THEN BlankRow
                              ELSE IF r = cursor_row THEN Blanked(r, part)
                              ELSE grid[r]]
    BY <1>3, Zenon DEF EraseDisplay
  <2> QED
    BY <1>0, <2>1, BlankedTyped
<1>4. CASE EraseLine \/ EraseChars
  <2>1. PICK part : grid' = [grid EXCEPT ![cursor_row] = Blanked(cursor_row, part)]
    BY <1>4, Zenon DEF EraseLine, EraseChars
  <2> QED
    BY <1>0, <2>1, BlankedTyped
<1>5. CASE DeleteChars \/ InsertChars
  BY <1>0, <1>5, CharsTyped DEF DeleteChars, InsertChars
<1>6. PICK n \in Nat : n = ParamAt(1, 1)
  BY CountIsOne DEF TInv
<1>7. CASE InsertLines \/ DeleteLines
  <2>1. InRegion => cursor_row <= scroll_bottom
    BY DEF InRegion
  <2> QED
    BY <1>0, <1>6, <1>7, <2>1, Drawn, ShiftedTyped DEF InsertLines, DeleteLines
<1>8. CASE ScrollUp \/ ScrollDown
  BY <1>6, <1>8, Drawn, ShiftedTyped DEF ScrollUp, ScrollDown
<1> QED
  BY <1>1, <1>2, <1>3, <1>4, <1>5, <1>7, <1>8 DEF Csi

\* And leaves a pen, ...
LEMMA PenStays ==
    ASSUME TInv, Next
    PROVE  pen' \in Pen
<1>0. pen \in Pen /\ DefaultPen \in Pen
  BY Drawn DEF Pen, DefaultPen, Colour
<1>1. CASE \/ Newline \/ CarriageReturn \/ Backspace \/ Tab \/ Bell \/ TakeBell
           \/ \E ch \in bytes : PutChar(ch)
  BY <1>0, <1>1 DEF Newline, CarriageReturn, Backspace, Tab, Bell, TakeBell, PutChar,
     inGround
<1>2. CASE Escapes
  <2>1. ASSUME NEW s, NEW ch, NEW next, Becomes(s, ch, next)
        PROVE  pen' = pen
    BY <2>1 DEF Becomes, nothing, inEscape
  <2>2. CASE OpenCsi \/ ReverseIndex \/ Index \/ NextLine
    BY <1>0, <2>2 DEF OpenCsi, ReverseIndex, Index, NextLine, inEscape
  <2>3. CASE Reset
    BY <1>0, <2>3 DEF Reset, ResetTo
  <2> QED
    BY <1>0, <1>2, <2>1, <2>2, <2>3 DEF Escapes
<1>3. CASE Csi
  <2>1. CASE Sgr
    <3>1. params \in [1..MaxParams -> Nat] /\ param_count \in 0..MaxParams
          /\ MaxParams \in Nat \ {0}
      BY Numbers DEF TInv, IInv, InBounds, ParamsTyped
    <3> QED
      BY <1>0, <2>1, <3>1, PaintedIsPen DEF Sgr
  <2>2. CASE (\E d \in Digit : ParamDigit(d)) \/ NextParam
    BY <1>0, <2>2 DEF ParamDigit, NextParam, inCsi
  <2>3. CASE \/ \E final \in Moves : Move(final)
             \/ SetRegion \/ SaveCursor \/ RestoreCursor
    BY <1>0, <2>3 DEF Move, SetRegion, SaveCursor, RestoreCursor
  <2>4. CASE \/ EraseDisplay \/ EraseLine \/ EraseChars
             \/ InsertLines \/ DeleteLines \/ DeleteChars \/ InsertChars
             \/ ScrollUp \/ ScrollDown
             \/ \E final \in Others : OtherCsi(final)
    <3>1. UNCHANGED drawn
      BY <2>4 DEF EraseDisplay, EraseLine, EraseChars, InsertLines, DeleteLines,
         DeleteChars, InsertChars, ScrollUp, ScrollDown, OtherCsi
    <3> QED
      BY <1>0, <3>1 DEF drawn
  <2> QED
    BY <1>3, <2>1, <2>2, <2>3, <2>4 DEF Csi
<1> QED
  BY <1>1, <1>2, <1>3 DEF Next

\* ... a state of the parser, and parameters.
LEMMA ParserStays ==
    ASSUME TInv, Next
    PROVE  /\ state' \in States
           /\ params' \in [1..MaxParams -> 0..ParamCap]
           /\ param_seen' \in BOOLEAN /\ bell_rang' \in BOOLEAN
<1>0. /\ state \in States /\ params \in [1..MaxParams -> 0..ParamCap]
      /\ param_seen \in BOOLEAN /\ bell_rang \in BOOLEAN
  BY DEF TInv, TypeOK
<1>p. NoParams \in [1..MaxParams -> 0..ParamCap] /\ ParamCap \in Nat
  BY TermAssumption DEF NoParams
<1>1. CASE \/ Newline \/ CarriageReturn \/ Backspace \/ Tab \/ Bell \/ TakeBell
           \/ \E ch \in bytes : PutChar(ch)
  <2>1. /\ state' = state /\ params' = params /\ param_seen' = param_seen
    BY <1>1 DEF Newline, CarriageReturn, Backspace, Tab, Bell, TakeBell, PutChar,
       inGround, parsed
  <2>2. bell_rang' \in {bell_rang} \union BOOLEAN
    BY <1>1 DEF Newline, CarriageReturn, Backspace, Tab, Bell, TakeBell, PutChar
  <2> QED
    BY <1>0, <2>1, <2>2, Zenon
<1>2. CASE Escapes
  <2>1. ASSUME NEW s, NEW ch, NEW next \in States, Becomes(s, ch, next)
        PROVE  state' \in States /\ UNCHANGED <<parsed, bell_rang>>
    BY <2>1 DEF Becomes, nothing, inEscape
  <2>2. {"ground", "esc", "csi", "osc", "oscEsc", "skip"} = States
    BY DEF States
  <2>3. CASE OpenCsi
    <3>1. /\ state' \in States /\ params' = NoParams
          /\ param_seen' = FALSE /\ bell_rang' = bell_rang
      BY <2>2, <2>3 DEF OpenCsi
    <3> QED
      BY <1>0, <1>p, <3>1, Zenon
  <2>4. CASE ReverseIndex \/ Index \/ NextLine
    <3>1. /\ state' \in States /\ params' = params
          /\ param_seen' = param_seen /\ bell_rang' = bell_rang
      BY <2>2, <2>4 DEF ReverseIndex, Index, NextLine, inEscape, parsed
    <3> QED
      BY <1>0, <3>1, Zenon
  <2>5. CASE Reset
    <3>1. /\ state' \in States /\ params' = NoParams
          /\ param_seen' = FALSE /\ bell_rang' = FALSE
      BY <2>2, <2>5 DEF Reset, ResetTo
    <3> QED
      BY <1>p, <3>1, Zenon
  <2>6. CASE \E s, ch : \E next \in States : Becomes(s, ch, next)
    <3>1. state' \in States /\ params' = params
          /\ param_seen' = param_seen /\ bell_rang' = bell_rang
      BY <2>1, <2>6 DEF parsed
    <3> QED
      BY <1>0, <3>1, Zenon
  <2>7. \/ OpenCsi \/ ReverseIndex \/ Index \/ NextLine \/ Reset
        \/ \E s, ch : \E next \in States : Becomes(s, ch, next)
    <3>1. /\ "ground" \in States /\ "esc" \in States /\ "osc" \in States
          /\ "oscEsc" \in States /\ "skip" \in States
      BY <2>2
    <3>2. ASSUME NEW ch PROVE (IF ch = "\\" THEN "ground" ELSE "osc") \in States
      BY <3>1
    <3> QED
      BY <1>2, <3>1, <3>2, Zenon DEF Escapes
  <2> QED
    BY <2>3, <2>4, <2>5, <2>6, <2>7
<1>3. CASE Csi
  <2>1. ASSUME NEW d \in Digit, ParamDigit(d)
        PROVE  /\ state' = state /\ params' \in [1..MaxParams -> 0..ParamCap]
               /\ param_seen' = TRUE /\ bell_rang' = bell_rang
    <3> DEFINE at == IF param_count = 0 THEN 1 ELSE param_count
               n  == params[at] * 10 + Value(d)
    <3>1. at \in 1..MaxParams
      BY Numbers DEF TInv, IInv, InBounds
    <3>2. params[at] \in Nat /\ Value(d) \in 0..9
      BY <1>0, <1>p, <3>1, ValueOfDigit
    <3>3. n \in Nat
      BY <3>2
    <3>4. params' = [params EXCEPT ![at] = IF n > ParamCap THEN ParamCap ELSE n]
      BY <2>1 DEF ParamDigit
    <3>5. /\ state' = state /\ param_seen' = TRUE /\ bell_rang' = bell_rang
      BY <2>1 DEF ParamDigit, inCsi
    <3> HIDE DEF at, n
    <3> QED
      BY <1>0, <1>p, <3>1, <3>3, <3>4, <3>5
  <2>2. CASE NextParam
    <3>1. /\ state' = state /\ params' = params
          /\ param_seen' = TRUE /\ bell_rang' = bell_rang
      BY <2>2 DEF NextParam, inCsi
    <3> QED
      BY <1>0, <3>1, Zenon
  <2>3. ASSUME NEW final, Dispatch(final)
        PROVE  /\ state' \in States /\ params' = NoParams
               /\ param_seen' = FALSE /\ bell_rang' = bell_rang
    BY <2>3 DEF Dispatch, States
  <2>4. \/ (\E d \in Digit : ParamDigit(d)) \/ NextParam
        \/ \E final : Dispatch(final)
    BY <1>3, Zenon DEF Csi, Move, EraseDisplay, EraseLine, EraseChars,
       InsertLines, DeleteLines, DeleteChars, InsertChars, ScrollUp, ScrollDown,
       SetRegion, SaveCursor, RestoreCursor, Sgr, OtherCsi
  <2>5. CASE \E d \in Digit : ParamDigit(d)
    <3>1. /\ state' = state /\ params' \in [1..MaxParams -> 0..ParamCap]
          /\ param_seen' = TRUE /\ bell_rang' = bell_rang
      BY <2>1, <2>5, Zenon
    <3> QED
      BY <1>0, <3>1, Zenon
  <2>6. CASE \E final : Dispatch(final)
    BY <1>0, <1>p, <2>3, <2>6, Zenon
  <2> QED
    BY <2>2, <2>4, <2>5, <2>6
<1> QED
  BY <1>1, <1>2, <1>3 DEF Next

-----------------------------------------------------------------------------
\* term_reset leaves a screen of blank cells.
LEMMA InitTyped == Init => TInv
<1> SUFFICES ASSUME Init PROVE TypeOK
  BY InitInside DEF TInv
<1>1. Blank(DefaultPen) \in Cell /\ DefaultPen \in Pen
  <2>1. DefaultPen \in Pen
    BY DEF Pen, DefaultPen, Colour
  <2> QED
    BY <2>1, BlankIsCell
<1>2. grid \in [Rows -> [Columns -> Cell]] /\ pen \in Pen
  BY <1>1 DEF Init
<1>3. bytes \subseteq Byte
  <2>1. PICK screen \in Screens : bytes = screen.bytes
    BY Zenon DEF Init
  <2> QED
    BY <2>1, TermAssumption
<1>4. state \in States /\ params \in [1..MaxParams -> 0..ParamCap]
  BY TermAssumption DEF Init, States, NoParams
<1>5. param_seen \in BOOLEAN /\ bell_rang \in BOOLEAN
  BY Zenon DEF Init
<1> QED
  BY <1>2, <1>3, <1>4, <1>5, Zenon DEF TypeOK, Pen

\* No byte takes the terminal out of the stronger invariant either.
LEMMA NextTyped == TInv /\ [Next]_vars => TInv'
<1> SUFFICES ASSUME TInv, [Next]_vars PROVE TypeOK'
  BY NextInside DEF TInv
<1>1. CASE UNCHANGED vars
  <2>1. /\ UNCHANGED <<cols, rows, bytes, grid, pen, state, params>>
        /\ param_seen' = param_seen /\ bell_rang' = bell_rang
    BY <1>1 DEF vars, size, parsed
  <2> QED
    BY <2>1 DEF TInv, TypeOK, Rows, Columns
<1>2. CASE Next
  <2>1. grid' \in [Rows -> Line]
    BY <1>2, GroundDraws, EscapesDraw, CsiDraws DEF Next
  <2>2. Rows' = Rows /\ Columns' = Columns /\ bytes' = bytes
    BY <1>2, SizeStays DEF size, Rows, Columns
  <2>3. pen' \in Pen
    BY <1>2, PenStays
  <2>4. /\ state' \in States /\ params' \in [1..MaxParams -> 0..ParamCap]
        /\ param_seen' \in BOOLEAN /\ bell_rang' \in BOOLEAN
    BY <1>2, ParserStays
  <2>5. bytes' \subseteq Byte
    BY <2>2 DEF TInv, TypeOK
  <2>6. grid' \in [Rows' -> [Columns' -> Cell]]
    BY <2>1, <2>2 DEF Line
  <2> QED
    BY <2>3, <2>4, <2>5, <2>6, Zenon DEF TypeOK, Pen
<1> QED
  BY <1>1, <1>2

\* So it holds as long as the terminal runs.
LEMMA AlwaysTyped == Spec => []TInv
BY InitTyped, NextTyped, PTL DEF Spec

\* Whatever bytes arrive, the screen is made of cells with colours that there are,
\* the pen is a pen and the parameters stay below their cap (term_feed).
THEOREM TypeCorrect == Spec => []TypeOK
<1>1. TInv => TypeOK
  BY DEF TInv
<1> QED
  BY <1>1, AlwaysTyped, PTL

\* However many lines are scrolled, inserted or deleted, every line arrives whole,
\* once and in its order, and the lines behind them are blank: the row-by-row
\* copies of scroll_region_up and scroll_region_down never read a row that they
\* have already overwritten.
THEOREM LinesArriveInOrder == Spec => LinesArrive
<1>1. ASSUME TInv
      PROVE  LET n == ParamAt(1, 1) IN
             /\ ScrollUp     => grid' = Lifted(scroll_top, scroll_bottom, n)
             /\ ScrollDown   => grid' = Lowered(scroll_top, scroll_bottom, n)
             /\ InsertLines /\ InRegion => grid' = Lowered(cursor_row, scroll_bottom, n)
             /\ DeleteLines /\ InRegion => grid' = Lifted(cursor_row, scroll_bottom, n)
  <2>1. PICK n \in Nat : n = ParamAt(1, 1)
    BY <1>1, CountIsOne DEF TInv
  <2>2. /\ rows \in Nat /\ grid \in [Rows -> Line] /\ BlankRow \in Line
        /\ cursor_row \in Rows /\ scroll_top \in Rows /\ scroll_bottom \in Rows
        /\ scroll_top <= scroll_bottom
        /\ InRegion => cursor_row <= scroll_bottom
    BY <1>1, Drawn DEF InRegion
  <2>3. /\ ScrolledUp(scroll_top, scroll_bottom, n) = Lifted(scroll_top, scroll_bottom, n)
        /\ ScrolledDown(scroll_top, scroll_bottom, n)
              = Lowered(scroll_top, scroll_bottom, n)
    BY <2>2, ScrolledUpShape, ScrolledDownShape
  <2>4. InRegion =>
        /\ ScrolledUp(cursor_row, scroll_bottom, n) = Lifted(cursor_row, scroll_bottom, n)
        /\ ScrolledDown(cursor_row, scroll_bottom, n)
              = Lowered(cursor_row, scroll_bottom, n)
    BY <2>2, ScrolledUpShape, ScrolledDownShape
  <2> QED
    BY <2>1, <2>3, <2>4 DEF ScrollUp, ScrollDown, InsertLines, DeleteLines
<1> QED
  BY <1>1, AlwaysTyped, PTL DEF LinesArrive

\* A turn leaves the rows outside the region alone, ...
LEMMA TurnsInside ==
    ASSUME TInv, NEW r \in Rows, r \notin scroll_top..scroll_bottom
    PROVE  /\ FedGrid[r] = grid[r]
           /\ Down(grid, scroll_top, scroll_bottom)[r] = grid[r]
BY Drawn, UpShape, DownShape DEF FedGrid

\* ... and so does any number of turns from a row of the region down.
LEMMA ScrolledInside ==
    ASSUME TInv, NEW r \in Rows, r \notin scroll_top..scroll_bottom, NEW n \in Nat,
           NEW top \in Rows, scroll_top <= top, top <= scroll_bottom
    PROVE  /\ ScrolledUp(top, scroll_bottom, n)[r] = grid[r]
           /\ ScrolledDown(top, scroll_bottom, n)[r] = grid[r]
<1>1. r \notin top..scroll_bottom
  BY Drawn DEF Rows
<1>2. /\ ScrolledUp(top, scroll_bottom, n) = Lifted(top, scroll_bottom, n)
      /\ ScrolledDown(top, scroll_bottom, n) = Lowered(top, scroll_bottom, n)
  BY Drawn, ScrolledUpShape, ScrolledDownShape
<1> QED
  BY <1>1, <1>2 DEF Lifted, Lowered

\* Whatever byte comes, a row outside the region is changed only where the cursor
\* is or goes, or by erasing the display or resetting the terminal.
THEOREM OutsideStays == Spec => OutsideStaysPut
<1>1. ASSUME TInv, [Next]_vars, ~EraseDisplay, ~Reset, NEW r \in Rows,
             r \notin scroll_top..scroll_bottom, r # cursor_row, r # cursor_row'
      PROVE  grid'[r] = grid[r]
  <2>0. \A g \in [Rows -> Line], row \in Rows : \A cells :
           row # r => [g EXCEPT ![row] = cells][r] = g[r]
    OBVIOUS
  <2>g. grid \in [Rows -> Line] /\ cursor_row \in Rows
    BY <1>1, Drawn
  <2>1. CASE UNCHANGED vars
    BY <2>1 DEF vars
  <2>2. CASE \/ CarriageReturn \/ Backspace \/ Bell \/ TakeBell
    BY <2>2 DEF CarriageReturn, Backspace, Bell, TakeBell
  <2>3. CASE Newline \/ Index \/ NextLine
    BY <1>1, <2>3, TurnsInside DEF Newline, Index, NextLine, LineFeed
  <2>4. CASE Tab
    <3>1. PICK row : grid' = [grid EXCEPT ![cursor_row] = row]
      BY <2>4, Zenon DEF Tab
    <3> QED
      BY <1>1, <2>0, <2>g, <3>1
  <2>5. ASSUME NEW ch \in bytes, PutChar(ch)
        PROVE  grid'[r] = grid[r]
    <3>1. FedGrid \in [Rows -> Line]
      BY <1>1, <2>g, TurnTyped DEF FedGrid
    <3>2. CASE cursor_col >= cols
      <4>1. grid' = [FedGrid EXCEPT ![NextRow][0] = Printed(ch)] /\ NextRow # r
        BY <1>1, <2>5, <3>2 DEF PutChar
      <4>2. grid'[r] = FedGrid[r]
        BY <3>1, <4>1
      <4> QED
        BY <1>1, <4>2, TurnsInside
    <3>3. CASE ~(cursor_col >= cols)
      BY <1>1, <2>5, <2>g, <3>3 DEF PutChar
    <3> QED
      BY <3>2, <3>3
  <2>6. ASSUME NEW s, NEW ch, NEW next, Becomes(s, ch, next)
        PROVE  grid' = grid
    BY <2>6 DEF Becomes, nothing
  <2>7. CASE OpenCsi
    BY <2>7 DEF OpenCsi
  <2>8. CASE ReverseIndex
    BY <1>1, <2>8, TurnsInside DEF ReverseIndex
  <2>9. CASE (\E d \in Digit : ParamDigit(d)) \/ NextParam
    BY <2>9 DEF ParamDigit, NextParam, inCsi
  <2>10. CASE \/ \E final \in Moves : Move(final)
              \/ SetRegion \/ SaveCursor \/ RestoreCursor \/ Sgr
              \/ \E final \in Others : OtherCsi(final)
    BY <2>10 DEF Move, SetRegion, SaveCursor, RestoreCursor, Sgr, OtherCsi
  <2>11. CASE EraseLine \/ EraseChars \/ DeleteChars \/ InsertChars
    <3>1. PICK row : grid' = [grid EXCEPT ![cursor_row] = row]
      BY <2>11, Zenon DEF EraseLine, EraseChars, DeleteChars, InsertChars
    <3> QED
      BY <1>1, <2>0, <2>g, <3>1
  <2>12. PICK n \in Nat : n = ParamAt(1, 1)
    BY <1>1, CountIsOne DEF TInv
  <2>13. CASE InsertLines \/ DeleteLines
    <3>1. CASE InRegion
      <4>1. scroll_top <= cursor_row /\ cursor_row <= scroll_bottom
        BY <1>1, <2>g, <3>1, Drawn DEF InRegion, Rows
      <4> QED
        BY <1>1, <2>g, <2>12, <2>13, <3>1, <4>1, ScrolledInside
           DEF InsertLines, DeleteLines
    <3>2. CASE ~InRegion
      BY <2>13, <3>2 DEF InsertLines, DeleteLines
    <3> QED
      BY <3>1, <3>2
  <2>14. CASE ScrollUp \/ ScrollDown
    <3>1. scroll_top \in Rows /\ scroll_top <= scroll_top /\ scroll_top <= scroll_bottom
      BY <1>1, Drawn DEF Rows
    <3> QED
      BY <1>1, <2>12, <2>14, <3>1, ScrolledInside DEF ScrollUp, ScrollDown
  <2>15. CASE Next
    <3>1. CASE Escapes
      BY <1>1, <2>3, <2>6, <2>7, <2>8, <3>1 DEF Escapes
    <3>2. CASE Csi
      BY <1>1, <2>9, <2>10, <2>11, <2>13, <2>14, <3>2 DEF Csi
    <3> QED
      BY <2>2, <2>3, <2>4, <2>5, <2>15, <3>1, <3>2 DEF Next
  <2> QED
    BY <1>1, <2>1, <2>15
<1>2. ASSUME TInv, [Next]_vars
      PROVE  ~EraseDisplay /\ ~Reset =>
                \A r \in Rows \ (scroll_top..scroll_bottom
                                    \union {cursor_row, cursor_row'}) :
                    grid'[r] = grid[r]
  BY <1>1, <1>2
<1> QED
  BY <1>2, AlwaysTyped, PTL DEF Spec, OutsideStaysPut

=============================================================================
