------------------------------ MODULE Drawing ------------------------------
(***************************************************************************)
(* What a tablet's window shows: draw_borders() and the part of            *)
(* panelreel_draw_tablet() that sizes the window around its callback, with *)
(* the demo's callback, tabletdraw().  PanelReel says where the window is  *)
(* and how high; this module says what is in it, cell by cell, drawing     *)
(* after drawing.  A window keeps what it shows: at its upper left corner  *)
(* when it is resized, and wherever nothing is drawn over it.              *)
(***************************************************************************)
EXTENDS Integers, FiniteSets

CONSTANTS
  MaxRows,    \* bound on the room a tablet is given
  Width,      \* its columns, which hold at least one column between borders
  MaxLines,   \* bound on the lines it has to show
  Masks       \* sides without a border, for the tablets of a reel

Sides == {"top", "right", "bottom", "left"}

ASSUME DrawingAssumption ==
  /\ {MaxRows, MaxLines} \subseteq Nat \ {0} /\ Width \in Nat /\ Width >= 3
  /\ Masks \subseteq SUBSET Sides

VARIABLES
  tabletmask,   \* the reel's option
  lines,        \* the lines the tablet has to show: 1 is the first
  glass,        \* the window: what is in each cell
  drawn         \* the last drawing: its direction, the room it had, whether
                \* the window was clipped, and what it returned

vars == <<tabletmask, lines, glass, drawn>>

Cells(h, w) == (0..(h - 1)) \X (0..(w - 1))

\* What a cell can show: nothing, a border, a line of the tablet, or the
\* summary that is printed over the first or the last of its lines.
Blank == 0
Border == -1
Summary == -2

NoWindow == [cell \in {} |-> Blank]

\* External: wresize(3), and newwin(3) for a window that is not there.
wresize(g, h) ==
  [cell \in Cells(h, Width) |-> IF cell \in DOMAIN g THEN g[cell] ELSE Blank]

\* What is drawn over g shows in the cells in which it is not Blank.
Over(g, ink) ==
  [cell \in DOMAIN g |-> IF ink[cell] = Blank THEN g[cell] ELSE ink[cell]]

----------------------------------------------------------------------------
(* draw_borders() *)

\* The lines between the corners, or to the clipped end.
SideCells(h, w, mask, cliphead, clipfoot) ==
  LET rows == (IF cliphead THEN 0 ELSE 1)..(IF clipfoot THEN h - 1 ELSE h - 2)
  IN (IF "left" \in mask THEN {} ELSE rows \X {0})
     \cup (IF "right" \in mask THEN {} ELSE rows \X {w - 1})

\* Row y is the top or the bottom border, or its corners if that is masked.
EdgeCells(y, w, side, mask) ==
  IF side \notin mask THEN {y} \X (0..(w - 1))
  ELSE (IF "left" \in mask THEN {} ELSE {<<y, 0>>})
       \cup (IF "right" \in mask THEN {} ELSE {<<y, w - 1>>})

TopCells(h, w, mask, cliphead) ==
  IF cliphead THEN {} ELSE EdgeCells(0, w, "top", mask)

BottomCells(h, w, mask, clipfoot) ==
  IF clipfoot THEN {} ELSE EdgeCells(h - 1, w, "bottom", mask)

BorderCells(h, w, mask, cliphead, clipfoot) ==
  TopCells(h, w, mask, cliphead)
    \cup SideCells(h, w, mask, cliphead, clipfoot)
    \cup BottomCells(h, w, mask, clipfoot)

\* ncurses writes the last cell of a window but says it failed.  All answers
\* count but the one for the lower right corner.
BordersFail(h, w, mask, cliphead, clipfoot) ==
  \/ <<h - 1, w - 1>> \in TopCells(h, w, mask, cliphead)
  \/ <<h - 1, w - 1>> \in SideCells(h, w, mask, cliphead, clipfoot)
  \/ w = 1 /\ ~clipfoot /\ ("bottom" \notin mask \/ "left" \notin mask)

\* draw_panelreel_borders(), for a reel of this size at y, x: whether
\* panelreel_redraw() is to give up.
ReelBordersFail(y, x, h, w, mask, min_rows, min_cols) ==
  LET maxx == w - 1
      maxy == h - 1
  IN /\ ~(x >= maxx \/ maxx - x + 1 < min_rows)
     /\ ~(y >= maxy \/ maxy - y + 1 < min_cols)
     /\ BordersFail(h, w, mask, FALSE, FALSE)

----------------------------------------------------------------------------
(* The callback: tabletdown() and tabletup() *)

\* From the first row down: which line is in row y, or Blank.
Down(begy, maxy, y) ==
  IF y \in begy..maxy /\ y - begy < lines THEN y - begy + 1 ELSE Blank

\* Mutant: the lines are left at the end of the room.
UpFrom(begy, maxy) == maxy

\* The last row that is written: with room to spare only one row is kept, for
\* the border, above the lines, because wresize() cuts off the rest below.
LastRow(begy, maxy) ==
  IF maxy - begy > lines THEN begy + lines ELSE maxy

Up(begy, maxy, y) ==
  LET last == LastRow(begy, maxy)
  IN IF y \in begy..last /\ last - y < lines THEN lines - (last - y) ELSE Blank

Written(begy, maxy, d, y) == IF d < 0 THEN Up(begy, maxy, y) ELSE Down(begy, maxy, y)

\* The row of the summary, if ll lines were written.
SummaryRow(begy, maxy, d, ll) ==
  IF d >= 0 THEN begy ELSE IF ll = maxy - begy + 1 THEN ll - 1 ELSE ll

----------------------------------------------------------------------------
(* panelreel_draw_tablet(), from line 257 on *)

Has(side) == IF side \in tabletmask THEN 0 ELSE 1

\* The room for the callback: everything but the borders that show for sure.
cby(d) == IF d >= 0 THEN Has("top") ELSE 0
cbmaxy(d, leny) == leny - 1 - (IF d < 0 THEN Has("bottom") ELSE 0)
cbx == Has("left")
cbmaxx == Width - 1 - Has("right")

\* Mutant: both borders are always added.
SizeBoth(leny, ll, d) == ll + Has("top") + Has("bottom")

\* The rows the window is left with, after ll of leny were written.
Size(leny, ll, d) ==
  IF ll = leny THEN leny
  ELSE IF ll = leny - 1 THEN ll + Has(IF d < 0 THEN "bottom" ELSE "top")
  ELSE ll + Has("top") + Has("bottom")

\* Mutant: only a tablet without room for a line counts as clipped.
ClippedEmpty(leny, ll) == ll = 0

Clipped(leny, ll) == ll = leny - 1

\* The rows that the callback writes, and how many it says it has written.
Rows(d, leny) ==
  {y \in cby(d)..cbmaxy(d, leny) : Written(cby(d), cbmaxy(d, leny), d, y) # Blank}

ll(d, leny) == Cardinality(Rows(d, leny))

Text(d, leny) ==
  [cell \in Cells(leny, Width) |->
     IF cell[1] \notin Rows(d, leny) \/ cell[2] \notin cbx..cbmaxx THEN Blank
     ELSE IF cell = <<SummaryRow(cby(d), cbmaxy(d, leny), d, ll(d, leny)), cbx>>
     THEN Summary ELSE Written(cby(d), cbmaxy(d, leny), d, cell[1])]

Frame(d, leny) ==
  LET h == Size(leny, ll(d, leny), d)
      clip == Clipped(leny, ll(d, leny))
      borders == BorderCells(h, Width, tabletmask, clip /\ d < 0, clip /\ d >= 0)
  IN [cell \in Cells(h, Width) |-> IF cell \in borders THEN Border ELSE Blank]

\* The tablet is drawn in direction d (0: it is focused), with leny rows: the
\* callback's text first, then the window is cut to size and gets its borders.
Draw(d, leny) ==
  /\ glass' = LET written == Over(wresize(glass, leny), Text(d, leny))
              IN Over(wresize(written, Size(leny, ll(d, leny), d)), Frame(d, leny))
  /\ drawn' = [d |-> d, room |-> leny, clipped |-> Clipped(leny, ll(d, leny))]
  /\ UNCHANGED <<tabletmask, lines>>

\* The tablet is hidden, and its window gone.
Hide ==
  /\ glass' = NoWindow /\ drawn' = [d |-> 0, room |-> 0, clipped |-> FALSE]
  /\ UNCHANGED <<tabletmask, lines>>

\* The application has more or fewer lines for the next drawing.
Update ==
  /\ drawn.room > 0 /\ lines' \in 1..MaxLines
  /\ drawn' = [drawn EXCEPT !.room = 0]
  /\ UNCHANGED <<tabletmask, glass>>

Init ==
  /\ tabletmask \in Masks /\ lines \in 1..MaxLines
  /\ glass = NoWindow /\ drawn = [d |-> 0, room |-> 0, clipped |-> FALSE]

Next == (\E d \in {-1, 0, 1}, leny \in 1..MaxRows : Draw(d, leny)) \/ Hide \/ Update

Spec == Init /\ [][Next]_vars

----------------------------------------------------------------------------
(* What a tablet looks like *)

Height == Cardinality({cell \in DOMAIN glass : cell[2] = 0})

\* Every variable has its type.
TypeOK ==
  /\ tabletmask \in Masks /\ lines \in 1..MaxLines
  /\ DOMAIN glass = Cells(Height, Width) /\ Height <= MaxRows
  /\ \A cell \in DOMAIN glass : glass[cell] \in -2..MaxLines
  /\ drawn \in [d : {-1, 0, 1}, room : 0..MaxRows, clipped : BOOLEAN]

\* The lines that show when n rows are left for them: the last ones when the
\* tablet is laid out upwards, else the first ones.
LineIn(n, row) == IF drawn.d < 0 THEN lines - n + row ELSE row

\* Whatever was in the window before, a drawn tablet is a closed frame, open
\* at its clipped end only, around its lines in their order: none is lost when
\* the window shrinks, none is painted over by a border, and nothing of an
\* earlier drawing is left.  The summary is on a line.
Framed ==
  drawn.room > 0 =>
    LET head == IF drawn.clipped /\ drawn.d < 0 THEN 0 ELSE 1
        foot == IF drawn.clipped /\ drawn.d >= 0 THEN 0 ELSE 1
        n    == Height - head - foot
        Inner(cell) == cell[1] \in head..(Height - 1 - foot)
                       /\ cell[2] \in Has("left")..(Width - 1 - Has("right"))
    IN /\ n <= lines
       /\ \A cell \in DOMAIN glass :
            IF Inner(cell)
            THEN glass[cell] \in {LineIn(n, cell[1] - head + 1), Summary}
            ELSE glass[cell] = Border
       /\ Cardinality({cell \in DOMAIN glass : glass[cell] = Summary})
            = IF n > 0 THEN 1 ELSE 0

\* A drawing says that the tablet is clipped when, and only when, the room it
\* had is too small for its lines and two borders; otherwise it takes no more
\* room than they need.
Honest ==
  drawn.room > 0 =>
    /\ drawn.clipped <=> lines + 2 > drawn.room
    /\ Height = IF drawn.clipped THEN drawn.room ELSE lines + 2
=============================================================================
