----------------------- MODULE PanelReelLayoutProofs -----------------------
(***************************************************************************)
(* Proofs about where PanelReel lays out its tablets.                      *)
(***************************************************************************)
EXTENDS PanelReelProofs, PanelReelValidate, TorusLemmas

----------------------------------------------------------------------------
(* Drawing one tablet *)

\* The last line of the reel that tablets may use.
Bottom == LastLine(reel) - ReelBorder("bottom")

\* The reel is on the screen, has a top border, and columns for tablets.
OnScreen ==
  /\ reel \in Window /\ reel.y >= 0 /\ reel.x >= 0
  /\ reel.y + reel.h <= LINES /\ reel.x + reel.w <= COLS
  /\ "top" \notin bordermask /\ TabletW >= 1

\* A window spans the columns between the borders.
InColumns(w) == w \in Window /\ w.x = reel.x + ReelBorder("left") /\ w.w = TabletW

\* What a window is resized, and moved, to.
LEMMA Resized ==
  ASSUME NEW w \in Window, NEW h \in Nat \ {0}, NEW l \in Nat \ {0}
  PROVE  /\ wresize(w, h, l) \in Window
         /\ wresize(w, h, l).y = w.y /\ wresize(w, h, l).x = w.x
         /\ wresize(w, h, l).h = h /\ wresize(w, h, l).w = l
<1>1. wresize(w, h, l) = [w EXCEPT !.h = h, !.w = l]
  BY DEF wresize, Resizable
<1> QED
  BY <1>1 DEF Window

\* move_panel keeps a window's size.
LEMMA Moved ==
  ASSUME NEW w \in Window, NEW y \in Int, NEW x \in Int, Movable(w, y, x)
  PROVE  /\ move_panel(w, y, x) \in Window
         /\ move_panel(w, y, x).y = y /\ move_panel(w, y, x).x = x
         /\ move_panel(w, y, x).h = w.h /\ move_panel(w, y, x).w = w.w
<1>1. move_panel(w, y, x) = [w EXCEPT !.y = y, !.x = x]
  BY DEF move_panel
<1> QED
  BY <1>1 DEF Window

\* The numbers that the layout is computed with.
LEMMA ReelNumbers ==
  ASSUME OnScreen
  PROVE  /\ reel.y \in Nat /\ reel.x \in Nat /\ reel.h \in Nat \ {0} /\ reel.w \in Nat \ {0}
         /\ LINES \in Nat /\ COLS \in Nat /\ TabletW \in Nat \ {0}
         /\ \A side : ReelBorder(side) \in {0, 1} /\ TabletBorder(side) \in {0, 1}
         /\ ReelBorder("top") = 1 /\ Top = reel.y + 1
         /\ Bottom = reel.y + reel.h - 1 - ReelBorder("bottom")
         /\ Room(0) = reel.h - 1 - ReelBorder("bottom") /\ Room(0) = Bottom - Top + 1
         /\ Room(1) = reel.h - ReelBorder("bottom")
         /\ reel.x + ReelBorder("left") + TabletW <= COLS
         /\ Bottom < LINES
<1>1. \A side : ReelBorder(side) \in {0, 1} /\ TabletBorder(side) \in {0, 1}
  BY DEF ReelBorder, TabletBorder
<1>2. ReelBorder("top") = 1
  BY DEF OnScreen, ReelBorder
<1>3. /\ reel.y \in Nat /\ reel.x \in Nat /\ reel.h \in Nat \ {0} /\ reel.w \in Nat \ {0}
      /\ LINES \in Nat /\ COLS \in Nat
  BY ScreenAssumption DEF OnScreen, Window
<1>4. TabletW \in Nat \ {0} /\ reel.x + ReelBorder("left") + TabletW <= COLS
  BY <1>1, <1>3 DEF OnScreen, TabletW
<1>5. Top = reel.y + 1 /\ Bottom = reel.y + reel.h - 1 - ReelBorder("bottom")
  BY <1>1, <1>2, <1>3 DEF Top, Bottom, LastLine
<1>6. Room(0) = reel.h - 1 - ReelBorder("bottom") /\ Room(1) = reel.h - ReelBorder("bottom")
  BY <1>1, <1>2, <1>3 DEF Room
<1>7. Room(0) = Bottom - Top + 1 /\ Bottom < LINES
  BY <1>1, <1>3, <1>5, <1>6 DEF OnScreen
<1> QED
  BY <1>1, <1>2, <1>3, <1>4, <1>5, <1>6, <1>7

\* The space offered to a tablet, for each direction of drawing.
LEMMA Spaces ==
  ASSUME OnScreen, NEW f \in Int
  PROVE  /\ LET c == TabletColumns(f, 1)
            IN /\ c.ok <=> f <= reel.y + reel.h - 2
               /\ c.y = f /\ c.x = reel.x + ReelBorder("left") /\ c.h = Bottom - f + 1
               /\ c.ok => c.h >= 1
         /\ LET c == TabletColumns(f, -1)
            IN /\ c.ok <=> f >= Top
               /\ c.y = Top /\ c.x = reel.x + ReelBorder("left") /\ c.h = f - Top + 1
               /\ c.ok => c.h >= 1
         /\ LET c == TabletColumns(f, 0)
            IN /\ c.ok <=> f >= Top
               /\ c.y = Top /\ c.x = reel.x + ReelBorder("left") /\ c.h = Room(0)
<1>1. /\ reel.y \in Nat /\ reel.h \in Nat /\ ReelBorder("bottom") \in {0, 1}
      /\ ReelBorder("top") = 1 /\ Top = reel.y + 1
      /\ Bottom = reel.y + reel.h - 1 - ReelBorder("bottom")
      /\ Room(1) = reel.h - ReelBorder("bottom")
  BY ReelNumbers
<1>2. LET c == TabletColumns(f, 1)
      IN /\ c.ok = (f <= reel.y + reel.h - 1 - ReelBorder("top"))
         /\ c.y = f /\ c.x = reel.x + ReelBorder("left") /\ c.h = Room(1) - (f - reel.y)
  BY DEF TabletColumns
<1>3. LET c == TabletColumns(f, -1)
      IN /\ c.ok = (f >= Top)
         /\ c.y = Top /\ c.x = reel.x + ReelBorder("left") /\ c.h = f - Top + 1
  BY DEF TabletColumns
<1>4. LET c == TabletColumns(f, 0)
      IN /\ c.ok = (f >= Top)
         /\ c.y = Top /\ c.x = reel.x + ReelBorder("left") /\ c.h = Room(0)
  BY DEF TabletColumns
<1>5. /\ reel.y + reel.h - 1 - ReelBorder("top") = reel.y + reel.h - 2
      /\ Room(1) - (f - reel.y) = Bottom - f + 1
      /\ f <= reel.y + reel.h - 2 => Bottom - f + 1 >= 1
      /\ f >= Top => f - Top + 1 >= 1
  BY <1>1
<1> QED
  BY <1>2, <1>3, <1>4, <1>5

\* What tablet_columns() answers is within the borders.
Offer(c) ==
  /\ c.y \in Int /\ c.h \in Int /\ c.x = reel.x + ReelBorder("left")
  /\ c.y >= Top /\ c.h >= 1 /\ c.y + c.h - 1 <= Bottom

\* The answer of Placed() when the offer c was taken up.
Taken(p, c) == (p.ok = TRUE) /\ InColumns(p.win) /\ p.win.y = c.y /\ p.win.h = c.h

\* A window in the reel's columns, or none.
Housed(w) == w = NULL \/ InColumns(w)

\* Unless memory is short, a tablet gets the window it is offered.
LEMMA PlacedThere ==
  ASSUME OnScreen, NEW w0, Housed(w0), NEW c, Offer(c), NEW oom \in BOOLEAN, ~oom
  PROVE  Taken(Placed(w0, c, oom), c)
<1>1. /\ reel.y \in Nat /\ reel.x \in Nat /\ LINES \in Nat /\ COLS \in Nat
      /\ TabletW \in Nat \ {0} /\ ReelBorder("left") \in {0, 1}
      /\ Top = reel.y + 1 /\ Bottom < LINES
      /\ reel.x + ReelBorder("left") + TabletW <= COLS
  BY ReelNumbers
<1>2. c.x \in Nat /\ c.x + TabletW <= COLS /\ c.y \in Nat /\ c.h \in Nat \ {0} /\ c.y + c.h <= LINES
  <2>1. Bottom \in Int
    BY ReelNumbers
  <2> QED
    BY <1>1, <2>1 DEF Offer
<1>3. CASE w0 = NULL
  <2> DEFINE n == newwin(c.h + 1, TabletW, c.y, c.x)
  <2>1. n = [y |-> c.y, x |-> c.x, h |-> c.h + 1, w |-> TabletW]
    BY <1>1, <1>2 DEF newwin
  <2>2. n \in Window /\ n # NULL /\ n.y = c.y /\ n.x = c.x
    BY <1>1, <1>2, <2>1, NullAssumption DEF Window
  <2> HIDE DEF n
  <2> DEFINE r == wresize(n, c.h, TabletW)
  <2>3. r \in Window /\ r.y = c.y /\ r.x = c.x /\ r.h = c.h /\ r.w = TabletW
    <3>1. c.h \in Nat \ {0} /\ TabletW \in Nat \ {0}
      BY <1>1, <1>2
    <3> QED
      BY <2>2, <3>1, Resized
  <2>4. Placed(w0, c, oom) = [ok |-> n # NULL, win |-> IF n = NULL THEN NULL ELSE r]
    BY <1>3 DEF Placed, n
  <2> HIDE DEF r
  <2>5. Placed(w0, c, oom) = [ok |-> TRUE, win |-> r]
    BY <2>2, <2>4
  <2>6. (Placed(w0, c, oom).ok = TRUE) /\ Placed(w0, c, oom).win = r
    BY <2>5
  <2> QED
    BY <1>2, <2>3, <2>6 DEF InColumns, Taken, Offer
<1>4. CASE InColumns(w0)
  <2> DEFINE sized == IF w0.h # c.h THEN wresize(w0, c.h, w0.w) ELSE w0
             moved == IF c.y = w0.y THEN sized ELSE move_panel(sized, c.y, c.x)
             fits  == w0.h = c.h \/ Resizable(c.h, w0.w)
             stays == c.y = w0.y \/ Movable(sized, c.y, c.x)
  <2>1. w0 \in Window /\ w0 # NULL /\ w0.x = c.x /\ w0.w = TabletW
    BY <1>4, NullAssumption DEF InColumns, Offer
  <2>2. sized \in Window /\ sized.h = c.h /\ sized.w = TabletW /\ sized.x = c.x /\ sized.y = w0.y
    <3>1. CASE w0.h # c.h
      <4> DEFINE r == wresize(w0, c.h, TabletW)
      <4>1. sized = r
        BY <2>1, <3>1
      <4>2. c.h \in Nat \ {0} /\ TabletW \in Nat \ {0} /\ w0 \in Window
        BY <1>1, <1>2, <2>1
      <4> HIDE DEF sized
      <4>3. r \in Window /\ r.y = w0.y /\ r.x = w0.x /\ r.h = c.h /\ r.w = TabletW
        BY <4>2, Resized
      <4> QED
        BY <2>1, <4>1, <4>3
    <3>2. CASE w0.h = c.h
      BY <2>1, <3>2
    <3> QED
      BY <3>1, <3>2
  <2>3. fits
    BY <1>1, <1>2, <2>1 DEF Resizable
  <2>4. Placed(w0, c, oom) =
          [ok |-> fits /\ stays, win |-> IF fits /\ stays THEN wresize(moved, c.h, TabletW) ELSE sized]
    BY <2>1 DEF Placed
  <2> HIDE DEF sized, fits
  <2>5. Movable(sized, c.y, c.x)
    BY <1>1, <1>2, <2>2 DEF Movable
  <2>6. moved \in Window /\ moved.h = c.h /\ moved.w = TabletW /\ moved.x = c.x /\ moved.y = c.y
    BY <1>2, <2>2, <2>5, Moved
  <2>7. stays
    BY <2>5
  <2> HIDE DEF stays, moved
  <2> DEFINE r == wresize(moved, c.h, TabletW)
  <2>8. r \in Window /\ r.y = c.y /\ r.x = c.x /\ r.h = c.h /\ r.w = TabletW
    <3>1. moved \in Window /\ c.h \in Nat \ {0} /\ TabletW \in Nat \ {0}
      BY <1>1, <1>2, <2>6
    <3>2. /\ r \in Window /\ r.y = moved.y /\ r.x = moved.x
          /\ r.h = c.h /\ r.w = TabletW
      BY <3>1, Resized
    <3> QED
      BY <2>6, <3>2
  <2> HIDE DEF r
  <2>9. Placed(w0, c, oom) = [ok |-> TRUE, win |-> r]
    BY <2>3, <2>4, <2>7 DEF r
  <2>10. (Placed(w0, c, oom).ok = TRUE) /\ Placed(w0, c, oom).win = r
    BY <2>9
  <2> QED
    BY <1>2, <2>8, <2>10 DEF InColumns, Taken, Offer
<1> QED
  BY <1>3, <1>4 DEF Housed

\* How many lines the callback writes in a window of h rows.
LEMMA Written ==
  ASSUME NEW t \in Tablets, lines[t] \in Nat, NEW h \in Nat \ {0}, NEW d \in {-1, 0, 1}
  PROVE  /\ Callback(t, h, d) \in 0..h /\ Callback(t, h, d) <= lines[t]
         /\ Callback(t, h, d) = h => TabletBorder(IF d < 0 THEN "bottom" ELSE "top") = 0
         /\ lines[t] <= h - 1 => Callback(t, h, d) = lines[t]
         /\ h > 1 /\ lines[t] > 0 => Callback(t, h, d) > 0
         /\ TabletBorder("top") = 0 /\ TabletBorder("bottom") = 0 /\ lines[t] > 0
            => Callback(t, h, d) > 0
<1>1. TabletBorder("top") \in {0, 1} /\ TabletBorder("bottom") \in {0, 1}
  BY DEF TabletBorder
<1>2. CASE d >= 0
  <2>1. Callback(t, h, d) = IF lines[t] < h - TabletBorder("top") THEN lines[t] ELSE h - TabletBorder("top")
    BY <1>1, <1>2 DEF Callback
  <2>2. (IF d < 0 THEN "bottom" ELSE "top") = "top"
    BY <1>2
  <2> QED
    BY <1>1, <2>1, <2>2
<1>3. CASE d < 0
  <2>1. Callback(t, h, d) = IF lines[t] < h - TabletBorder("bottom") THEN lines[t] ELSE h - TabletBorder("bottom")
    BY <1>1, <1>3 DEF Callback
  <2>2. (IF d < 0 THEN "bottom" ELSE "top") = "bottom"
    BY <1>3
  <2> QED
    BY <1>1, <2>1, <2>2
<1> QED
  BY <1>2, <1>3

\* The rows that ll lines and their borders take of a window of h rows.
Rows(ll, h, d) ==
  IF ll = h THEN h
  ELSE ll + (IF ll = h - 1 THEN TabletBorder(IF d < 0 THEN "bottom" ELSE "top")
             ELSE TabletBorder("top") + TabletBorder("bottom"))

\* The line where a focused tablet of size rows starts, offered h rows, that
\* would like to start at line f.
StartLine(h, size, f) == IF h - f + 1 < size THEN h - size + reel.y ELSE f

\* After the callback a window shrinks, and keeps the edge it grows from.
LEMMA FittedThere ==
  ASSUME OnScreen, NEW w, InColumns(w), NEW c, c.y = w.y, c.x = w.x, c.h = w.h,
         w.y >= Top, LastLine(w) <= Bottom,
         NEW ll \in 0..w.h, NEW d \in {-1, 0, 1}, NEW f \in Int,
         Rows(ll, w.h, d) >= 1
  PROVE  LET r == Fitted(w, c, ll, f, d)
         IN /\ d # 0 => InColumns(r.win) /\ r.win.h = Rows(ll, w.h, d)
            /\ d = 1 => r.win.y = w.y /\ (r.broken <=> ll = w.h - 1)
            /\ d = -1 => LastLine(r.win) = LastLine(w)
            /\ /\ d = 0 /\ ll # w.h
               /\ StartLine(w.h, Rows(ll, w.h, d), f) >= Top
               /\ StartLine(w.h, Rows(ll, w.h, d), f) + Rows(ll, w.h, d) - 1 <= Bottom
               => /\ InColumns(r.win) /\ r.win.h = Rows(ll, w.h, d)
                  /\ r.win.y = StartLine(w.h, Rows(ll, w.h, d), f)
                  /\ (r.broken <=> ll = w.h - 1)
            /\ Rows(ll, w.h, d) <= w.h
<1> DEFINE size == Rows(ll, w.h, d)
           sized == wresize(w, size, TabletW)
           ybottom == w.y + w.h - size
           front == StartLine(w.h, size, f)
           r == Fitted(w, c, ll, f, d)
<1>1. /\ reel.y \in Nat /\ reel.x \in Nat /\ LINES \in Nat /\ COLS \in Nat
      /\ TabletW \in Nat \ {0} /\ ReelBorder("left") \in {0, 1}
      /\ Top = reel.y + 1 /\ Bottom < LINES /\ Bottom \in Int
      /\ reel.x + ReelBorder("left") + TabletW <= COLS
      /\ \A side : TabletBorder(side) \in {0, 1}
  BY ReelNumbers
<1>2. w \in Window /\ w.y \in Int /\ w.h \in Nat \ {0} /\ w.x = reel.x + ReelBorder("left")
      /\ w.w = TabletW /\ w.y + w.h - 1 <= Bottom
  BY DEF InColumns, Window, LastLine
<1>3. size \in Nat \ {0} /\ size <= w.h
  <2>1. ll \in Nat /\ ll <= w.h
    BY <1>2
  <2> QED
    BY <1>1, <1>2, <2>1 DEF Rows
<1> HIDE DEF size
<1>4. sized \in Window /\ sized.y = w.y /\ sized.x = w.x /\ sized.h = size /\ sized.w = TabletW
  <2>1. w \in Window /\ size \in Nat \ {0} /\ TabletW \in Nat \ {0}
    BY <1>1, <1>2, <1>3
  <2> QED
    BY <2>1, Resized
<1>5. Fitted(w, c, ll, f, d) =
        LET clipped == ll = w.h - 1
            placed  == IF d < 0 THEN move_panel(sized, ybottom, w.x) ELSE sized
        IN IF ll = w.h THEN [win |-> w, broken |-> FALSE]
           ELSE IF d = 0
           THEN [win |-> move_panel(placed, front, w.x),
                 broken |-> clipped \/ ~Movable(placed, front, w.x)]
           ELSE [win |-> placed,
                 broken |-> clipped \/ (d < 0 /\ ~Movable(sized, ybottom, w.x))]
  BY DEF Fitted, Rows, StartLine, size
<1> HIDE DEF sized, r
<1>6. CASE ll = w.h
  <2>1. r = [win |-> w, broken |-> FALSE] /\ size = w.h
    BY <1>5, <1>6 DEF Rows, size, r
  <2>2. r.win = w /\ r.broken = FALSE
    BY <2>1
  <2>3. ll # w.h - 1
    BY <1>2, <1>6
  <2> QED
    BY <1>6, <2>1, <2>2, <2>3 DEF size, r
<1>7. CASE ll # w.h /\ d = 1
  <2>1. r = [win |-> sized, broken |-> ll = w.h - 1]
    BY <1>5, <1>7 DEF r
  <2>2. r.win = sized /\ r.broken = (ll = w.h - 1)
    BY <2>1
  <2> QED
    <3>1. InColumns(r.win) /\ r.win.h = size /\ r.win.y = w.y
      BY <1>2, <1>4, <2>2 DEF InColumns
    <3>2. r.broken <=> ll = w.h - 1
      BY <2>2
    <3>3. d # 0 /\ d # -1 /\ d = 1
      BY <1>7
    <3> QED
      BY <1>3, <3>1, <3>2, <3>3 DEF size, r
<1>8. CASE ll # w.h /\ d = -1
  <2>1. r.win = move_panel(sized, ybottom, w.x)
    BY <1>5, <1>8 DEF r
  <2>2. Movable(sized, ybottom, w.x) /\ ybottom \in Int /\ w.x \in Int
    BY <1>1, <1>2, <1>3, <1>4 DEF Movable
  <2> HIDE DEF ybottom
  <2>3. r.win \in Window /\ r.win.y = ybottom /\ r.win.x = w.x /\ r.win.h = size /\ r.win.w = TabletW
    BY <1>4, <2>1, <2>2, Moved
  <2>4. LastLine(r.win) = LastLine(w)
    BY <1>2, <1>3, <2>3 DEF LastLine, ybottom
  <2> QED
    BY <1>2, <1>3, <1>8, <2>3, <2>4 DEF InColumns, size, r
<1>9. CASE ll # w.h /\ d = 0
  <2> SUFFICES ASSUME front >= Top, front + size - 1 <= Bottom
               PROVE  /\ InColumns(r.win) /\ r.win.h = size
                      /\ r.win.y = front /\ (r.broken <=> ll = w.h - 1)
    BY <1>3, <1>9 DEF size, r
  <2>1. r = [win |-> move_panel(sized, front, w.x),
             broken |-> (ll = w.h - 1) \/ ~Movable(sized, front, w.x)]
    BY <1>5, <1>9 DEF r
  <2>2. front \in Int
    BY <1>1, <1>2, <1>3 DEF StartLine
  <2> HIDE DEF front
  <2>3. Movable(sized, front, w.x) /\ w.x \in Int
    BY <1>1, <1>2, <1>3, <1>4, <2>2 DEF Movable
  <2>4. r.win = move_panel(sized, front, w.x) /\ r.broken = (ll = w.h - 1)
    BY <2>1, <2>3
  <2>5. r.win \in Window /\ r.win.y = front /\ r.win.x = w.x /\ r.win.h = size /\ r.win.w = TabletW
    BY <1>4, <2>2, <2>3, <2>4, Moved
  <2> QED
    BY <1>2, <2>4, <2>5 DEF InColumns
<1> QED
  BY <1>6, <1>7, <1>8, <1>9

\* A tablet has a line to show, or two borders.
Solid(t) == lines[t] >= 1 \/ (TabletBorder("top") = 1 /\ TabletBorder("bottom") = 1)

\* What is written and its borders take at least a row.
LEMMA RowsOfSolid ==
  ASSUME NEW t \in Tablets, lines[t] \in Nat, Solid(t), NEW h \in Nat \ {0}, NEW d \in {-1, 0, 1}
  PROVE  Rows(Callback(t, h, d), h, d) >= 1
<1> DEFINE ll == Callback(t, h, d)
           side == IF d < 0 THEN "bottom" ELSE "top"
<1>1. /\ TabletBorder("top") \in {0, 1} /\ TabletBorder("bottom") \in {0, 1}
      /\ TabletBorder(side) \in {0, 1}
  BY DEF TabletBorder
<1>2. ll = IF lines[t] < h - TabletBorder(side) THEN lines[t] ELSE h - TabletBorder(side)
  <2>1. CASE d >= 0
    <3>1. side = "top"
      BY <2>1
    <3> QED
      BY <1>1, <2>1, <3>1 DEF Callback
  <2>2. CASE d < 0
    <3>1. side = "bottom"
      BY <2>2
    <3> QED
      BY <1>1, <2>2, <3>1 DEF Callback
  <2> QED
    BY <2>1, <2>2
<1>3. side \in {"top", "bottom"}
  OBVIOUS
<1>4. Rows(ll, h, d) = IF ll = h THEN h
                       ELSE ll + (IF ll = h - 1 THEN TabletBorder(side)
                                  ELSE TabletBorder("top") + TabletBorder("bottom"))
  BY DEF Rows
<1> DEFINE tt == TabletBorder("top")
           tb == TabletBorder("bottom")
           ts == TabletBorder(side)
           n == lines[t]
<1>5. ts = tt \/ ts = tb
  <2>1. side = "top" \/ side = "bottom"
    BY <1>3
  <2> QED
    BY <2>1
<1>6. /\ tt \in {0, 1} /\ tb \in {0, 1} /\ ts \in {0, 1} /\ n \in Nat
      /\ ll = IF n < h - ts THEN n ELSE h - ts
      /\ n >= 1 \/ (tt = 1 /\ tb = 1)
  BY <1>1, <1>2 DEF Solid
<1>7. Rows(ll, h, d) = IF ll = h THEN h ELSE ll + (IF ll = h - 1 THEN ts ELSE tt + tb)
  BY <1>4
<1> HIDE DEF ll, tt, tb, ts, n
<1>8. (IF ll = h THEN h ELSE ll + (IF ll = h - 1 THEN ts ELSE tt + tb)) >= 1
  BY <1>5, <1>6
<1> QED
  BY <1>7, <1>8 DEF ll

\* A tablet that fits in h rows with a line to spare, written and bordered.
LEMMA RowsOfWhole ==
  ASSUME NEW t \in Tablets, lines[t] \in Nat, NEW h \in Nat \ {0}, NEW d \in {-1, 0, 1},
         Whole(t) < h
  PROVE  /\ Callback(t, h, d) = lines[t] /\ lines[t] # h
         /\ Rows(lines[t], h, d) = Whole(t)
<1>1. TabletBorder("top") \in {0, 1} /\ TabletBorder("bottom") \in {0, 1}
  BY DEF TabletBorder
<1>2. lines[t] <= h - 1 /\ lines[t] # h
  BY <1>1 DEF Whole
<1>3. lines[t] = h - 1 => TabletBorder("top") = 0 /\ TabletBorder("bottom") = 0
  BY <1>1 DEF Whole
<1>4. Callback(t, h, d) = lines[t]
  BY <1>2, Written
<1> QED
  BY <1>1, <1>2, <1>3, <1>4 DEF Rows, Whole

\* A tablet drawn from a line downwards starts there and ends in the reel; it
\* is whole and not called clipped if there is a line to spare below it.
LEMMA DrawnDown ==
  ASSUME OnScreen, NEW t \in Tablets, Housed(win[t]),
         lines[t] \in Nat, Solid(t), NEW f \in Int, f >= Top, NEW oom \in BOOLEAN, ~oom
  PROVE  LET r == DrawTablet(t, f, 1, oom)
         IN /\ \/ f > reel.y + reel.h - 2 /\ r.win = NULL
               \/ /\ f <= reel.y + reel.h - 2
                  /\ InColumns(r.win) /\ r.win.y = f /\ LastLine(r.win) <= Bottom
            /\ f + Whole(t) <= Bottom /\ f + lines[t] < Bottom /\ f <= reel.y + reel.h - 2
               => r.win.h = Whole(t) /\ (r.broken = FALSE)
<1> DEFINE c == TabletColumns(f, 1)
           p == Placed(win[t], c, oom)
           ll == Callback(t, c.h, 1)
           r == DrawTablet(t, f, 1, oom)
<1>1. /\ c.ok <=> f <= reel.y + reel.h - 2
      /\ c.y = f /\ c.x = reel.x + ReelBorder("left") /\ c.h = Bottom - f + 1
      /\ c.ok => c.h >= 1
  BY Spaces
<1>2. r = IF ~c.ok THEN [win |-> NULL, broken |-> TRUE]
          ELSE IF ~p.ok THEN [win |-> p.win, broken |-> TRUE]
          ELSE Fitted(p.win, c, ll, f, 1)
  BY DEF DrawTablet
<1>3. Bottom \in Int /\ reel.y \in Int /\ reel.h \in Int
  BY ReelNumbers
<1> HIDE DEF c, r
<1>4. CASE ~(f <= reel.y + reel.h - 2)
  <2>1. r = [win |-> NULL, broken |-> TRUE]
    BY <1>1, <1>2, <1>4
  <2>2. r.win = NULL
    BY <2>1
  <2> QED
    BY <1>3, <1>4, <2>2 DEF r
<1>5. CASE f <= reel.y + reel.h - 2
  <2>1. c.h \in Nat \ {0} /\ c.y \in Int /\ c.y >= Top /\ c.y + c.h - 1 = Bottom
    BY <1>1, <1>3, <1>5
  <2>2. (p.ok = TRUE) /\ InColumns(p.win) /\ p.win.y = c.y /\ p.win.h = c.h
    <3>1. Offer(c)
      BY <1>1, <1>3, <2>1 DEF Offer
    <3>2. Taken(Placed(win[t], c, oom), c)
      BY <3>1, PlacedThere
    <3> QED
      BY <3>2 DEF Taken
  <2> HIDE DEF p
  <2>3. p.win.x = c.x /\ LastLine(p.win) <= Bottom /\ p.win.y >= Top
    BY <1>1, <1>3, <2>1, <2>2 DEF InColumns, LastLine
  <2>4. ll \in 0..c.h /\ Rows(ll, c.h, 1) >= 1
    BY <2>1, Written, RowsOfSolid
  <2>5. r = Fitted(p.win, c, ll, f, 1)
    BY <1>1, <1>2, <1>5, <2>2
  <2>6. Whole(t) < c.h => ll = lines[t] /\ Rows(lines[t], c.h, 1) = Whole(t)
    BY <2>1, RowsOfWhole
  <2> HIDE DEF ll
  <2> DEFINE q == Fitted(p.win, c, ll, f, 1)
  <2>7. /\ InColumns(q.win) /\ q.win.h = Rows(ll, c.h, 1) /\ q.win.y = c.y
        /\ q.broken <=> ll = c.h - 1
        /\ Rows(ll, c.h, 1) <= c.h
    BY <2>2, <2>3, <2>4, FittedThere
  <2> HIDE DEF q
  <2>8. r = q
    BY <2>5 DEF q
  <2>9. InColumns(r.win) /\ r.win.y = f /\ LastLine(r.win) <= Bottom
    <3>1. r.win.h \in Nat /\ r.win.h <= c.h
      BY <2>7, <2>8 DEF InColumns, Window
    <3> QED
      BY <1>1, <1>3, <2>1, <2>7, <2>8, <3>1 DEF LastLine
  <2>10. ASSUME f + Whole(t) <= Bottom, f + lines[t] < Bottom
         PROVE  r.win.h = Whole(t) /\ (r.broken = FALSE)
    <3>1. TabletBorder("top") \in {0, 1} /\ TabletBorder("bottom") \in {0, 1}
      BY DEF TabletBorder
    <3>2. Whole(t) < c.h /\ lines[t] # c.h - 1
      BY <1>1, <1>3, <2>10, <3>1 DEF Whole
    <3>3. ~q.broken
      BY <2>6, <2>7, <3>2
    <3> QED
      BY <2>6, <2>7, <2>8, <3>2, <3>3
  <2> QED
    BY <1>5, <2>9, <2>10 DEF r
<1> QED
  BY <1>4, <1>5

\* A tablet drawn upwards to a line ends there and starts in the reel.
LEMMA DrawnUp ==
  ASSUME OnScreen, NEW t \in Tablets, Housed(win[t]),
         lines[t] \in Nat, Solid(t), NEW f \in Int, f <= Bottom, NEW oom \in BOOLEAN, ~oom
  PROVE  LET r == DrawTablet(t, f, -1, oom)
         IN r.win = NULL \/ (InColumns(r.win) /\ r.win.y >= Top /\ LastLine(r.win) = f)
<1> DEFINE c == TabletColumns(f, -1)
           p == Placed(win[t], c, oom)
           ll == Callback(t, c.h, -1)
           r == DrawTablet(t, f, -1, oom)
<1>1. /\ c.ok <=> f >= Top
      /\ c.y = Top /\ c.x = reel.x + ReelBorder("left") /\ c.h = f - Top + 1
      /\ c.ok => c.h >= 1
  BY Spaces
<1>2. r = IF ~c.ok THEN [win |-> NULL, broken |-> TRUE]
          ELSE IF ~p.ok THEN [win |-> p.win, broken |-> TRUE]
          ELSE Fitted(p.win, c, ll, f, -1)
  BY DEF DrawTablet
<1>3. Bottom \in Int /\ Top \in Int
  BY ReelNumbers
<1> HIDE DEF c, r
<1>4. CASE ~(f >= Top)
  <2>1. r = [win |-> NULL, broken |-> TRUE]
    BY <1>1, <1>2, <1>4
  <2>2. r.win = NULL
    BY <2>1
  <2> QED
    BY <2>2 DEF r
<1>5. CASE f >= Top
  <2>1. c.h \in Nat \ {0} /\ c.y \in Int /\ c.y >= Top /\ c.y + c.h - 1 = f
    BY <1>1, <1>3, <1>5
  <2>2. (p.ok = TRUE) /\ InColumns(p.win) /\ p.win.y = c.y /\ p.win.h = c.h
    <3>1. Offer(c)
      BY <1>1, <1>3, <2>1 DEF Offer
    <3>2. Taken(Placed(win[t], c, oom), c)
      BY <3>1, PlacedThere
    <3> QED
      BY <3>2 DEF Taken
  <2> HIDE DEF p
  <2>3. p.win.x = c.x /\ LastLine(p.win) = f /\ p.win.y >= Top
    BY <1>1, <1>3, <2>1, <2>2 DEF InColumns, LastLine
  <2>4. ll \in 0..c.h /\ Rows(ll, c.h, -1) >= 1
    BY <2>1, Written, RowsOfSolid
  <2>5. r = Fitted(p.win, c, ll, f, -1)
    BY <1>1, <1>2, <1>5, <2>2
  <2> HIDE DEF ll
  <2> DEFINE q == Fitted(p.win, c, ll, f, -1)
  <2>6. /\ InColumns(q.win) /\ q.win.h = Rows(ll, c.h, -1) /\ LastLine(q.win) = f
        /\ Rows(ll, c.h, -1) <= c.h
    BY <2>2, <2>3, <2>4, FittedThere
  <2> HIDE DEF q
  <2>7. r = q
    BY <2>5 DEF q
  <2>8. q.win.y \in Int /\ q.win.h \in Nat
    BY <2>6 DEF InColumns, Window
  <2>9. q.win.y >= Top
    BY <1>3, <2>1, <2>6, <2>8, <1>1 DEF LastLine
  <2> QED
    BY <2>6, <2>7, <2>9 DEF r
<1> QED
  BY <1>4, <1>5

\* The focused tablet, if it fits with a line to spare, is drawn whole, where
\* it would like to be or above.
LEMMA DrawnFocus ==
  ASSUME OnScreen, NEW t \in Tablets, Housed(win[t]),
         lines[t] \in Nat, Solid(t), NEW f \in Int, f >= Top, Whole(t) < Room(0),
         NEW oom \in BOOLEAN, ~oom
  PROVE  LET r == DrawTablet(t, f, 0, oom)
         IN /\ InColumns(r.win) /\ r.win.h = Whole(t)
            /\ r.win.y = StartLine(Room(0), Whole(t), f)
            /\ r.win.y >= Top /\ LastLine(r.win) <= Bottom
            /\ r.broken <=> lines[t] = Room(0) - 1
<1> DEFINE c == TabletColumns(f, 0)
           p == Placed(win[t], c, oom)
           ll == Callback(t, c.h, 0)
           r == DrawTablet(t, f, 0, oom)
           y == StartLine(Room(0), Whole(t), f)
<1>1. /\ c.ok <=> f >= Top
      /\ c.y = Top /\ c.x = reel.x + ReelBorder("left") /\ c.h = Room(0)
  BY Spaces
<1>2. r = IF ~c.ok THEN [win |-> NULL, broken |-> TRUE]
          ELSE IF ~p.ok THEN [win |-> p.win, broken |-> TRUE]
          ELSE Fitted(p.win, c, ll, f, 0)
  BY DEF DrawTablet
<1>3. /\ Bottom \in Int /\ Top \in Int /\ reel.y \in Nat /\ Top = reel.y + 1
      /\ Room(0) = Bottom - Top + 1
  <2>1. ReelBorder("bottom") \in Int /\ reel.y \in Nat /\ reel.h \in Int
    BY ReelNumbers
  <2> QED
    BY <2>1, ReelNumbers
<1> HIDE DEF c, r
<1>4. Whole(t) \in Nat \ {0}
  <2>1. TabletBorder("top") \in {0, 1} /\ TabletBorder("bottom") \in {0, 1}
    BY DEF TabletBorder
  <2> QED
    BY <2>1 DEF Whole, Solid
<1>5. c.h \in Nat \ {0} /\ c.y \in Int /\ c.y >= Top /\ c.y + c.h - 1 = Bottom
  BY <1>1, <1>3, <1>4
<1>6. (p.ok = TRUE) /\ InColumns(p.win) /\ p.win.y = c.y /\ p.win.h = c.h
  <2>1. Offer(c)
    BY <1>1, <1>3, <1>5 DEF Offer
  <2>2. Taken(Placed(win[t], c, oom), c)
    BY <2>1, PlacedThere
  <2> QED
    BY <2>2 DEF Taken
<1> HIDE DEF p
<1>7. p.win.x = c.x /\ LastLine(p.win) = Bottom /\ p.win.y >= Top
  BY <1>1, <1>3, <1>5, <1>6 DEF InColumns, LastLine
<1>8. ll = lines[t] /\ lines[t] # c.h /\ Rows(lines[t], c.h, 0) = Whole(t) /\ ll \in 0..c.h
  BY <1>1, <1>5, RowsOfWhole, Written
<1>9. r = Fitted(p.win, c, lines[t], f, 0)
  BY <1>1, <1>2, <1>6, <1>8
<1> HIDE DEF ll
<1>10. y \in Int /\ y >= Top /\ y + Whole(t) - 1 <= Bottom
  BY <1>3, <1>4 DEF StartLine
<1> DEFINE q == Fitted(p.win, c, lines[t], f, 0)
<1>11. /\ InColumns(q.win) /\ q.win.h = Whole(t) /\ q.win.y = y
       /\ q.broken <=> lines[t] = c.h - 1
  <2>1. /\ p.win.h = Room(0) /\ lines[t] \in 0..p.win.h /\ Rows(lines[t], p.win.h, 0) = Whole(t)
        /\ Whole(t) >= 1 /\ lines[t] # p.win.h /\ LastLine(p.win) <= Bottom
        /\ c.y = p.win.y /\ c.x = p.win.x /\ c.h = p.win.h
    BY <1>1, <1>3, <1>4, <1>6, <1>7, <1>8
  <2> DEFINE n == Rows(lines[t], p.win.h, 0)
             z == StartLine(p.win.h, n, f)
  <2>2. n >= 1 /\ n = Whole(t)
    BY <2>1
  <2>3. z >= Top /\ z + n - 1 <= Bottom
    BY <1>10, <2>1, <2>2
  <2>4. /\ InColumns(q.win) /\ q.win.h = n
        /\ q.win.y = z /\ (q.broken <=> lines[t] = p.win.h - 1)
    <3>1. n >= 1 /\ lines[t] \in 0..p.win.h /\ lines[t] # p.win.h
      BY <2>1, <2>2
    <3>2. p.win.y >= Top /\ LastLine(p.win) <= Bottom /\ InColumns(p.win)
      BY <1>6, <1>7, <2>1
    <3>3. c.y = p.win.y /\ c.x = p.win.x /\ c.h = p.win.h
      BY <2>1
    <3>4. 0 \in {-1, 0, 1} /\ f \in Int
      OBVIOUS
    <3> QED
      BY <2>3, <3>1, <3>2, <3>3, <3>4, FittedThere
  <2> HIDE DEF q
  <2> QED
    BY <2>1, <2>2, <2>4
<1> HIDE DEF q, y
<1>12. r = q
  BY <1>9 DEF q
<1>13. LastLine(r.win) <= Bottom
  BY <1>10, <1>11, <1>12 DEF LastLine
<1> QED
  BY <1>1, <1>10, <1>11, <1>12, <1>13 DEF r, y

\* The first window of a new tablet, unless memory is short: one in the reel,
\* whenever the line to start at leaves a line before the last.
LEMMA FirstThere ==
  ASSUME OnScreen, NEW t \in Tablets, NEW oom \in BOOLEAN, ~oom, NEW f \in Int, f >= Top,
         f = IF prev'[t] = t THEN Top ELSE getbegy(win[prev'[t]]) + getmaxy(win[prev'[t]]) + 2
  PROVE  LET w == FirstWindow(t, oom)
         IN \/ f > reel.y + reel.h - 2 /\ w = NULL
            \/ f <= reel.y + reel.h - 2 /\ InColumns(w) /\ w.y = f
<1> DEFINE c == TabletColumns(f, 1)
           h == IF prev'[t] = t THEN c.h ELSE 2
           w == FirstWindow(t, oom)
<1>1. /\ c.ok <=> f <= reel.y + reel.h - 2
      /\ c.y = f /\ c.x = reel.x + ReelBorder("left")
      /\ c.ok => c.h >= 1
      /\ c.h = Bottom - f + 1
  BY Spaces
<1>2. w = IF c.ok /\ ~oom THEN newwin(h, TabletW, c.y, c.x) ELSE NULL
  BY DEF FirstWindow
<1>3. /\ reel.y \in Nat /\ reel.x \in Nat /\ TabletW \in Nat \ {0} /\ reel.h \in Int
      /\ ReelBorder("left") \in {0, 1} /\ Top = reel.y + 1 /\ Bottom \in Int
  BY ReelNumbers
<1>4. c.ok => h \in Nat \ {0}
  BY <1>1, <1>3
<1> HIDE DEF c, h, w
<1>5. CASE ~(f <= reel.y + reel.h - 2)
  BY <1>1, <1>2, <1>3, <1>5 DEF w
<1>6. CASE f <= reel.y + reel.h - 2
  <2>1. h \in Nat \ {0} /\ w = newwin(h, TabletW, c.y, c.x)
    BY <1>1, <1>2, <1>4, <1>6
  <2>2. c.y \in Nat /\ c.x \in Nat
    BY <1>1, <1>3
  <2>3. w = [y |-> c.y, x |-> c.x, h |-> h, w |-> TabletW]
    BY <1>3, <2>1, <2>2 DEF newwin
  <2>4. w \in Window /\ w.y = c.y /\ w.x = c.x /\ w.w = TabletW
    BY <1>3, <2>1, <2>2, <2>3 DEF Window
  <2>5. InColumns(w) /\ w.y = f
    BY <1>1, <2>4 DEF InColumns
  <2> QED
    BY <1>6, <2>5 DEF w
<1> QED
  BY <1>5, <1>6

----------------------------------------------------------------------------
(* A reel that stays where it is, taller than any of its tablets *)

\* The application never moves the reel, memory suffices, the reel has a top
\* border and is wholly on the screen, and each number of lines that a tablet
\* may hold fits in it, bordered, with a line to spare.
Steady ==
  /\ MoveTargets = {} /\ ~MemoryFails /\ "top" \notin bordermask
  /\ ReelWindow.y >= 0 /\ ReelWindow.x >= 0
  /\ ReelWindow.y + ReelWindow.h <= LINES /\ ReelWindow.x + ReelWindow.w <= COLS
  /\ ReelWindow.w - ReelBorder("left") - ReelBorder("right") >= 1
  /\ \A n \in LineCounts :
       /\ n >= 1 \/ (TabletBorder("top") = 1 /\ TabletBorder("bottom") = 1)
       /\ n + TabletBorder("top") + TabletBorder("bottom")
            < ReelWindow.h - 1 - ReelBorder("bottom")

\* Each tablet holds a number of lines the application may ask for.
Contents == \A t \in live : lines[t] \in LineCounts

\* A window in the columns of the reel that starts in it.
Held(w) == w # NULL => InColumns(w) /\ w.y >= Top /\ w.y <= Bottom

\* The layout that reads every window unchecked is used while all are shown.
Full == pc \in {"topmost", "denormalized"} => allVisible

\* Once it is drawn the focus stays shown, and a pass goes on from a tablet
\* that is shown.
FocusSeen ==
  /\ pc \in {"idle", "pass"} /\ focus # NULL => Shown(focus)
  /\ pc = "pass" => Shown(working)

\* V is what a pass along link has behind it, from the focus to tablet at; the
\* pass ends at end, which is ahead or is the focus.
Behind(V, link, back, at, end) ==
  /\ V \subseteq live /\ focus \in V /\ at \in V
  /\ \A v \in V \ {at} : link[v] \in V \ {focus}
  /\ \A v \in V \ {focus} : back[v] \in V \ {at}
  /\ end \notin V \ {focus}

\* A pass comes to its end before it comes round to the focus.
Apart ==
  pc = "pass" =>
    \E V \in SUBSET live :
      IF Head(passes) = "down" THEN Behind(V, next, prev, working, otherend)
      ELSE Behind(V, prev, next, working, otherend)

\* What such a reel is like at every moment.
SteadyInv ==
  /\ Steady /\ Inv /\ reel = ReelWindow /\ Contents
  /\ \A t \in live : Held(win[t])
  /\ Full /\ FocusSeen /\ Apart

\* Both directions of the ring are alike.
Circle(link, back) ==
  /\ \A t \in live : link[t] \in live /\ back[t] \in live /\ back[link[t]] = t /\ link[back[t]] = t
  /\ \A S \in SUBSET live : S # {} /\ (\A t \in S : link[t] \in S) => S = live

\* The ring of the reel is a circle both ways round.
LEMMA Circles ==
  ASSUME RingOK, pc # "crashed"
  PROVE  Circle(next, prev) /\ Circle(prev, next)
<1>1. LinksInverse /\ OneRing
  BY DEF RingOK
<1>2. Circle(next, prev)
  BY <1>1 DEF Circle, LinksInverse, OneRing
<1>3. ASSUME NEW S \in SUBSET live, S # {}, \A t \in S : prev[t] \in S
      PROVE  S = live
  <2> DEFINE R == live \ S
  <2>1. \A t \in R : next[t] \in R
    BY <1>1, <1>3 DEF LinksInverse
  <2>2. R # {} => R = live
    BY <1>1, <2>1 DEF OneRing
  <2> QED
    BY <1>3, <2>2
<1>4. Circle(prev, next)
  BY <1>1, <1>3 DEF Circle, LinksInverse
<1> QED
  BY <1>2, <1>4

\* One step of a pass: only one that ends at the focus comes to it, and any
\* other tablet is one that the pass has not drawn yet.
LEMMA StepAhead ==
  ASSUME NEW link, NEW back, Circle(link, back), NEW V \in SUBSET live, NEW at, NEW end \in live,
         Behind(V, link, back, at, end)
  PROVE  LET t == link[at]
         IN /\ t \in live
            /\ t = focus => end = focus
            /\ t # focus => Behind(V \cup {t}, link, back, t, IF t = end THEN link[t] ELSE end)
<1> DEFINE t == link[at]
<1>1. at \in V /\ at \in live /\ focus \in live /\ t \in live /\ back[t] = at
  BY DEF Behind, Circle
<1>2. t = focus => end = focus
  <2> SUFFICES ASSUME t = focus PROVE end = focus
    OBVIOUS
  <2>1. \A v \in V : link[v] \in V
    BY DEF Behind
  <2>2. V = live
    BY <1>1, <2>1 DEF Circle
  <2> QED
    BY <2>2 DEF Behind
<1>3. t # focus => Behind(V \cup {t}, link, back, t, IF t = end THEN link[t] ELSE end)
  <2> SUFFICES ASSUME t # focus
               PROVE  Behind(V \cup {t}, link, back, t, IF t = end THEN link[t] ELSE end)
    OBVIOUS
  <2> DEFINE W == V \cup {t}
             e == IF t = end THEN link[t] ELSE end
  <2>1. t \notin V
    BY <1>1 DEF Behind
  <2>2. W \subseteq live /\ focus \in W /\ t \in W
    BY <1>1 DEF Behind
  <2>3. \A v \in W \ {t} : link[v] \in W \ {focus}
    BY <1>1, <2>1 DEF Behind
  <2>4. \A v \in W \ {focus} : back[v] \in W \ {t}
    BY <1>1, <2>1 DEF Behind
  <2>5. e \notin W \ {focus}
    <3>1. CASE t = end
      <4>1. e = link[t] /\ back[e] = t /\ e \in live
        BY <1>1, <3>1 DEF Circle
      <4> QED
        BY <2>4, <4>1
    <3>2. CASE t # end
      BY <3>2 DEF Behind
    <3> QED
      BY <3>1, <3>2
  <2> QED
    BY <2>2, <2>3, <2>4, <2>5 DEF Behind
<1> QED
  BY <1>1, <1>2, <1>3

\* A pass begins at the focus.
LEMMA BeginBehind ==
  ASSUME NEW link, NEW back, NEW end, focus \in live
  PROVE  Behind({focus}, link, back, focus, end)
BY DEF Behind

\* What the hypotheses say of the reel at every moment.
LEMMA SteadyReel ==
  ASSUME SteadyInv
  PROVE  /\ OnScreen /\ MoveTargets = {}
         /\ \A oom \in Oom : oom \in BOOLEAN /\ ~oom
         /\ NULL \notin Tablets
<1>1. reel \in Window
  BY DEF SteadyInv, Inv, TypeOK
<1>2. OnScreen
  BY <1>1 DEF SteadyInv, Steady, OnScreen, TabletW
<1>3. \A oom \in Oom : oom \in BOOLEAN /\ ~oom
  <2>1. MemoryFails \in BOOLEAN /\ ~MemoryFails
    BY ReelAssumption DEF SteadyInv, Steady
  <2>2. MemoryFails = FALSE
    BY <2>1
  <2> QED
    BY <2>2 DEF Oom
<1> QED
  BY <1>2, <1>3, ReelAssumption DEF SteadyInv, Steady

\* What they say of a tablet.
LEMMA SteadyTablet ==
  ASSUME SteadyInv, NEW t \in live
  PROVE  /\ t \in Tablets /\ win[t] \in Pane /\ lines[t] \in Nat
         /\ Held(win[t]) /\ Housed(win[t])
         /\ Solid(t) /\ Whole(t) < Room(0)
<1>1. t \in Tablets /\ win[t] \in Pane /\ lines[t] \in Nat
  BY DEF SteadyInv, Inv, TypeOK, Pane
<1>2. Held(win[t]) /\ lines[t] \in LineCounts
  BY DEF SteadyInv, Contents
<1>3. Housed(win[t])
  BY <1>2 DEF Held, Housed
<1>4. Solid(t)
  BY <1>2 DEF SteadyInv, Steady, Solid
<1>5. Whole(t) < Room(0)
  <2>1. Room(0) = reel.h - 1 - ReelBorder("bottom")
    BY SteadyReel, ReelNumbers
  <2>2. Whole(t) < ReelWindow.h - 1 - ReelBorder("bottom")
    BY <1>2 DEF SteadyInv, Steady, Whole
  <2> QED
    BY <2>1, <2>2 DEF SteadyInv
<1> QED
  BY <1>1, <1>2, <1>3, <1>4, <1>5

\* A tablet that is drawn starts in the reel, and the focus is shown, whole.
LEMMA SteadyDrawn ==
  ASSUME SteadyInv, NEW t \in live, NEW f \in Int, NEW d \in {-1, 0, 1}, NEW oom \in Oom,
         d # -1 => f >= Top, d = -1 => f <= Bottom
  PROVE  LET w == DrawTablet(t, f, d, oom).win
         IN /\ Held(w) /\ w \in Pane
            /\ d = 0 => w # NULL /\ w.h = Whole(t) /\ w.y = StartLine(Room(0), Whole(t), f)
<1> DEFINE w == DrawTablet(t, f, d, oom).win
<1>1. OnScreen /\ oom \in BOOLEAN /\ ~oom
  BY SteadyReel
<1>2. /\ t \in Tablets /\ lines[t] \in Nat /\ Housed(win[t])
      /\ Solid(t) /\ Whole(t) < Room(0)
  BY SteadyTablet
<1>3. /\ Top \in Int /\ Bottom \in Int /\ reel.y \in Int /\ reel.h \in Int
      /\ reel.y + reel.h - 2 <= Bottom
  <2>1. /\ reel.y \in Nat /\ reel.h \in Nat /\ ReelBorder("bottom") \in {0, 1}
        /\ Top = reel.y + 1 /\ Bottom = reel.y + reel.h - 1 - ReelBorder("bottom")
    BY <1>1, ReelNumbers
  <2> QED
    BY <2>1
<1>4. CASE d = 1
  <2>1. \/ w = NULL
        \/ /\ f <= reel.y + reel.h - 2
           /\ InColumns(w) /\ w.y = f
    <3>1. f >= Top
      BY <1>4
    <3> QED
      BY <1>1, <1>2, <1>4, <3>1, DrawnDown
  <2> HIDE DEF w
  <2>2. Held(w) /\ w \in Pane
    BY <1>3, <1>4, <2>1 DEF Held, InColumns, Pane
  <2> QED
    BY <1>4, <2>2 DEF w
<1>5. CASE d = -1
  <2>1. w = NULL \/ (InColumns(w) /\ w.y >= Top /\ LastLine(w) = f)
    BY <1>1, <1>2, <1>5, DrawnUp
  <2> HIDE DEF w
  <2>2. w # NULL => w.y <= Bottom
    BY <1>3, <1>5, <2>1 DEF LastLine, InColumns, Window
  <2>3. Held(w) /\ w \in Pane
    BY <2>1, <2>2 DEF Held, InColumns, Pane
  <2> QED
    BY <1>5, <2>3 DEF w
<1>6. CASE d = 0
  <2>1. /\ InColumns(w) /\ w.h = Whole(t) /\ w.y = StartLine(Room(0), Whole(t), f)
        /\ w.y >= Top /\ LastLine(w) <= Bottom
    BY <1>1, <1>2, <1>6, DrawnFocus
  <2> HIDE DEF w
  <2>2. w \in Window /\ w # NULL
    BY <2>1, NullAssumption DEF InColumns
  <2>3. w.y <= Bottom
    BY <1>3, <2>1, <2>2 DEF LastLine, Window
  <2>4. Held(w) /\ w \in Pane
    BY <2>1, <2>2, <2>3 DEF Held, Pane
  <2> QED
    BY <2>1, <2>2, <2>4 DEF w
<1> QED
  BY <1>4, <1>5, <1>6

\* The parts of the invariant after a step.
LEMMA SteadyThen ==
  ASSUME SteadyInv, Inv', reel' = reel, \A t \in live' : lines'[t] \in LineCounts,
         \A t \in live' : Held(win'[t]), Full', FocusSeen', Apart'
  PROVE  SteadyInv'
<1>1. (\A t \in live : Held(win[t]))'
  BY DEF Held, InColumns, TabletW, Top, Bottom, LastLine
<1>2. Steady' /\ (reel = ReelWindow)' /\ Contents'
  BY DEF SteadyInv, Steady, Contents, ReelWindow
<1> QED
  BY <1>1, <1>2 DEF SteadyInv

\* A step that changes no window, away from the states of the redraw that
\* say something of them.
LEMMA SteadyStill ==
  ASSUME SteadyInv, Inv', UNCHANGED <<live, win, reel, lines>>,
         \/ pc' = pc /\ UNCHANGED <<focus, allVisible, passes, working, otherend, next, prev>>
         \/ pc' \in {"redraw", "destroy", "freed", "focused"}
         \/ pc' \in {"topmost", "denormalized"} /\ allVisible'
         \/ pc' = "idle" /\ focus' = NULL
  PROVE  SteadyInv'
<1>1. (\A t \in live' : lines'[t] \in LineCounts) /\ (\A t \in live' : Held(win'[t]))
  BY DEF SteadyInv, Contents
<1>2. Full' /\ FocusSeen'
  BY DEF SteadyInv, Full, FocusSeen, Shown
<1>3. Apart'
  <2>1. CASE pc' = pc /\ UNCHANGED <<focus, allVisible, passes, working, otherend, next, prev>>
    <3>1. (\E V \in SUBSET live :
             IF Head(passes) = "down" THEN Behind(V, next, prev, working, otherend)
             ELSE Behind(V, prev, next, working, otherend))'
          <=> (\E V \in SUBSET live :
             IF Head(passes) = "down" THEN Behind(V, next, prev, working, otherend)
             ELSE Behind(V, prev, next, working, otherend))
      BY <2>1 DEF Behind
    <3> QED
      BY <2>1, <3>1 DEF SteadyInv, Apart
  <2>2. CASE pc' # "pass"
    BY <2>2 DEF Apart
  <2> QED
    BY <2>1, <2>2
<1> QED
  BY <1>1, <1>2, <1>3, SteadyThen

\* The redraw begins, and looks for the topmost tablet.
LEMMA SteadySearch ==
  ASSUME SteadyInv, Inv', Arrange \/ FindTopmost \/ BeginDenormalized
  PROVE  SteadyInv'
<1>1. CASE Arrange
  <2>1. UNCHANGED <<live, win, reel, lines, focus, allVisible>>
    BY <1>1 DEF Arrange, ring, view
  <2>2. CASE focus = NULL /\ Return
    <3>1. pc' \in {"idle", "destroy"}
      BY <2>2 DEF Return
    <3> QED
      BY <2>1, <2>2, <3>1, SteadyStill
  <2>3. CASE focus # NULL
    <3>1. pc' = IF allVisible THEN "topmost" ELSE "focused"
      BY <1>1, <2>3 DEF Arrange
    <3> QED
      BY <2>1, <3>1, SteadyStill
  <2> QED
    BY <1>1, <2>2, <2>3 DEF Arrange
<1>2. CASE FindTopmost
  <2>1. UNCHANGED <<live, win, reel, lines, focus, allVisible, pc>> /\ pc = "topmost"
    BY <1>2 DEF FindTopmost, ring, view
  <2> QED
    BY <2>1, SteadyStill DEF SteadyInv, Full
<1>3. CASE BeginDenormalized
  <2>1. UNCHANGED <<live, win, reel, lines, focus, allVisible>> /\ pc = "topmost" /\ pc' = "denormalized"
    BY <1>3 DEF BeginDenormalized, ring, view
  <2> QED
    BY <2>1, SteadyStill DEF SteadyInv, Full
<1> QED
  BY <1>1, <1>2, <1>3

\* A step that draws one tablet: all windows are still held.
LEMMA SteadyOne ==
  ASSUME SteadyInv, NEW t \in live, NEW w \in Pane, Held(w), win' = [win EXCEPT ![t] = w],
         UNCHANGED <<live, reel, lines>>
  PROVE  /\ \A u \in live' : Held(win'[u]) /\ lines'[u] \in LineCounts
         /\ win'[t] = w /\ \A u \in live \ {t} : win'[u] = win[u]
<1>1. TypeOK /\ \A u \in live : Held(win[u]) /\ lines[u] \in LineCounts
  BY DEF SteadyInv, Inv, Contents
<1>2. win'[t] = w /\ \A u \in live \ {t} : win'[u] = win[u]
  BY <1>1, DrawOne DEF TypeOK
<1> QED
  BY <1>1, <1>2

\* The line where the next tablet of the denormalized layout starts.
LEMMA FrontierInReel ==
  ASSUME SteadyInv, pc = "denormalized"
  PROVE  DenormalizedFrontier \in Int /\ DenormalizedFrontier >= Top
<1>1. Top \in Int
  BY SteadyReel, ReelNumbers
<1>2. allVisible /\ working \in live /\ prev[working] \in live
  BY LiveLinks DEF SteadyInv, Full, Inv, WalksOnLive
<1>3. win[prev[working]] \in Pane /\ win[prev[working]] # NULL /\ Held(win[prev[working]])
  BY <1>2, SteadyTablet DEF SteadyInv, Inv, AllVisiblePanels, Shown
<1> DEFINE w == win[prev[working]]
<1>4. w.y \in Int /\ w.h \in Nat /\ w.y >= Top
  BY <1>3 DEF Held, Pane, Window
<1>5. getmaxy(w) = w.h /\ getbegy(w) = w.y
  BY <1>3 DEF getmaxy, getbegy
<1>6. DenormalizedFrontier = IF working = otherend THEN Top ELSE getmaxy(w) + getbegy(w) + 1
  BY DEF DenormalizedFrontier
<1> HIDE DEF w
<1> QED
  BY <1>1, <1>4, <1>5, <1>6

\* One tablet of the denormalized layout: when it cannot be shown whole the
\* layout is given up, with the focus on screen.
LEMMA SteadyDenormalized ==
  ASSUME SteadyInv, Inv', Denormalized
  PROVE  SteadyInv'
<1>1. /\ pc = "denormalized" /\ allVisible /\ working \in live
      /\ UNCHANGED <<live, focus, next, prev, reel, lines>>
  BY DEF Denormalized, SteadyInv, Full, Inv, WalksOnLive, ring
<1> DEFINE d == IF working = focus THEN 0 ELSE 1
<1>2. PICK oom \in Oom :
        LET q == DrawTablet(working, DenormalizedFrontier, d, oom)
            failed == q.win = NULL \/ q.broken
        IN /\ win' = [win EXCEPT ![working] = q.win]
           /\ allVisible' = (allVisible /\ ~failed)
           /\ IF failed \/ next[working] = otherend
              THEN Return
              ELSE /\ working' = next[working]
                   /\ UNCHANGED <<pc, otherend, passes, doomed>>
  BY DEF Denormalized
<1> DEFINE q == DrawTablet(working, DenormalizedFrontier, d, oom)
           w == q.win
           failed == w = NULL \/ q.broken
<1>3. /\ Held(w) /\ w \in Pane
      /\ working = focus => w # NULL
  <2>1. d \in {-1, 0, 1} /\ d # -1 /\ (working = focus => d = 0)
    OBVIOUS
  <2>2. DenormalizedFrontier \in Int /\ DenormalizedFrontier >= Top
    BY <1>1, FrontierInReel
  <2> HIDE DEF d
  <2> QED
    BY <1>1, <2>1, <2>2, SteadyDrawn
<1>4. /\ win' = [win EXCEPT ![working] = w]
      /\ allVisible' = (allVisible /\ ~failed)
      /\ \/ Return
         \/ ~failed /\ pc' = pc
  BY <1>2
<1> HIDE DEF w, failed
<1>5. /\ \A u \in live' : Held(win'[u]) /\ lines'[u] \in LineCounts
      /\ win'[working] = w /\ \A u \in live \ {working} : win'[u] = win[u]
  BY <1>1, <1>3, <1>4, SteadyOne
<1>6. CASE Return
  <2>1. pc' \in {"idle", "destroy"}
    BY <1>6 DEF Return
  <2>2. focus # NULL => focus \in live
    BY <1>1 DEF SteadyInv, Inv, RingOK, FocusInRing
  <2>3. FocusSeen'
    <3>1. \A u \in live : win[u] # NULL
      BY <1>1 DEF SteadyInv, Inv, AllVisiblePanels, Shown
    <3> QED
      BY <1>1, <1>3, <1>5, <2>1, <2>2, <3>1 DEF FocusSeen, Shown
  <2>4. Full' /\ Apart'
    BY <2>1 DEF Full, Apart
  <2> QED
    BY <1>1, <1>5, <2>3, <2>4, SteadyThen
<1>7. CASE ~failed /\ pc' = pc
  <2>1. FocusSeen' /\ Apart'
    BY <1>1, <1>7 DEF FocusSeen, Apart
  <2>2. Full'
    BY <1>1, <1>4, <1>7 DEF Full
  <2> QED
    BY <1>1, <1>5, <2>1, <2>2, SteadyThen
<1> QED
  BY <1>4, <1>6, <1>7

\* The line where the focus would like to start.
LEMMA FulcrumInReel ==
  ASSUME SteadyInv, pc = "focused"
  PROVE  Fulcrum \in Int /\ Fulcrum >= Top
<1>1. focus \in live /\ next[focus] \in live /\ prev[focus] \in live
  BY LiveLinks DEF SteadyInv, Inv, WalksOnLive
<1> DEFINE bottom == reel.h + reel.y - ReelBorder("bottom")
<1>2. Top \in Int /\ bottom \in Int /\ bottom >= Top
  <2>1. /\ reel.y \in Nat /\ reel.h \in Nat \ {0} /\ ReelBorder("bottom") \in {0, 1}
        /\ Top = reel.y + 1 /\ Room(0) = reel.h - 1 - ReelBorder("bottom")
    BY SteadyReel, ReelNumbers
  <2>2. Room(0) >= 1
    <3>1. Whole(focus) \in Nat /\ Whole(focus) < Room(0)
      BY <1>1, SteadyTablet DEF Whole, TabletBorder
    <3> QED
      BY <2>1, <3>1
  <2> QED
    BY <2>1, <2>2
<1>3. Shown(focus) => getbegy(win[focus]) \in Int /\ getbegy(win[focus]) >= Top
  BY <1>1, SteadyTablet DEF Shown, Held, InColumns, Window, getbegy
<1> HIDE DEF bottom
<1>4. Fulcrum \in {bottom, Top, getbegy(win[focus])} /\ (~Shown(focus) => Fulcrum \in {bottom, Top})
  BY DEF Fulcrum, bottom
<1> QED
  BY <1>2, <1>3, <1>4

\* Drawing the focus shows it, whole.
LEMMA SteadyFocus ==
  ASSUME SteadyInv, DrawFocused
  PROVE  /\ win'[focus] # NULL /\ win'[focus].h = Whole(focus)
         /\ win'[focus].y = StartLine(Room(0), Whole(focus), Fulcrum)
         /\ \A u \in live' : Held(win'[u]) /\ lines'[u] \in LineCounts
         /\ pc' = "pass" /\ working' = focus /\ focus' = focus /\ focus \in live
         /\ UNCHANGED <<live, next, prev, reel, lines>>
<1>1. /\ pc = "focused" /\ focus \in live /\ pc' = "pass" /\ working' = focus
      /\ UNCHANGED <<live, focus, next, prev, reel, lines>>
  BY DEF DrawFocused, SteadyInv, Inv, WalksOnLive, ring
<1>2. PICK oom \in Oom :
        win' = [win EXCEPT ![focus] = DrawTablet(focus, Fulcrum, 0, oom).win]
  BY DEF DrawFocused
<1> DEFINE w == DrawTablet(focus, Fulcrum, 0, oom).win
<1>3. /\ Held(w) /\ w \in Pane
      /\ w # NULL /\ w.h = Whole(focus) /\ w.y = StartLine(Room(0), Whole(focus), Fulcrum)
  BY <1>1, FulcrumInReel, SteadyDrawn
<1> HIDE DEF w
<1>4. /\ \A u \in live' : Held(win'[u]) /\ lines'[u] \in LineCounts
      /\ win'[focus] = w
  BY <1>1, <1>2, <1>3, SteadyOne DEF w
<1> QED
  BY <1>1, <1>3, <1>4

\* The redraw of the focus starts the two passes with the focus behind them.
LEMMA SteadyDrawFocused ==
  ASSUME SteadyInv, Inv', DrawFocused
  PROVE  SteadyInv'
<1>1. /\ win'[focus] # NULL /\ focus' = focus /\ focus \in live /\ live' = live
      /\ pc' = "pass" /\ working' = focus
  BY SteadyFocus
<1>2. Full' /\ FocusSeen'
  BY <1>1 DEF Full, FocusSeen, Shown
<1>3. Apart'
  <2>1. Behind({focus}, next, prev, working, otherend)' /\ Behind({focus}, prev, next, working, otherend)'
    BY <1>1 DEF Behind
  <2>2. {focus'} \in SUBSET live'
    BY <1>1
  <2> QED
    BY <1>1, <2>1, <2>2 DEF Apart
<1> QED
  BY <1>2, <1>3, SteadyFocus, SteadyThen

\* The end of a pass: the next one begins at the focus.
LEMMA SteadyEnd ==
  ASSUME SteadyInv, pc = "pass", NEW t, EndPass(t), UNCHANGED <<live, focus, next, prev>>
  PROVE  Full' /\ Apart' /\ (pc' = "pass" => working' = focus)
<1>1. CASE Return
  <2>1. pc' \in {"idle", "destroy"}
    BY <1>1 DEF Return
  <2> QED
    BY <2>1 DEF Full, Apart
<1>2. CASE working' = focus /\ pc' = pc
  <2>1. focus \in live
    BY DEF SteadyInv, Inv, WalksOnLive
  <2>2. Behind({focus}, next, prev, working, otherend)' /\ Behind({focus}, prev, next, working, otherend)'
    BY <1>2, <2>1 DEF Behind
  <2>3. {focus'} \in SUBSET live'
    BY <2>1
  <2>4. Apart'
    BY <2>2, <2>3 DEF Apart
  <2> QED
    BY <1>2, <2>4 DEF Full
<1> QED
  BY <1>1, <1>2 DEF EndPass

\* A step of a pass draws another tablet than the focus, or none.
LEMMA SteadyPass ==
  ASSUME SteadyInv, Inv', pc = "pass",
         UNCHANGED <<live, focus, next, prev, reel, lines>>,
         NEW t \in live, NEW w \in Pane, Held(w),
         win' = win \/ (t # focus /\ win' = [win EXCEPT ![t] = w]),
         pc' = "pass" => working' = focus \/ (working' = t /\ win'[t] # NULL),
         Full', Apart'
  PROVE  SteadyInv'
<1>1. focus \in live /\ Shown(focus)
  <2>1. focus \in live /\ NULL \notin live
    BY ReelAssumption DEF SteadyInv, Inv, WalksOnLive, TypeOK
  <2> QED
    BY <2>1 DEF SteadyInv, FocusSeen
<1>2. CASE win' = win
  <2>1. (\A u \in live' : lines'[u] \in LineCounts) /\ (\A u \in live' : Held(win'[u]))
    BY <1>2 DEF SteadyInv, Contents
  <2>2. FocusSeen'
    BY <1>1, <1>2 DEF FocusSeen, Shown
  <2> QED
    BY <2>1, <2>2, SteadyThen
<1>3. CASE t # focus /\ win' = [win EXCEPT ![t] = w]
  <2>1. /\ \A u \in live' : Held(win'[u]) /\ lines'[u] \in LineCounts
        /\ win'[focus] = win[focus]
    BY <1>1, <1>3, SteadyOne
  <2>2. FocusSeen'
    BY <1>1, <2>1 DEF FocusSeen, Shown
  <2> QED
    BY <2>1, <2>2, SteadyThen
<1> QED
  BY <1>2, <1>3

\* A pass that goes on has one more tablet behind it.
LEMMA SteadyAhead ==
  ASSUME SteadyInv, pc = "pass", UNCHANGED <<live, focus, next, prev, pc, passes>>,
         NEW V \in SUBSET live, NEW t \in live, NEW e, working' = t, otherend' = e,
         IF Head(passes) = "down" THEN Behind(V, next, prev, t, e) ELSE Behind(V, prev, next, t, e)
  PROVE  Full' /\ Apart'
<1>1. IF Head(passes') = "down" THEN Behind(V, next, prev, working, otherend)'
      ELSE Behind(V, prev, next, working, otherend)'
  BY DEF Behind
<1> QED
  BY <1>1 DEF Full, Apart

\* One tablet of a pass downwards.
LEMMA SteadyFollowing ==
  ASSUME SteadyInv, Inv', DrawFollowing
  PROVE  SteadyInv' /\ win'[focus] = win[focus]
<1> DEFINE t == next[working]
           f == getbegy(win[working]) + getmaxy(win[working]) + 1
<1>1. /\ pc = "pass" /\ Head(passes) = "down" /\ working \in live /\ otherend \in live
      /\ focus \in live /\ UNCHANGED <<live, focus, next, prev, reel, lines>>
  BY DEF DrawFollowing, SteadyInv, Inv, WalksOnLive, ring
<1>2. Circle(next, prev)
  BY <1>1, Circles DEF SteadyInv, Inv
<1>3. PICK V \in SUBSET live : Behind(V, next, prev, working, otherend)
  BY <1>1 DEF SteadyInv, Apart
<1>4. /\ t \in live
      /\ t = focus => otherend = focus
      /\ t # focus => Behind(V \cup {t}, next, prev, t, IF t = otherend THEN next[t] ELSE otherend)
  BY <1>1, <1>2, <1>3, StepAhead
<1>5. focus # NULL => Shown(focus)
  BY <1>1 DEF SteadyInv, FocusSeen
<1>6. CASE t = otherend /\ Shown(otherend)
  <2>1. EndPass(t) /\ win' = win
    BY <1>6 DEF DrawFollowing
  <2>2. NULL \in Pane /\ Held(NULL)
    BY DEF Pane, Held
  <2> HIDE DEF t
  <2>3. Full' /\ Apart' /\ (pc' = "pass" => working' = focus)
    BY <1>1, <2>1, SteadyEnd
  <2> QED
    BY <1>1, <1>4, <2>1, <2>2, <2>3, SteadyPass
<1>7. CASE ~(t = otherend /\ Shown(otherend))
  <2>1. PICK oom \in Oom :
          LET w == DrawTablet(t, f, 1, oom).win
          IN /\ win' = [win EXCEPT ![t] = w]
             /\ IF w = NULL THEN EndPass(t)
                ELSE /\ working' = t
                     /\ otherend' = IF t = otherend THEN next[t] ELSE otherend
                     /\ UNCHANGED <<pc, passes, doomed>>
    BY <1>7 DEF DrawFollowing
  <2> DEFINE w == DrawTablet(t, f, 1, oom).win
             e == IF t = otherend THEN next[t] ELSE otherend
  <2>2. /\ win' = [win EXCEPT ![t] = w]
        /\ \/ EndPass(t)
           \/ w # NULL /\ working' = t /\ otherend' = e /\ UNCHANGED <<pc, passes>>
    BY <2>1
  <2>3. t # focus
    <3>1. focus # NULL
      BY <1>1, ReelAssumption DEF SteadyInv, Inv, WalksOnLive, TypeOK
    <3> QED
      BY <1>4, <1>5, <1>7, <3>1
  <2>4. w \in Pane /\ Held(w)
    <3>1. win[working] \in Pane /\ Held(win[working])
      BY <1>1, SteadyTablet
    <3>2. f \in Int /\ f >= Top
      <4>1. Shown(working) /\ Top \in Int
        BY <1>1, SteadyReel, ReelNumbers DEF SteadyInv, FocusSeen
      <4> QED
        BY <3>1, <4>1 DEF Shown, Held, InColumns, Window, getbegy, getmaxy
    <3> HIDE DEF t, f
    <3>3. 1 # -1 /\ 1 \in {-1, 0, 1}
      OBVIOUS
    <3> QED
      BY <1>4, <3>2, <3>3, SteadyDrawn
  <2>5. win'[t] = w /\ win'[focus] = win[focus]
    BY <1>1, <1>4, <2>2, <2>3, <2>4, SteadyOne
  <2> HIDE DEF w, t, e
  <2>6. /\ Full' /\ Apart'
        /\ pc' = "pass" => working' = focus \/ (working' = t /\ win'[t] # NULL)
    <3>1. CASE EndPass(t)
      BY <1>1, <3>1, SteadyEnd
    <3>2. CASE w # NULL /\ working' = t /\ otherend' = e /\ UNCHANGED <<pc, passes>>
      <4>1. Behind(V \cup {t}, next, prev, t, e)
        BY <1>4, <2>3 DEF e
      <4>2. V \cup {t} \in SUBSET live
        BY <1>4
      <4> HIDE DEF e
      <4> QED
        BY <1>1, <1>4, <2>5, <3>2, <4>1, <4>2, SteadyAhead
    <3> QED
      BY <2>2, <3>1, <3>2
  <2> QED
    BY <1>1, <1>4, <2>2, <2>3, <2>4, <2>5, <2>6, SteadyPass
<1> QED
  BY <1>6, <1>7

\* One tablet of a pass upwards.
LEMMA SteadyPrevious ==
  ASSUME SteadyInv, Inv', DrawPrevious
  PROVE  SteadyInv' /\ win'[focus] = win[focus]
<1> DEFINE t == prev[working]
           f == getbegy(win[working]) - 2
<1>1. /\ pc = "pass" /\ Head(passes) = "up" /\ working \in live /\ otherend \in live
      /\ focus \in live /\ UNCHANGED <<live, focus, next, prev, reel, lines>>
  BY DEF DrawPrevious, SteadyInv, Inv, WalksOnLive, ring
<1>2. Circle(prev, next)
  BY <1>1, Circles DEF SteadyInv, Inv
<1>3. PICK V \in SUBSET live : Behind(V, prev, next, working, otherend)
  BY <1>1 DEF SteadyInv, Apart
<1>4. /\ t \in live
      /\ t = focus => otherend = focus
      /\ t # focus => Behind(V \cup {t}, prev, next, t, IF t = otherend THEN prev[t] ELSE otherend)
  BY <1>1, <1>2, <1>3, StepAhead
<1>5. focus # NULL => Shown(focus)
  BY <1>1 DEF SteadyInv, FocusSeen
<1>6. CASE t = otherend /\ Shown(otherend)
  <2>1. EndPass(working) /\ win' = win
    BY <1>6 DEF DrawPrevious
  <2>2. NULL \in Pane /\ Held(NULL)
    BY DEF Pane, Held
  <2> HIDE DEF t
  <2>3. Full' /\ Apart' /\ (pc' = "pass" => working' = focus)
    BY <1>1, <2>1, SteadyEnd
  <2> QED
    BY <1>1, <1>4, <2>1, <2>2, <2>3, SteadyPass
<1>7. CASE ~(t = otherend /\ Shown(otherend))
  <2>1. PICK oom \in Oom :
          LET w == DrawTablet(t, f, -1, oom).win
          IN /\ win' = [win EXCEPT ![t] = w]
             /\ IF w = NULL THEN EndPass(t)
                ELSE /\ working' = t
                     /\ otherend' = IF t = otherend THEN prev[t] ELSE otherend
                     /\ UNCHANGED <<pc, passes, doomed>>
    BY <1>7 DEF DrawPrevious
  <2> DEFINE w == DrawTablet(t, f, -1, oom).win
             e == IF t = otherend THEN prev[t] ELSE otherend
  <2>2. /\ win' = [win EXCEPT ![t] = w]
        /\ \/ EndPass(t)
           \/ w # NULL /\ working' = t /\ otherend' = e /\ UNCHANGED <<pc, passes>>
    BY <2>1
  <2>3. t # focus
    <3>1. focus # NULL
      BY <1>1, ReelAssumption DEF SteadyInv, Inv, WalksOnLive, TypeOK
    <3> QED
      BY <1>4, <1>5, <1>7, <3>1
  <2>4. w \in Pane /\ Held(w)
    <3>1. win[working] \in Pane /\ Held(win[working])
      BY <1>1, SteadyTablet
    <3>2. f \in Int /\ f <= Bottom
      <4>1. Shown(working) /\ Bottom \in Int
        BY <1>1, SteadyReel, ReelNumbers DEF SteadyInv, FocusSeen
      <4> QED
        BY <3>1, <4>1 DEF Shown, Held, InColumns, Window, getbegy, getmaxy
    <3> HIDE DEF t, f
    <3>3. -1 \in {-1, 0, 1}
      OBVIOUS
    <3> QED
      BY <1>4, <3>2, <3>3, SteadyDrawn
  <2>5. win'[t] = w /\ win'[focus] = win[focus]
    BY <1>1, <1>4, <2>2, <2>3, <2>4, SteadyOne
  <2> HIDE DEF w, t, e
  <2>6. /\ Full' /\ Apart'
        /\ pc' = "pass" => working' = focus \/ (working' = t /\ win'[t] # NULL)
    <3>1. CASE EndPass(t)
      BY <1>1, <3>1, SteadyEnd
    <3>2. CASE w # NULL /\ working' = t /\ otherend' = e /\ UNCHANGED <<pc, passes>>
      <4>1. Behind(V \cup {t}, prev, next, t, e)
        BY <1>4, <2>3 DEF e
      <4>2. V \cup {t} \in SUBSET live
        BY <1>4
      <4> HIDE DEF e
      <4> QED
        BY <1>1, <1>4, <2>5, <3>2, <4>1, <4>2, SteadyAhead
    <3> QED
      BY <2>2, <3>1, <3>2
  <2> QED
    BY <1>1, <1>4, <2>2, <2>3, <2>4, <2>5, <2>6, SteadyPass
<1> QED
  BY <1>6, <1>7

\* panelreel_add() gives the new tablet a window in the reel, or none.
LEMMA SteadyAdd ==
  ASSUME SteadyInv, Inv', NEW t \in Tablets \ live, NEW after \in live \cup {NULL},
         NEW before \in live \cup {NULL}, Add(t, after, before)
  PROVE  SteadyInv'
<1>1. /\ pc' = "redraw" /\ live' = live \cup {t} /\ reel' = reel
      /\ \E n \in LineCounts : lines' = [lines EXCEPT ![t] = n]
  BY DEF Add
<1>2. PICK oom \in Oom : InsertNewPanel(t, oom)
  BY DEF Add
<1>3. win' = [win EXCEPT ![t] = IF allVisible THEN FirstWindow(t, oom) ELSE NULL]
  BY <1>2 DEF InsertNewPanel
<1>4. /\ \A u \in live : Held(win[u]) /\ lines[u] \in LineCounts
      /\ live \subseteq Tablets /\ DOMAIN win = Tablets /\ DOMAIN lines = Tablets
  BY DEF SteadyInv, Contents, Inv, TypeOK
<1>5. \A u \in live' : lines'[u] \in LineCounts
  BY <1>1, <1>4
<1>6. allVisible => Held(FirstWindow(t, oom))
  <2> SUFFICES ASSUME allVisible PROVE Held(FirstWindow(t, oom))
    OBVIOUS
  <2> DEFINE p == prev'[t]
             f == IF p = t THEN Top ELSE getbegy(win[p]) + getmaxy(win[p]) + 2
  <2>1. p \in live'
    BY <1>1 DEF Inv, RingOK, LinksInverse
  <2>2. p # t => p \in live /\ win[p] # NULL /\ Held(win[p])
    BY <1>1, <1>4, <2>1 DEF SteadyInv, Inv, AllVisiblePanels, Shown
  <2>3. /\ OnScreen /\ oom \in BOOLEAN /\ ~oom
        /\ Top \in Int /\ Bottom \in Int /\ reel.y + reel.h - 2 <= Bottom
    <3>1. OnScreen /\ oom \in BOOLEAN /\ ~oom
      BY SteadyReel
    <3>2. /\ reel.y \in Nat /\ reel.h \in Nat /\ ReelBorder("bottom") \in {0, 1}
          /\ Top = reel.y + 1 /\ Bottom = reel.y + reel.h - 1 - ReelBorder("bottom")
      BY <3>1, ReelNumbers
    <3> QED
      BY <3>1, <3>2
  <2>4. f \in Int /\ f >= Top
    <3>1. p # t => win[p].y \in Int /\ win[p].h \in Nat /\ win[p].y >= Top
                   /\ getmaxy(win[p]) = win[p].h /\ getbegy(win[p]) = win[p].y
      BY <2>2 DEF Held, InColumns, Window, getmaxy, getbegy
    <3> HIDE DEF p
    <3> QED
      BY <2>3, <3>1
  <2> DEFINE w == FirstWindow(t, oom)
  <2>5. \/ f > reel.y + reel.h - 2 /\ w = NULL
        \/ f <= reel.y + reel.h - 2 /\ InColumns(w) /\ w.y = f
    <3> DEFINE g == f
    <3>1. g = IF prev'[t] = t THEN Top ELSE getbegy(win[prev'[t]]) + getmaxy(win[prev'[t]]) + 2
      OBVIOUS
    <3>2. g \in Int /\ g >= Top
      BY <2>4
    <3> HIDE DEF g, w
    <3>3. \/ g > reel.y + reel.h - 2 /\ FirstWindow(t, oom) = NULL
          \/ g <= reel.y + reel.h - 2 /\ InColumns(FirstWindow(t, oom)) /\ FirstWindow(t, oom).y = g
      BY <2>3, <3>1, <3>2, FirstThere
    <3> QED
      BY <3>3 DEF g, w
  <2> HIDE DEF f, w
  <2>6. reel.y \in Int /\ reel.h \in Int
    BY DEF SteadyInv, Inv, TypeOK, Window
  <2>7. Held(w)
    BY <2>3, <2>4, <2>5, <2>6 DEF Held
  <2> QED
    BY <2>7 DEF w
<1>7. \A u \in live' : Held(win'[u])
  <2>1. win'[t] = IF allVisible THEN FirstWindow(t, oom) ELSE NULL
    BY <1>3, <1>4
  <2>2. Held(win'[t])
    BY <1>6, <2>1 DEF Held
  <2>3. \A u \in live : win'[u] = win[u]
    BY <1>3, <1>4
  <2> QED
    BY <1>1, <1>4, <2>2, <2>3
<1>8. Full' /\ FocusSeen' /\ Apart'
  BY <1>1 DEF Full, FocusSeen, Apart
<1> QED
  BY <1>1, <1>5, <1>7, <1>8, SteadyThen

\* panelreel_del(): the windows of the others stay.
LEMMA SteadyDelete ==
  ASSUME SteadyInv, Inv', NEW t \in live, NEW nx, Delete(t, nx), reel' = reel
  PROVE  SteadyInv'
<1>1. pc' \in {"redraw", "crashed"}
  BY DEF Delete
<1>2. /\ live' \subseteq live
      /\ \A u \in live' : win'[u] = win[u] /\ lines'[u] = lines[u]
  <2>1. CASE UNCHANGED <<live, win, lines>>
    BY <2>1
  <2>2. CASE Freed(t)
    BY <2>2 DEF Freed, SteadyInv, Inv, TypeOK
  <2> QED
    BY <2>1, <2>2 DEF Delete
<1>3. \A u \in live' : Held(win'[u]) /\ lines'[u] \in LineCounts
  BY <1>2 DEF SteadyInv, Contents
<1>4. Full' /\ FocusSeen' /\ Apart'
  BY <1>1 DEF Full, FocusSeen, Apart
<1> QED
  BY <1>3, <1>4, SteadyThen

\* Each step keeps the invariant.
LEMMA SteadyNext ==
  SteadyInv /\ [Next]_vars => SteadyInv'
<1> SUFFICES ASSUME SteadyInv, [Next]_vars PROVE SteadyInv'
  OBVIOUS
<1>0. Inv'
  BY NextInv DEF SteadyInv
<1>1. CASE Arrange \/ FindTopmost \/ BeginDenormalized
  BY <1>0, <1>1, SteadySearch
<1>2. CASE Denormalized
  BY <1>0, <1>2, SteadyDenormalized
<1>3. CASE DrawFocused
  BY <1>0, <1>3, SteadyDrawFocused
<1>4. CASE DrawFollowing
  BY <1>0, <1>4, SteadyFollowing
<1>5. CASE DrawPrevious
  BY <1>0, <1>5, SteadyPrevious
<1>6. CASE AddTablet
  BY <1>0, <1>6, SteadyAdd DEF AddTablet
<1>7. CASE DelTablet \/ DelFocused \/ DestroyNext
  <2>1. \E t \in live : \E nx : Delete(t, nx) /\ reel' = reel
    <3>1. CASE DelTablet
      BY <3>1 DEF DelTablet, Del
    <3>2. CASE DelFocused
      <4>1. focus \in live
        BY <3>2 DEF DelFocused, Del, SteadyInv, Inv, RingOK, FocusInRing
      <4> QED
        BY <3>2, <4>1 DEF DelFocused, Del
    <3>3. CASE DestroyNext
      <4>1. doomed \in live
        BY <3>3 DEF DestroyNext, SteadyInv, Inv, WalksOnLive
      <4> QED
        BY <3>3, <4>1 DEF DestroyNext
    <3> QED
      BY <1>7, <3>1, <3>2, <3>3
  <2> QED
    BY <1>0, <2>1, SteadyDelete
<1>8. CASE DelForeign \/ FocusNext \/ FocusPrev \/ Redraw \/ Destroy
  <2>1. UNCHANGED <<live, win, reel, lines>> /\ pc' \in {"redraw", "destroy", "freed"}
    BY <1>8 DEF DelForeign, FocusNext, FocusPrev, Travel, Redraw, Destroy, ring, view
  <2> QED
    BY <1>0, <2>1, SteadyStill
<1>9. CASE MoveReel
  BY <1>9, SteadyReel DEF MoveReel
<1>10. CASE Update
  <2>1. PICK t \in live, n \in LineCounts : SetLines(t, n)
    BY <1>10 DEF Update
  <2>2. UNCHANGED <<ring, view, ctl>> /\ lines' = [lines EXCEPT ![t] = n]
    BY <2>1 DEF SetLines
  <2>3. (\A u \in live' : Held(win'[u])) /\ Full' /\ FocusSeen'
    BY <2>2 DEF SteadyInv, Full, FocusSeen, Shown, ring, view, ctl
  <2>4. \A u \in live' : lines'[u] \in LineCounts
    BY <2>2 DEF SteadyInv, Contents, Inv, TypeOK, ring
  <2>5. Apart'
    BY <2>2 DEF SteadyInv, Apart, Behind, ring, ctl
  <2> QED
    BY <1>0, <2>2, <2>3, <2>4, <2>5, SteadyThen DEF view
<1>11. CASE UNCHANGED vars
  BY <1>0, <1>11, SteadyStill DEF vars
<1> QED
  BY <1>1, <1>2, <1>3, <1>4, <1>5, <1>6, <1>7, <1>8, <1>9, <1>10, <1>11
     DEF Next, RedrawStep, Call

\* The invariant of the steady reel holds in every state of it.
LEMMA SteadyAlways ==
  Steady /\ Spec => []SteadyInv
<1>1. Steady /\ Init => SteadyInv
  <2> SUFFICES ASSUME Steady, Init PROVE SteadyInv
    OBVIOUS
  <2>1. Inv
    BY InitInv
  <2>2. reel = ReelWindow /\ live = {} /\ pc = "idle" /\ focus = NULL
    BY DEF Init
  <2> QED
    BY <2>1, <2>2 DEF SteadyInv, Contents, Full, FocusSeen, Apart
<1> QED
  BY <1>1, SteadyNext, PTL DEF Spec

\* "The focused tablet is always visible" (panelreel.c:29): in a reel that is
\* not moved and is taller than any of its tablets, whenever the library has
\* returned, whatever is added, deleted, focused and written meanwhile.
THEOREM FocusVisible ==
  Steady /\ Spec => []FocusShown
<1>1. SteadyInv => FocusShown
  BY DEF SteadyInv, FocusSeen, FocusShown, Idle
<1> QED
  BY <1>1, SteadyAlways, PTL

\* In such a reel the windows span the columns between its borders.
THEOREM ColumnsAligned ==
  Steady /\ Spec => []AlignedColumns
<1>1. SteadyInv => AlignedColumns
  BY DEF SteadyInv, Held, InColumns, AlignedColumns, Shown
<1> QED
  BY <1>1, SteadyAlways, PTL

\* Whenever draw_focused_tablet() draws it, the focused tablet of such a reel
\* gets a window of all of its lines and both its borders.
THEOREM FocusDrawnWhole ==
  Steady /\ Spec => FocusWhole
<1>1. SteadyInv /\ [Next]_vars =>
        [DrawFocused => /\ win'[focus] # NULL
                        /\ Whole(focus) <= Room(0) => win'[focus].h = Whole(focus)]_vars
  BY SteadyFocus
<1> QED
  BY <1>1, SteadyAlways, PTL DEF Spec, FocusWhole

\* Neither pass of panelreel_arrange() comes round to the focus: in such a reel
\* the tablets above and below it are laid out, in each of the three passes,
\* without it being drawn again as one of them (panelreel.c:382, 403).
THEOREM FocusLeftAlone ==
  Steady /\ Spec => FocusUndisturbed
<1>1. SteadyInv /\ [Next]_vars =>
        [DrawFollowing \/ DrawPrevious => win'[focus] = win[focus]]_vars
  <2>1. SteadyInv /\ Next => Inv'
    BY NextInv DEF SteadyInv
  <2> QED
    BY <2>1, SteadyFollowing, SteadyPrevious
<1> QED
  BY <1>1, SteadyAlways, PTL DEF Spec, FocusUndisturbed

----------------------------------------------------------------------------
(* A reel that has room for all of its tablets, and may be moved *)

\* Memory suffices, the reel has a top border and is wholly on the screen, M
\* lines hold any tablet, with one to spare for its contents, and the reel has
\* room for all tablets, of M lines and a gap each.  The last conjunct is due
\* to a line of the screen that is compared with a number of lines of the reel
\* (panelreel.c:316): the reel is not too far down, wherever it is moved.
Roomy(M) ==
  /\ ~MemoryFails /\ "top" \notin bordermask
  /\ ReelWindow.y >= 0 /\ ReelWindow.x >= 0
  /\ ReelWindow.y + ReelWindow.h <= LINES /\ ReelWindow.x + ReelWindow.w <= COLS
  /\ ReelWindow.w - ReelBorder("left") - ReelBorder("right") >= 1
  /\ M >= 2
  /\ \A n \in LineCounts :
       /\ n >= 1 \/ (TabletBorder("top") = 1 /\ TabletBorder("bottom") = 1)
       /\ n < M /\ n + TabletBorder("top") + TabletBorder("bottom") <= M
  /\ LET lacking(y) == y + Cardinality(Tablets) * (M + 1) > ReelWindow.h - ReelBorder("bottom")
     IN /\ ~lacking(1) /\ ~lacking(ReelWindow.y)
        /\ \A at \in MoveTargets : ~lacking(at[1])

\* The lines that k tablets and their gaps take at most.
Lines(k, M) == k * (M + 1)

\* The reel may have moved; it is still one of the reels of the hypothesis.
Placeable(M) ==
  /\ OnScreen /\ reel.h = ReelWindow.h /\ reel.w = ReelWindow.w
  /\ reel.y + Lines(Cardinality(Tablets), M) <= reel.h - ReelBorder("bottom")

\* The tablets of V are stacked from tablet top, one gap apart, in at most
\* the lines they may take.
Stack(V, top, M) ==
  /\ \A v \in V : win[v].y = IF v = top THEN Top ELSE LastLine(win[prev[v]]) + 2
  /\ \A v \in V : win[v].y >= Top /\ LastLine(win[v]) - Top + 2 <= Lines(Cardinality(V), M)

\* V is what the layout has stacked, downwards from its otherend to the tablet
\* before the one it works on.
Stacking(V, M) ==
  /\ Stack(V, otherend, M)
  /\ working \notin V /\ (V = {} => working = otherend)
  /\ V # {} => otherend \in V /\ prev[working] \in V
  /\ \A v \in V \ {otherend} : prev[v] \in V
  /\ \A v \in V : next[v] \in V \cup {working}

\* What such a reel is like at every moment.
RoomyInv(M) ==
  /\ Roomy(M) /\ Inv /\ Placeable(M) /\ Contents
  /\ allVisible /\ pc \notin {"focused", "pass"}
  /\ \A t \in live : InColumns(win[t])
  /\ pc = "denormalized" => \E V \in SUBSET live : Stacking(V, M)
  /\ pc = "idle" /\ focus # NULL => \E top \in live : Stack(live, top, M)

\* The arithmetic of lines.
LEMMA LinesFacts ==
  ASSUME NEW M \in Nat, NEW k \in Nat
  PROVE  /\ Lines(k, M) \in Nat /\ Lines(k + 1, M) = Lines(k, M) + M + 1
         /\ Lines(0, M) = 0
         /\ \A n \in Nat : k <= n => Lines(k, M) <= Lines(n, M)
<1>1. Lines(k, M) \in Nat /\ Lines(0, M) = 0
  BY DEF Lines
<1>2. Lines(k + 1, M) = Lines(k, M) + M + 1
  BY DEF Lines
<1>3. ASSUME NEW n \in Nat, k <= n PROVE Lines(k, M) <= Lines(n, M)
  <2>1. PICK j \in Nat : n = k + j
    BY <1>3
  <2>2. (k + j) * (M + 1) = k * (M + 1) + j * (M + 1) /\ j * (M + 1) >= 0
    OBVIOUS
  <2> QED
    BY <2>1, <2>2 DEF Lines
<1> QED
  BY <1>1, <1>2, <1>3

\* Fewer tablets take fewer lines.
LEMMA FewerLines ==
  ASSUME NEW M \in Nat, NEW V \in SUBSET Tablets
  PROVE  /\ IsFiniteSet(V) /\ Cardinality(V) \in Nat /\ Cardinality(Tablets) \in Nat
         /\ Lines(Cardinality(V), M) \in Nat
         /\ \A W \in SUBSET V : Lines(Cardinality(W), M) <= Lines(Cardinality(V), M)
         /\ \A t \in Tablets \ V :
              /\ Lines(Cardinality(V \cup {t}), M) = Lines(Cardinality(V), M) + M + 1
              /\ Lines(Cardinality(V), M) + M + 1 <= Lines(Cardinality(Tablets), M)
<1>1. IsFiniteSet(Tablets)
  BY ReelAssumption
<1>2. IsFiniteSet(V) /\ Cardinality(V) \in Nat /\ Cardinality(Tablets) \in Nat
  BY <1>1, FS_Subset, FS_CardinalityType
<1>3. ASSUME NEW W \in SUBSET V PROVE Lines(Cardinality(W), M) <= Lines(Cardinality(V), M)
  <2>1. Cardinality(W) \in Nat /\ Cardinality(W) <= Cardinality(V)
    BY <1>2, FS_Subset, FS_CardinalityType
  <2> QED
    BY <1>2, <2>1, LinesFacts
<1>4. ASSUME NEW t \in Tablets \ V
      PROVE  /\ Lines(Cardinality(V \cup {t}), M) = Lines(Cardinality(V), M) + M + 1
             /\ Lines(Cardinality(V), M) + M + 1 <= Lines(Cardinality(Tablets), M)
  <2>1. Cardinality(V \cup {t}) = Cardinality(V) + 1
    BY <1>2, FS_AddElement
  <2>2. Cardinality(V \cup {t}) <= Cardinality(Tablets)
    <3>1. V \cup {t} \subseteq Tablets
      OBVIOUS
    <3> QED
      BY <1>1, <3>1, FS_Subset
  <2>3. Lines(Cardinality(V) + 1, M) = Lines(Cardinality(V), M) + M + 1
    BY <1>2, LinesFacts
  <2>4. Cardinality(V) + 1 \in Nat /\ Cardinality(V) + 1 <= Cardinality(Tablets)
    BY <1>2, <2>1, <2>2
  <2>5. Lines(Cardinality(V) + 1, M) <= Lines(Cardinality(Tablets), M)
    BY <1>2, <2>4, LinesFacts
  <2> QED
    BY <2>1, <2>3, <2>5
<1>5. Lines(Cardinality(V), M) \in Nat
  BY <1>2, LinesFacts
<1> QED
  BY <1>2, <1>3, <1>4, <1>5

\* The numbers of a roomy reel: b lines are enough for all tablets.
LEMMA RoomyReel ==
  ASSUME NEW M \in Nat, RoomyInv(M)
  PROVE  LET b == Lines(Cardinality(Tablets), M)
         IN /\ OnScreen /\ b \in Nat /\ M >= 2
            /\ reel.y \in Nat /\ reel.h \in Nat \ {0} /\ Top = reel.y + 1
            /\ Bottom \in Int /\ Room(0) = Bottom - Top + 1
            /\ Bottom <= reel.y + reel.h - 1 /\ Bottom >= reel.y + reel.h - 2
            /\ b <= Room(0) /\ reel.y + b - 1 <= Room(0)
            /\ \A oom \in Oom : oom \in BOOLEAN /\ ~oom
            /\ NULL \notin Tablets
<1> DEFINE b == Lines(Cardinality(Tablets), M)
<1>1. OnScreen /\ M >= 2 /\ reel.h = ReelWindow.h /\ reel.y + b <= reel.h - ReelBorder("bottom")
  BY DEF RoomyInv, Roomy, Placeable
<1>2. /\ reel.y \in Nat /\ reel.h \in Nat \ {0} /\ ReelBorder("bottom") \in {0, 1}
      /\ Top = reel.y + 1 /\ Bottom = reel.y + reel.h - 1 - ReelBorder("bottom")
      /\ Room(0) = reel.h - 1 - ReelBorder("bottom")
  BY <1>1, ReelNumbers
<1>3. b \in Nat
  BY FewerLines
<1>4. 1 + b <= reel.h - ReelBorder("bottom")
  <2>1. ~(1 + b > ReelWindow.h - ReelBorder("bottom"))
    BY DEF RoomyInv, Roomy, Lines
  <2> HIDE DEF b
  <2> QED
    BY <1>1, <1>2, <1>3, <2>1
<1>5. \A oom \in Oom : oom \in BOOLEAN /\ ~oom
  <2>1. MemoryFails \in BOOLEAN /\ ~MemoryFails
    BY ReelAssumption DEF RoomyInv, Roomy
  <2>2. MemoryFails = FALSE
    BY <2>1
  <2> QED
    BY <2>2 DEF Oom
<1> HIDE DEF b
<1>6. /\ Bottom \in Int /\ Room(0) = Bottom - Top + 1
      /\ Bottom <= reel.y + reel.h - 1 /\ Bottom >= reel.y + reel.h - 2
      /\ b <= Room(0) /\ reel.y + b - 1 <= Room(0)
  BY <1>1, <1>2, <1>3, <1>4
<1> QED
  BY <1>1, <1>2, <1>3, <1>5, <1>6, ReelAssumption DEF b

\* A tablet of a roomy reel takes M lines at most, and is whole in fewer than
\* the reel has.
LEMMA RoomyTablet ==
  ASSUME NEW M \in Nat, RoomyInv(M), NEW t \in live
  PROVE  /\ t \in Tablets /\ lines[t] \in Nat /\ Solid(t)
         /\ InColumns(win[t]) /\ Housed(win[t]) /\ win[t] # NULL /\ win[t] \in Window
         /\ lines[t] < M /\ Whole(t) <= M /\ Whole(t) \in Nat \ {0}
         /\ Whole(t) < Room(0) /\ lines[t] < Room(0) - 1
         /\ M + 1 <= Lines(Cardinality(Tablets), M)
<1>1. t \in Tablets /\ lines[t] \in Nat /\ lines[t] \in LineCounts /\ InColumns(win[t])
  BY DEF RoomyInv, Contents, Inv, TypeOK
<1>2. Solid(t) /\ lines[t] < M /\ Whole(t) <= M
  BY <1>1 DEF RoomyInv, Roomy, Solid, Whole
<1>3. win[t] \in Window /\ win[t] # NULL /\ Housed(win[t])
  BY <1>1, NullAssumption DEF InColumns, Housed
<1>4. Whole(t) \in Nat \ {0}
  <2>1. TabletBorder("top") \in {0, 1} /\ TabletBorder("bottom") \in {0, 1}
    BY DEF TabletBorder
  <2> QED
    BY <1>1, <1>2, <2>1 DEF Whole, Solid
<1>5. M + 1 <= Lines(Cardinality(Tablets), M)
  <2>1. {} \in SUBSET Tablets /\ t \in Tablets \ {}
    BY <1>1
  <2>2. Lines(Cardinality({}), M) + M + 1 <= Lines(Cardinality(Tablets), M)
    BY <2>1, FewerLines
  <2>3. Lines(Cardinality({}), M) = 0
    BY FS_EmptySet, LinesFacts
  <2> QED
    BY <2>2, <2>3
<1>6. Whole(t) < Room(0) /\ lines[t] < Room(0) - 1
  <2> DEFINE b == Lines(Cardinality(Tablets), M)
  <2>1. b \in Nat /\ b <= Room(0) /\ Room(0) \in Int
    BY RoomyReel
  <2> HIDE DEF b
  <2>2. M + 1 <= b
    BY <1>5 DEF b
  <2> QED
    BY <1>1, <1>2, <1>4, <2>1, <2>2
<1> QED
  BY <1>1, <1>2, <1>3, <1>4, <1>5, <1>6

\* The last line of a tablet in a stack that is not of all tablets leaves room
\* for one more.
LEMMA NextInStack ==
  ASSUME NEW M \in Nat, RoomyInv(M), NEW V \in SUBSET Tablets, NEW t \in Tablets \ V,
         NEW f \in Int, f - Top <= Lines(Cardinality(V), M)
  PROVE  /\ f + M <= Bottom /\ f + M - 1 <= Room(0) /\ f + M <= reel.y + reel.h - 1
         /\ f + M - Top + 1 <= Lines(Cardinality(V \cup {t}), M)
<1> DEFINE b == Lines(Cardinality(Tablets), M)
           l == Lines(Cardinality(V), M)
<1>1. /\ l \in Nat /\ Lines(Cardinality(V \cup {t}), M) = l + M + 1 /\ l + M + 1 <= b
  BY FewerLines
<1>2. /\ b \in Nat /\ reel.y \in Nat /\ reel.h \in Nat \ {0} /\ Top = reel.y + 1
      /\ Bottom \in Int /\ Room(0) = Bottom - Top + 1
      /\ Bottom <= reel.y + reel.h - 1
      /\ b <= Room(0) /\ reel.y + b - 1 <= Room(0)
  BY RoomyReel
<1> HIDE DEF b, l
<1>3. f - Top <= l
  BY DEF l
<1>4. f + M - Top + 1 <= l + M + 1
  BY <1>1, <1>2, <1>3
<1>5. f + M <= Bottom
  BY <1>1, <1>2, <1>3
<1>6. f + M - 1 <= Room(0)
  BY <1>1, <1>2, <1>3
<1> QED
  BY <1>1, <1>2, <1>4, <1>5, <1>6

\* The answer q of a drawing that shows tablet t whole at line f, not further
\* down than the first l lines.
Unclipped(q, t, f, l) ==
  /\ InColumns(q.win) /\ q.win # NULL /\ q.win.y = f /\ q.win.h = Whole(t)
  /\ (q.broken = FALSE) /\ LastLine(q.win) - Top + 2 <= l

\* A tablet that is drawn where one more has room is shown there, whole.
LEMMA RoomyDrawn ==
  ASSUME NEW M \in Nat, RoomyInv(M), NEW V \in SUBSET Tablets, NEW t \in live \ V,
         NEW f \in Int, f >= Top, f - Top <= Lines(Cardinality(V), M),
         NEW d \in {0, 1}, NEW oom \in Oom
  PROVE  Unclipped(DrawTablet(t, f, d, oom), t, f, Lines(Cardinality(V \cup {t}), M))
<1> DEFINE q == DrawTablet(t, f, d, oom)
<1>1. OnScreen /\ oom \in BOOLEAN /\ ~oom
  BY RoomyReel
<1>2. /\ t \in Tablets /\ lines[t] \in Nat /\ Solid(t) /\ Housed(win[t])
      /\ lines[t] < M /\ Whole(t) <= M /\ Whole(t) \in Nat \ {0}
      /\ Whole(t) < Room(0) /\ lines[t] < Room(0) - 1
  BY RoomyTablet
<1>3. /\ f + M <= Bottom /\ f + M - 1 <= Room(0) /\ f + M <= reel.y + reel.h - 1
      /\ f + M - Top + 1 <= Lines(Cardinality(V \cup {t}), M)
  BY <1>2, NextInStack
<1>4. /\ Top \in Int /\ Bottom \in Int /\ Room(0) \in Int /\ reel.y \in Int /\ reel.h \in Int
      /\ Lines(Cardinality(V \cup {t}), M) \in Nat
  <2>1. V \cup {t} \in SUBSET Tablets
    BY <1>2
  <2> QED
    BY <2>1, RoomyReel, FewerLines
<1>5. InColumns(q.win) /\ q.win.y = f /\ q.win.h = Whole(t) /\ (q.broken = FALSE)
  <2>1. CASE d = 1
    <3>1. f + Whole(t) <= Bottom /\ f + lines[t] < Bottom /\ f <= reel.y + reel.h - 2
      BY <1>2, <1>3, <1>4
    <3>2. /\ \/ f > reel.y + reel.h - 2 /\ q.win = NULL
             \/ /\ f <= reel.y + reel.h - 2
                /\ InColumns(q.win) /\ q.win.y = f
          /\ f + Whole(t) <= Bottom /\ f + lines[t] < Bottom /\ f <= reel.y + reel.h - 2
             => q.win.h = Whole(t) /\ (q.broken = FALSE)
      <4> DEFINE r == DrawTablet(t, f, 1, oom)
      <4>1. /\ \/ f > reel.y + reel.h - 2 /\ r.win = NULL
               \/ /\ f <= reel.y + reel.h - 2
                  /\ InColumns(r.win) /\ r.win.y = f
            /\ f + Whole(t) <= Bottom /\ f + lines[t] < Bottom /\ f <= reel.y + reel.h - 2
               => r.win.h = Whole(t) /\ (r.broken = FALSE)
        <5>1. OnScreen /\ t \in Tablets /\ Housed(win[t]) /\ lines[t] \in Nat /\ Solid(t)
              /\ oom \in BOOLEAN /\ ~oom
          BY <1>1, <1>2
        <5> QED
          BY <5>1, DrawnDown
      <4>2. q = r
        BY <2>1
      <4> HIDE DEF q, r
      <4> QED
        BY <4>1, <4>2
    <3> HIDE DEF q
    <3> QED
      BY <1>4, <3>1, <3>2
  <2>2. CASE d = 0
    <3>1. StartLine(Room(0), Whole(t), f) = f
      BY <1>2, <1>3, <1>4 DEF StartLine
    <3>2. /\ InColumns(q.win) /\ q.win.h = Whole(t)
          /\ q.win.y = StartLine(Room(0), Whole(t), f)
          /\ q.broken <=> lines[t] = Room(0) - 1
      BY <1>1, <1>2, <2>2, DrawnFocus
    <3> HIDE DEF q
    <3>3. lines[t] # Room(0) - 1
      BY <1>2, <1>4
    <3> QED
      BY <3>1, <3>2, <3>3
  <2> QED
    BY <2>1, <2>2
<1> HIDE DEF q
<1>6. q.win # NULL
  BY <1>5, NullAssumption DEF InColumns
<1>7. LastLine(q.win) - Top + 2 <= Lines(Cardinality(V \cup {t}), M)
  BY <1>2, <1>3, <1>4, <1>5 DEF LastLine
<1> QED
  BY <1>5, <1>6, <1>7 DEF q, Unclipped

\* The next tablet of the stack starts where one more has room.
LEMMA RoomyFrontier ==
  ASSUME NEW M \in Nat, RoomyInv(M), pc = "denormalized", NEW V \in SUBSET live, Stacking(V, M)
  PROVE  LET f == DenormalizedFrontier
         IN /\ f \in Int /\ f >= Top /\ f - Top <= Lines(Cardinality(V), M)
            /\ f = IF working = otherend THEN Top ELSE LastLine(win[prev[working]]) + 2
<1>1. Top \in Int /\ Lines(Cardinality(V), M) \in Nat
  <2>1. V \in SUBSET Tablets
    BY DEF RoomyInv, Inv, TypeOK
  <2> QED
    BY <2>1, RoomyReel, FewerLines
<1>2. CASE working = otherend
  BY <1>1, <1>2 DEF DenormalizedFrontier
<1>3. CASE working # otherend
  <2> DEFINE w == win[prev[working]]
  <2>1. prev[working] \in V
    BY <1>3 DEF Stacking
  <2>2. w \in Window /\ w # NULL /\ w.y >= Top /\ LastLine(w) - Top + 2 <= Lines(Cardinality(V), M)
    BY <2>1, RoomyTablet DEF Stacking, Stack
  <2>3. w.y \in Int /\ w.h \in Nat \ {0} /\ getmaxy(w) = w.h /\ getbegy(w) = w.y
    BY <2>2 DEF Window, getmaxy, getbegy
  <2>4. DenormalizedFrontier = getmaxy(w) + getbegy(w) + 1
    BY <1>3 DEF DenormalizedFrontier
  <2> HIDE DEF w
  <2>5. LastLine(w) = w.y + w.h - 1
    BY DEF LastLine
  <2>6. /\ DenormalizedFrontier \in Int /\ DenormalizedFrontier >= Top
        /\ DenormalizedFrontier - Top <= Lines(Cardinality(V), M)
        /\ DenormalizedFrontier = LastLine(w) + 2
    BY <1>1, <2>2, <2>3, <2>4, <2>5
  <2> QED
    BY <1>3, <2>6 DEF w
<1> QED
  BY <1>2, <1>3

\* The parts of the invariant after a step that does not move the reel.
LEMMA RoomyThen ==
  ASSUME NEW M \in Nat, RoomyInv(M), Inv', reel' = reel,
         \A t \in live' : lines'[t] \in LineCounts, \A t \in live' : InColumns(win'[t]),
         allVisible', pc' \notin {"focused", "pass"},
         pc' = "denormalized" => \E V \in SUBSET live' : Stacking(V, M)',
         pc' = "idle" /\ focus' # NULL => \E top \in live' : Stack(live, top, M)'
  PROVE  RoomyInv(M)'
<1>1. (\A t \in live : InColumns(win[t]))'
  BY DEF InColumns, TabletW
<1>2. Placeable(M)'
  BY DEF RoomyInv, Placeable, OnScreen, TabletW
<1>3. Roomy(M)' /\ Contents'
  BY DEF RoomyInv, Roomy, Contents, ReelWindow
<1>4. (pc = "denormalized" => \E V \in SUBSET live : Stacking(V, M))'
  OBVIOUS
<1>5. (pc = "idle" /\ focus # NULL => \E top \in live : Stack(live, top, M))'
  OBVIOUS
<1> QED
  BY <1>1, <1>2, <1>3, <1>4, <1>5 DEF RoomyInv

\* A stack is one more tablet high when the tablet below it is drawn.
LEMMA StackOneMore ==
  ASSUME NEW M \in Nat, RoomyInv(M), pc = "denormalized", NEW V \in SUBSET live, Stacking(V, M),
         NEW w, InColumns(w), w.y = DenormalizedFrontier,
         LastLine(w) - Top + 2 <= Lines(Cardinality(V \cup {working}), M),
         win' = [win EXCEPT ![working] = w], UNCHANGED <<live, prev, reel>>,
         NEW top, top = otherend, NEW W, W = V \cup {working}
  PROVE  Stack(W, top, M)'
<1>1. working \in live /\ working \notin V /\ live \subseteq Tablets
  BY DEF RoomyInv, Inv, WalksOnLive, TypeOK, Stacking
<1>2. win'[working] = w /\ \A v \in V : win'[v] = win[v]
  BY <1>1 DEF RoomyInv, Inv, TypeOK
<1>3. Top' = Top
  BY DEF Top
<1>4. /\ DenormalizedFrontier >= Top
      /\ DenormalizedFrontier = IF working = otherend THEN Top ELSE LastLine(win[prev[working]]) + 2
  BY RoomyFrontier
<1>5. \A v \in V : /\ win[v].y = IF v = otherend THEN Top ELSE LastLine(win[prev[v]]) + 2
                   /\ win[v].y >= Top /\ LastLine(win[v]) - Top + 2 <= Lines(Cardinality(V), M)
                   /\ v # otherend => prev[v] \in V
  BY DEF Stacking, Stack
<1>6. working # otherend => prev[working] \in V
  BY DEF Stacking
<1>7. \A v \in W : win'[v].y = IF v = otherend THEN Top ELSE LastLine(win'[prev[v]]) + 2
  <2> TAKE v \in W
  <2>1. CASE v = working
    BY <1>2, <1>4, <1>6, <2>1
  <2>2. CASE v \in V
    BY <1>2, <1>5, <2>2
  <2> QED
    BY <2>1, <2>2
<1>8. \A v \in W : win'[v].y >= Top /\ LastLine(win'[v]) - Top + 2 <= Lines(Cardinality(W), M)
  <2> TAKE v \in W
  <2>1. CASE v = working
    BY <1>2, <1>4, <2>1
  <2>2. CASE v \in V
    <3>1. win[v] \in Window /\ Top \in Int
      BY <2>2, RoomyTablet, RoomyReel
    <3>2. LastLine(win[v]) \in Int
      BY <3>1 DEF LastLine, Window
    <3>3. W \in SUBSET Tablets /\ V \in SUBSET W /\ V \in SUBSET Tablets
      BY <1>1
    <3>4. /\ Lines(Cardinality(V), M) \in Nat /\ Lines(Cardinality(W), M) \in Nat
          /\ Lines(Cardinality(V), M) <= Lines(Cardinality(W), M)
      BY <3>3, FewerLines
    <3> DEFINE a == Lines(Cardinality(V), M)
               b == Lines(Cardinality(W), M)
               l == LastLine(win[v])
    <3>5. win'[v] = win[v] /\ win[v].y >= Top /\ l - Top + 2 <= a
      BY <1>2, <1>5, <2>2
    <3>6. l \in Int /\ a \in Nat /\ b \in Nat /\ a <= b
      BY <3>2, <3>4
    <3> HIDE DEF a, b, l
    <3>7. l - Top + 2 <= b
      BY <3>1, <3>5, <3>6
    <3> QED
      BY <3>5, <3>7 DEF l, b
  <2> QED
    BY <2>1, <2>2
<1> QED
  <2>1. \A v \in W : win'[v].y = IF v = top THEN Top' ELSE LastLine(win'[prev'[v]]) + 2
    BY <1>3, <1>7
  <2>2. \A v \in W : win'[v].y >= Top' /\ LastLine(win'[v]) - Top' + 2 <= Lines(Cardinality(W), M)
    BY <1>3, <1>8
  <2> QED
    BY <2>1, <2>2 DEF Stack

\* One more tablet is stacked, or the last.
LEMMA RoomyDenormalized ==
  ASSUME NEW M \in Nat, RoomyInv(M), Inv', Denormalized
  PROVE  RoomyInv(M)'
<1>1. /\ pc = "denormalized" /\ allVisible /\ working \in live /\ otherend \in live
      /\ live \subseteq Tablets
      /\ UNCHANGED <<live, focus, next, prev, reel, lines>>
  BY DEF Denormalized, RoomyInv, Inv, WalksOnLive, TypeOK, ring
<1>2. PICK V \in SUBSET live : Stacking(V, M)
  BY <1>1 DEF RoomyInv
<1>3. /\ working \notin V /\ (V = {} => working = otherend)
      /\ V # {} => otherend \in V /\ prev[working] \in V
      /\ \A v \in V \ {otherend} : prev[v] \in V
      /\ \A v \in V : next[v] \in V \cup {working}
  BY <1>2 DEF Stacking
<1>4. LinksInverse /\ OneRing
  BY <1>1 DEF RoomyInv, Inv, RingOK
<1> DEFINE d == IF working = focus THEN 0 ELSE 1
           f == DenormalizedFrontier
           W == V \cup {working}
<1>5. PICK oom \in Oom :
        LET q == DrawTablet(working, f, d, oom)
            failed == q.win = NULL \/ q.broken
        IN /\ win' = [win EXCEPT ![working] = q.win]
           /\ allVisible' = (allVisible /\ ~failed)
           /\ IF failed \/ next[working] = otherend
              THEN Return
              ELSE /\ working' = next[working]
                   /\ UNCHANGED <<pc, otherend, passes, doomed>>
  BY DEF Denormalized
<1> DEFINE q == DrawTablet(working, f, d, oom)
           w == q.win
<1>6. /\ InColumns(w) /\ w.y = f /\ (q.broken = FALSE) /\ w # NULL
      /\ LastLine(w) - Top + 2 <= Lines(Cardinality(W), M)
  <2>1. f \in Int /\ f >= Top /\ f - Top <= Lines(Cardinality(V), M)
    BY <1>1, <1>2, RoomyFrontier
  <2>2. d \in {0, 1} /\ V \in SUBSET Tablets /\ working \in live \ V
    BY <1>1, <1>3
  <2> HIDE DEF d, f
  <2>3. Unclipped(q, working, f, Lines(Cardinality(W), M))
    BY <2>1, <2>2, RoomyDrawn
  <2> QED
    BY <2>3 DEF Unclipped
<1>7. /\ win' = [win EXCEPT ![working] = w] /\ (allVisible' = TRUE)
      /\ IF next[working] = otherend THEN Return
         ELSE working' = next[working] /\ UNCHANGED <<pc, otherend>>
  <2>1. ~(w = NULL \/ q.broken)
    BY <1>6
  <2> QED
    BY <1>1, <1>5, <2>1
<1> HIDE DEF q, w, d
<1>8. PICK top \in live, X \in SUBSET live : top = otherend /\ X = W
  BY <1>1, <1>3
<1>9. Stack(X, top, M)'
  <2>1. LastLine(w) - Top + 2 <= Lines(Cardinality(V \cup {working}), M)
    BY <1>6
  <2> QED
    BY <1>1, <1>2, <1>6, <1>7, <1>8, <2>1, StackOneMore
<1>10. (\A t \in live' : InColumns(win'[t])) /\ \A t \in live' : lines'[t] \in LineCounts
  <2>1. win'[working] = w /\ \A t \in live \ {working} : win'[t] = win[t]
    BY <1>1, <1>7 DEF RoomyInv, Inv, TypeOK
  <2> QED
    BY <1>1, <1>6, <2>1 DEF RoomyInv, Contents
<1>11. CASE next[working] = otherend
  <2>1. \A v \in X : next[v] \in X
    BY <1>3, <1>8, <1>11
  <2>2. X = live
    BY <1>1, <1>4, <1>8, <2>1 DEF OneRing
  <2>3. Stack(live, top, M)'
    BY <1>1, <1>9, <2>2 DEF Stack
  <2>4. pc' \in {"idle", "destroy"}
    BY <1>7, <1>11 DEF Return
  <2> QED
    BY <1>1, <1>7, <1>8, <1>10, <2>3, <2>4, RoomyThen
<1>12. CASE next[working] # otherend
  <2>1. working' = next[working] /\ UNCHANGED <<pc, otherend>>
    BY <1>7, <1>12
  <2> DEFINE n == next[working]
  <2>2. n \in live /\ prev[n] = working
    BY <1>1, <1>4 DEF LinksInverse
  <2>3. n \notin X
    <3>1. n \notin V
      BY <1>3, <1>12, <2>2
    <3>2. n # working
      BY <1>3, <1>12, <2>2
    <3> QED
      BY <1>8, <3>1, <3>2
  <2>4. /\ X # {} /\ otherend \in X /\ prev[n] \in X
        /\ \A v \in X \ {otherend} : prev[v] \in X
        /\ \A v \in X : next[v] \in X \cup {n}
    BY <1>3, <1>8, <2>2
  <2> HIDE DEF n
  <2>5. otherend' = otherend /\ working' = n /\ next' = next /\ prev' = prev
    BY <1>1, <2>1 DEF n
  <2>6. Stack(X, otherend, M)'
    BY <1>8, <1>9, <2>5 DEF Stack
  <2>7. Stacking(X, M)'
    BY <2>3, <2>4, <2>5, <2>6 DEF Stacking
  <2> QED
    BY <1>1, <1>7, <1>8, <1>10, <2>1, <2>7, RoomyThen
<1> QED
  BY <1>11, <1>12

\* A step that changes no window, and leads to no state of the redraw that
\* says something of them.
LEMMA RoomyStill ==
  ASSUME NEW M \in Nat, RoomyInv(M), Inv', UNCHANGED <<live, win, reel, lines, allVisible>>,
         \/ pc' = pc /\ UNCHANGED <<focus, working, otherend, next, prev>>
         \/ pc' \in {"redraw", "topmost", "destroy", "freed"}
         \/ pc' = "idle" /\ focus' = NULL
  PROVE  RoomyInv(M)'
<1>1. (\A t \in live' : lines'[t] \in LineCounts) /\ (\A t \in live' : InColumns(win'[t])) /\ allVisible'
  BY DEF RoomyInv, Contents
<1>2. pc' \notin {"focused", "pass"}
  BY DEF RoomyInv
<1>3. CASE pc' = pc /\ UNCHANGED <<focus, working, otherend, next, prev>>
  <2>1. \A V, top : Stack(V, top, M)' <=> Stack(V, top, M)
    BY <1>3 DEF Stack, Top
  <2>2. \A V : Stacking(V, M)' <=> Stacking(V, M)
    BY <1>3, <2>1 DEF Stacking, Stack, Top
  <2>3. Stack(live, otherend, M)' <=> Stack(live, otherend, M)
    BY <1>3 DEF Stack, Top
  <2>4. pc' = "denormalized" => \E V \in SUBSET live' : Stacking(V, M)'
    BY <1>3, <2>2 DEF RoomyInv
  <2>5. pc' = "idle" /\ focus' # NULL => \E top \in live' : Stack(live, top, M)'
    BY <1>3 DEF RoomyInv, Stack, Top
  <2> QED
    BY <1>1, <1>2, <2>4, <2>5, RoomyThen
<1>4. CASE pc' \notin {"denormalized", "idle"} \/ (pc' = "idle" /\ focus' = NULL)
  BY <1>1, <1>2, <1>4, RoomyThen
<1> QED
  BY <1>3, <1>4

\* A new tablet gets a window in the reel.
LEMMA RoomyAdd ==
  ASSUME NEW M \in Nat, RoomyInv(M), Inv', NEW t \in Tablets \ live,
         NEW after \in live \cup {NULL}, NEW before \in live \cup {NULL}, Add(t, after, before)
  PROVE  RoomyInv(M)'
<1>1. /\ pc = "idle" /\ pc' = "redraw" /\ live' = live \cup {t} /\ reel' = reel
      /\ \E n \in LineCounts : lines' = [lines EXCEPT ![t] = n]
  BY DEF Add
<1>2. PICK oom \in Oom : InsertNewPanel(t, oom)
  BY DEF Add
<1> DEFINE w == FirstWindow(t, oom)
           p == prev'[t]
           f == IF p = t THEN Top ELSE getbegy(win[p]) + getmaxy(win[p]) + 2
<1>3. /\ \A u \in live : InColumns(win[u]) /\ lines[u] \in LineCounts
      /\ live \subseteq Tablets /\ DOMAIN win = Tablets /\ DOMAIN lines = Tablets
      /\ allVisible
  BY DEF RoomyInv, Contents, Inv, TypeOK
<1>4. win' = [win EXCEPT ![t] = w] /\ (allVisible' <=> w # NULL)
  BY <1>2, <1>3 DEF InsertNewPanel
<1>5. p \in live'
  BY <1>1 DEF Inv, RingOK, LinksInverse
<1>6. f \in Int /\ f >= Top /\ f <= reel.y + reel.h - 2
  <2> DEFINE l == Lines(Cardinality(live), M)
             b == Lines(Cardinality(Tablets), M)
  <2>1. /\ l \in Nat /\ l + M + 1 <= b
    BY <1>3, FewerLines
  <2>2. /\ reel.y \in Nat /\ reel.h \in Nat \ {0} /\ Top = reel.y + 1 /\ M >= 2
        /\ Bottom \in Int /\ Room(0) = Bottom - Top + 1
        /\ Bottom <= reel.y + reel.h - 1 /\ b \in Nat /\ b <= Room(0)
    BY RoomyReel
  <2>3. CASE p = t
    <3> HIDE DEF b, l
    <3> QED
      BY <2>1, <2>2, <2>3
  <2>4. CASE p # t
    <3>1. p \in live /\ focus # NULL
      <4>1. p \in live
        BY <1>1, <1>5, <2>4
      <4>2. focus \in live
        BY <1>1, <4>1 DEF RoomyInv, Inv, RingOK, FocusInRing
      <4> QED
        BY <1>3, <4>1, <4>2, RoomyReel
    <3>2. PICK top \in live : Stack(live, top, M)
      BY <1>1, <3>1 DEF RoomyInv
    <3>3. win[p].y >= Top /\ LastLine(win[p]) - Top + 2 <= l
      BY <3>1, <3>2 DEF Stack
    <3> DEFINE v == win[p]
    <3>4. v \in Window /\ v # NULL
      BY <3>1, RoomyTablet
    <3>5. /\ v.y \in Int /\ v.h \in Nat \ {0} /\ getbegy(v) = v.y /\ getmaxy(v) = v.h
          /\ LastLine(v) = v.y + v.h - 1
      BY <3>4 DEF Window, getbegy, getmaxy, LastLine
    <3>6. f = getbegy(v) + getmaxy(v) + 2
      BY <2>4
    <3>7. v.y >= Top /\ LastLine(v) - Top + 2 <= l
      BY <3>3
    <3> HIDE DEF b, l, v, f
    <3>8. f = v.y + v.h + 2 /\ v.y >= Top /\ v.y + v.h - 1 - Top + 2 <= l
      BY <2>2, <3>5, <3>6, <3>7
    <3> QED
      BY <2>1, <2>2, <3>5, <3>8
  <2> QED
    BY <2>3, <2>4
<1>7. InColumns(w)
  <2> DEFINE g == f
  <2>1. g = IF prev'[t] = t THEN Top ELSE getbegy(win[prev'[t]]) + getmaxy(win[prev'[t]]) + 2
    OBVIOUS
  <2>2. g \in Int /\ g >= Top /\ ~(g > reel.y + reel.h - 2)
    <3>1. reel.y \in Int /\ reel.h \in Int
      BY RoomyReel
    <3> HIDE DEF f
    <3> QED
      BY <1>6, <3>1
  <2>3. OnScreen /\ oom \in BOOLEAN /\ ~oom
    BY RoomyReel
  <2> HIDE DEF g, w
  <2>4. \/ g > reel.y + reel.h - 2 /\ FirstWindow(t, oom) = NULL
        \/ g <= reel.y + reel.h - 2 /\ InColumns(FirstWindow(t, oom)) /\ FirstWindow(t, oom).y = g
    BY <2>1, <2>2, <2>3, FirstThere
  <2> QED
    BY <2>2, <2>4 DEF w
<1> HIDE DEF w
<1>8. allVisible'
  BY <1>4, <1>7, NullAssumption DEF InColumns
<1>9. (\A u \in live' : lines'[u] \in LineCounts) /\ (\A u \in live' : InColumns(win'[u]))
  <2>1. win'[t] = w /\ \A u \in live : win'[u] = win[u]
    BY <1>3, <1>4
  <2> QED
    BY <1>1, <1>3, <1>7, <2>1
<1> QED
  BY <1>1, <1>8, <1>9, RoomyThen

\* panelreel_del(): the windows of the others stay.
LEMMA RoomyDelete ==
  ASSUME NEW M \in Nat, RoomyInv(M), Inv', NEW t \in live, NEW nx, Delete(t, nx),
         UNCHANGED <<reel, allVisible>>
  PROVE  RoomyInv(M)'
<1>1. pc' \in {"redraw", "crashed"}
  BY DEF Delete
<1>2. /\ live' \subseteq live
      /\ \A u \in live' : win'[u] = win[u] /\ lines'[u] = lines[u]
  <2>1. CASE UNCHANGED <<live, win, lines>>
    BY <2>1
  <2>2. CASE Freed(t)
    BY <2>2 DEF Freed, RoomyInv, Inv, TypeOK
  <2> QED
    BY <2>1, <2>2 DEF Delete
<1>3. (\A u \in live' : lines'[u] \in LineCounts) /\ (\A u \in live' : InColumns(win'[u])) /\ allVisible'
  BY <1>2 DEF RoomyInv, Contents
<1> QED
  BY <1>1, <1>3, RoomyThen

\* Where every tablet is shown panelreel_move() comes to all of them.
LEMMA AllVisited ==
  ASSUME Inv, pc # "crashed", focus \in live, \A t \in live : Shown(t)
  PROVE  live \subseteq Visited
<1>1. LinksInverse /\ OneRing /\ IsFiniteSet(live)
  BY LiveFinite DEF Inv, RingOK
<1> DEFINE W == Walk(next, focus)
           n == Cardinality(live)
<1>2. Tours(WalkOf(live, next, focus), live, next, focus)
  BY <1>1, WalkTours DEF LinksInverse, OneRing
<1>3. W \in [Nat -> live]
  BY <1>1, WalkFacts DEF LinksInverse
<1>4. Nth(next) = W
  BY DEF Nth, Walk
<1>5. n \in Nat
  BY <1>1, FS_CardinalityType
<1>6. ASSUME NEW t \in live PROVE \E i \in 0..n - 1 : W[i] = t
  <2> DEFINE s == WalkOf(live, next, focus)
  <2>1. /\ Len(s) = n /\ \E i \in 1..Len(s) : s[i] = t
    BY <1>2, ToursFacts
  <2>2. PICK i \in 1..n : s[i] = t
    BY <2>1
  <2>3. s[i] = W[i - 1] /\ i - 1 \in 0..n - 1
    BY <1>5 DEF WalkOf
  <2> QED
    BY <2>2, <2>3
<1> HIDE DEF W
<1>7. \A m \in 0..n - 1 : \A i \in 0..m : Shown(W[i])
  BY <1>3, <1>5
<1>8. {W[i] : i \in { m \in 0..n - 1 : \A k \in 0..m : Shown(W[k]) }} \subseteq Visited
  BY <1>4 DEF Visited, n
<1> QED
  BY <1>6, <1>7, <1>8

\* panelreel_move() takes all windows along, or leaves the reel where it is.
LEMMA RoomyMove ==
  ASSUME NEW M \in Nat, RoomyInv(M), Inv', NEW at \in MoveTargets, Move(at[1], at[2])
  PROVE  RoomyInv(M)'
<1> DEFINE y == at[1]
           x == at[2]
           by(w) == move_panel(w, w.y + y - reel.y, w.x + x - reel.x)
<1>1. y \in Int /\ x \in Int
  BY ReelAssumption
<1>2. /\ pc = "idle" /\ pc' = "redraw" /\ reel' = move_panel(reel, y, x)
      /\ UNCHANGED <<live, focus, allVisible, lines>>
  BY DEF Move, ring
<1>3. win' = IF ~Movable(reel, y, x) \/ focus = NULL THEN win
             ELSE [t \in Tablets |-> IF t \in Visited /\ Shown(t) THEN by(win[t]) ELSE win[t]]
  BY DEF Move
<1>4. live \subseteq Tablets /\ Roomy(M) /\ Placeable(M) /\ Contents /\ allVisible
  BY DEF RoomyInv, Inv, TypeOK
<1>5. CASE ~Movable(reel, y, x)
  <2>1. reel' = reel /\ win' = win
    BY <1>2, <1>3, <1>5 DEF move_panel
  <2> QED
    BY <1>2, <2>1, RoomyStill
<1>6. CASE Movable(reel, y, x)
  <2>1. reel \in Window /\ OnScreen
    BY RoomyReel DEF OnScreen
  <2>2. /\ reel' \in Window /\ reel'.y = y /\ reel'.x = x
        /\ reel'.h = reel.h /\ reel'.w = reel.w
    BY <1>1, <1>2, <1>6, <2>1, Moved
  <2>3. y >= 0 /\ x >= 0 /\ y + reel.h <= LINES /\ x + reel.w <= COLS
    BY <1>6 DEF Movable
  <2>4. TabletW' = TabletW
    BY <2>2 DEF TabletW
  <2>5. OnScreen'
    BY <2>1, <2>2, <2>3, <2>4 DEF OnScreen
  <2>6. Placeable(M)'
    <3> DEFINE b == Lines(Cardinality(Tablets), M)
    <3>1. ~(y + b > ReelWindow.h - ReelBorder("bottom"))
      BY <1>4 DEF Roomy, Lines
    <3>2. b \in Int /\ reel.h \in Int /\ reel.h = ReelWindow.h /\ reel.w = ReelWindow.w
          /\ ReelBorder("bottom") \in Int
      BY <1>4, RoomyReel, BorderTypes DEF Placeable
    <3> HIDE DEF b
    <3>3. y + b <= reel.h - ReelBorder("bottom")
      BY <1>1, <3>1, <3>2
    <3>4. (reel.h = ReelWindow.h /\ reel.w = ReelWindow.w)'
      BY <2>2, <3>2 DEF ReelWindow
    <3> QED
      BY <2>2, <2>5, <3>3, <3>4 DEF Placeable, b
  <2>7. ASSUME NEW t \in live
        PROVE  /\ win'[t] \in Window /\ win'[t].x = reel'.x + ReelBorder("left")
               /\ win'[t].w = TabletW
    <3> DEFINE w == win[t]
               v == w.y + y - reel.y
               u == w.x + x - reel.x
    <3>1. focus \in live
      BY <1>2 DEF RoomyInv, Inv, RingOK, FocusInRing
    <3>2. PICK top \in live : Stack(live, top, M)
      BY <1>2, <3>1, RoomyReel, <1>4 DEF RoomyInv
    <3>3. w.y >= Top /\ LastLine(w) - Top + 2 <= Lines(Cardinality(live), M)
      BY <3>2 DEF Stack
    <3>4. w \in Window /\ w.x = reel.x + ReelBorder("left") /\ w.w = TabletW
      BY RoomyTablet DEF InColumns
    <3>5. t \in Visited /\ Shown(t) /\ t \in Tablets /\ focus # NULL
      <4>1. \A r \in live : Shown(r)
        BY <1>4 DEF RoomyInv, Inv, AllVisiblePanels
      <4>2. Inv /\ pc # "crashed"
        BY <1>2 DEF RoomyInv
      <4> QED
        BY <1>4, <3>1, <4>1, <4>2, AllVisited, RoomyReel
    <3>6. win'[t] = by(w)
      BY <1>3, <1>6, <3>5
    <3>7. Lines(Cardinality(live), M) <= Room(0) /\ Lines(Cardinality(live), M) \in Nat
      <4> DEFINE b == Lines(Cardinality(Tablets), M)
                 l == Lines(Cardinality(live), M)
      <4>1. l <= b /\ l \in Nat
        <5>1. live \in SUBSET Tablets /\ Tablets \in SUBSET Tablets
          BY <1>4
        <5> QED
          BY <5>1, FewerLines
      <4>2. b <= Room(0) /\ b \in Nat /\ Room(0) \in Int
        BY RoomyReel
      <4> HIDE DEF b, l
      <4>3. l <= Room(0) /\ l \in Nat
        BY <4>1, <4>2
      <4> QED
        BY <4>3 DEF l
    <3>8. /\ reel.y \in Nat /\ reel.h \in Nat \ {0} /\ Top = reel.y + 1
          /\ Bottom \in Int /\ Room(0) = Bottom - Top + 1 /\ Bottom <= reel.y + reel.h - 1
      BY RoomyReel
    <3>9. /\ reel.x \in Int /\ reel.w \in Int /\ ReelBorder("left") \in {0, 1}
          /\ ReelBorder("right") \in {0, 1}
          /\ TabletW = reel.w - ReelBorder("left") - ReelBorder("right") /\ TabletW \in Int
          /\ LINES \in Int /\ COLS \in Int
      BY <2>1, ReelNumbers DEF TabletW, Window
    <3>10. w.y \in Int /\ w.h \in Nat \ {0} /\ LastLine(w) = w.y + w.h - 1
      BY <3>4 DEF Window, LastLine
    <3> HIDE DEF w
    <3>11. v \in Int /\ v >= 0 /\ v + w.h <= LINES
      <4> DEFINE l == Lines(Cardinality(live), M)
      <4>1. w.y >= Top /\ w.y + w.h - 1 - Top + 2 <= l /\ l \in Nat /\ l <= Room(0)
        BY <3>3, <3>7, <3>8, <3>10
      <4> HIDE DEF l
      <4>2. w.y + w.h <= Bottom
        BY <3>8, <3>10, <4>1
      <4> QED
        BY <1>1, <2>3, <3>8, <3>9, <3>10, <4>1, <4>2
    <3>12. u \in Int /\ u = x + ReelBorder("left") /\ u >= 0 /\ u + w.w <= COLS
      BY <1>1, <2>3, <3>4, <3>9
    <3> HIDE DEF v, u
    <3>13. Movable(w, v, u)
      BY <3>11, <3>12 DEF Movable
    <3>14. /\ move_panel(w, v, u) \in Window /\ move_panel(w, v, u).x = u
           /\ move_panel(w, v, u).w = w.w
      BY <3>4, <3>11, <3>12, <3>13, Moved
    <3>15. win'[t] = move_panel(w, v, u)
      BY <3>6 DEF w, v, u
    <3> QED
      BY <2>2, <3>4, <3>12, <3>14, <3>15 DEF w
  <2>8. (\A t \in live : InColumns(win[t]))'
    BY <1>2, <2>4, <2>7 DEF InColumns
  <2>9. Roomy(M)' /\ Contents'
    BY <1>2, <1>4 DEF Roomy, Contents, ReelWindow
  <2> QED
    BY <1>2, <1>4, <2>6, <2>8, <2>9 DEF RoomyInv
<1> QED
  BY <1>5, <1>6

\* Each step keeps the invariant.
LEMMA RoomyNext ==
  ASSUME NEW M \in Nat
  PROVE  RoomyInv(M) /\ [Next]_vars => RoomyInv(M)'
<1> SUFFICES ASSUME RoomyInv(M), [Next]_vars PROVE RoomyInv(M)'
  OBVIOUS
<1>0. Inv' /\ Inv /\ allVisible /\ pc \notin {"focused", "pass"}
  BY NextInv DEF RoomyInv
<1>1. CASE Arrange
  <2>1. UNCHANGED <<live, win, reel, lines, focus, allVisible>>
    BY <1>1 DEF Arrange, ring, view
  <2>2. CASE focus = NULL /\ Return
    <3>1. pc' \in {"idle", "destroy"}
      BY <2>2 DEF Return
    <3> QED
      BY <1>0, <2>1, <2>2, <3>1, RoomyStill
  <2>3. CASE focus # NULL
    <3>1. pc' = "topmost"
      BY <1>0, <1>1, <2>3 DEF Arrange
    <3> QED
      BY <1>0, <2>1, <3>1, RoomyStill
  <2> QED
    BY <1>1, <2>2, <2>3 DEF Arrange
<1>2. CASE FindTopmost
  <2>1. UNCHANGED <<live, win, reel, lines, allVisible>> /\ pc' = "topmost"
    BY <1>2 DEF FindTopmost, ring, view
  <2> QED
    BY <1>0, <2>1, RoomyStill
<1>3. CASE BeginDenormalized
  <2>1. /\ UNCHANGED <<live, win, reel, lines, allVisible>>
        /\ pc' = "denormalized" /\ working' = otherend'
    BY <1>3 DEF BeginDenormalized, ring, view
  <2>2. {} \in SUBSET live' /\ Stacking({}, M)'
    BY <2>1 DEF Stacking, Stack
  <2>3. (\A t \in live' : lines'[t] \in LineCounts) /\ (\A t \in live' : InColumns(win'[t]))
    BY <2>1 DEF RoomyInv, Contents
  <2> QED
    BY <1>0, <2>1, <2>2, <2>3, RoomyThen
<1>4. CASE Denormalized
  BY <1>0, <1>4, RoomyDenormalized
<1>5. CASE DrawFocused \/ DrawFollowing \/ DrawPrevious
  BY <1>0, <1>5 DEF DrawFocused, DrawFollowing, DrawPrevious
<1>6. CASE AddTablet
  BY <1>0, <1>6, RoomyAdd DEF AddTablet
<1>7. CASE DelTablet \/ DelFocused \/ DestroyNext
  <2>1. \E t \in live : \E nx : Delete(t, nx) /\ UNCHANGED <<reel, allVisible>>
    <3>1. CASE DelTablet
      BY <3>1 DEF DelTablet, Del
    <3>2. CASE DelFocused
      <4>1. focus \in live
        BY <1>0, <3>2 DEF DelFocused, Del, Inv, RingOK, FocusInRing
      <4> QED
        BY <3>2, <4>1 DEF DelFocused, Del
    <3>3. CASE DestroyNext
      <4>1. doomed \in live
        BY <1>0, <3>3 DEF DestroyNext, Inv, WalksOnLive
      <4> QED
        BY <3>3, <4>1 DEF DestroyNext
    <3> QED
      BY <1>7, <3>1, <3>2, <3>3
  <2> QED
    BY <1>0, <2>1, RoomyDelete
<1>8. CASE DelForeign \/ FocusNext \/ FocusPrev \/ Redraw \/ Destroy
  <2>1. UNCHANGED <<live, win, reel, lines, allVisible>> /\ pc' \in {"redraw", "destroy", "freed"}
    BY <1>8 DEF DelForeign, FocusNext, FocusPrev, Travel, Redraw, Destroy, ring, view
  <2> QED
    BY <1>0, <2>1, RoomyStill
<1>9. CASE MoveReel
  BY <1>0, <1>9, RoomyMove DEF MoveReel
<1>10. CASE Update
  <2>1. PICK t \in live, n \in LineCounts : SetLines(t, n)
    BY <1>10 DEF Update
  <2>2. UNCHANGED <<ring, view, ctl>> /\ lines' = [lines EXCEPT ![t] = n]
    BY <2>1 DEF SetLines
  <2>3. \A u \in live' : lines'[u] \in LineCounts
    BY <2>2 DEF RoomyInv, Contents, Inv, TypeOK, ring
  <2>4. \A V : Stacking(V, M)' <=> Stacking(V, M)
    BY <2>2 DEF Stacking, Stack, Top, ring, view, ctl
  <2>5. \A top : Stack(live, top, M)' <=> Stack(live, top, M)
    BY <2>2 DEF Stack, Top, ring, view
  <2>6. UNCHANGED <<live, win, reel, allVisible, pc, focus>>
    BY <2>2 DEF ring, view, ctl
  <2>7. pc' = "denormalized" => \E V \in SUBSET live' : Stacking(V, M)'
    BY <2>4, <2>6 DEF RoomyInv
  <2>8. pc' = "idle" /\ focus' # NULL => \E top \in live' : Stack(live, top, M)'
    BY <2>5, <2>6 DEF RoomyInv
  <2>9. (\A u \in live' : InColumns(win'[u])) /\ allVisible' /\ pc' \notin {"focused", "pass"}
    BY <2>6 DEF RoomyInv
  <2> QED
    BY <1>0, <2>3, <2>6, <2>7, <2>8, <2>9, RoomyThen
<1>11. CASE UNCHANGED vars
  BY <1>0, <1>11, RoomyStill DEF vars
<1> QED
  BY <1>1, <1>2, <1>3, <1>4, <1>5, <1>6, <1>7, <1>8, <1>9, <1>10, <1>11
     DEF Next, RedrawStep, Call

\* The invariant of the roomy reel holds in every state of it.
LEMMA RoomyAlways ==
  ASSUME NEW M \in Nat
  PROVE  Roomy(M) /\ Spec => []RoomyInv(M)
<1>1. Roomy(M) /\ Init => RoomyInv(M)
  <2> SUFFICES ASSUME Roomy(M), Init PROVE RoomyInv(M)
    OBVIOUS
  <2>1. Inv /\ reel = ReelWindow /\ reel \in Window
    BY InitInv DEF Init, Inv, TypeOK
  <2>2. OnScreen
    BY <2>1 DEF Roomy, OnScreen, TabletW
  <2>3. Placeable(M)
    <3> DEFINE b == Lines(Cardinality(Tablets), M)
    <3>1. ~(reel.y + b > reel.h - ReelBorder("bottom"))
      BY <2>1 DEF Roomy, Lines
    <3>2. b \in Int
      BY FewerLines
    <3> HIDE DEF b
    <3>3. reel.y \in Int /\ reel.h \in Int /\ ReelBorder("bottom") \in Int
      BY <2>1, BorderTypes DEF Window
    <3>4. reel.y + b <= reel.h - ReelBorder("bottom")
      BY <3>1, <3>2, <3>3
    <3> QED
      BY <2>1, <2>2, <3>4 DEF Placeable, b
  <2>4. live = {} /\ pc = "idle" /\ focus = NULL /\ allVisible
    BY DEF Init
  <2> QED
    BY <2>1, <2>3, <2>4 DEF RoomyInv, Contents
<1>2. RoomyInv(M) /\ [Next]_vars => RoomyInv(M)'
  BY RoomyNext
<1> QED
  BY <1>1, <1>2, PTL DEF Spec

\* Nothing is ever hidden in a reel that has room for all of its tablets,
\* wherever it is moved: pr->all_visible stays set, and the layout that may
\* hide a tablet is not used.
THEOREM NothingHidden ==
  ASSUME NEW M \in Nat
  PROVE  Roomy(M) /\ Spec => []AlwaysVisible
<1>1. RoomyInv(M) => AlwaysVisible
  BY DEF RoomyInv, AlwaysVisible
<1> QED
  BY <1>1, RoomyAlways, PTL

\* Between two calls the tablets of such a reel are stacked from its top in
\* the order of the ring, one gap apart, whatever was added, deleted, focused,
\* moved and written.
THEOREM TabletsStacked ==
  ASSUME NEW M \in Nat
  PROVE  Roomy(M) /\ Spec => []Stacked
<1>1. RoomyInv(M) => Stacked
  BY DEF RoomyInv, Stack, Stacked, Idle
<1> QED
  BY <1>1, RoomyAlways, PTL

\* And none of them is on the reel's border.
THEOREM TabletsInside ==
  ASSUME NEW M \in Nat
  PROVE  Roomy(M) /\ Spec => []InsideReel
<1>1. RoomyInv(M) => InsideReel
  <2> SUFFICES ASSUME RoomyInv(M), pc = "idle", NEW t \in live
               PROVE  win[t].y >= Top /\ LastLine(win[t]) <= Bottom
    BY DEF InsideReel, Idle, Bottom
  <2>1. focus # NULL
    BY RoomyReel DEF RoomyInv, Inv, TypeOK, RingOK, FocusInRing
  <2>2. PICK top \in live : Stack(live, top, M)
    BY <2>1 DEF RoomyInv
  <2> DEFINE l == Lines(Cardinality(live), M)
             b == Lines(Cardinality(Tablets), M)
  <2>3. win[t].y >= Top /\ LastLine(win[t]) - Top + 2 <= l
    BY <2>2 DEF Stack
  <2>4. l \in Nat /\ l <= b
    <3>1. live \in SUBSET Tablets /\ Tablets \in SUBSET Tablets
      BY DEF RoomyInv, Inv, TypeOK
    <3> QED
      BY <3>1, FewerLines
  <2>5. b \in Nat /\ b <= Room(0) /\ Room(0) = Bottom - Top + 1 /\ Bottom \in Int /\ Top \in Int
    BY RoomyReel
  <2>6. LastLine(win[t]) \in Int
    BY RoomyTablet DEF LastLine, Window
  <2> HIDE DEF b, l
  <2> QED
    BY <2>3, <2>4, <2>5, <2>6
<1> QED
  BY <1>1, RoomyAlways, PTL

----------------------------------------------------------------------------
(* Such a reel, where it was created, passes its own validation *)

\* The lines of a window are numbers.
LEMMA WindowLines ==
  ASSUME NEW w \in Window
  PROVE  w.y \in Int /\ LastLine(w) \in Int /\ LastLine(w) >= w.y
<1>1. w.y \in Int /\ w.h \in Nat /\ w.h >= 1
  BY DEF Window
<1> QED
  BY <1>1 DEF LastLine

\* What a walk of panelreel_validate() may have found.
Found == [start : Int, end : Int, ok : BOOLEAN, ended : {"", "hidden", "round"}]

\* One tablet leaves such a record.
LEMMA FoundFacts ==
  ASSUME NEW acc \in Found, NEW t, win[t] \in Window \cup {NULL}, reel \in Window
  PROVE  Back(acc, t) \in Found /\ Down(acc, t) \in Found
<1>1. CASE acc.ended # "" \/ ~Shown(t)
  BY <1>1 DEF Back, Down, Found
<1>2. CASE acc.ended = "" /\ Shown(t)
  <2>1. win[t] \in Window /\ LastLine(win[t]) \in Int /\ win[t].y \in Int
    BY <1>2, WindowLines DEF Shown
  <2> DEFINE ok == acc.ok /\ AlignedWindow(win[t])
             here == [acc EXCEPT !.ok = ok]
  <2>2. here \in Found /\ ok \in BOOLEAN
    BY DEF Found, AlignedWindow
  <2>3. here = [acc EXCEPT !.ok = @ /\ AlignedWindow(win[t])]
    BY DEF Found
  <2>4. \A c \in Found : Extend(c, win[t]) \in Found
    BY <2>1 DEF Extend, Found
  <2> HIDE DEF here, ok
  <2>5. Down(acc, t) \in Found
    BY <1>2, <2>2, <2>3, <2>4 DEF Down
  <2>6. Back(acc, t) \in Found
    <3>1. [acc EXCEPT !.start = win[t].y, !.end = LastLine(win[t])] \in Found
      BY <2>1 DEF Found
    <3>2. [here EXCEPT !.ok = @ /\ LastLine(win[t]) = acc.start - 2, !.start = win[t].y] \in Found
      BY <2>1, <2>2 DEF Found
    <3>3. [here EXCEPT !.ended = "round"] \in Found
      BY <2>2 DEF Found
    <3> QED
      BY <1>2, <2>2, <2>3, <2>4, <3>1, <3>2, <3>3 DEF Back
  <2> QED
    BY <2>5, <2>6
<1> QED
  BY <1>1, <1>2

\* The two walks are what their recursive definitions say.
LEMMA BackWalked ==
  ASSUME TypeOK, Nth(prev) \in [Nat -> Tablets]
  PROVE  /\ WalkBack \in [Nat -> Found] /\ WalkBack[0] = Unwalked
         /\ \A n \in Nat : WalkBack[n + 1] = Back(WalkBack[n], Nth(prev)[n])
<1> DEFINE N == Nth(prev)
           g == [p \in Nat \X Found |-> Back(p[2], N[p[1]])]
<1>1. Unwalked \in Found
  <2>1. reel.y \in Int /\ LastLine(reel) \in Int
    BY WindowLines DEF TypeOK
  <2> QED
    BY <2>1 DEF Unwalked, Found
<1>2. \A p \in Nat \X Found : g[p] \in Found
  <2> SUFFICES ASSUME NEW n \in Nat, NEW c \in Found PROVE Back(c, N[n]) \in Found
    OBVIOUS
  <2>1. N[n] \in Tablets
    OBVIOUS
  <2> HIDE DEF N
  <2>2. win[N[n]] \in Window \cup {NULL} /\ reel \in Window
    BY <2>1 DEF TypeOK
  <2> QED
    BY <2>2, FoundFacts
<1> HIDE DEF g
<1> DEFINE f == Series(Found, Unwalked, g)
<1>3. f \in [Nat -> Found] /\ f[0] = Unwalked /\ \A n \in Nat : f[n + 1] = g[<<n, f[n]>>]
  BY <1>1, <1>2, SeriesFacts
<1> HIDE DEF f
<1>4. \A n \in Nat : f[n + 1] = Back(f[n], N[n])
  <2> SUFFICES ASSUME NEW n \in Nat PROVE f[n + 1] = Back(f[n], N[n])
    OBVIOUS
  <2>1. f[n + 1] = g[<<n, f[n]>>] /\ <<n, f[n]>> \in Nat \X Found
    BY <1>3
  <2> HIDE DEF N
  <2> QED
    BY <2>1 DEF g
<1>5. f = [n \in Nat |-> IF n = 0 THEN Unwalked ELSE Back(f[n - 1], N[n - 1])]
  <2> HIDE DEF N
  <2>1. ASSUME NEW n \in Nat PROVE f[n] = IF n = 0 THEN Unwalked ELSE Back(f[n - 1], N[n - 1])
    <3>1. CASE n = 0
      BY <1>3, <3>1
    <3>2. CASE n # 0
      <4>1. n - 1 \in Nat /\ (n - 1) + 1 = n
        BY <3>2
      <4> QED
        BY <1>4, <3>2, <4>1
    <3> QED
      BY <3>1, <3>2
  <2>2. f = [n \in Nat |-> f[n]]
    BY <1>3
  <2> QED
    BY <2>1, <2>2
<1> DEFINE B == WalkBack
<1>6. B = [n \in Nat |-> IF n = 0 THEN Unwalked ELSE Back(B[n - 1], N[n - 1])]
  <2> HIDE DEF N
  <2> QED
    BY <1>5 DEF WalkBack, N
<1> HIDE DEF B
<1>7. B[0] = Unwalked
  BY <1>6
<1> HIDE DEF N
<1>8. ASSUME NEW n \in Nat PROVE B[n + 1] = Back(B[n], N[n])
  <2>1. n + 1 \in Nat /\ n + 1 # 0 /\ (n + 1) - 1 = n
    OBVIOUS
  <2>2. B[n + 1] = IF n + 1 = 0 THEN Unwalked ELSE Back(B[(n + 1) - 1], N[(n + 1) - 1])
    BY <1>6, <2>1
  <2> QED
    BY <2>1, <2>2
<1>9. \A n \in Nat : B[n] \in Found
  <2> DEFINE P == {n \in Nat : B[n] \in Found}
  <2>1. 0 \in P
    BY <1>1, <1>7
  <2>2. ASSUME NEW n \in P PROVE n + 1 \in P
    <3>1. n \in Nat /\ B[n] \in Found
      OBVIOUS
    <3>2. N[n] \in Tablets
      BY <3>1 DEF N
    <3>3. win[N[n]] \in Window \cup {NULL} /\ reel \in Window
      BY <3>2 DEF TypeOK
    <3> QED
      BY <1>8, <3>1, <3>3, FoundFacts
  <2>3. P \in SUBSET Nat
    OBVIOUS
  <2> HIDE DEF P
  <2>4. P = Nat
    BY <2>1, <2>2, <2>3, AllNaturals
  <2> QED
    BY <2>4 DEF P
<1>10. B \in [Nat -> Found]
  BY <1>6, <1>9
<1> QED
  BY <1>7, <1>8, <1>10 DEF B, N

LEMMA DownWalked ==
  ASSUME TypeOK, NEW acc \in Found, Nth(next) \in [Nat -> Tablets]
  PROVE  /\ WalkDown(acc) \in [Nat -> Found] /\ WalkDown(acc)[0] = acc
         /\ \A n \in Nat : WalkDown(acc)[n + 1] = Down(WalkDown(acc)[n], Nth(next)[n + 1])
<1> DEFINE N == Nth(next)
           g == [p \in Nat \X Found |-> Down(p[2], N[p[1] + 1])]
<1>1. acc \in Found
  OBVIOUS
<1>2. \A p \in Nat \X Found : g[p] \in Found
  <2> SUFFICES ASSUME NEW n \in Nat, NEW c \in Found PROVE Down(c, N[n + 1]) \in Found
    OBVIOUS
  <2>1. N[n + 1] \in Tablets
    OBVIOUS
  <2> HIDE DEF N
  <2>2. win[N[n + 1]] \in Window \cup {NULL} /\ reel \in Window
    BY <2>1 DEF TypeOK
  <2> QED
    BY <2>2, FoundFacts
<1> HIDE DEF g
<1> DEFINE f == Series(Found, acc, g)
<1>3. f \in [Nat -> Found] /\ f[0] = acc /\ \A n \in Nat : f[n + 1] = g[<<n, f[n]>>]
  BY <1>1, <1>2, SeriesFacts
<1> HIDE DEF f
<1>4. \A n \in Nat : f[n + 1] = Down(f[n], N[n + 1])
  <2> SUFFICES ASSUME NEW n \in Nat PROVE f[n + 1] = Down(f[n], N[n + 1])
    OBVIOUS
  <2>1. f[n + 1] = g[<<n, f[n]>>] /\ <<n, f[n]>> \in Nat \X Found
    BY <1>3
  <2> HIDE DEF N
  <2> QED
    BY <2>1 DEF g
<1>5. f = [n \in Nat |-> IF n = 0 THEN acc ELSE Down(f[n - 1], N[n])]
  <2> HIDE DEF N
  <2>1. ASSUME NEW n \in Nat PROVE f[n] = IF n = 0 THEN acc ELSE Down(f[n - 1], N[n])
    <3>1. CASE n = 0
      BY <1>3, <3>1
    <3>2. CASE n # 0
      <4>1. n - 1 \in Nat /\ (n - 1) + 1 = n
        BY <3>2
      <4> QED
        BY <1>4, <3>2, <4>1
    <3> QED
      BY <3>1, <3>2
  <2>2. f = [n \in Nat |-> f[n]]
    BY <1>3
  <2> QED
    BY <2>1, <2>2
<1> DEFINE B == WalkDown(acc)
<1>6. B = [n \in Nat |-> IF n = 0 THEN acc ELSE Down(B[n - 1], N[n])]
  <2> HIDE DEF N
  <2> QED
    BY <1>5 DEF WalkDown, N
<1> HIDE DEF B
<1>7. B[0] = acc
  BY <1>6
<1> HIDE DEF N
<1>8. ASSUME NEW n \in Nat PROVE B[n + 1] = Down(B[n], N[n + 1])
  <2>1. n + 1 \in Nat /\ n + 1 # 0 /\ (n + 1) - 1 = n
    OBVIOUS
  <2>2. B[n + 1] = IF n + 1 = 0 THEN acc ELSE Down(B[(n + 1) - 1], N[n + 1])
    BY <1>6, <2>1
  <2> QED
    BY <2>1, <2>2
<1>9. \A n \in Nat : B[n] \in Found
  <2> DEFINE P == {n \in Nat : B[n] \in Found}
  <2>1. 0 \in P
    BY <1>1, <1>7
  <2>2. ASSUME NEW n \in P PROVE n + 1 \in P
    <3>1. n \in Nat /\ B[n] \in Found
      OBVIOUS
    <3>2. N[n + 1] \in Tablets
      BY <3>1 DEF N
    <3>3. win[N[n + 1]] \in Window \cup {NULL} /\ reel \in Window
      BY <3>2 DEF TypeOK
    <3> QED
      BY <1>8, <3>1, <3>3, FoundFacts
  <2>3. P \in SUBSET Nat
    OBVIOUS
  <2> HIDE DEF P
  <2>4. P = Nat
    BY <2>1, <2>2, <2>3, AllNaturals
  <2> QED
    BY <2>4 DEF P
<1>10. B \in [Nat -> Found]
  BY <1>6, <1>9
<1> QED
  BY <1>7, <1>8, <1>10 DEF B, N

\* Where the windows of a roomy reel are, between two calls.
LEMMA RoomyWindow ==
  ASSUME NEW M \in Nat, RoomyInv(M), pc = "idle", NEW top \in live, Stack(live, top, M),
         NEW t \in live
  PROVE  /\ Shown(t) /\ win[t] \in Window /\ AlignedWindow(win[t])
         /\ win[t].y \in Int /\ LastLine(win[t]) \in Int
         /\ Top <= win[t].y /\ win[t].y <= LastLine(win[t]) /\ LastLine(win[t]) <= Bottom
         /\ win[t].y = IF t = top THEN Top ELSE LastLine(win[prev[t]]) + 2
<1>1. InColumns(win[t])
  BY DEF RoomyInv
<1>2. win[t] \in Window /\ Shown(t)
  BY <1>1, NullAssumption DEF InColumns, Shown
<1>3. AlignedWindow(win[t])
  <2> DEFINE w == win[t]
  <2>1. w.x = reel.x + ReelBorder("left") /\ w.w = TabletW
    BY <1>1 DEF InColumns
  <2>2. /\ reel.x \in Int /\ reel.w \in Int /\ ReelBorder("left") \in {0, 1}
        /\ ReelBorder("right") \in {0, 1}
    BY RoomyReel, ReelNumbers
  <2> HIDE DEF w
  <2>3. LastColumn(w) = LastColumn(reel) - ReelBorder("right")
    BY <2>1, <2>2 DEF LastColumn, TabletW
  <2> QED
    BY <2>1, <2>3 DEF AlignedWindow, w
<1>4. win[t].y \in Int /\ LastLine(win[t]) \in Int /\ win[t].y <= LastLine(win[t])
  BY <1>2, WindowLines
<1>5. Top <= win[t].y /\ LastLine(win[t]) - Top + 2 <= Lines(Cardinality(live), M)
  BY DEF Stack
<1>6. LastLine(win[t]) <= Bottom
  <2> DEFINE l == Lines(Cardinality(live), M)
             b == Lines(Cardinality(Tablets), M)
  <2>1. l \in Nat /\ l <= b
    <3>1. live \in SUBSET Tablets /\ Tablets \in SUBSET Tablets
      BY DEF RoomyInv, Inv, TypeOK
    <3> QED
      BY <3>1, FewerLines
  <2>2. b \in Nat /\ b <= Room(0) /\ Room(0) = Bottom - Top + 1 /\ Bottom \in Int /\ Top \in Int
    BY RoomyReel
  <2> HIDE DEF b, l
  <2> QED
    BY <1>4, <1>5, <2>1, <2>2 DEF l
<1>7. win[t].y = IF t = top THEN Top ELSE LastLine(win[prev[t]]) + 2
  BY DEF Stack
<1> QED
  BY <1>2, <1>3, <1>4, <1>5, <1>6, <1>7

\* What the way back has found when it is at tablet N[n]: it climbs to the top,
\* or has been there.
Climbed(acc, N, n, top) ==
  /\ acc \in Found /\ acc.ok = TRUE /\ acc.end <= Bottom
  /\ \/ /\ acc.ended = "" /\ acc.start = win[N[n]].y
        /\ \A i \in 0..n - 1 : N[i] # top
     \/ acc.ended # "hidden" /\ acc.start = Top

\* One more tablet.
LEMMA BackClimbs ==
  ASSUME NEW M \in Nat, RoomyInv(M), pc = "idle", NEW top \in live, Stack(live, top, M),
         NEW N \in [Nat -> live], NEW n \in Nat, N[n + 1] = prev[N[n]],
         NEW acc, Climbed(acc, N, n, top)
  PROVE  Climbed(Back(acc, N[n + 1]), N, n + 1, top)
<1> DEFINE t == N[n + 1]
           w == win[t]
           u == N[n]
<1>1. t \in live /\ u \in live /\ t = prev[u]
  OBVIOUS
<1>2. /\ Shown(t) /\ w \in Window /\ AlignedWindow(w)
      /\ w.y \in Int /\ LastLine(w) \in Int
      /\ Top <= w.y /\ w.y <= LastLine(w) /\ LastLine(w) <= Bottom
  BY <1>1, RoomyWindow
<1>3. /\ win[u].y \in Int /\ Top <= win[u].y
      /\ win[u].y = IF u = top THEN Top ELSE LastLine(w) + 2
  BY <1>1, RoomyWindow
<1>4. reel.y \in Int /\ Top = reel.y + 1 /\ Bottom \in Int
  BY RoomyReel
<1>5. /\ acc \in Found /\ acc.ok = TRUE /\ acc.end <= Bottom
      /\ acc.start \in Int /\ acc.end \in Int
  BY DEF Climbed, Found
<1> HIDE DEF w
<1>6. CASE acc.ended # ""
  BY <1>5, <1>6 DEF Climbed, Back
<1>7. CASE acc.ended = ""
  <2> DEFINE here == [acc EXCEPT !.ok = @ /\ AlignedWindow(w)]
  <2>1. here = acc
    BY <1>2, <1>5 DEF Found
  <2>2. acc.start = win[u].y \/ acc.start = Top
    BY DEF Climbed
  <2>3. acc.start # reel.y - 1
    BY <1>3, <1>4, <2>2
  <2>4. Back(acc, t) =
          IF LastLine(w) < acc.start
          THEN [acc EXCEPT !.ok = @ /\ LastLine(w) = acc.start - 2, !.start = w.y]
          ELSE IF w.y > acc.end + 2 THEN [acc EXCEPT !.ended = "round"]
          ELSE Extend(acc, w)
    BY <1>2, <1>7, <2>1, <2>3 DEF Back, w
  <2> HIDE DEF here, t, u
  <2>5. CASE acc.start = Top
    <3>1. ~(LastLine(w) < acc.start)
      BY <1>2, <1>4, <2>5
    <3>2. /\ [acc EXCEPT !.ended = "round"] \in Found
          /\ [acc EXCEPT !.ended = "round"].ended = "round"
          /\ [acc EXCEPT !.ended = "round"].ok = TRUE
          /\ [acc EXCEPT !.ended = "round"].start = Top
          /\ [acc EXCEPT !.ended = "round"].end <= Bottom
      BY <1>5, <2>5 DEF Found
    <3>3. /\ Extend(acc, w) \in Found
          /\ Extend(acc, w).ended = "" /\ Extend(acc, w).ok = TRUE
          /\ Extend(acc, w).start = Top
          /\ Extend(acc, w).end <= Bottom
      BY <1>2, <1>5, <1>7, <2>5 DEF Found, Extend
    <3> DEFINE round == [acc EXCEPT !.ended = "round"]
               longer == Extend(acc, w)
    <3>4. Climbed(round, N, n + 1, top) /\ Climbed(longer, N, n + 1, top)
      <4> HIDE DEF round, longer
      <4>1. round.ended # "hidden" /\ longer.ended # "hidden"
        BY <3>2, <3>3 DEF round, longer
      <4> QED
        BY <3>2, <3>3, <4>1 DEF Climbed, round, longer
    <3>5. Back(acc, t) = round \/ Back(acc, t) = longer
      BY <2>4, <3>1
    <3> HIDE DEF round, longer
    <3> QED
      BY <3>4, <3>5 DEF t
  <2>6. CASE acc.start # Top
    <3>1. acc.start = win[u].y /\ \A i \in 0..n - 1 : N[i] # top
      BY <2>6 DEF Climbed, u
    <3>2. u # top /\ acc.start = LastLine(w) + 2
      BY <1>3, <2>6, <3>1
    <3>3. \A i \in 0..(n + 1) - 1 : N[i] # top
      BY <3>1, <3>2 DEF u
    <3> DEFINE up == [acc EXCEPT !.ok = @ /\ LastLine(w) = acc.start - 2, !.start = w.y]
    <3>4. up \in Found /\ up.ok = TRUE /\ up.end <= Bottom /\ up.ended = "" /\ up.start = w.y
      <4>1. LastLine(w) = acc.start - 2
        BY <1>2, <3>2
      <4>2. up = [acc EXCEPT !.start = w.y]
        BY <1>5, <4>1 DEF Found
      <4> HIDE DEF up
      <4> QED
        BY <1>2, <1>5, <1>7, <4>2 DEF Found
    <3> HIDE DEF up
    <3>5. Back(acc, t) = up
      BY <1>2, <2>4, <3>2 DEF up
    <3> QED
      BY <3>3, <3>4, <3>5 DEF Climbed, w, t
  <2> QED
    BY <2>5, <2>6 DEF t
<1> QED
  BY <1>6, <1>7

\* What the way down keeps.
Descended(acc) ==
  acc \in Found /\ acc.ok = TRUE /\ acc.ended = "" /\ acc.start = Top /\ acc.end <= Bottom

\* One tablet further down.
LEMMA DownDescends ==
  ASSUME NEW M \in Nat, RoomyInv(M), pc = "idle", NEW top \in live, Stack(live, top, M),
         NEW t \in live, NEW acc, Descended(acc)
  PROVE  Descended(Down(acc, t))
<1> DEFINE w == win[t]
<1>1. /\ Shown(t) /\ AlignedWindow(w) /\ LastLine(w) \in Int /\ LastLine(w) <= Bottom
  BY RoomyWindow
<1>2. Bottom \in Int /\ Top \in Int
  BY RoomyReel
<1> DEFINE here == [acc EXCEPT !.ok = @ /\ AlignedWindow(w)]
<1>3. here = acc /\ acc.ended = ""
  BY <1>1 DEF Found, Descended
<1>4. Down(acc, t) = Extend(acc, w)
  BY <1>1, <1>3 DEF Down
<1> HIDE DEF w
<1>5. Descended(Extend(acc, w))
  BY <1>1, <1>2 DEF Descended, Found, Extend
<1> QED
  BY <1>4, <1>5

\* Both walks go round the tablets of the reel.
LEMMA AroundReel ==
  ASSUME Inv, pc # "crashed", focus \in live
  PROVE  /\ Nth(prev) \in [Nat -> live] /\ Nth(next) \in [Nat -> live]
         /\ Nth(prev)[0] = focus
         /\ \A n \in Nat : Nth(prev)[n + 1] = prev[Nth(prev)[n]]
         /\ Cardinality(live) \in Nat \ {0}
         /\ \A t \in live : \E i \in 0..Cardinality(live) - 1 : Nth(prev)[i] = t
<1>1. /\ \A t \in live : next[t] \in live /\ prev[t] \in live
      /\ IsFiniteSet(live) /\ Cardinality(live) \in Nat \ {0}
  <2>1. \A t \in live : next[t] \in live /\ prev[t] \in live
    BY LiveLinks DEF Inv
  <2>2. IsFiniteSet(live)
    BY LiveFinite DEF Inv
  <2> QED
    BY <2>1, <2>2, FS_CardinalityType, FS_EmptySet
<1> DEFINE n == Cardinality(live)
           s == WalkOf(live, prev, focus)
           W == Walk(prev, focus)
<1>2. Nth(prev) = Walk(prev, focus) /\ Nth(next) = Walk(next, focus)
  BY DEF Nth, Walk
<1>3. /\ Walk(prev, focus) \in [Nat -> live] /\ Walk(next, focus) \in [Nat -> live]
      /\ Walk(prev, focus)[0] = focus
      /\ \A i \in Nat : Walk(prev, focus)[i + 1] = prev[Walk(prev, focus)[i]]
  BY <1>1, WalkFacts
<1>4. Circle(prev, next)
  BY Circles DEF Inv
<1>5. Tours(s, live, prev, focus)
  BY <1>1, <1>4, WalkTours DEF Circle
<1>6. ASSUME NEW t \in live PROVE \E i \in 0..n - 1 : W[i] = t
  <2>1. /\ Len(s) = n /\ \E i \in 1..Len(s) : s[i] = t
    BY <1>5, ToursFacts
  <2>2. PICK i \in 1..n : s[i] = t
    BY <2>1
  <2>3. s[i] = W[i - 1] /\ i - 1 \in 0..n - 1
    BY <1>1 DEF WalkOf
  <2> QED
    BY <2>2, <2>3
<1> QED
  BY <1>1, <1>2, <1>3, <1>6

\* The reel was created with room for both its offsets, and is never moved.
Fixed ==
  MoveTargets = {} /\ toff + boff < Parent.h /\ loff + roff < Parent.w

\* So it fills its parent.
LEMMA ReelFills ==
  ASSUME Fixed, reel = ReelWindow
  PROVE  FillsParent
<1>1. /\ toff \in Nat /\ boff \in Nat /\ loff \in Nat /\ roff \in Nat
      /\ Parent.y \in Int /\ Parent.x \in Int /\ Parent.h \in Nat /\ Parent.w \in Nat
      /\ ReelWindow # NULL
  BY ReelAssumption DEF Window
<1>2. /\ Extent(Parent.h, toff, boff) = Parent.h - (toff + boff)
      /\ Extent(Parent.w, loff, roff) = Parent.w - (loff + roff)
      /\ Parent.h - (toff + boff) > 0 /\ Parent.w - (loff + roff) > 0
  BY <1>1 DEF Fixed, Extent
<1> DEFINE h == Parent.h - (toff + boff)
           w == Parent.w - (loff + roff)
           y == toff + Parent.y
           x == loff + Parent.x
<1>3. ReelWindow = newwin(h, w, y, x)
  BY <1>2 DEF ReelWindow
<1>4. h \in Int /\ w \in Int /\ h # 0 /\ w # 0 /\ y = Parent.y + toff /\ x = Parent.x + loff
  BY <1>1, <1>2
<1> HIDE DEF h, w, y, x
<1>5. newwin(h, w, y, x) = [y |-> y, x |-> x, h |-> h, w |-> w]
  BY <1>1, <1>3, <1>4 DEF newwin
<1>6. reel.y = y /\ reel.x = x /\ reel.h = h /\ reel.w = w
  BY <1>3, <1>5
<1> QED
  BY <1>4, <1>6 DEF FillsParent, h, w

InPlace == Fixed /\ reel = ReelWindow

\* A reel that is not moved stays where it was created.
LEMMA ReelStays ==
  Fixed /\ Spec => []InPlace
<1>1. Fixed /\ Init => InPlace
  BY DEF Init, InPlace
<1>2. InPlace /\ [Next]_vars => InPlace'
  <2> SUFFICES ASSUME Fixed, [Next]_vars PROVE reel' = reel
    BY DEF InPlace, Fixed
  <2>1. CASE Arrange \/ FindTopmost \/ BeginDenormalized
    BY <2>1 DEF Arrange, FindTopmost, BeginDenormalized, view
  <2>2. CASE Denormalized \/ DrawFocused
    BY <2>2 DEF Denormalized, DrawFocused
  <2>3. CASE DrawFollowing \/ DrawPrevious
    BY <2>3 DEF DrawFollowing, DrawPrevious
  <2>4. CASE AddTablet
    BY <2>4 DEF AddTablet, Add
  <2>5. CASE DelTablet \/ DelFocused
    BY <2>5 DEF DelTablet, DelFocused, Del
  <2>6. CASE DelForeign \/ FocusNext \/ FocusPrev \/ Redraw \/ Destroy \/ DestroyNext
    BY <2>6 DEF DelForeign, FocusNext, FocusPrev, Travel, Redraw, Destroy, DestroyNext, view
  <2>7. CASE MoveReel
    BY <2>7 DEF MoveReel, Fixed
  <2>8. CASE Update \/ UNCHANGED vars
    BY <2>8 DEF Update, SetLines, view, vars
  <2> QED
    BY <2>1, <2>2, <2>3, <2>4, <2>5, <2>6, <2>7, <2>8 DEF Next, RedrawStep, Call
<1> QED
  BY <1>1, <1>2, PTL DEF Spec

\* In such a reel no assertion of panelreel_validate() fails between two calls.
LEMMA RoomyValidates ==
  ASSUME NEW M \in Nat, RoomyInv(M), InPlace, pc = "idle"
  PROVE  Validates
<1>1. FillsParent
  BY ReelFills DEF InPlace
<1>2. CASE focus = NULL
  BY <1>1, <1>2 DEF Validates
<1>3. CASE focus # NULL
  <2>1. Inv /\ TypeOK /\ focus \in live
    BY <1>3 DEF RoomyInv, Inv, RingOK, FocusInRing
  <2>2. PICK top \in live : Stack(live, top, M)
    BY <1>3 DEF RoomyInv
  <2> DEFINE N == Nth(prev)
             S == Nth(next)
             n == Cardinality(live)
             back == WalkBack[n]
             bare == [back EXCEPT !.ended = ""]
             down == WalkDown(bare)[n - 1]
  <2>3. /\ N \in [Nat -> live] /\ S \in [Nat -> live] /\ N[0] = focus
        /\ \A i \in Nat : N[i + 1] = prev[N[i]]
        /\ n \in Nat \ {0}
        /\ \A t \in live : \E i \in 0..n - 1 : N[i] = t
    BY <2>1, AroundReel
  <2>4. N \in [Nat -> Tablets] /\ S \in [Nat -> Tablets]
    BY <2>1, <2>3 DEF TypeOK
  <2>5. /\ WalkBack \in [Nat -> Found] /\ WalkBack[0] = Unwalked
        /\ \A i \in Nat : WalkBack[i + 1] = Back(WalkBack[i], N[i])
    BY <2>1, <2>4, BackWalked
  <2> HIDE DEF N, S
  <2> DEFINE P == {i \in Nat : Climbed(WalkBack[i + 1], N, i, top)}
  <2>6. 0 \in P
    <3> DEFINE w == win[focus]
               first == [Unwalked EXCEPT !.start = w.y, !.end = LastLine(w)]
    <3>1. /\ Shown(focus) /\ w.y \in Int /\ LastLine(w) \in Int /\ LastLine(w) <= Bottom
      BY <2>1, <2>2, RoomyWindow
    <3>2. WalkBack[0 + 1] = Back(Unwalked, focus)
      BY <2>3, <2>5
    <3>3. Unwalked.ended = "" /\ Unwalked.start = reel.y - 1
      BY DEF Unwalked
    <3>4. Back(Unwalked, focus) = first
      BY <3>1, <3>3 DEF Back
    <3> HIDE DEF w
    <3>5. /\ first \in Found /\ first.ok = TRUE /\ first.end <= Bottom /\ first.ended = ""
          /\ first.start = w.y
      <4>1. Unwalked \in Found
        BY <2>5
      <4> QED
        BY <3>1, <4>1 DEF Found, Unwalked
    <3> HIDE DEF first
    <3>6. Climbed(first, N, 0, top)
      <4>1. \A i \in 0..0 - 1 : FALSE
        OBVIOUS
      <4> QED
        BY <2>3, <3>5, <4>1 DEF Climbed, w
    <3> QED
      BY <3>2, <3>4, <3>6
  <2>7. ASSUME NEW i \in P PROVE i + 1 \in P
    <3>1. i \in Nat /\ i + 1 \in Nat /\ Climbed(WalkBack[i + 1], N, i, top)
      OBVIOUS
    <3>2. WalkBack[(i + 1) + 1] = Back(WalkBack[i + 1], N[i + 1])
      BY <2>5, <3>1
    <3>3. Climbed(Back(WalkBack[i + 1], N[i + 1]), N, i + 1, top)
      BY <2>2, <2>3, <3>1, BackClimbs
    <3> QED
      BY <3>1, <3>2, <3>3
  <2>8. Climbed(back, N, n - 1, top)
    <3>1. P \in SUBSET Nat
      OBVIOUS
    <3> HIDE DEF P
    <3>2. P = Nat
      BY <2>6, <2>7, <3>1, AllNaturals
    <3>3. n - 1 \in Nat /\ (n - 1) + 1 = n
      BY <2>3
    <3> QED
      BY <3>2, <3>3 DEF P
  <2> HIDE DEF P
  <2>9. back \in Found /\ back.ok = TRUE /\ back.ended # "hidden" /\ back.end <= Bottom
        /\ back.start = Top
    <3>1. PICK i \in 0..n - 1 : N[i] = top
      BY <2>2, <2>3
    <3>2. CASE \A j \in 0..(n - 1) - 1 : N[j] # top
      <4>1. N[n - 1] = top
        <5>1. i = n - 1 \/ i \in 0..(n - 1) - 1
          BY <2>3, <3>1
        <5> QED
          BY <3>1, <3>2, <5>1
      <4>2. win[top].y = Top
        BY <2>2, RoomyWindow
      <4> QED
        BY <2>8, <4>1, <4>2 DEF Climbed
    <3>3. CASE ~ \A j \in 0..(n - 1) - 1 : N[j] # top
      BY <2>8, <3>3 DEF Climbed
    <3> QED
      BY <3>2, <3>3
  <2> HIDE DEF back
  <2>10. Descended(bare)
    BY <2>9 DEF Descended, Found
  <2> HIDE DEF bare
  <2>11. Descended(down)
    <3> DEFINE D == WalkDown(bare)
               R == {i \in Nat : Descended(D[i])}
    <3>1. /\ D[0] = bare
          /\ \A i \in Nat : D[i + 1] = Down(D[i], S[i + 1])
      BY <2>1, <2>4, <2>10, DownWalked DEF Descended, S
    <3> HIDE DEF D
    <3>2. 0 \in R
      BY <2>10, <3>1
    <3>3. ASSUME NEW i \in R PROVE i + 1 \in R
      <4>1. i \in Nat /\ i + 1 \in Nat /\ Descended(D[i]) /\ S[i + 1] \in live
        BY <2>3
      <4>2. Descended(Down(D[i], S[i + 1]))
        BY <2>2, <4>1, DownDescends
      <4> QED
        BY <3>1, <4>1, <4>2
    <3>4. R \in SUBSET Nat
      OBVIOUS
    <3> HIDE DEF R
    <3>5. R = Nat
      BY <3>2, <3>3, <3>4, AllNaturals
    <3>6. n - 1 \in Nat
      BY <2>3
    <3> QED
      BY <3>5, <3>6 DEF R, D
  <2> HIDE DEF down
  <2> DEFINE again == back.ended # "" /\ Shown(focus)
             walk == IF again THEN down ELSE back
  <2>12. /\ walk.ok = TRUE /\ walk.start = reel.y + ReelBorder("top")
         /\ walk.end <= LastLine(reel) - ReelBorder("bottom")
    BY <2>9, <2>11 DEF Descended, Top, Bottom
  <2>13. Shown(focus)
    BY <2>1, <2>2, RoomyWindow
  <2>14. ~again \/ back.ended = "round"
    BY <2>9 DEF Found
  <2> HIDE DEF again, walk
  <2> QED
    BY <1>1, <2>12, <2>14 DEF Validates, walk, again, down, bare, back, n
<1> QED
  BY <1>2, <1>3

\* Between two calls of the API, whatever was called before, a reel with room
\* for its tablets that is where it was created passes panelreel_validate(),
\* the oracle of the project's unit tests.
THEOREM Validated ==
  ASSUME NEW M \in Nat
  PROVE  Roomy(M) /\ Fixed /\ Spec => []Valid
<1>1. RoomyInv(M) /\ InPlace => Valid
  BY RoomyValidates DEF Valid
<1> QED
  BY <1>1, RoomyAlways, ReelStays, PTL
=============================================================================
