--------------------------- MODULE DrawingProofs ---------------------------
(***************************************************************************)
(* Theorems about Drawing, for tablets of any size with any number of      *)
(* lines, and windows of any width.                                        *)
(*                                                                         *)
(* A drawing does not rely on what the window showed before: FrameInv is   *)
(* inductive because every cell of the window that is left is drawn, which *)
(* RowsFacts (the rows written are an interval, at the end at which the    *)
(* window is not cut off) and SizeFacts (the borders take up the rest)     *)
(* come down to.                                                           *)
(***************************************************************************)
EXTENDS Drawing, FiniteSetTheorems, TLAPS

\* Tablets with a top and a bottom border.
TopAndBottom == Masks \subseteq SUBSET {"left", "right"}

FrameInv == TypeOK /\ Framed /\ Honest

----------------------------------------------------------------------------
(* Geometry *)

\* The first column of a window counts its rows.
LEMMA ColumnHeight ==
  ASSUME NEW h \in Nat
  PROVE  /\ IsFiniteSet({cell \in Cells(h, Width) : cell[2] = 0})
         /\ Cardinality({cell \in Cells(h, Width) : cell[2] = 0}) = h
<1> DEFINE S == 0..(h - 1)
           T == {cell \in Cells(h, Width) : cell[2] = 0}
           f == [y \in S |-> <<y, 0>>]
<1>1. f \in Bijection(S, T)
  <2>1. f \in [S -> T]
    BY DrawingAssumption DEF Cells
  <2>2. \A a, b \in S : f[a] = f[b] => a = b
    OBVIOUS
  <2>3. \A c \in T : \E a \in S : f[a] = c
    <3> SUFFICES ASSUME NEW c \in T PROVE \E a \in S : f[a] = c
      OBVIOUS
    <3>1. c = <<c[1], 0>> /\ c[1] \in S
      BY DEF Cells
    <3> QED
      BY <3>1
  <2> QED
    BY <2>1, <2>2, <2>3 DEF Bijection, Injection, Surjection, IsInjective
<1>2. IsFiniteSet(S) /\ Cardinality(S) = h
  BY FS_Interval
<1> HIDE DEF S, T, f
<1>3. IsFiniteSet(T) /\ Cardinality(T) = Cardinality(S)
  BY <1>1, <1>2, FS_Bijection DEF ExistsBijection
<1> QED
  BY <1>2, <1>3 DEF S, T

\* The unmasked sides of tablets that have top and bottom borders.
LEMMA HasFacts ==
  ASSUME TopAndBottom, TypeOK
  PROVE  /\ Has("top") = 1 /\ Has("bottom") = 1
         /\ Has("left") \in {0, 1} /\ Has("right") \in {0, 1}
         /\ "top" \notin tabletmask /\ "bottom" \notin tabletmask
         /\ (Has("left") = 0) <=> ("left" \in tabletmask)
         /\ (Has("right") = 0) <=> ("right" \in tabletmask)
<1>1. "top" \notin tabletmask /\ "bottom" \notin tabletmask
  BY DEF TopAndBottom, TypeOK
<1> QED
  BY <1>1 DEF Has

\* The callback writes an interval of rows: from the border on when it goes
\* down; when it goes up, down to the border that goes below them.
LEMMA RowsFacts ==
  ASSUME TopAndBottom, TypeOK, NEW d \in {-1, 0, 1}, NEW leny \in 1..MaxRows
  PROVE  LET short == lines < leny - 1
         IN /\ ll(d, leny) = IF short THEN lines ELSE leny - 1
            /\ Rows(d, leny) = IF d >= 0 THEN 1..ll(d, leny)
                               ELSE IF short THEN 1..lines ELSE 0..(leny - 2)
            /\ ll(d, leny) \in Nat
            /\ \A y \in Rows(d, leny) :
                 Written(cby(d), cbmaxy(d, leny), d, y) =
                   IF d < 0 /\ ~short THEN lines - (leny - 1) + y + 1 ELSE y
<1>0. lines \in Nat \ {0} /\ leny \in Nat \ {0} /\ d \in Int
  BY DrawingAssumption DEF TypeOK
<1>1. CASE d >= 0
  <2>1. cby(d) = 1 /\ cbmaxy(d, leny) = leny - 1
    BY <1>0, <1>1, HasFacts DEF cby, cbmaxy
  <2>2. \A y \in 1..(leny - 1) :
          Written(1, leny - 1, d, y) = IF y - 1 < lines THEN y ELSE Blank
    BY <1>0, <1>1 DEF Written, Down
  <2> DEFINE n == IF lines < leny - 1 THEN lines ELSE leny - 1
  <2>3. n \in Nat /\ 1..n = {y \in 1..(leny - 1) : y - 1 < lines}
    BY <1>0
  <2>4. Rows(d, leny) = 1..n
    BY <2>1, <2>2, <2>3, <1>0 DEF Rows, Blank
  <2>5. ll(d, leny) = n
    <3>1. 1 \in Int /\ n \in Int /\ (n < 1 => n = 0)
      BY <2>3
    <3>2. Cardinality(1..n) = IF 1 > n THEN 0 ELSE n - 1 + 1
      BY <3>1, FS_Interval
    <3> QED
      BY <2>3, <2>4, <3>1, <3>2 DEF ll
  <2> HIDE DEF n
  <2>6. \A y \in Rows(d, leny) : Written(cby(d), cbmaxy(d, leny), d, y) = y
    BY <2>1, <2>2, <2>3, <2>4
  <2> QED
    BY <1>1, <2>3, <2>4, <2>5, <2>6 DEF n
<1>2. CASE d < 0
  <2>1. cby(d) = 0 /\ cbmaxy(d, leny) = leny - 2
    BY <1>0, <1>2, HasFacts DEF cby, cbmaxy
  <2> DEFINE last == IF lines < leny - 2 THEN lines ELSE leny - 2
             first == IF lines < leny - 1 THEN 1 ELSE 0
  <2>2. LastRow(0, leny - 2) = last /\ last \in Int
    BY <1>0 DEF LastRow
  <2>3. \A y \in Int : Written(0, leny - 2, d, y) =
          IF y \in 0..last /\ last - y < lines THEN lines - (last - y) ELSE Blank
    BY <1>2, <2>2 DEF Written, Up
  <2>4. Rows(d, leny) = first..last
    <3>1. \A y \in 0..(leny - 2) :
            (Written(0, leny - 2, d, y) # Blank) <=> y \in first..last
      BY <2>3, <1>0 DEF Blank
    <3> QED
      BY <3>1, <2>1, <1>0 DEF Rows
  <2>5. ll(d, leny) = IF lines < leny - 1 THEN lines ELSE leny - 1
    <3>1. first <= last + 1 /\ first \in Int
      BY <1>0
    <3>2. ll(d, leny) = IF first > last THEN 0 ELSE last - first + 1
      BY <2>2, <2>4, <3>1, FS_Interval DEF ll
    <3> QED
      BY <3>1, <3>2, <1>0
  <2>6. \A y \in Rows(d, leny) :
          Written(cby(d), cbmaxy(d, leny), d, y) = lines - (last - y)
    <3>1. \A y \in first..last : y \in Int /\ y \in 0..last /\ last - y < lines
      BY <2>2, <1>0
    <3> QED
      BY <2>1, <2>3, <2>4, <3>1
  <2>7. CASE lines < leny - 1
    <3>1. first = 1 /\ last = lines
      BY <2>7, <1>0
    <3> QED
      BY <1>0, <1>2, <2>4, <2>5, <2>6, <2>7, <3>1
  <2>8. CASE ~(lines < leny - 1)
    <3>1. first = 0 /\ last = leny - 2
      BY <2>8, <1>0
    <3>2. \A y \in Rows(d, leny) : lines - (last - y) = lines - (leny - 1) + y + 1
      BY <2>4, <3>1, <1>0
    <3> QED
      BY <1>0, <1>2, <2>4, <2>5, <2>6, <2>8, <3>1, <3>2
  <2> QED
    BY <2>7, <2>8
<1> QED
  BY <1>0, <1>1, <1>2

----------------------------------------------------------------------------
(* One drawing *)

\* The rows without text at the ends of a window, when it is clipped or not.
Head(d, clip) == IF clip /\ d < 0 THEN 0 ELSE 1
Foot(d, clip) == IF clip /\ d >= 0 THEN 0 ELSE 1

InFrame(h, d, clip, cell) ==
  /\ cell[1] \in Head(d, clip)..(h - 1 - Foot(d, clip))
  /\ cell[2] \in Has("left")..(Width - 1 - Has("right"))

\* The window is as high as the lines and their borders, or as the room.
LEMMA SizeFacts ==
  ASSUME TopAndBottom, TypeOK, NEW d \in {-1, 0, 1}, NEW leny \in 1..MaxRows,
         NEW clip, clip = Clipped(leny, ll(d, leny)),
         NEW h, h = Size(leny, ll(d, leny), d)
  PROVE  /\ clip \in BOOLEAN /\ (clip <=> lines + 2 > leny)
         /\ h = IF clip THEN leny ELSE lines + 2
         /\ h \in 1..leny
         /\ ll(d, leny) = h - Head(d, clip) - Foot(d, clip)
         /\ Rows(d, leny) = Head(d, clip)..(h - 1 - Foot(d, clip))
         /\ \A y \in Rows(d, leny) :
              Written(cby(d), cbmaxy(d, leny), d, y) =
                LET n == ll(d, leny)
                IN IF d < 0 THEN lines - n + y - Head(d, clip) + 1
                   ELSE y - Head(d, clip) + 1
<1>0. lines \in Nat \ {0} /\ leny \in Nat \ {0} /\ d \in Int
  BY DrawingAssumption DEF TypeOK
<1>1. Has("top") = 1 /\ Has("bottom") = 1
  BY HasFacts
<1>2. clip \in BOOLEAN /\ (clip <=> ll(d, leny) = leny - 1)
  BY DEF Clipped
<1>3. CASE lines < leny - 1
  <2>1. ll(d, leny) = lines
    BY <1>0, <1>3, RowsFacts
  <2>2. Rows(d, leny) = 1..lines
    BY <1>0, <1>3, <2>1, RowsFacts
  <2>3. \A y \in Rows(d, leny) : Written(cby(d), cbmaxy(d, leny), d, y) = y
    BY <1>0, <1>3, RowsFacts
  <2>4. ~clip /\ lines # leny /\ lines # leny - 1
    BY <1>0, <1>2, <1>3, <2>1
  <2>5. h = lines + 2
    BY <1>0, <1>1, <2>1, <2>4 DEF Size
  <2>6. Head(d, clip) = 1 /\ Foot(d, clip) = 1
    BY <2>4 DEF Head, Foot
  <2>7. Rows(d, leny) = Head(d, clip)..(h - 1 - Foot(d, clip))
    BY <1>0, <2>2, <2>5, <2>6
  <2>8. \A y \in Rows(d, leny) :
          /\ y = lines - ll(d, leny) + y - Head(d, clip) + 1
          /\ y = y - Head(d, clip) + 1
    BY <1>0, <2>1, <2>2, <2>6
  <2> QED
    BY <1>0, <1>2, <1>3, <2>1, <2>3, <2>4, <2>5, <2>6, <2>7, <2>8
<1>4. CASE ~(lines < leny - 1)
  <2>1. ll(d, leny) = leny - 1
    BY <1>0, <1>4, RowsFacts
  <2>2. clip /\ leny - 1 # leny
    BY <1>0, <1>2, <2>1
  <2>3. h = leny
    BY <1>0, <1>1, <2>1, <2>2 DEF Size
  <2>4. Head(d, clip) = (IF d < 0 THEN 0 ELSE 1) /\ Foot(d, clip) = IF d < 0 THEN 1 ELSE 0
    BY <1>0, <2>2 DEF Head, Foot
  <2>5. Rows(d, leny) = IF d < 0 THEN 0..(leny - 2) ELSE 1..(leny - 1)
    BY <1>0, <1>4, <2>1, RowsFacts
  <2>6. \A y \in Rows(d, leny) :
          Written(cby(d), cbmaxy(d, leny), d, y) =
            IF d < 0 THEN lines - (leny - 1) + y + 1 ELSE y
    BY <1>0, <1>4, RowsFacts
  <2>7. Rows(d, leny) = Head(d, clip)..(h - 1 - Foot(d, clip))
    BY <1>0, <2>3, <2>4, <2>5
  <2>8. \A y \in Rows(d, leny) :
          (IF d < 0 THEN lines - (leny - 1) + y + 1 ELSE y)
            = IF d < 0 THEN lines - ll(d, leny) + y - Head(d, clip) + 1
              ELSE y - Head(d, clip) + 1
    BY <1>0, <2>1, <2>4, <2>5
  <2> QED
    BY <1>0, <1>2, <1>4, <2>1, <2>2, <2>3, <2>4, <2>6, <2>7, <2>8
<1> QED
  BY <1>3, <1>4

\* The borders are what is not within them.
LEMMA FrameFacts ==
  ASSUME TopAndBottom, TypeOK, NEW d \in {-1, 0, 1}, NEW clip \in BOOLEAN,
         NEW h \in Nat \ {0}, NEW cell \in Cells(h, Width)
  PROVE  cell \in BorderCells(h, Width, tabletmask, clip /\ d < 0, clip /\ d >= 0)
           <=> ~InFrame(h, d, clip, cell)
<1> DEFINE y == cell[1]
           x == cell[2]
<1>1. cell = <<y, x>> /\ y \in 0..(h - 1) /\ x \in 0..(Width - 1) /\ d \in Int
  BY DEF Cells
<1>2. Width \in Nat /\ Width >= 3
  BY DrawingAssumption
<1>3. cell \in TopCells(h, Width, tabletmask, clip /\ d < 0)
        <=> Head(d, clip) = 1 /\ y = 0
  BY <1>1, <1>2, HasFacts DEF TopCells, EdgeCells, Head
<1>4. cell \in BottomCells(h, Width, tabletmask, clip /\ d >= 0)
        <=> Foot(d, clip) = 1 /\ y = h - 1
  BY <1>1, <1>2, HasFacts DEF BottomCells, EdgeCells, Foot
<1>5. cell \in SideCells(h, Width, tabletmask, clip /\ d < 0, clip /\ d >= 0)
        <=> /\ y \in Head(d, clip)..(h - 1 - Foot(d, clip))
            /\ \/ Has("left") = 1 /\ x = 0
               \/ Has("right") = 1 /\ x = Width - 1
  <2>1. (Has("left") = 1) <=> ("left" \notin tabletmask)
    BY HasFacts
  <2>2. (Has("right") = 1) <=> ("right" \notin tabletmask)
    BY HasFacts
  <2> QED
    BY <1>1, <1>2, <2>1, <2>2 DEF SideCells, Head, Foot
<1>6. Head(d, clip) \in {0, 1} /\ Foot(d, clip) \in {0, 1}
  BY DEF Head, Foot
<1>7. Has("left") \in {0, 1} /\ Has("right") \in {0, 1}
  BY HasFacts
<1> QED
  BY <1>1, <1>2, <1>3, <1>4, <1>5, <1>6, <1>7 DEF BorderCells, InFrame

\* The cell of the summary, which is on a line if there is one.
SummaryCell(d, leny) ==
  <<SummaryRow(cby(d), cbmaxy(d, leny), d, ll(d, leny)), cbx>>

LEMMA SummaryFacts ==
  ASSUME TopAndBottom, TypeOK, NEW d \in {-1, 0, 1}, NEW leny \in 1..MaxRows,
         ll(d, leny) > 0
  PROVE  SummaryCell(d, leny) \in Rows(d, leny) \X (cbx..cbmaxx)
<1>0. lines \in Nat \ {0} /\ leny \in Nat \ {0} /\ d \in Int /\ Width \in Nat /\ Width >= 3
  BY DrawingAssumption DEF TypeOK
<1>1. cbx \in cbx..cbmaxx
  BY <1>0, HasFacts DEF cbx, cbmaxx
<1>2. SummaryRow(cby(d), cbmaxy(d, leny), d, ll(d, leny)) \in Rows(d, leny)
  <2>1. CASE d >= 0
    <3>1. SummaryRow(cby(d), cbmaxy(d, leny), d, ll(d, leny)) = 1
      BY <1>0, <2>1, HasFacts DEF SummaryRow, cby
    <3>2. Rows(d, leny) = 1..ll(d, leny) /\ ll(d, leny) \in Nat
      BY <2>1, RowsFacts
    <3> QED
      BY <3>1, <3>2
  <2>2. CASE d < 0
    <3>1. cby(d) = 0 /\ cbmaxy(d, leny) = leny - 2
      BY <1>0, <2>2, HasFacts DEF cby, cbmaxy
    <3>2. SummaryRow(cby(d), cbmaxy(d, leny), d, ll(d, leny)) =
            IF ll(d, leny) = leny - 1 THEN ll(d, leny) - 1 ELSE ll(d, leny)
      BY <1>0, <2>2, <3>1 DEF SummaryRow
    <3>3. CASE lines < leny - 1
      <4>1. ll(d, leny) = lines /\ Rows(d, leny) = 1..lines
        BY <1>0, <2>2, <3>3, RowsFacts
      <4> QED
        BY <1>0, <3>2, <3>3, <4>1
    <3>4. CASE ~(lines < leny - 1)
      <4>1. ll(d, leny) = leny - 1 /\ Rows(d, leny) = 0..(leny - 2)
        BY <1>0, <2>2, <3>4, RowsFacts
      <4> QED
        BY <1>0, <3>2, <4>1
    <3> QED
      BY <3>3, <3>4
  <2> QED
    BY <1>0, <2>1, <2>2
<1> QED
  BY <1>1, <1>2 DEF SummaryCell

\* What shows in a cell of a window that has just been drawn.
LEMMA DrawnCells ==
  ASSUME TopAndBottom, TypeOK, NEW d \in {-1, 0, 1}, NEW leny \in 1..MaxRows,
         Draw(d, leny), NEW cell \in DOMAIN glass'
  PROVE  LET clip == Clipped(leny, ll(d, leny))
             h    == Size(leny, ll(d, leny), d)
             n    == ll(d, leny)
             y    == cell[1] - Head(d, clip) + 1
         IN /\ cell \in Cells(h, Width)
            /\ glass'[cell] =
                 IF ~InFrame(h, d, clip, cell) THEN Border
                 ELSE IF cell = SummaryCell(d, leny) THEN Summary
                 ELSE IF d < 0 THEN lines - n + y ELSE y
<1> DEFINE clip == Clipped(leny, ll(d, leny))
           h == Size(leny, ll(d, leny), d)
           n == ll(d, leny)
           written == Over(wresize(glass, leny), Text(d, leny))
           inside == InFrame(h, d, clip, cell)
<1>1. /\ clip \in BOOLEAN /\ h \in 1..leny
      /\ Rows(d, leny) = Head(d, clip)..(h - 1 - Foot(d, clip))
  BY SizeFacts
<1>2. glass' = Over(wresize(written, h), Frame(d, leny))
  BY DEF Draw
<1>3. lines \in Nat \ {0} /\ leny \in Nat \ {0} /\ d \in Int /\ Width \in Nat /\ Width >= 3
  BY DrawingAssumption DEF TypeOK
<1>4. cell \in Cells(h, Width)
  BY <1>2 DEF Over, wresize
<1>5. cell \in Cells(leny, Width)
  BY <1>1, <1>3, <1>4 DEF Cells
<1>6. Frame(d, leny)[cell] = IF inside THEN Blank ELSE Border
  <2>1. Frame(d, leny)[cell] =
          IF cell \in BorderCells(h, Width, tabletmask, clip /\ d < 0, clip /\ d >= 0)
          THEN Border ELSE Blank
    BY <1>4 DEF Frame
  <2>2. h \in Nat \ {0}
    BY <1>1, <1>3
  <2> HIDE DEF clip, h
  <2> QED
    BY <2>1, <2>2, <1>1, <1>4, FrameFacts DEF inside
<1>7. glass'[cell] = IF Frame(d, leny)[cell] = Blank THEN wresize(written, h)[cell]
                     ELSE Frame(d, leny)[cell]
  BY <1>2, <1>4 DEF Over, wresize
<1>8. wresize(written, h)[cell] =
        IF Text(d, leny)[cell] = Blank THEN wresize(glass, leny)[cell]
        ELSE Text(d, leny)[cell]
  BY <1>4, <1>5 DEF Over, wresize
<1>9. ASSUME inside
      PROVE  Text(d, leny)[cell] =
               IF cell = SummaryCell(d, leny) THEN Summary
               ELSE Written(cby(d), cbmaxy(d, leny), d, cell[1])
  <2>1. cell[1] \in Rows(d, leny) /\ cell[2] \in cbx..cbmaxx
    BY <1>1, <1>9 DEF InFrame, cbx, cbmaxx
  <2> QED
    BY <1>5, <2>1 DEF Text, SummaryCell
<1>10. ASSUME inside
       PROVE  Written(cby(d), cbmaxy(d, leny), d, cell[1]) # Blank
  BY <1>1, <1>10 DEF InFrame, Rows
<1>11. ASSUME inside
       PROVE  Written(cby(d), cbmaxy(d, leny), d, cell[1]) =
                IF d < 0 THEN lines - n + (cell[1] - Head(d, clip) + 1)
                ELSE cell[1] - Head(d, clip) + 1
  <2>1. cell[1] \in Rows(d, leny)
    BY <1>1, <1>11 DEF InFrame
  <2>2. Written(cby(d), cbmaxy(d, leny), d, cell[1]) =
          IF d < 0 THEN lines - n + cell[1] - Head(d, clip) + 1
          ELSE cell[1] - Head(d, clip) + 1
    BY <2>1, SizeFacts
  <2>3. n \in Nat /\ Head(d, clip) \in Int /\ cell[1] \in Int
    BY <1>4, RowsFacts DEF Head, Cells
  <2> HIDE DEF n, clip
  <2> QED
    BY <1>3, <2>2, <2>3
<1>12. Border # Blank /\ Summary # Blank
  BY DEF Border, Blank, Summary
<1> HIDE DEF clip, h, n, written, inside
<1>13. glass'[cell] =
         IF ~inside THEN Border
         ELSE IF cell = SummaryCell(d, leny) THEN Summary
         ELSE IF d < 0 THEN lines - n + (cell[1] - Head(d, clip) + 1)
         ELSE cell[1] - Head(d, clip) + 1
  BY <1>6, <1>7, <1>8, <1>9, <1>10, <1>11, <1>12
<1> QED
  BY <1>4, <1>13 DEF clip, h, n, inside

----------------------------------------------------------------------------
(* The invariant *)

\* There is no window at first.
LEMMA FrameInitially == TopAndBottom /\ Init => FrameInv
<1> SUFFICES ASSUME TopAndBottom, Init PROVE FrameInv
  OBVIOUS
<1>1. {MaxRows, MaxLines} \subseteq Nat \ {0}
  BY DrawingAssumption
<1>2. Height = 0 /\ Cells(0, Width) = {}
  <2>1. {cell \in DOMAIN glass : cell[2] = 0} = {}
    BY DEF Init, NoWindow
  <2> QED
    BY <2>1, FS_EmptySet DEF Height, Cells
<1> QED
  BY <1>1, <1>2 DEF Init, FrameInv, TypeOK, Framed, Honest, NoWindow

\* Every cell of a window that was drawn is a border, a line or the summary.
LEMMA DrawStep ==
  ASSUME TopAndBottom, TypeOK, NEW d \in {-1, 0, 1}, NEW leny \in 1..MaxRows,
         Draw(d, leny)
  PROVE  FrameInv'
<1> DEFINE clip == Clipped(leny, ll(d, leny))
           h == Size(leny, ll(d, leny), d)
           n == ll(d, leny)
           head == Head(d, clip)
           foot == Foot(d, clip)
<1>0. /\ lines \in 1..MaxLines /\ {MaxRows, MaxLines} \subseteq Nat \ {0}
      /\ d \in Int /\ Width \in Nat /\ Width >= 3
  BY DrawingAssumption DEF TypeOK
<1>1. /\ clip \in BOOLEAN /\ (clip <=> lines + 2 > leny)
      /\ h = (IF clip THEN leny ELSE lines + 2) /\ h \in 1..leny
      /\ n = h - head - foot
      /\ Rows(d, leny) = head..(h - 1 - foot)
  BY SizeFacts
<1>2. head \in {0, 1} /\ foot \in {0, 1} /\ (~clip => head = 1 /\ foot = 1)
      /\ (clip => head + foot = 1)
  BY <1>0 DEF Head, Foot
<1>3. n \in Nat /\ n <= lines
  BY <1>0, <1>1, <1>2
<1>4. drawn' = [d |-> d, room |-> leny, clipped |-> clip]
      /\ tabletmask' = tabletmask /\ lines' = lines
  BY DEF Draw
<1>5. DOMAIN glass' = Cells(h, Width)
  BY DEF Draw, Over, wresize
<1>6. Height' = h
  <2>1. h \in Nat
    BY <1>0, <1>1
  <2> HIDE DEF h
  <2>2. Cardinality({cell \in Cells(h, Width) : cell[2] = 0}) = h
    BY <2>1, ColumnHeight
  <2> QED
    BY <1>5, <2>2 DEF Height
<1>7. \A cell \in DOMAIN glass' :
        glass'[cell] = IF ~InFrame(h, d, clip, cell) THEN Border
                       ELSE IF cell = SummaryCell(d, leny) THEN Summary
                       ELSE IF d < 0 THEN lines - n + (cell[1] - head + 1)
                       ELSE cell[1] - head + 1
  BY DrawnCells
<1>8. n > 0 => SummaryCell(d, leny) \in DOMAIN glass'
               /\ InFrame(h, d, clip, SummaryCell(d, leny))
  <2> SUFFICES ASSUME n > 0
               PROVE  SummaryCell(d, leny) \in DOMAIN glass'
                      /\ InFrame(h, d, clip, SummaryCell(d, leny))
    OBVIOUS
  <2>1. SummaryCell(d, leny) \in (head..(h - 1 - foot)) \X (cbx..cbmaxx)
    BY <1>1, SummaryFacts
  <2>2. cbx \in 0..1 /\ cbmaxx \in {Width - 1, Width - 2}
    BY <1>0, HasFacts DEF cbx, cbmaxx
  <2> HIDE DEF clip, h, n
  <2>3. h \in Nat
    BY <1>0, <1>1
  <2> QED
    BY <1>0, <1>2, <1>5, <2>1, <2>2, <2>3 DEF InFrame, Cells, cbx, cbmaxx
<1> HIDE DEF clip, h, n, head, foot
<1>9. n = 0 => \A cell \in DOMAIN glass' : ~InFrame(h, d, clip, cell)
  <2>1. h \in Int /\ (n = 0 => h - 1 - foot < head)
    BY <1>0, <1>1, <1>2
  <2> QED
    BY <1>2, <2>1 DEF InFrame, head, foot
<1>10. \A cell \in DOMAIN glass' : InFrame(h, d, clip, cell) =>
         /\ cell[1] - head + 1 \in 1..n
         /\ lines - n + (cell[1] - head + 1) \in 1..lines
  <2> SUFFICES ASSUME NEW cell \in DOMAIN glass', InFrame(h, d, clip, cell)
               PROVE  /\ cell[1] - head + 1 \in 1..n
                      /\ lines - n + (cell[1] - head + 1) \in 1..lines
    OBVIOUS
  <2>1. cell[1] \in head..(h - 1 - foot)
    BY DEF InFrame, head, foot
  <2>2. cell[1] - head + 1 \in 1..n
    BY <1>0, <1>1, <1>2, <2>1
  <2> QED
    BY <1>0, <1>3, <2>2
<1>11. TypeOK'
  <2>1. \A cell \in DOMAIN glass' : glass'[cell] \in -2..MaxLines
    <3> SUFFICES ASSUME NEW cell \in DOMAIN glass' PROVE glass'[cell] \in -2..MaxLines
      OBVIOUS
    <3>1. CASE ~InFrame(h, d, clip, cell)
      BY <1>0, <1>7, <3>1 DEF Border
    <3>2. CASE InFrame(h, d, clip, cell)
      BY <1>0, <1>3, <1>7, <1>10, <3>2 DEF Summary
    <3> QED
      BY <3>1, <3>2
  <2>2. h <= MaxRows /\ drawn' \in [d : {-1, 0, 1}, room : 0..MaxRows, clipped : BOOLEAN]
    BY <1>0, <1>1, <1>4
  <2> QED
    BY <1>4, <1>5, <1>6, <2>1, <2>2 DEF TypeOK
<1>12. Honest'
  BY <1>1, <1>4, <1>6 DEF Honest
<1>13. Framed'
  <2>1. \A cell \in DOMAIN glass' :
          IF InFrame(h, d, clip, cell)
          THEN glass'[cell] \in {IF d < 0 THEN lines - n + (cell[1] - head + 1)
                                 ELSE cell[1] - head + 1, Summary}
          ELSE glass'[cell] = Border
    BY <1>7
  <2>2. {cell \in DOMAIN glass' : glass'[cell] = Summary}
          = IF n > 0 THEN {SummaryCell(d, leny)} ELSE {}
    <3>1. \A cell \in DOMAIN glass' :
            glass'[cell] = Summary <=> InFrame(h, d, clip, cell) /\ cell = SummaryCell(d, leny)
      <4> SUFFICES ASSUME NEW cell \in DOMAIN glass'
                   PROVE  glass'[cell] = Summary
                            <=> InFrame(h, d, clip, cell) /\ cell = SummaryCell(d, leny)
        OBVIOUS
      <4>1. CASE ~InFrame(h, d, clip, cell)
        BY <1>7, <4>1 DEF Border, Summary
      <4>2. CASE InFrame(h, d, clip, cell)
        BY <1>0, <1>3, <1>7, <1>10, <4>2 DEF Summary
      <4> QED
        BY <4>1, <4>2
    <3> QED
      BY <1>3, <1>8, <1>9, <3>1
  <2>3. Cardinality({cell \in DOMAIN glass' : glass'[cell] = Summary})
          = IF n > 0 THEN 1 ELSE 0
    BY <2>2, FS_Singleton, FS_EmptySet
  <2>4. (IF clip /\ d < 0 THEN 0 ELSE 1) = head /\ (IF clip /\ d >= 0 THEN 0 ELSE 1) = foot
    BY DEF head, foot, Head, Foot
  <2>5. Has("left")' = Has("left") /\ Has("right")' = Has("right")
    BY <1>4 DEF Has
  <2>6. drawn'.d = d /\ drawn'.room = leny /\ drawn'.clipped = clip
    BY <1>4
  <2>7. \A cell : InFrame(h, d, clip, cell) <=>
          /\ cell[1] \in head..(h - 1 - foot)
          /\ cell[2] \in Has("left")..(Width - 1 - Has("right"))
    BY DEF InFrame, head, foot
  <2> QED
    BY <1>1, <1>3, <1>4, <1>6, <2>1, <2>3, <2>4, <2>5, <2>6, <2>7 DEF Framed, LineIn
<1> QED
  BY <1>11, <1>12, <1>13 DEF FrameInv

\* Hiding the tablet removes the window, and an update only asks for a
\* drawing.
LEMMA FrameInductive ==
  ASSUME TopAndBottom
  PROVE  Spec => []FrameInv
<1>1. Init => FrameInv
  BY FrameInitially
<1>2. FrameInv /\ [Next]_vars => FrameInv'
  <2> SUFFICES ASSUME FrameInv, [Next]_vars PROVE FrameInv'
    OBVIOUS
  <2>0. {MaxRows, MaxLines} \subseteq Nat \ {0}
    BY DrawingAssumption
  <2>1. ASSUME NEW d \in {-1, 0, 1}, NEW leny \in 1..MaxRows, Draw(d, leny)
        PROVE  FrameInv'
    BY <2>1, DrawStep DEF FrameInv
  <2>2. CASE Hide
    <3>1. Height' = 0 /\ Cells(0, Width) = {}
      <4>1. {cell \in DOMAIN glass' : cell[2] = 0} = {}
        BY <2>2 DEF Hide, NoWindow
      <4> QED
        BY <4>1, FS_EmptySet DEF Height, Cells
    <3> QED
      BY <2>0, <2>2, <3>1 DEF Hide, FrameInv, TypeOK, Framed, Honest, NoWindow
  <2>3. CASE Update
    <3>1. Height' = Height
      BY <2>3 DEF Update, Height
    <3>2. drawn' \in [d : {-1, 0, 1}, room : 0..MaxRows, clipped : BOOLEAN] /\ drawn'.room = 0
      BY <2>0, <2>3 DEF Update, FrameInv, TypeOK
    <3> QED
      BY <2>3, <3>1, <3>2 DEF Update, FrameInv, TypeOK, Framed, Honest
  <2>4. CASE UNCHANGED vars
    <3>1. Height' = Height
      BY <2>4 DEF vars, Height
    <3> QED
      BY <2>4, <3>1 DEF vars, FrameInv, TypeOK, Framed, Honest, LineIn, Has
  <2> QED
    BY <2>1, <2>2, <2>3, <2>4 DEF Next
<1> QED
  BY <1>1, <1>2, PTL DEF Spec

\* A window holds the cells of a rectangle as high as ever fitted its room,
\* and nothing but borders, lines and summaries.
THEOREM DrawingTypes ==
  ASSUME TopAndBottom
  PROVE  Spec => []TypeOK
<1>1. FrameInv => TypeOK
  BY DEF FrameInv
<1> QED
  BY <1>1, FrameInductive, PTL

\* However often a tablet was drawn before, upwards, downwards or in focus, in
\* less room or more: it shows a frame, open at the clipped end only, around
\* the right lines in order, with nothing left over from earlier drawings.
THEOREM DrawingFrames ==
  ASSUME TopAndBottom
  PROVE  Spec => []Framed
<1>1. FrameInv => Framed
  BY DEF FrameInv
<1> QED
  BY <1>1, FrameInductive, PTL

\* panelreel_draw_tablet() returns that the tablet is clipped exactly when its
\* lines and borders do not fit, and leaves it the rows that they need.
THEOREM DrawingIsHonest ==
  ASSUME TopAndBottom
  PROVE  Spec => []Honest
<1>1. FrameInv => Honest
  BY DEF FrameInv
<1> QED
  BY <1>1, FrameInductive, PTL

\* draw_panelreel_borders() never fails on account of the border: whatever is
\* masked, the write to the last cell that ncurses refuses is the one that
\* draw_borders() does not count, and one-row and one-column reels are not
\* drawn at all.  PanelReel relies on it: a redraw gets past its border.
THEOREM BordersNeverFail ==
  ASSUME NEW y \in Nat, NEW x \in Nat, NEW h \in Nat, NEW w \in Nat,
         NEW mask \in SUBSET Sides, NEW min_rows \in Nat, NEW min_cols \in Nat
  PROVE  ~ReelBordersFail(y, x, h, w, mask, min_rows, min_cols)
<1> SUFFICES ASSUME ~(x >= w - 1), ~(y >= h - 1)
             PROVE  ~BordersFail(h, w, mask, FALSE, FALSE)
  BY DEF ReelBordersFail
<1>1. h > 1 /\ w > 1
  OBVIOUS
<1>2. <<h - 1, w - 1>> \notin TopCells(h, w, mask, FALSE)
  BY <1>1 DEF TopCells, EdgeCells
<1>3. <<h - 1, w - 1>> \notin SideCells(h, w, mask, FALSE, FALSE)
  BY <1>1 DEF SideCells
<1>4. w # 1
  BY <1>1
<1> QED
  BY <1>2, <1>3, <1>4 DEF BordersFail
=============================================================================
