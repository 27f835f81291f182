-------------------------- MODULE PanelReelProofs --------------------------
(***************************************************************************)
(* Proofs about PanelReel, for any sets of tablets and of line counts, any *)
(* geometry of the reel and any borders.                                   *)
(***************************************************************************)
EXTENDS PanelReel, FiniteSetTheorems, SequenceTheorems, TLAPS

\* The inductive invariant: each part needs the others.  The geometry is only
\* well typed on the links of live tablets, these are only followed from live
\* tablets, and deletion keeps one ring only because there was one before.  The
\* count is off by the tablets of other reels that were deleted through this one.
CountOffset ==
  pc # "crashed" =>
    count = Cardinality(live) - (Cardinality(Foreign) - Cardinality(foreign))

Inv == TypeOK /\ RingOK /\ CountOffset /\ AllVisiblePanels /\ WalksOnLive

Pane == Window \cup {NULL}

----------------------------------------------------------------------------
(* Windows *)

\* newwin() returns a window or NULL.
LEMMA NewwinType ==
  ASSUME NEW h \in Int, NEW l \in Int, NEW y \in Int, NEW x \in Int
  PROVE  newwin(h, l, y, x) \in Pane
<1>1. LINES \in Int /\ COLS \in Int
  BY ScreenAssumption
<1> QED
  BY <1>1 DEF newwin, Pane, Window

\* A window stays one when it is resized or moved, and is not NULL.
LEMMA WindowTypes ==
  ASSUME NEW w \in Window, NEW a \in Int, NEW b \in Int
  PROVE  /\ wresize(w, a, b) \in Window
         /\ move_panel(w, a, b) \in Window
         /\ w # NULL
         /\ w.y \in Int /\ w.x \in Int /\ w.h \in Int /\ w.w \in Int
<1>1. w # NULL
  BY NullAssumption
<1>2. w.y \in Int /\ w.x \in Int /\ w.h \in Int /\ w.w \in Int
  BY DEF Window
<1>3. wresize(w, a, b) \in Window
  <2>1. Resizable(a, b) => a \in Nat \ {0} /\ b \in Nat \ {0}
    BY DEF Resizable
  <2> QED
    BY <2>1 DEF wresize, Window
<1>4. move_panel(w, a, b) \in Window
  BY <1>2 DEF move_panel, Window
<1> QED
  BY <1>1, <1>2, <1>3, <1>4

\* The coordinates of a tablet, hidden or not, are integers.
LEMMA CoordinateTypes ==
  ASSUME NEW w \in Pane
  PROVE  getbegy(w) \in Int /\ getmaxy(w) \in Int
BY NullAssumption DEF Pane, Window, getbegy, getmaxy, ERR

\* Whether memory is short is a Boolean.
LEMMA OomType ==
  Oom \subseteq BOOLEAN
BY ReelAssumption DEF Oom

\* Borders take one line or none.
LEMMA BorderTypes ==
  ASSUME NEW side
  PROVE  ReelBorder(side) \in Int /\ TabletBorder(side) \in Int
BY DEF ReelBorder, TabletBorder

\* The space offered to a tablet has integer coordinates.
LEMMA ColumnTypes ==
  ASSUME TypeOK, NEW frontier \in Int, NEW d \in Int
  PROVE  LET c == TabletColumns(frontier, d) IN
         /\ c.y \in Int /\ c.x \in Int /\ c.h \in Int
         /\ TabletW \in Int /\ Top \in Int
<1>1. reel.y \in Int /\ reel.x \in Int /\ reel.h \in Int /\ reel.w \in Int
  BY DEF TypeOK, Window
<1>2. Top \in Int /\ TabletW \in Int /\ Room(d) \in Int
  BY <1>1, BorderTypes DEF Top, TabletW, Room
<1> QED
  BY <1>1, <1>2, BorderTypes DEF TabletColumns

LEMMA CallbackType ==
  ASSUME TypeOK, NEW t \in Tablets, NEW h \in Int, NEW d \in Int
  PROVE  Callback(t, h, d) \in Int
<1>1. lines[t] \in Int
  BY DEF TypeOK
<1> QED
  BY <1>1, BorderTypes DEF Callback

\* A tablet has a window after it was placed, if that did not fail.
LEMMA PlacedTypes ==
  ASSUME TypeOK, NEW w \in Pane, NEW frontier \in Int, NEW d \in Int, NEW oom \in BOOLEAN
  PROVE  LET p == Placed(w, TabletColumns(frontier, d), oom) IN
         p.win \in Pane /\ (p.ok => p.win \in Window)
<1> DEFINE c == TabletColumns(frontier, d)
<1>1. c.y \in Int /\ c.x \in Int /\ c.h \in Int /\ TabletW \in Int
  BY ColumnTypes
<1>2. CASE w = NULL
  <2> DEFINE n == IF oom THEN NULL ELSE newwin(c.h + 1, TabletW, c.y, c.x)
  <2>1. n \in Pane
    BY <1>1, NewwinType DEF Pane
  <2>2. n # NULL => wresize(n, c.h, TabletW) \in Window
    BY <1>1, <2>1, WindowTypes DEF Pane
  <2>3. Placed(w, c, oom) = [ok |-> n # NULL, win |-> IF n = NULL THEN NULL ELSE wresize(n, c.h, TabletW)]
    BY <1>2 DEF Placed
  <2> HIDE DEF n, c
  <2>4. Placed(w, c, oom).win = (IF n = NULL THEN NULL ELSE wresize(n, c.h, TabletW))
    BY <2>3
  <2>5. Placed(w, c, oom).ok = (n # NULL)
    BY <2>3
  <2> QED
    BY <2>1, <2>2, <2>4, <2>5 DEF Pane, c
<1>3. CASE w \in Window
  <2> DEFINE sized == IF w.h # c.h THEN wresize(w, c.h, w.w) ELSE w
             moved == IF c.y = w.y THEN sized ELSE move_panel(sized, c.y, c.x)
  <2>1. sized \in Window
    BY <1>1, <1>3, WindowTypes
  <2>2. moved \in Window
    BY <1>1, <2>1, WindowTypes
  <2>3. wresize(moved, c.h, TabletW) \in Window
    BY <1>1, <2>2, WindowTypes
  <2>4. Placed(w, c, oom).win \in {sized, wresize(moved, c.h, TabletW)}
    BY <1>3, NullAssumption DEF Placed
  <2> QED
    BY <2>1, <2>3, <2>4 DEF Pane
<1> QED
  BY <1>2, <1>3 DEF Pane

LEMMA FittedTypes ==
  ASSUME TypeOK, NEW w \in Window, NEW ll \in Int, NEW frontier \in Int, NEW d \in Int
  PROVE  Fitted(w, TabletColumns(frontier, d), ll, frontier, d).win \in Window
<1> DEFINE c == TabletColumns(frontier, d)
           clipped == ll = c.h - 1
           size == ll + (IF clipped
                         THEN TabletBorder(IF d < 0 THEN "bottom" ELSE "top")
                         ELSE TabletBorder("top") + TabletBorder("bottom"))
           sized == wresize(w, size, TabletW)
           ybottom == c.y + c.h - size
           placed == IF d < 0 THEN move_panel(sized, ybottom, c.x) ELSE sized
           front == IF c.h - frontier + 1 < size THEN c.h - size + reel.y ELSE frontier
<1>1. c.y \in Int /\ c.x \in Int /\ c.h \in Int /\ TabletW \in Int
  BY ColumnTypes
<1>2. size \in Int /\ ybottom \in Int
  BY <1>1, BorderTypes
<1>3. reel.y \in Int
  BY DEF TypeOK, Window
<1>4. front \in Int
  BY <1>1, <1>2, <1>3
<1> HIDE DEF c, size, ybottom, front
<1>5. sized \in Window
  BY <1>1, <1>2, WindowTypes
<1>6. placed \in Window
  BY <1>1, <1>2, <1>5, WindowTypes
<1>7. move_panel(placed, front, c.x) \in Window
  BY <1>1, <1>4, <1>6, WindowTypes
<1>8. Fitted(w, c, ll, frontier, d).win \in {w, placed, move_panel(placed, front, c.x)}
  BY DEF Fitted, c, size, ybottom, front
<1> QED
  BY <1>6, <1>7, <1>8 DEF c

\* Drawing a tablet leaves it a window or hides it.
LEMMA DrawTypes ==
  ASSUME TypeOK, NEW t \in Tablets, NEW frontier \in Int, NEW d \in Int, NEW oom \in BOOLEAN
  PROVE  DrawTablet(t, frontier, d, oom).win \in Pane
<1> DEFINE c == TabletColumns(frontier, d)
           p == Placed(win[t], c, oom)
           ll == Callback(t, c.h, d)
<1>1. win[t] \in Pane
  BY DEF TypeOK, Pane
<1>2. p.win \in Pane /\ (p.ok => p.win \in Window)
  BY <1>1, PlacedTypes
<1>3. ll \in Int
  BY ColumnTypes, CallbackType
<1>4. p.ok => Fitted(p.win, c, ll, frontier, d).win \in Window
  BY <1>2, <1>3, FittedTypes
<1>5. DrawTablet(t, frontier, d, oom).win \in
        {NULL, p.win} \cup (IF p.ok THEN {Fitted(p.win, c, ll, frontier, d).win} ELSE {})
  BY DEF DrawTablet
<1> QED
  BY <1>2, <1>4, <1>5 DEF Pane

----------------------------------------------------------------------------
(* The redraw *)

Busy == {"topmost", "denormalized", "focused", "pass"}

\* A redraw leaves the ring alone, and the windows of freed tablets.
LEMMA RingFrame ==
  ASSUME RingOK, CountOffset, pc # "crashed", UNCHANGED <<ring>>,
         \A t \in Tablets \ live : win'[t] = win[t]
  PROVE  RingOK' /\ CountOffset'
<1> USE DEF ring
<1>1. LinksInverse' /\ OneRing' /\ FocusInRing'
  BY DEF RingOK, LinksInverse, OneRing, FocusInRing
<1>2. \A t \in (Tablets \ live)' : next'[t] = NULL /\ prev'[t] = NULL /\ win'[t] = NULL
  BY DEF RingOK
<1>3. CountOffset'
  BY DEF CountOffset
<1> QED
  BY <1>1, <1>2, <1>3 DEF RingOK

\* A redraw returns to the application, or to a destruction that goes on at
\* the focus.
LEMMA ReturnWalks ==
  ASSUME RingOK, WalksOnLive, pc # "crashed", Return, UNCHANGED <<ring>>
  PROVE  WalksOnLive'
<1>1. pc' \in {"idle", "destroy"} /\ doomed' = doomed
  BY DEF Return
<1>2. pc' = "idle" => doomed' = NULL
  BY DEF Return
<1>3. doomed # NULL => doomed' = focus' /\ doomed' \in live'
  BY <1>1 DEF WalksOnLive, RingOK, FocusInRing, ring
<1>4. pc' = "destroy" => doomed # NULL
  BY DEF Return
<1> QED
  BY <1>1, <1>2, <1>3, <1>4 DEF WalksOnLive

\* Drawing one live tablet keeps the types, and the freed tablets hidden.
LEMMA DrawOne ==
  ASSUME TypeOK, NEW t \in live, NEW w \in Pane, win' = [win EXCEPT ![t] = w]
  PROVE  /\ win' \in [Tablets -> Pane]
         /\ \A u \in Tablets : u # t => win'[u] = win[u]
         /\ win'[t] = w
         /\ \A u \in Tablets \ live : win'[u] = win[u]
BY DEF TypeOK, Pane

\* The types of a step that only draws and walks.
LEMMA WalkTypes ==
  ASSUME TypeOK, UNCHANGED <<ring, reel, dir, lines>>,
         win' \in [Tablets -> Pane], allVisible' \in BOOLEAN,
         pc' \in Busy \cup {"idle", "destroy"},
         {working', otherend', doomed'} \subseteq Tablets \cup {NULL},
         passes' \in Seq({"up", "down"})
  PROVE  TypeOK'
BY DEF TypeOK, ring, Pane, Busy

LEMMA ReturnTypes ==
  ASSUME TypeOK, Return
  PROVE  /\ pc' \in Busy \cup {"idle", "destroy"}
         /\ {working', otherend', doomed'} \subseteq Tablets \cup {NULL}
         /\ passes' \in Seq({"up", "down"})
BY DEF TypeOK, Return

\* The links of a live tablet.
LEMMA LiveLinks ==
  ASSUME TypeOK, RingOK, pc # "crashed", NEW t \in live
  PROVE  /\ t \in Tablets
         /\ next[t] \in live /\ prev[t] \in live
         /\ next[t] \in Tablets /\ prev[t] \in Tablets
         /\ win[t] \in Pane /\ win[next[t]] \in Pane /\ win[prev[t]] \in Pane
<1>1. next[t] \in live /\ prev[t] \in live
  BY DEF RingOK, LinksInverse
<1> QED
  BY <1>1 DEF TypeOK, Pane

LEMMA ArrangeInv ==
  ASSUME Inv, Arrange
  PROVE  Inv'
<1> USE DEF Inv
<1>1. pc = "redraw" /\ UNCHANGED <<ring, view, lines>>
  BY DEF Arrange
<1>2. RingOK' /\ CountOffset'
  BY <1>1, RingFrame DEF view
<1>3. AllVisiblePanels'
  BY <1>1 DEF AllVisiblePanels, Shown, view, ring
<1>4. CASE focus = NULL /\ Return
  <2>1. TypeOK'
    BY <1>1, <1>4, ReturnTypes, WalkTypes DEF view, TypeOK, Pane
  <2>2. WalksOnLive'
    BY <1>1, <1>4, ReturnWalks
  <2> QED
    BY <1>2, <1>3, <2>1, <2>2
<1>5. CASE /\ focus # NULL
           /\ pc' = IF allVisible THEN "topmost" ELSE "focused"
           /\ working' = focus
           /\ UNCHANGED <<otherend, passes, doomed>>
  <2>1. focus \in live
    BY <1>1, <1>5 DEF RingOK, FocusInRing
  <2>2. TypeOK'
    BY <1>1, <1>5, WalkTypes DEF view, TypeOK, Pane, Busy
  <2>3. WalksOnLive'
    BY <1>1, <1>5, <2>1 DEF WalksOnLive, view, ring
  <2> QED
    BY <1>2, <1>3, <2>2, <2>3
<1> QED
  BY <1>4, <1>5 DEF Arrange

LEMMA FindTopmostInv ==
  ASSUME Inv, FindTopmost
  PROVE  Inv'
<1> USE DEF Inv
<1>1. pc = "topmost" /\ working \in live /\ focus \in live
  BY DEF FindTopmost, WalksOnLive
<1>2. working' \in live /\ working' \in Tablets
  BY <1>1, LiveLinks DEF FindTopmost
<1>3. UNCHANGED <<ring, view, lines, pc, otherend, passes, doomed>>
  BY DEF FindTopmost
<1>4. RingOK' /\ CountOffset'
  BY <1>1, <1>3, RingFrame DEF view
<1>5. AllVisiblePanels'
  BY <1>3 DEF AllVisiblePanels, Shown, view, ring
<1>6. TypeOK'
  BY <1>1, <1>2, <1>3, WalkTypes DEF view, TypeOK, Pane, Busy
<1>7. WalksOnLive'
  BY <1>1, <1>2, <1>3 DEF WalksOnLive, ring, view
<1> QED
  BY <1>4, <1>5, <1>6, <1>7

LEMMA BeginDenormalizedInv ==
  ASSUME Inv, BeginDenormalized
  PROVE  Inv'
<1> USE DEF Inv
<1>1. pc = "topmost" /\ working \in live /\ focus \in live
  BY DEF BeginDenormalized, WalksOnLive
<1>2. working' \in {working, next[working], prev[working]} /\ otherend' = working'
  BY DEF BeginDenormalized
<1>3. working' \in live /\ working' \in Tablets
  BY <1>1, <1>2, LiveLinks
<1>4. UNCHANGED <<ring, view, lines, passes, doomed>> /\ pc' = "denormalized"
  BY DEF BeginDenormalized
<1>5. RingOK' /\ CountOffset'
  BY <1>1, <1>4, RingFrame DEF view
<1>6. AllVisiblePanels'
  BY <1>4 DEF AllVisiblePanels, Shown, view, ring
<1>7. TypeOK'
  BY <1>2, <1>3, <1>4, WalkTypes DEF view, TypeOK, Pane, Busy
<1>8. WalksOnLive'
  BY <1>1, <1>2, <1>3, <1>4 DEF WalksOnLive, ring, view
<1> QED
  BY <1>5, <1>6, <1>7, <1>8

\* A tablet that loses its window ends the denormalized layout for good.
LEMMA DenormalizedInv ==
  ASSUME Inv, Denormalized
  PROVE  Inv'
<1> USE DEF Inv
<1>1. pc = "denormalized" /\ {focus, working, otherend} \subseteq live
  BY DEF Denormalized, WalksOnLive
<1>2. DenormalizedFrontier \in Int
  <2>1. Top \in Int
    BY ColumnTypes
  <2>2. getmaxy(win[prev[working]]) \in Int /\ getbegy(win[prev[working]]) \in Int
    BY <1>1, LiveLinks, CoordinateTypes
  <2> QED
    BY <2>1, <2>2 DEF DenormalizedFrontier
<1>3. PICK oom \in Oom :
       LET d == DrawTablet(working, DenormalizedFrontier,
                           IF working = focus THEN 0 ELSE 1, oom)
           failed == d.win = NULL \/ d.broken
       IN /\ win' = [win EXCEPT ![working] = d.win]
          /\ allVisible' = (allVisible /\ ~failed)
          /\ IF failed \/ next[working] = otherend
             THEN Return
             ELSE /\ working' = next[working]
                  /\ UNCHANGED <<pc, otherend, passes, doomed>>
  BY DEF Denormalized
<1> DEFINE d == DrawTablet(working, DenormalizedFrontier,
                           IF working = focus THEN 0 ELSE 1, oom)
           failed == d.win = NULL \/ d.broken
<1>4. UNCHANGED <<ring, reel, dir, lines>>
  BY DEF Denormalized
<1>5. d.win \in Pane
  <2>1. oom \in BOOLEAN
    BY OomType
  <2>2. working \in Tablets
    BY <1>1, LiveLinks
  <2> QED
    BY <1>2, <2>1, <2>2, DrawTypes
<1> HIDE DEF d
<1>6. /\ win' = [win EXCEPT ![working] = d.win]
      /\ allVisible' = (allVisible /\ ~failed)
      /\ \/ Return
         \/ working' = next[working] /\ UNCHANGED <<pc, otherend, passes, doomed>>
  BY <1>3 DEF d
<1>7. /\ win' \in [Tablets -> Pane]
      /\ \A u \in Tablets : u # working => win'[u] = win[u]
      /\ win'[working] = d.win
      /\ \A u \in Tablets \ live : win'[u] = win[u]
  BY <1>1, <1>5, <1>6, DrawOne
<1>8. RingOK' /\ CountOffset'
  BY <1>1, <1>4, <1>7, RingFrame
<1>9. AllVisiblePanels'
  <2> SUFFICES ASSUME allVisible', NEW t \in live PROVE win'[t] # NULL
    BY <1>4 DEF AllVisiblePanels, Shown, ring
  <2>1. allVisible /\ d.win # NULL
    BY <1>6
  <2>2. win[t] # NULL
    BY <2>1 DEF AllVisiblePanels, Shown
  <2> QED
    BY <1>7, <2>1, <2>2 DEF TypeOK
<1>10. allVisible' \in BOOLEAN
  BY <1>6
<1>11. CASE Return
  <2>1. TypeOK'
    BY <1>4, <1>7, <1>10, <1>11, ReturnTypes, WalkTypes
  <2>2. WalksOnLive'
    BY <1>1, <1>4, <1>11, ReturnWalks
  <2> QED
    BY <1>8, <1>9, <2>1, <2>2
<1>12. CASE working' = next[working] /\ UNCHANGED <<pc, otherend, passes, doomed>>
  <2>1. working' \in live /\ working' \in Tablets
    BY <1>1, <1>12, LiveLinks
  <2>2. TypeOK'
    BY <1>1, <1>4, <1>7, <1>10, <1>12, <2>1, WalkTypes DEF TypeOK, Busy
  <2>3. WalksOnLive'
    BY <1>1, <1>4, <1>12, <2>1 DEF WalksOnLive, ring
  <2> QED
    BY <1>8, <1>9, <2>2, <2>3
<1> QED
  BY <1>6, <1>11, <1>12

LEMMA DrawFocusedInv ==
  ASSUME Inv, DrawFocused
  PROVE  Inv'
<1> USE DEF Inv
<1>1. pc = "focused" /\ focus \in live /\ focus \in Tablets /\ ~allVisible
  BY DEF DrawFocused, WalksOnLive, TypeOK
<1>2. Fulcrum \in Int
  <2>1. getbegy(win[focus]) \in Int
    BY <1>1, LiveLinks, CoordinateTypes
  <2>2. reel.y \in Int /\ reel.h \in Int
    BY DEF TypeOK, Window
  <2>3. reel.h + reel.y - ReelBorder("bottom") \in Int /\ Top \in Int
    BY <2>2, BorderTypes DEF Top
  <2> QED
    BY <2>1, <2>2, <2>3 DEF Fulcrum
<1>3. PICK oom \in Oom :
        win' = [win EXCEPT ![focus] = DrawTablet(focus, Fulcrum, 0, oom).win]
  BY DEF DrawFocused
<1>4. DrawTablet(focus, Fulcrum, 0, oom).win \in Pane
  BY <1>1, <1>2, <1>3, DrawTypes, OomType
<1>5. /\ win' \in [Tablets -> Pane]
      /\ \A u \in Tablets \ live : win'[u] = win[u]
  BY <1>1, <1>3, <1>4, DrawOne
<1>6. UNCHANGED <<ring, reel, allVisible, dir, lines, doomed>>
  BY DEF DrawFocused
<1>7. /\ pc' = "pass" /\ working' = focus /\ otherend' = focus
      /\ passes' \in {<<"up", "down", "up">>, <<"down", "up", "down">>}
  BY DEF DrawFocused
<1>8. passes' \in Seq({"up", "down"}) /\ passes' # <<>>
  <2>1. CASE passes' = <<"up", "down", "up">>
    BY <2>1
  <2>2. CASE passes' = <<"down", "up", "down">>
    BY <2>2
  <2> QED
    BY <1>7, <2>1, <2>2
<1>9. RingOK' /\ CountOffset'
  BY <1>1, <1>5, <1>6, RingFrame
<1>10. TypeOK'
  BY <1>1, <1>5, <1>6, <1>7, <1>8, WalkTypes DEF TypeOK, Busy
<1>11. AllVisiblePanels'
  BY <1>1, <1>6 DEF AllVisiblePanels
<1>12. WalksOnLive'
  BY <1>1, <1>6, <1>7, <1>8 DEF WalksOnLive, ring
<1> QED
  BY <1>9, <1>10, <1>11, <1>12

\* What is left of several passes is a pass.
LEMMA TailOfPasses ==
  ASSUME NEW S, NEW s \in Seq(S), s # <<>>, Len(s) # 1
  PROVE  Tail(s) \in Seq(S) /\ Tail(s) # <<>>
<1> DEFINE m == Len(s)
           n == Len(Tail(s))
<1>1. n = m - 1
  BY HeadTailProperties
<1>2. Tail(s) \in Seq(S)
  BY HeadTailProperties
<1>3. m \in Nat
  BY LenProperties
<1>4. Tail(s) = <<>> => n = 0
  BY EmptySeq
<1>5. m # 1
  OBVIOUS
<1> HIDE DEF m, n
<1>6. n # 0
  BY <1>1, <1>3, <1>5
<1> QED
  BY <1>2, <1>4, <1>6

\* The end of a pass at a live tablet: another one begins at the focus, or the
\* redraw returns.
LEMMA EndPassWalks ==
  ASSUME Inv, pc = "pass", NEW t \in live, EndPass(t), UNCHANGED <<ring, allVisible>>
  PROVE  /\ WalksOnLive'
         /\ pc' \in Busy \cup {"idle", "destroy"}
         /\ {working', otherend', doomed'} \subseteq Tablets \cup {NULL}
         /\ passes' \in Seq({"up", "down"})
<1> USE DEF Inv
<1>1. CASE Return
  BY <1>1, ReturnTypes, ReturnWalks
<1>2. CASE /\ Len(passes) # 1
           /\ passes' = Tail(passes) /\ working' = focus /\ otherend' = t
           /\ UNCHANGED <<pc, doomed>>
  <2>1. passes \in Seq({"up", "down"}) /\ passes # <<>>
    BY DEF TypeOK, WalksOnLive
  <2>2. passes' \in Seq({"up", "down"}) /\ passes' # <<>>
    BY <1>2, <2>1, TailOfPasses
  <2>3. focus \in live /\ ~allVisible
    BY DEF WalksOnLive
  <2>4. WalksOnLive'
    BY <1>2, <2>2, <2>3 DEF WalksOnLive, ring
  <2>5. {working', otherend', doomed'} \subseteq Tablets \cup {NULL}
    BY <1>2, <2>3 DEF TypeOK
  <2> QED
    BY <1>2, <2>2, <2>4, <2>5 DEF Busy
<1> QED
  BY <1>1, <1>2 DEF EndPass

\* A pass either ends at a live tablet, or draws one and goes on from it.
LEMMA PassInv ==
  ASSUME Inv, pc = "pass", UNCHANGED <<ring, reel, allVisible, dir, lines>>,
         NEW t \in live, NEW e \in live, NEW w \in Pane,
         \/ win' = win
         \/ win' = [win EXCEPT ![t] = w],
         \/ EndPass(e)
         \/ /\ working' = t /\ otherend' \in live
            /\ UNCHANGED <<pc, passes, doomed>>
  PROVE  Inv'
<1> USE DEF Inv
<1>1. /\ win' \in [Tablets -> Pane]
      /\ \A u \in Tablets \ live : win'[u] = win[u]
  <2>1. CASE win' = win
    BY <2>1 DEF TypeOK, Pane
  <2>2. CASE win' = [win EXCEPT ![t] = w]
    BY <2>2, DrawOne
  <2> QED
    BY <2>1, <2>2
<1>2. RingOK' /\ CountOffset'
  BY <1>1, RingFrame
<1>3. ~allVisible /\ focus \in live
  BY DEF WalksOnLive
<1>4. AllVisiblePanels'
  BY <1>3 DEF AllVisiblePanels
<1>5. CASE EndPass(e)
  <2>1. WalksOnLive'
    BY <1>5, EndPassWalks
  <2>2. TypeOK'
    BY <1>1, <1>5, EndPassWalks, WalkTypes DEF TypeOK
  <2> QED
    BY <1>2, <1>4, <2>1, <2>2
<1>6. CASE /\ working' = t /\ otherend' \in live
           /\ UNCHANGED <<pc, passes, doomed>>
  <2>1. WalksOnLive'
    BY <1>3, <1>6 DEF WalksOnLive, ring
  <2>2. TypeOK'
    BY <1>1, <1>6, WalkTypes DEF TypeOK, Busy
  <2> QED
    BY <1>2, <1>4, <2>1, <2>2
<1> QED
  BY <1>5, <1>6

LEMMA DrawFollowingInv ==
  ASSUME Inv, DrawFollowing
  PROVE  Inv'
<1> USE DEF Inv
<1> DEFINE t == next[working]
           frontier == getbegy(win[working]) + getmaxy(win[working]) + 1
<1>1. pc = "pass" /\ working \in live /\ otherend \in live
  BY DEF DrawFollowing, WalksOnLive
<1>2. t \in live /\ t \in Tablets /\ next[t] \in live
  BY <1>1, LiveLinks
<1>3. frontier \in Int
  BY <1>1, LiveLinks, CoordinateTypes
<1>4. UNCHANGED <<ring, reel, allVisible, dir, lines>>
  BY DEF DrawFollowing
<1>5. \A oom \in Oom : DrawTablet(t, frontier, 1, oom).win \in Pane
  <2> HIDE DEF t, frontier
  <2> QED
    BY <1>2, <1>3, DrawTypes, OomType
<1>6. CASE EndPass(t) /\ UNCHANGED win
  <2>1. NULL \in Pane
    BY DEF Pane
  <2> QED
    BY <1>1, <1>2, <1>4, <1>6, <2>1, PassInv
<1>7. CASE \E oom \in Oom :
             LET w == DrawTablet(t, frontier, 1, oom).win
             IN /\ win' = [win EXCEPT ![t] = w]
                /\ IF w = NULL THEN EndPass(t)
                   ELSE /\ working' = t
                        /\ otherend' = IF t = otherend THEN next[t] ELSE otherend
                        /\ UNCHANGED <<pc, passes, doomed>>
  <2>1. PICK w \in Pane :
             /\ win' = [win EXCEPT ![t] = w]
             /\ \/ EndPass(t)
                \/ /\ working' = t /\ otherend' \in live
                   /\ UNCHANGED <<pc, passes, doomed>>
    BY <1>1, <1>2, <1>5, <1>7
  <2> HIDE DEF t
  <2> QED
    BY <1>1, <1>2, <1>4, <2>1, PassInv
<1> QED
  BY <1>6, <1>7 DEF DrawFollowing

LEMMA DrawPreviousInv ==
  ASSUME Inv, DrawPrevious
  PROVE  Inv'
<1> USE DEF Inv
<1> DEFINE t == prev[working]
           frontier == getbegy(win[working]) - 2
<1>1. pc = "pass" /\ working \in live /\ otherend \in live
  BY DEF DrawPrevious, WalksOnLive
<1>2. t \in live /\ t \in Tablets /\ prev[t] \in live
  BY <1>1, LiveLinks
<1>3. frontier \in Int
  BY <1>1, LiveLinks, CoordinateTypes
<1>4. UNCHANGED <<ring, reel, allVisible, dir, lines>>
  BY DEF DrawPrevious
<1>5. \A oom \in Oom : DrawTablet(t, frontier, -1, oom).win \in Pane
  <2> HIDE DEF t, frontier
  <2> QED
    BY <1>2, <1>3, DrawTypes, OomType
<1>6. CASE EndPass(working) /\ UNCHANGED win
  <2>1. NULL \in Pane
    BY DEF Pane
  <2> QED
    BY <1>1, <1>2, <1>4, <1>6, <2>1, PassInv
<1>7. CASE \E oom \in Oom :
             LET w == DrawTablet(t, frontier, -1, oom).win
             IN /\ win' = [win EXCEPT ![t] = w]
                /\ IF w = NULL THEN EndPass(t)
                   ELSE /\ working' = t
                        /\ otherend' = IF t = otherend THEN prev[t] ELSE otherend
                        /\ UNCHANGED <<pc, passes, doomed>>
  <2>1. PICK w \in Pane :
             /\ win' = [win EXCEPT ![t] = w]
             /\ \/ EndPass(t)
                \/ /\ working' = t /\ otherend' \in live
                   /\ UNCHANGED <<pc, passes, doomed>>
    BY <1>1, <1>2, <1>5, <1>7
  <2> HIDE DEF t
  <2> QED
    BY <1>1, <1>2, <1>4, <2>1, PassInv
<1> QED
  BY <1>6, <1>7 DEF DrawPrevious

\* No step of a redraw breaks the invariant.
LEMMA RedrawInv ==
  ASSUME Inv, RedrawStep
  PROVE  Inv'
BY ArrangeInv, FindTopmostInv, BeginDenormalizedInv, DenormalizedInv, DrawFocusedInv,
   DrawFollowingInv, DrawPreviousInv DEF RedrawStep

----------------------------------------------------------------------------
(* The ring under insertion and deletion *)

\* A tablet linked in between a tablet and the next one extends the ring: were
\* a part of the new ring closed, so would be what it has of the old one.
LEMMA InsertKeepsRing ==
  ASSUME next \in [Tablets -> Tablets \cup {NULL}], prev \in [Tablets -> Tablets \cup {NULL}],
         live \subseteq Tablets, LinksInverse, OneRing,
         NEW t \in Tablets \ live, NEW p \in live, NEW n \in live,
         next[p] = n, prev[n] = p, Insert(t, p, n), live' = live \cup {t}
  PROVE  /\ LinksInverse' /\ OneRing'
         /\ next' \in [Tablets -> Tablets \cup {NULL}]
         /\ prev' \in [Tablets -> Tablets \cup {NULL}]
         /\ \A u \in Tablets \ live' : next'[u] = next[u] /\ prev'[u] = prev[u]
<1>1. /\ next' = [next EXCEPT ![t] = n, ![p] = t]
      /\ prev' = [prev EXCEPT ![t] = p, ![n] = t]
  BY DEF Insert
<1>2. t # p /\ t # n /\ p \in Tablets /\ n \in Tablets
  OBVIOUS
<1>3. /\ next' \in [Tablets -> Tablets \cup {NULL}]
      /\ prev' \in [Tablets -> Tablets \cup {NULL}]
  BY <1>1, <1>2
<1>4. /\ next'[t] = n /\ next'[p] = t
      /\ \A u \in Tablets : u # t /\ u # p => next'[u] = next[u]
  BY <1>1, <1>2
<1>5. /\ prev'[t] = p /\ prev'[n] = t
      /\ \A u \in Tablets : u # t /\ u # n => prev'[u] = prev[u]
  BY <1>1, <1>2
<1>6. LinksInverse'
  <2> SUFFICES ASSUME NEW u \in live'
               PROVE  /\ next'[u] \in live' /\ prev'[u] \in live'
                      /\ prev'[next'[u]] = u /\ next'[prev'[u]] = u
    BY DEF LinksInverse
  <2>1. u # t => /\ next[u] \in live /\ prev[u] \in live
                 /\ prev[next[u]] = u /\ next[prev[u]] = u
    BY DEF LinksInverse
  <2>2. next'[u] \in live' /\ prev'[next'[u]] = u
    BY <1>2, <1>4, <1>5, <2>1
  <2>3. prev'[u] \in live' /\ next'[prev'[u]] = u
    BY <1>2, <1>4, <1>5, <2>1
  <2> QED
    BY <2>2, <2>3
<1>7. OneRing'
  <2> SUFFICES ASSUME NEW S \in SUBSET live', S # {}, \A u \in S : next'[u] \in S
               PROVE  S = live'
    BY DEF OneRing
  <2> DEFINE R == S \ {t}
  <2>1. R # {}
    <3>1. SUFFICES ASSUME R = {} PROVE FALSE
      OBVIOUS
    <3>2. t \in S
      BY <3>1
    <3> QED
      BY <1>2, <1>4, <3>1, <3>2
  <2>2. \A u \in R : next[u] \in R
    <3> TAKE u \in R
    <3>1. next[u] \in live
      BY DEF LinksInverse
    <3>2. CASE u = p
      <4>1. t \in S
        BY <1>4, <3>2
      <4> QED
        BY <1>2, <1>4, <3>2, <4>1
    <3>3. CASE u # p
      BY <1>4, <3>1, <3>3
    <3> QED
      BY <3>2, <3>3
  <2>3. R = live
    BY <2>1, <2>2 DEF OneRing
  <2>4. t \in S
    BY <1>4, <2>3
  <2> QED
    BY <2>3, <2>4
<1>8. \A u \in Tablets \ live' : next'[u] = next[u] /\ prev'[u] = prev[u]
  BY <1>4, <1>5
<1> QED
  BY <1>3, <1>6, <1>7, <1>8

\* The first tablet is a ring of one.
LEMMA FirstMakesRing ==
  ASSUME next \in [Tablets -> Tablets \cup {NULL}], prev \in [Tablets -> Tablets \cup {NULL}],
         live = {}, NEW t \in Tablets, Insert(t, t, t), live' = live \cup {t}
  PROVE  /\ LinksInverse' /\ OneRing'
         /\ next' \in [Tablets -> Tablets \cup {NULL}]
         /\ prev' \in [Tablets -> Tablets \cup {NULL}]
         /\ \A u \in Tablets \ live' : next'[u] = next[u] /\ prev'[u] = prev[u]
<1>1. next'[t] = t /\ prev'[t] = t /\ live' = {t}
  BY DEF Insert
<1>2. /\ next' \in [Tablets -> Tablets \cup {NULL}]
      /\ prev' \in [Tablets -> Tablets \cup {NULL}]
      /\ \A u \in Tablets \ live' : next'[u] = next[u] /\ prev'[u] = prev[u]
  BY DEF Insert
<1>3. LinksInverse'
  BY <1>1 DEF LinksInverse
<1>4. OneRing'
  BY <1>1 DEF OneRing
<1> QED
  BY <1>2, <1>3, <1>4

\* A tablet is next to itself only if it is the only one.
LEMMA AloneInRing ==
  ASSUME OneRing, NEW t \in live, next[t] = t
  PROVE  live = {t}
<1>1. {t} \in SUBSET live /\ {t} # {} /\ \A u \in {t} : next[u] \in {t}
  OBVIOUS
<1> QED
  BY <1>1 DEF OneRing

\* What remains when a tablet is unlinked is one ring, entered at the tablet
\* after it if it had the focus: a closed part of it that the unlinked tablet
\* led to would be closed with it, and any other was closed before.
LEMMA DeleteKeepsRing ==
  ASSUME next \in [Tablets -> Tablets \cup {NULL}], prev \in [Tablets -> Tablets \cup {NULL}],
         live \subseteq Tablets, LinksInverse, OneRing, FocusInRing,
         NEW t \in live, live' = live \ {t},
         next' = [[next EXCEPT ![prev[t]] = next[t]] EXCEPT ![t] = NULL],
         prev' = [[prev EXCEPT ![next[t]] = prev[t]] EXCEPT ![t] = NULL],
         focus' = IF focus = t THEN (IF next[t] = t THEN NULL ELSE next[t]) ELSE focus
  PROVE  /\ LinksInverse' /\ OneRing' /\ FocusInRing'
         /\ next' \in [Tablets -> Tablets \cup {NULL}]
         /\ prev' \in [Tablets -> Tablets \cup {NULL}]
         /\ next'[t] = NULL /\ prev'[t] = NULL
         /\ \A u \in Tablets \ live : next'[u] = next[u] /\ prev'[u] = prev[u]
<1> DEFINE p == prev[t]
           n == next[t]
<1>1. p \in live /\ n \in live /\ next[p] = t /\ prev[n] = t
  BY DEF LinksInverse
<1>2. p \in Tablets /\ n \in Tablets /\ t \in Tablets
  BY <1>1
<1>3. /\ next' \in [Tablets -> Tablets \cup {NULL}]
      /\ prev' \in [Tablets -> Tablets \cup {NULL}]
      /\ next'[t] = NULL /\ prev'[t] = NULL
  BY <1>2
<1>4. p # t => next'[p] = n
  BY <1>2
<1>5. n # t => prev'[n] = p
  BY <1>2
<1>6. /\ \A u \in Tablets : u # t /\ u # p => next'[u] = next[u]
      /\ \A u \in Tablets : u # t /\ u # n => prev'[u] = prev[u]
  OBVIOUS
<1>7. p = t <=> n = t
  BY <1>1
<1> HIDE DEF p, n
<1>8. n = t => live' = {}
  BY AloneInRing DEF n
<1>9. LinksInverse'
  <2> SUFFICES ASSUME NEW u \in live'
               PROVE  /\ next'[u] \in live' /\ prev'[u] \in live'
                      /\ prev'[next'[u]] = u /\ next'[prev'[u]] = u
    BY DEF LinksInverse
  <2>1. u \in live /\ u # t /\ u \in Tablets /\ n # t /\ p # t
    BY <1>7, <1>8
  <2>2. /\ next[u] \in live /\ prev[u] \in live
        /\ prev[next[u]] = u /\ next[prev[u]] = u
    BY <2>1 DEF LinksInverse
  <2>3. CASE u = p
    <3>1. next'[u] = n /\ prev'[n] = u
      BY <1>4, <1>5, <2>1, <2>3
    <3> QED
      <4>1. CASE u = n
        BY <1>1, <1>4, <1>5, <2>1, <2>3, <3>1, <4>1
      <4>2. CASE u # n
        <5>1. prev'[u] = prev[u]
          BY <1>6, <2>1, <4>2
        <5>2. prev[u] # t
          BY <1>1, <2>1, <2>2, <4>2 DEF n
        <5>3. prev[u] # p
          BY <1>1, <2>1, <2>2, <2>3
        <5>4. next'[prev[u]] = u
          BY <1>6, <2>2, <5>2, <5>3
        <5> QED
          BY <1>1, <2>1, <2>2, <3>1, <5>1, <5>2, <5>4
      <4> QED
        BY <4>1, <4>2
  <2>4. CASE u # p
    <3>1. next'[u] = next[u] /\ next[u] # t
      BY <1>6, <2>1, <2>2, <2>4 DEF p
    <3>2. next[u] # n
      BY <1>1, <2>1, <2>2
    <3>3. prev'[next[u]] = u
      BY <1>6, <2>2, <3>1, <3>2
    <3>4. CASE u = n
      <4>1. prev'[u] = p /\ next'[p] = u
        BY <1>4, <1>5, <2>1, <3>4
      <4> QED
        BY <1>1, <2>1, <2>2, <3>1, <3>3, <4>1
    <3>5. CASE u # n
      <4>1. prev'[u] = prev[u] /\ prev[u] # t
        BY <1>6, <2>1, <2>2, <3>5 DEF n
      <4>2. prev[u] # p
        BY <1>1, <2>1, <2>2
      <4>3. next'[prev[u]] = u
        BY <1>6, <2>2, <4>1, <4>2
      <4> QED
        BY <2>1, <2>2, <3>1, <3>3, <4>1, <4>3
    <3> QED
      BY <3>4, <3>5
  <2> QED
    BY <2>3, <2>4
<1>10. OneRing'
  <2> SUFFICES ASSUME NEW S \in SUBSET live', S # {}, \A u \in S : next'[u] \in S
               PROVE  S = live'
    BY DEF OneRing
  <2>1. n # t /\ p # t
    BY <1>7, <1>8
  <2>2. CASE p \in S
    <3> DEFINE R == S \cup {t}
    <3>1. \A u \in R : next[u] \in R
      <4> TAKE u \in R
      <4>1. CASE u = t
        BY <1>4, <2>1, <2>2, <4>1 DEF n
      <4>2. CASE u = p
        BY <1>1, <4>2
      <4>3. CASE u # t /\ u # p
        BY <1>6, <4>3
      <4> QED
        BY <4>1, <4>2, <4>3
    <3>2. R \in SUBSET live /\ R # {}
      OBVIOUS
    <3>3. R = live
      BY <3>1, <3>2 DEF OneRing
    <3> QED
      BY <3>3
  <2>3. CASE p \notin S
    <3>1. \A u \in S : next[u] \in S
      BY <1>6, <2>3
    <3>2. S \in SUBSET live
      OBVIOUS
    <3>3. S = live
      BY <3>1, <3>2 DEF OneRing
    <3> QED
      BY <3>3
  <2> QED
    BY <2>2, <2>3
<1>11. FocusInRing'
  <2>1. CASE n = t
    BY <1>8, <2>1, AloneInRing DEF FocusInRing, n
  <2>2. CASE n # t
    BY <1>1, <2>2 DEF FocusInRing, n
  <2> QED
    BY <2>1, <2>2
<1>12. \A u \in Tablets \ live : next'[u] = next[u] /\ prev'[u] = prev[u]
  BY <1>1, <1>6
<1> QED
  BY <1>3, <1>9, <1>10, <1>11, <1>12

----------------------------------------------------------------------------
(* The API *)

\* There are finitely many tablets.
LEMMA LiveFinite ==
  ASSUME TypeOK
  PROVE  /\ IsFiniteSet(live) /\ IsFiniteSet(foreign)
         /\ Cardinality(live) \in Int /\ Cardinality(foreign) \in Int
         /\ Cardinality(Foreign) \in Int
<1>1. IsFiniteSet(live) /\ IsFiniteSet(foreign) /\ IsFiniteSet(Foreign)
  BY ReelAssumption, FS_Subset DEF TypeOK
<1> QED
  BY <1>1, FS_CardinalityType

\* A new tablet gets a window or none.
LEMMA FirstWindowType ==
  ASSUME TypeOK, NEW t \in Tablets, NEW oom \in BOOLEAN, prev'[t] \in Tablets
  PROVE  FirstWindow(t, oom) \in Pane
<1> DEFINE p == prev'[t]
           frontier == IF p = t THEN Top ELSE getbegy(win[p]) + getmaxy(win[p]) + 2
           c == TabletColumns(frontier, 1)
<1>1. win[p] \in Pane
  BY DEF TypeOK, Pane
<1>2. frontier \in Int
  BY <1>1, CoordinateTypes, ColumnTypes
<1> HIDE DEF frontier
<1>3. c.y \in Int /\ c.x \in Int /\ c.h \in Int /\ TabletW \in Int
  BY <1>2, ColumnTypes
<1>4. FirstWindow(t, oom) =
        IF c.ok /\ ~oom THEN newwin(IF p = t THEN c.h ELSE 2, TabletW, c.y, c.x) ELSE NULL
  BY DEF FirstWindow, frontier
<1> HIDE DEF c
<1>5. newwin(IF p = t THEN c.h ELSE 2, TabletW, c.y, c.x) \in Pane
  BY <1>3, NewwinType
<1> QED
  BY <1>4, <1>5 DEF Pane

LEMMA AddInv ==
  ASSUME Inv, NEW t \in Tablets \ live, NEW after \in live \cup {NULL},
         NEW before \in live \cup {NULL}, Add(t, after, before)
  PROVE  Inv'
<1> USE DEF Inv
<1>1. /\ pc = "idle" /\ pc' = "redraw"
      /\ live' = live \cup {t} /\ count' = count + 1
      /\ focus' = IF focus = NULL THEN t ELSE focus
      /\ UNCHANGED <<foreign, reel, dir, working, otherend, passes, doomed>>
  BY DEF Add
<1>2. LinksInverse /\ OneRing /\ FocusInRing
  BY <1>1 DEF RingOK
<1>3. NULL \notin Tablets /\ live \subseteq Tablets
  BY ReelAssumption DEF TypeOK
<1>4. /\ LinksInverse' /\ OneRing'
      /\ next' \in [Tablets -> Tablets \cup {NULL}]
      /\ prev' \in [Tablets -> Tablets \cup {NULL}]
      /\ \A u \in Tablets \ live' : next'[u] = next[u] /\ prev'[u] = prev[u]
  <2> USE DEF TypeOK
  <2>1. CASE after # NULL
    <3>1. Insert(t, after, next[after])
      BY <2>1 DEF Add
    <3>2. next[after] \in live /\ prev[next[after]] = after
      BY <1>2, <2>1 DEF LinksInverse
    <3> QED
      BY <1>1, <1>2, <2>1, <3>1, <3>2, InsertKeepsRing
  <2>2. CASE after = NULL /\ before # NULL
    <3>1. Insert(t, prev[before], before)
      BY <2>2 DEF Add
    <3>2. prev[before] \in live /\ next[prev[before]] = before
      BY <1>2, <2>2 DEF LinksInverse
    <3> QED
      BY <1>1, <1>2, <2>2, <3>1, <3>2, InsertKeepsRing
  <2>3. CASE after = NULL /\ before = NULL /\ focus # NULL
    <3>1. Insert(t, prev[focus], focus)
      BY <2>3 DEF Add
    <3>2. focus \in live
      BY <1>2, <2>3 DEF FocusInRing
    <3>3. prev[focus] \in live /\ next[prev[focus]] = focus
      BY <1>2, <3>2 DEF LinksInverse
    <3> QED
      BY <1>1, <1>2, <3>1, <3>2, <3>3, InsertKeepsRing
  <2>4. CASE after = NULL /\ before = NULL /\ focus = NULL
    <3>1. Insert(t, t, t)
      BY <2>4 DEF Add
    <3>2. live = {}
      BY <1>2, <1>3, <2>4 DEF FocusInRing
    <3> QED
      BY <1>1, <3>1, <3>2, FirstMakesRing
  <2> QED
    BY <2>1, <2>2, <2>3, <2>4
<1>5. FocusInRing'
  BY <1>1, <1>2, <1>3 DEF FocusInRing
<1>6. PICK oom \in Oom : InsertNewPanel(t, oom)
  BY DEF Add
<1>7. FirstWindow(t, oom) \in Pane
  <2>1. prev'[t] \in Tablets
    BY <1>1, <1>3, <1>4 DEF LinksInverse
  <2> QED
    BY <2>1, OomType, FirstWindowType
<1>8. /\ win' = [win EXCEPT ![t] = IF allVisible THEN FirstWindow(t, oom) ELSE NULL]
      /\ allVisible' = (allVisible /\ FirstWindow(t, oom) # NULL)
  BY <1>6 DEF InsertNewPanel
<1>9. /\ win' \in [Tablets -> Pane]
      /\ \A u \in Tablets : u # t => win'[u] = win[u]
      /\ allVisible' => win'[t] # NULL
      /\ allVisible' \in BOOLEAN
  BY <1>7, <1>8 DEF TypeOK, Pane
<1>10. TypeOK'
  <2>1. lines' \in [Tablets -> Nat]
    BY ReelAssumption DEF Add, TypeOK
  <2> QED
    BY <1>1, <1>3, <1>4, <1>9, <2>1 DEF TypeOK, Pane
<1>11. RingOK'
  BY <1>1, <1>4, <1>5, <1>9 DEF RingOK
<1>12. CountOffset'
  <2>1. Cardinality(live \cup {t}) = Cardinality(live) + 1
    BY LiveFinite, FS_AddElement
  <2> QED
    BY <1>1, <2>1, LiveFinite DEF CountOffset
<1>13. AllVisiblePanels'
  BY <1>1, <1>8, <1>9 DEF AllVisiblePanels, Shown, TypeOK
<1>14. WalksOnLive'
  BY <1>1 DEF WalksOnLive
<1> QED
  BY <1>10, <1>11, <1>12, <1>13, <1>14

\* panelreel_del() of any live tablet, from the application or in the course
\* of panelreel_destroy(): the ring survives unless the process dies.
LEMMA DeleteInv ==
  ASSUME Inv, pc # "crashed", NEW t \in live,
         NEW nx, nx \in {next, [next EXCEPT ![prev[t]] = NULL]},
         Delete(t, nx),
         UNCHANGED <<foreign, reel, allVisible, dir, working, otherend, passes>>,
         doomed' \in {NULL, nx[t]}, doomed' # NULL => focus = t /\ nx # next
  PROVE  Inv'
<1> USE DEF Inv
<1> DEFINE n1 == [nx EXCEPT ![prev[t]] = nx[t]]
<1>1. LinksInverse /\ OneRing /\ FocusInRing
  BY DEF RingOK
<1>2. NULL \notin Tablets /\ live \subseteq Tablets /\ t \in Tablets
  BY ReelAssumption DEF TypeOK
<1>3. prev[t] \in live /\ next[t] \in live /\ (prev[t] = t <=> next[t] = t)
  BY <1>1 DEF LinksInverse
<1>4. nx \in [Tablets -> Tablets \cup {NULL}]
  BY <1>3 DEF TypeOK
<1>5. n1 \in [Tablets -> Tablets \cup {NULL}] /\ n1[t] = nx[t]
  BY <1>2, <1>3, <1>4
<1>6. focus' = IF focus = t THEN (IF n1[t] = t THEN NULL ELSE n1[t]) ELSE focus
  BY DEF Delete
<1>7. focus' \in Tablets \cup {NULL} /\ doomed' \in Tablets \cup {NULL}
  BY <1>2, <1>4, <1>5, <1>6 DEF TypeOK
<1>8. CASE n1[t] = NULL
  <2>1. /\ pc' = "crashed" /\ next' = n1
        /\ UNCHANGED <<live, prev, count, win, lines>>
    BY <1>8 DEF Delete
  <2>2. TypeOK'
    BY <1>5, <1>7, <2>1 DEF TypeOK
  <2>3. RingOK' /\ CountOffset' /\ WalksOnLive'
    BY <2>1 DEF RingOK, CountOffset, WalksOnLive
  <2>4. AllVisiblePanels'
    BY <2>1 DEF AllVisiblePanels, Shown
  <2> QED
    BY <2>2, <2>3, <2>4
<1>9. CASE n1[t] # NULL
  <2>1. n1 = [next EXCEPT ![prev[t]] = next[t]] /\ n1[t] = next[t]
    <3>1. CASE nx = next
      BY <1>5, <3>1
    <3>2. CASE nx = [next EXCEPT ![prev[t]] = NULL]
      <4>1. prev[t] # t
        BY <1>2, <1>5, <1>9, <3>2 DEF TypeOK
      <4>2. nx[t] = next[t]
        BY <1>2, <3>2, <4>1 DEF TypeOK
      <4> QED
        BY <1>2, <1>3, <1>5, <3>2, <4>2 DEF TypeOK
    <3> QED
      BY <3>1, <3>2
  <2>2. /\ next' = [n1 EXCEPT ![t] = NULL]
        /\ prev' = [[prev EXCEPT ![n1[t]] = prev[t]] EXCEPT ![t] = NULL]
        /\ Freed(t) /\ pc' = "redraw"
    BY <1>9 DEF Delete
  <2> HIDE DEF n1
  <2>3. /\ next' = [[next EXCEPT ![prev[t]] = next[t]] EXCEPT ![t] = NULL]
        /\ prev' = [[prev EXCEPT ![next[t]] = prev[t]] EXCEPT ![t] = NULL]
        /\ focus' = IF focus = t THEN (IF next[t] = t THEN NULL ELSE next[t]) ELSE focus
    BY <1>6, <2>1, <2>2
  <2>4. /\ win' = [win EXCEPT ![t] = NULL] /\ live' = live \ {t}
        /\ lines' = [lines EXCEPT ![t] = 0] /\ count' = count - 1
    BY <2>2 DEF Freed
  <2>5. /\ LinksInverse' /\ OneRing' /\ FocusInRing'
        /\ next' \in [Tablets -> Tablets \cup {NULL}]
        /\ prev' \in [Tablets -> Tablets \cup {NULL}]
        /\ next'[t] = NULL /\ prev'[t] = NULL
        /\ \A u \in Tablets \ live : next'[u] = next[u] /\ prev'[u] = prev[u]
    BY <1>1, <2>3, <2>4, DeleteKeepsRing DEF TypeOK
  <2>6. /\ win' \in [Tablets -> Window \cup {NULL}] /\ win'[t] = NULL
        /\ \A u \in Tablets : u # t => win'[u] = win[u]
    BY <1>2, <2>4 DEF TypeOK
  <2>7. TypeOK'
    <3>1. live' \subseteq Tablets /\ count' \in Int /\ lines' \in [Tablets -> Nat]
      BY <2>4 DEF TypeOK
    <3>2. foreign' \subseteq Foreign /\ reel' \in Window /\ allVisible' \in BOOLEAN
          /\ dir' \in {-1, 1} /\ {working', otherend'} \subseteq Tablets \cup {NULL}
          /\ passes' \in Seq({"up", "down"})
      BY DEF TypeOK
    <3>3. pc' = "redraw" /\ next' \in [Tablets -> Tablets \cup {NULL}]
          /\ prev' \in [Tablets -> Tablets \cup {NULL}]
          /\ win' \in [Tablets -> Window \cup {NULL}]
          /\ focus' \in Tablets \cup {NULL} /\ doomed' \in Tablets \cup {NULL}
      BY <1>7, <2>2, <2>5, <2>6
    <3> QED
      BY <3>1, <3>2, <3>3 DEF TypeOK
  <2>8. RingOK'
    BY <1>2, <2>4, <2>5, <2>6 DEF RingOK
  <2>9. CountOffset'
    <3>1. Cardinality(live \ {t}) = Cardinality(live) - 1
      BY LiveFinite, FS_RemoveElement
    <3> QED
      BY <2>4, <3>1, LiveFinite DEF CountOffset, TypeOK
  <2>10. AllVisiblePanels'
    BY <1>2, <2>4, <2>6 DEF AllVisiblePanels, Shown
  <2>11. WalksOnLive'
    <3>1. doomed' # NULL => doomed' = focus'
      <4>1. SUFFICES ASSUME doomed' # NULL PROVE doomed' = focus'
        OBVIOUS
      <4>2. doomed' = next[t] /\ focus = t /\ nx = [next EXCEPT ![prev[t]] = NULL]
        BY <1>5, <2>1, <4>1
      <4>3. prev[t] # t
        BY <1>2, <4>1, <4>2 DEF TypeOK
      <4> QED
        BY <1>3, <2>3, <4>2, <4>3
    <3> QED
      BY <2>2, <3>1 DEF WalksOnLive
  <2> QED
    BY <2>7, <2>8, <2>9, <2>10, <2>11
<1> QED
  BY <1>8, <1>9

LEMMA DelInv ==
  ASSUME Inv, NEW t \in live, Del(t)
  PROVE  Inv'
<1>1. pc # "crashed" /\ Delete(t, next)
      /\ UNCHANGED <<foreign, reel, allVisible, dir, working, otherend, passes>>
  BY DEF Del
<1>2. doomed' = NULL
  BY DEF Inv, WalksOnLive, Del
<1> QED
  BY <1>1, <1>2, DeleteInv

LEMMA DelForeignInv ==
  ASSUME Inv, DelForeign
  PROVE  Inv'
<1> USE DEF Inv
<1>1. /\ pc = "idle" /\ pc' = "redraw" /\ count' = count - 1
      /\ UNCHANGED <<live, next, prev, focus, win, reel, allVisible, dir, lines,
                     working, otherend, passes, doomed>>
  BY DEF DelForeign, view
<1>2. PICK f \in foreign : foreign' = foreign \ {f}
  BY DEF DelForeign
<1>3. TypeOK'
  BY <1>1, <1>2 DEF TypeOK
<1>4. RingOK'
  BY <1>1, RingFrame DEF RingOK, LinksInverse, OneRing, FocusInRing
<1>5. CountOffset'
  <2>1. Cardinality(foreign \ {f}) = Cardinality(foreign) - 1
    BY <1>2, LiveFinite, FS_RemoveElement
  <2> QED
    BY <1>1, <1>2, <2>1, LiveFinite DEF CountOffset, TypeOK
<1>6. AllVisiblePanels'
  BY <1>1 DEF AllVisiblePanels, Shown
<1>7. WalksOnLive'
  BY <1>1 DEF WalksOnLive
<1> QED
  BY <1>3, <1>4, <1>5, <1>6, <1>7

\* panelreel_next() and panelreel_prev().
LEMMA TravelInv ==
  ASSUME Inv, NEW d \in {-1, 1}, NEW link \in {next, prev}, Travel(d, link)
  PROVE  Inv'
<1> USE DEF Inv
<1>1. /\ pc = "idle" /\ pc' = "redraw"
      /\ UNCHANGED <<live, foreign, next, prev, count, win, reel, allVisible, lines,
                     working, otherend, passes, doomed>>
  BY DEF Travel
<1>2. (focus = NULL /\ UNCHANGED <<focus, dir>>) \/ (focus' = link[focus] /\ dir' = d /\ focus # NULL)
  BY DEF Travel
<1>3. FocusInRing'
  <2>1. CASE focus = NULL /\ UNCHANGED focus
    BY <1>1, <2>1 DEF RingOK, FocusInRing
  <2>2. CASE focus' = link[focus] /\ focus # NULL
    BY <1>1, <2>2 DEF RingOK, FocusInRing, LinksInverse
  <2> QED
    BY <1>2, <2>1, <2>2
<1>4. TypeOK'
  <2>1. dir' \in {-1, 1}
    BY <1>2 DEF TypeOK
  <2>2. focus' \in Tablets \cup {NULL}
    BY <1>1, <1>3, ReelAssumption DEF FocusInRing, TypeOK
  <2> QED
    BY <1>1, <2>1, <2>2 DEF TypeOK
<1>5. RingOK'
  BY <1>1, <1>3 DEF RingOK, LinksInverse, OneRing
<1>6. CountOffset' /\ AllVisiblePanels' /\ WalksOnLive'
  BY <1>1 DEF CountOffset, AllVisiblePanels, WalksOnLive, Shown
<1> QED
  BY <1>4, <1>5, <1>6

\* panelreel_move() moves windows: none appears or goes.
LEMMA MoveInv ==
  ASSUME Inv, NEW y \in Int, NEW x \in Int, Move(y, x)
  PROVE  Inv'
<1> USE DEF Inv
<1>1. /\ pc = "idle" /\ pc' = "redraw" /\ reel' = move_panel(reel, y, x)
      /\ UNCHANGED <<live, foreign, next, prev, focus, count, allVisible, dir, lines,
                     working, otherend, passes, doomed>>
  BY DEF Move, ring
<1>2. reel \in Window /\ reel' \in Window
  BY <1>1, WindowTypes DEF TypeOK
<1> DEFINE by(w) == move_panel(w, w.y + y - reel.y, w.x + x - reel.x)
<1>3. \A w \in Window : by(w) \in Window /\ by(w) # NULL
  <2> TAKE w \in Window
  <2>1. w.y + y - reel.y \in Int /\ w.x + x - reel.x \in Int
    BY <1>2, WindowTypes DEF Window
  <2> QED
    BY <2>1, WindowTypes
<1>4. win' = IF ~Movable(reel, y, x) \/ focus = NULL THEN win
             ELSE [t \in Tablets |-> IF t \in Visited /\ Shown(t) THEN by(win[t]) ELSE win[t]]
  BY DEF Move
<1> HIDE DEF by
<1>5. /\ win' \in [Tablets -> Window \cup {NULL}]
      /\ \A t \in Tablets : win'[t] = NULL <=> win[t] = NULL
  <2>1. CASE ~Movable(reel, y, x) \/ focus = NULL
    BY <1>4, <2>1 DEF TypeOK
  <2>2. CASE ~(~Movable(reel, y, x) \/ focus = NULL)
    <3>1. win' = [t \in Tablets |-> IF t \in Visited /\ Shown(t) THEN by(win[t]) ELSE win[t]]
      BY <1>4, <2>2
    <3>2. \A t \in Tablets : Shown(t) => win[t] \in Window
      BY DEF TypeOK, Shown
    <3> QED
      BY <1>3, <3>1, <3>2 DEF TypeOK, Shown
  <2> QED
    BY <2>1, <2>2
<1>6. TypeOK'
  BY <1>1, <1>2, <1>5 DEF TypeOK
<1>7. RingOK'
  BY <1>1, <1>5 DEF RingOK, LinksInverse, OneRing, FocusInRing
<1>8. AllVisiblePanels'
  BY <1>1, <1>5 DEF AllVisiblePanels, Shown, TypeOK
<1>9. CountOffset' /\ WalksOnLive'
  BY <1>1 DEF CountOffset, WalksOnLive
<1> QED
  BY <1>6, <1>7, <1>8, <1>9

\* Steps that neither touch the tablets nor their windows.
LEMMA CalmInv ==
  ASSUME Inv,
         UNCHANGED <<live, foreign, next, prev, focus, count, win, reel, allVisible, dir>>,
         lines' \in [Tablets -> Nat], UNCHANGED <<working, otherend, passes>>,
         \/ UNCHANGED <<pc, doomed>>
         \/ pc = "idle" /\ pc' = "redraw" /\ UNCHANGED doomed
         \/ pc = "idle" /\ doomed' = focus
            /\ pc' = IF focus = NULL THEN "freed" ELSE "destroy"
  PROVE  Inv'
<1> USE DEF Inv
<1>1. TypeOK'
  BY DEF TypeOK
<1>2. RingOK'
  BY DEF RingOK, LinksInverse, OneRing, FocusInRing
<1>3. CountOffset' /\ AllVisiblePanels'
  BY DEF CountOffset, AllVisiblePanels, Shown
<1>4. WalksOnLive'
  <2>1. focus # NULL /\ pc = "idle" => focus \in live
    BY DEF RingOK, FocusInRing
  <2> QED
    BY <2>1 DEF WalksOnLive
<1> QED
  BY <1>1, <1>2, <1>3, <1>4

LEMMA DestroyNextInv ==
  ASSUME Inv, DestroyNext
  PROVE  Inv'
<1> DEFINE nx == [next EXCEPT ![prev[doomed]] = NULL]
<1>1. /\ pc = "destroy" /\ Delete(doomed, nx) /\ doomed' = nx[doomed]
      /\ UNCHANGED <<foreign, reel, allVisible, dir, working, otherend, passes>>
  BY DEF DestroyNext
<1>2. doomed \in live /\ doomed # NULL /\ doomed = focus
  BY <1>1, ReelAssumption DEF Inv, WalksOnLive, TypeOK
<1>3. nx # next
  <2>1. LinksInverse
    BY <1>1 DEF Inv, RingOK
  <2>2. prev[doomed] \in Tablets /\ next[prev[doomed]] = doomed
    BY <1>2, <2>1 DEF LinksInverse, Inv, TypeOK
  <2> QED
    BY <1>2, <2>2 DEF Inv, TypeOK
<1> HIDE DEF nx
<1>4. nx = [next EXCEPT ![prev[doomed]] = NULL]
  BY DEF nx
<1> QED
  BY <1>1, <1>2, <1>3, <1>4, DeleteInv

----------------------------------------------------------------------------
(* The theorem *)

\* A reel is created empty, with a window.
LEMMA InitInv ==
  Init => Inv
<1> SUFFICES ASSUME Init PROVE Inv
  OBVIOUS
<1>1. reel \in Window
  <2>1. /\ Parent.y \in Int /\ Parent.x \in Int /\ Parent.h \in Int /\ Parent.w \in Int
        /\ toff \in Int /\ roff \in Int /\ boff \in Int /\ loff \in Int
    BY ReelAssumption DEF Window
  <2>2. /\ Extent(Parent.h, toff, boff) \in Int /\ Extent(Parent.w, loff, roff) \in Int
    BY <2>1 DEF Extent
  <2>3. ReelWindow \in Pane
    BY <2>1, <2>2, NewwinType DEF ReelWindow
  <2> QED
    BY <2>3, ReelAssumption DEF Init, Pane
<1>2. TypeOK
  <2>1. <<>> \in Seq({"up", "down"})
    BY EmptySeq
  <2> QED
    BY <1>1, <2>1 DEF Init, TypeOK
<1>3. RingOK
  BY DEF Init, RingOK, LinksInverse, OneRing, FocusInRing
<1>4. CountOffset
  <2>1. Cardinality({}) = 0
    BY FS_EmptySet
  <2> QED
    BY <2>1, ReelAssumption, FS_CardinalityType DEF Init, CountOffset
<1>5. AllVisiblePanels /\ WalksOnLive
  BY DEF Init, AllVisiblePanels, WalksOnLive
<1> QED
  BY <1>2, <1>3, <1>4, <1>5 DEF Inv

\* Each step of the program keeps the invariant.
LEMMA NextInv ==
  Inv /\ [Next]_vars => Inv'
<1> SUFFICES ASSUME Inv, [Next]_vars PROVE Inv'
  OBVIOUS
<1>0. lines \in [Tablets -> Nat] /\ LineCounts \subseteq Nat /\ live \subseteq Tablets
  BY ReelAssumption DEF Inv, TypeOK
<1>1. CASE RedrawStep
  BY <1>1, RedrawInv
<1>2. CASE AddTablet
  BY <1>2, AddInv DEF AddTablet
<1>3. CASE DelTablet
  BY <1>3, DelInv DEF DelTablet
<1>4. CASE DelFocused
  <2>1. focus \in live
    BY <1>4 DEF DelFocused, Del, Inv, RingOK, FocusInRing
  <2> QED
    BY <1>4, <2>1, DelInv DEF DelFocused
<1>5. CASE DelForeign
  BY <1>5, DelForeignInv
<1>6. CASE FocusNext
  BY <1>6, TravelInv DEF FocusNext
<1>7. CASE FocusPrev
  BY <1>7, TravelInv DEF FocusPrev
<1>8. CASE Redraw
  BY <1>0, <1>8, CalmInv DEF Redraw, ring, view
<1>9. CASE MoveReel
  <2>1. PICK at \in MoveTargets : Move(at[1], at[2])
    BY <1>9 DEF MoveReel
  <2>2. at[1] \in Int /\ at[2] \in Int
    BY ReelAssumption
  <2> QED
    BY <2>1, <2>2, MoveInv
<1>10. CASE Destroy
  BY <1>0, <1>10, CalmInv DEF Destroy, ring, view
<1>11. CASE DestroyNext
  BY <1>11, DestroyNextInv
<1>12. CASE Update
  <2>1. PICK t \in live, n \in LineCounts : SetLines(t, n)
    BY <1>12 DEF Update
  <2>2. lines' \in [Tablets -> Nat]
    BY <1>0, <2>1 DEF SetLines
  <2> QED
    BY <2>1, <2>2, CalmInv DEF SetLines, ring, view, ctl
<1>13. CASE UNCHANGED vars
  BY <1>0, <1>13, CalmInv DEF vars
<1> QED
  BY <1>1, <1>2, <1>3, <1>4, <1>5, <1>6, <1>7, <1>8, <1>9, <1>10, <1>11, <1>12, <1>13
     DEF Next, Call

LEMMA InvAlways ==
  Spec => []Inv
<1> QED
  BY InitInv, NextInv, PTL DEF Spec

\* Every variable keeps its type; in particular a tablet's p is NULL or a
\* window of positive size whatever happens to newwin() and new_panel().
THEOREM TypeCorrect ==
  Spec => []TypeOK
<1>1. Inv => TypeOK
  BY DEF Inv
<1> QED
  BY InvAlways, <1>1, PTL

\* panelreel_add() and panelreel_del() keep the tablets one ring, entered at
\* the focus, and leave no link to a freed tablet.
THEOREM RingCorrect ==
  Spec => []RingOK
<1>1. Inv => RingOK
  BY DEF Inv
<1> QED
  BY InvAlways, <1>1, PTL

\* pr->tabletcount is the number of tablets, kept beside the ring by
\* panelreel_add() and panelreel_del(), for as long as panelreel_del() was given
\* tablets of this reel only.
THEOREM CountCorrect ==
  Spec => []CountTracks
<1>1. Inv => CountTracks
  BY LiveFinite, FS_CardinalityType DEF Inv, CountOffset, CountTracks
<1> QED
  BY InvAlways, <1>1, PTL

\* Where pr->all_visible is set the code that reads every panel unchecked
\* finds one, at every moment and however often newwin() fails.
THEOREM PanelsCorrect ==
  Spec => []AllVisiblePanels
<1>1. Inv => AllVisiblePanels
  BY DEF Inv
<1> QED
  BY InvAlways, <1>1, PTL

\* The loops of the redraw, and of panelreel_destroy() until the process dies,
\* stand on allocated tablets.
THEOREM WalksCorrect ==
  Spec => []WalksOnLive
<1>1. Inv => WalksOnLive
  BY DEF Inv
<1> QED
  BY InvAlways, <1>1, PTL
=============================================================================
