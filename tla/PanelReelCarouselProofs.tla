---------------------- MODULE PanelReelCarouselProofs ----------------------
(***************************************************************************)
(* Proof that the reel implements the torus of Carousel, for any tablets.  *)
(***************************************************************************)
EXTENDS PanelReelCarousel, PanelReelProofs, TorusLemmas

\* The operators on sequences mean the same in Carousel.
LEMMA SameOperators ==
  /\ \A s : Torus!Range(s) = Range(s)
  /\ \A s, i : Torus!RemoveAt(s, i) = RemoveAt(s, i)
  /\ \A s, i, t : Torus!InsertAt(s, i, t) = InsertAt(s, i, t)
  /\ \A s : Torus!Last(s) = Last(s) /\ Torus!Front(s) = Front(s)
BY DEF Torus!Range, Range, Torus!RemoveAt, RemoveAt, Torus!InsertAt, InsertAt,
       Torus!Last, Last, Torus!Front, Front

\* The order is the walk along the links from the focus, before and after.
LEMMA OrderIsWalk ==
  /\ Order = IF focus = NULL THEN <<>> ELSE WalkOf(live, next, focus)
  /\ Order' = IF focus' = NULL THEN <<>> ELSE WalkOf(live', next', focus')
BY DEF Order, Nth, WalkOf, Walk

\* The ring, entered at the focus, is the torus.
LEMMA RingTours ==
  ASSUME Inv, pc # "crashed", focus # NULL
  PROVE  Tours(Order, live, next, focus)
<1>1. IsFiniteSet(live) /\ focus \in live
  BY LiveFinite DEF Inv, RingOK, FocusInRing
<1>2. \A v \in live : next[v] \in live
  BY DEF Inv, RingOK, LinksInverse
<1>3. \A v, w \in live : next[v] = next[w] => v = w
  BY DEF Inv, RingOK, LinksInverse
<1>4. \A S \in SUBSET live : S # {} /\ (\A v \in S : next[v] \in S) => S = live
  BY DEF Inv, RingOK, OneRing
<1>5. Tours(WalkOf(live, next, focus), live, next, focus)
  BY <1>1, <1>2, <1>3, <1>4, WalkTours
<1> QED
  BY <1>5, OrderIsWalk

\* A torus along the new links is the new order.
LEMMA NewOrder ==
  ASSUME focus' # NULL, NEW s, Tours(s, live', next', focus')
  PROVE  Order' = s
<1>1. WalkOf(live', next', focus') = s
  BY ToursUnique
<1> QED
  BY <1>1, OrderIsWalk

\* Without a focus there are no tablets.
LEMMA NoFocus ==
  ASSUME Inv, pc # "crashed", focus = NULL
  PROVE  live = {} /\ Order = <<>>
<1>1. live = {}
  BY ReelAssumption DEF Inv, RingOK, FocusInRing, TypeOK
<1> QED
  BY <1>1, OrderIsWalk

\* A step that leaves the links and the focus alone leaves the order alone.
LEMMA OrderKept ==
  ASSUME UNCHANGED <<live, next, focus>>
  PROVE  Order' = Order
BY OrderIsWalk

----------------------------------------------------------------------------
(* Tablets come *)

\* Linked in after a tablet, wherever it is.
LEMMA InsertJoins ==
  ASSUME Inv, pc = "idle", NEW t \in Tablets \ live, NEW p \in live,
         next' = [next EXCEPT ![t] = next[p], ![p] = t],
         live' = live \cup {t}, focus' = focus, focus # NULL
  PROVE  Torus!Join
<1>1. Tours(Order, live, next, focus)
  BY RingTours
<1> DEFINE s == Order
           n == Len(s)
<1> HIDE DEF s
<1>2. /\ s \in Seq(live) /\ n \in Nat \ {0} /\ Range(s) = live /\ s # <<>>
      /\ \A v \in live : \E i \in 1..n : s[i] = v
  BY <1>1, ToursFacts DEF Tours, TorusOf, s
<1>3. PICK i \in 1..n : s[i] = p
  BY <1>2
<1>4. next'[t] = next[p] /\ next'[p] = t /\ \A v \in live \ {p} : next'[v] = next[v]
  BY DEF Inv, TypeOK
<1>5. Tours(InsertAt(s, i + 1, t), live \cup {t}, next', focus)
  <2>1. Tours(s, live, next, focus) /\ i \in 1..Len(s) /\ t \notin live
    BY <1>1, <1>3 DEF s
  <2>2. /\ next'[t] = next[s[i]] /\ next'[s[i]] = t
        /\ \A v \in live \ {s[i]} : next'[v] = next[v]
    BY <1>3, <1>4
  <2>3. \A with : /\ with[t] = next[s[i]] /\ with[s[i]] = t
                  /\ \A v \in live \ {s[i]} : with[v] = next[v]
                  => Tours(InsertAt(s, i + 1, t), live \cup {t}, with, focus)
    BY <2>1, ToursInsert
  <2> QED
    BY <2>2, <2>3
<1>6. Order' = InsertAt(s, i + 1, t)
  BY <1>5, NewOrder
<1>7. i + 1 \in 2..n + 1
  BY <1>2
<1> QED
  BY <1>2, <1>6, <1>7, SameOperators DEF Torus!Join, s

\* A tablet added to the reel joins the torus.
LEMMA AddJoins ==
  ASSUME Inv, NEW t \in Tablets \ live, NEW after \in live \cup {NULL},
         NEW before \in live \cup {NULL}, Add(t, after, before)
  PROVE  Torus!Join
<1>1. /\ pc = "idle" /\ live' = live \cup {t}
      /\ focus' = IF focus = NULL THEN t ELSE focus
  BY DEF Add
<1>2. NULL \notin Tablets /\ live \subseteq Tablets
  BY ReelAssumption DEF Inv, TypeOK
<1>3. LinksInverse /\ FocusInRing
  BY <1>1 DEF Inv, RingOK
<1>4. CASE focus # NULL
  <2>1. focus \in live
    BY <1>3, <1>4 DEF FocusInRing
  <2>2. \E p \in live : next' = [next EXCEPT ![t] = next[p], ![p] = t]
    <3>1. CASE after # NULL
      <4>1. Insert(t, after, next[after]) /\ after \in live
        BY <3>1 DEF Add
      <4> QED
        BY <4>1 DEF Insert
    <3>2. CASE after = NULL /\ before # NULL
      <4>1. Insert(t, prev[before], before) /\ before \in live
        BY <3>2 DEF Add
      <4>2. prev[before] \in live /\ next[prev[before]] = before
        BY <1>3, <4>1 DEF LinksInverse
      <4> QED
        BY <4>1, <4>2 DEF Insert
    <3>3. CASE after = NULL /\ before = NULL
      <4>1. Insert(t, prev[focus], focus)
        BY <1>4, <3>3 DEF Add
      <4>2. prev[focus] \in live /\ next[prev[focus]] = focus
        BY <1>3, <2>1 DEF LinksInverse
      <4> QED
        BY <4>1, <4>2 DEF Insert
    <3> QED
      BY <3>1, <3>2, <3>3
  <2>3. PICK p \in live : next' = [next EXCEPT ![t] = next[p], ![p] = t]
    BY <2>2
  <2> QED
    BY <1>1, <1>4, <2>3, InsertJoins
<1>5. CASE focus = NULL
  <2>1. live = {} /\ Order = <<>>
    BY <1>1, <1>5, NoFocus
  <2>2. Insert(t, t, t)
    BY <1>2, <1>5, <2>1 DEF Add
  <2>3. next'[t] = t /\ live' = {t} /\ focus' = t /\ t # NULL
    BY <1>1, <1>2, <1>5, <2>1, <2>2 DEF Insert, Inv, TypeOK
  <2>4. Order' = <<t>>
    BY <2>3, ToursAlone, NewOrder
  <2>5. Order' = Torus!InsertAt(Order, 1, t)
    BY <2>1, <2>4, OneMember, SameOperators
  <2>6. Torus!Range(Order) = {} /\ Len(Order) = 0 /\ 1 \in 1..Len(Order) + 1
    BY <2>1, SameOperators DEF Range
  <2> QED
    BY <2>1, <2>5, <2>6 DEF Torus!Join
<1> QED
  BY <1>4, <1>5

----------------------------------------------------------------------------
(* Tablets go *)

\* The last tablet leaves nothing.
LEMMA LastLeaves ==
  ASSUME Inv, pc # "crashed", NEW t \in live, next[t] = t, focus' = NULL
  PROVE  Torus!Leave
<1>1. live = {t}
  BY AloneInRing DEF Inv, RingOK
<1>2. focus # NULL
  BY <1>1, NoFocus
<1>3. Tours(Order, live, next, focus)
  BY <1>2, RingTours
<1>4. /\ Order \in Seq(live) /\ Len(Order) = Cardinality(live)
      /\ DOMAIN Order = 1..Len(Order)
  BY <1>3, ToursFacts
<1>5. Cardinality(live) = 1
  BY <1>1, FS_Singleton
<1>6. Order' = <<>>
  BY OrderIsWalk
<1>7. Torus!RemoveAt(Order, 1) = <<>> /\ 1 \in DOMAIN Order
  BY <1>4, <1>5, OneMember, SameOperators
<1> QED
  BY <1>6, <1>7 DEF Torus!Leave

\* One of several is unlinked.
LEMMA UnlinkLeaves ==
  ASSUME Inv, pc # "crashed", NEW t \in live, next[t] # t,
         next' = [[next EXCEPT ![prev[t]] = next[t]] EXCEPT ![t] = NULL],
         live' = live \ {t},
         focus' = IF focus = t THEN next[t] ELSE focus
  PROVE  Torus!Leave
<1>1. focus # NULL
  BY NoFocus
<1>2. Tours(Order, live, next, focus)
  BY <1>1, RingTours
<1> DEFINE s == Order
           n == Len(s)
<1>3. /\ s \in Seq(live) /\ n \in Nat \ {0} /\ DOMAIN s = 1..n
      /\ \A i \in 1..n : s[i] \in live
      /\ \A v \in live : \E i \in 1..n : s[i] = v
      /\ \A i \in 1..n : next[s[i]] = s[After(i, n)]
  BY <1>2, ToursFacts DEF Tours
<1>4. PICK i \in 1..n : s[i] = t
  BY <1>3
<1>5. LinksInverse /\ live \subseteq Tablets /\ NULL \notin Tablets
  BY ReelAssumption DEF Inv, RingOK, TypeOK
<1>6. n # 1
  <2> SUFFICES ASSUME n = 1 PROVE FALSE
    OBVIOUS
  <2>1. i = 1 /\ After(i, n) = i
    BY DEF After
  <2> QED
    BY <1>3, <1>4, <2>1
<1>7. Before(i, n) \in 1..n /\ After(Before(i, n), n) = i
  BY <1>3, PlaceFacts
<1> HIDE DEF s
<1>8. next[s[Before(i, n)]] = t /\ s[Before(i, n)] = prev[t]
  <2>1. s[Before(i, n)] \in live /\ next[s[Before(i, n)]] = t
    BY <1>3, <1>4, <1>7
  <2> QED
    BY <1>5, <2>1 DEF LinksInverse
<1>9. prev[t] # t /\ prev[t] \in live
  BY <1>5 DEF LinksInverse
<1>10. /\ next'[s[Before(i, n)]] = next[s[i]]
       /\ \A v \in live \ {s[i], s[Before(i, n)]} : next'[v] = next[v]
  BY <1>4, <1>5, <1>8, <1>9 DEF Inv, TypeOK
<1>11. Tours(RemoveAt(s, i), live \ {s[i]}, next', IF s[i] = focus THEN next[focus] ELSE focus)
  <2>1. Tours(s, live, next, focus) /\ i \in 1..Len(s) /\ Len(s) # 1
    BY <1>2, <1>6 DEF s
  <2>2. /\ next'[s[Before(i, Len(s))]] = next[s[i]]
        /\ \A v \in live \ {s[i], s[Before(i, Len(s))]} : next'[v] = next[v]
    BY <1>10
  <2>3. \A past : /\ past[s[Before(i, Len(s))]] = next[s[i]]
                  /\ \A v \in live \ {s[i], s[Before(i, Len(s))]} : past[v] = next[v]
                  => Tours(RemoveAt(s, i), live \ {s[i]}, past,
                           IF s[i] = focus THEN next[focus] ELSE focus)
    BY <2>1, ToursRemove
  <2> QED
    BY <2>2, <2>3
<1>12. focus' = (IF s[i] = focus THEN next[focus] ELSE focus) /\ live' = live \ {s[i]}
  BY <1>4
<1>13. focus' # NULL
  <2>1. next[t] \in live
    BY <1>5 DEF LinksInverse
  <2> QED
    BY <1>1, <1>5, <2>1
<1>14. Order' = RemoveAt(s, i)
  BY <1>11, <1>12, <1>13, NewOrder
<1> QED
  BY <1>3, <1>14, SameOperators DEF Torus!Leave, s

\* panelreel_del() of any live tablet, with its links or as cut by
\* panelreel_destroy(): that the process dies at the last one is not seen.
LEMMA DeleteLeaves ==
  ASSUME Inv, pc # "crashed", NEW t \in live,
         NEW nx, nx \in {next, [next EXCEPT ![prev[t]] = NULL]},
         Delete(t, nx)
  PROVE  Torus!Leave
<1> DEFINE n1 == [nx EXCEPT ![prev[t]] = nx[t]]
<1>1. LinksInverse /\ FocusInRing
  BY DEF Inv, RingOK
<1>2. NULL \notin Tablets /\ live \subseteq Tablets /\ next \in [Tablets -> Tablets \cup {NULL}]
  BY ReelAssumption DEF Inv, TypeOK
<1>3. prev[t] \in live /\ next[t] \in live /\ (prev[t] = t <=> next[t] = t)
  BY <1>1 DEF LinksInverse
<1>4. focus' = IF focus = t THEN (IF n1[t] = t THEN NULL ELSE n1[t]) ELSE focus
  BY DEF Delete
<1>5. CASE next[t] = t
  <2>1. live = {t} /\ focus = t
    BY <1>1, <1>5, AloneInRing DEF Inv, RingOK, FocusInRing
  <2>2. n1[t] \in {t, NULL}
    BY <1>2, <1>3, <1>5
  <2> QED
    BY <1>4, <1>5, <2>1, <2>2, LastLeaves
<1>6. CASE next[t] # t
  <2>1. prev[t] # t
    BY <1>3, <1>6
  <2>2. n1 = [next EXCEPT ![prev[t]] = next[t]] /\ n1[t] = next[t]
    BY <1>2, <1>3, <2>1
  <2>3. n1[t] # NULL
    BY <1>2, <1>3, <2>2
  <2>4. next' = [n1 EXCEPT ![t] = NULL] /\ live' = live \ {t}
    BY <2>3 DEF Delete, Freed
  <2> HIDE DEF n1
  <2> QED
    BY <1>4, <1>6, <2>2, <2>4, UnlinkLeaves
<1> QED
  BY <1>5, <1>6

----------------------------------------------------------------------------
(* The focus travels *)

\* A step of the focus turns the torus, or is refused and leaves it as it was.
LEMMA TravelTurns ==
  ASSUME Inv
  PROVE  /\ FocusNext => Torus!TurnForward \/ Order' = Order
         /\ FocusPrev => Torus!TurnBackward \/ Order' = Order
<1>1. ASSUME NEW d, NEW link, Travel(d, link), focus = NULL PROVE Order' = Order
  BY <1>1, OrderKept DEF Travel
<1>2. ASSUME NEW d, NEW link \in {next, prev}, Travel(d, link), focus # NULL
      PROVE  /\ live' = live /\ next' = next /\ focus' = link[focus]
             /\ focus' # NULL /\ focus \in live /\ LinksInverse
             /\ Tours(Order, live, next, focus) /\ Order # <<>>
  <2>1. pc = "idle" /\ live' = live /\ next' = next /\ focus' = link[focus]
    BY <1>2 DEF Travel
  <2>2. focus \in live /\ LinksInverse /\ live \subseteq Tablets /\ NULL \notin Tablets
    BY <1>2, <2>1, ReelAssumption DEF Inv, RingOK, FocusInRing, TypeOK
  <2>3. Tours(Order, live, next, focus)
    BY <1>2, <2>1, RingTours
  <2>4. focus' # NULL
    BY <2>1, <2>2 DEF LinksInverse
  <2> QED
    BY <2>1, <2>2, <2>3, <2>4 DEF Tours
<1>3. ASSUME FocusNext PROVE Torus!TurnForward \/ Order' = Order
  <2>1. CASE focus = NULL
    BY <1>1, <1>3, <2>1 DEF FocusNext
  <2>2. CASE focus # NULL
    <3>1. /\ live' = live /\ next' = next /\ focus' = next[focus] /\ focus' # NULL
          /\ Tours(Order, live, next, focus) /\ Order # <<>>
      BY <1>2, <1>3, <2>2 DEF FocusNext
    <3>2. Tours(Append(Tail(Order), Head(Order)), live, next, next[focus])
      BY <3>1, ToursTurn
    <3>3. Order' = Append(Tail(Order), Head(Order))
      BY <3>1, <3>2, NewOrder
    <3> QED
      BY <3>1, <3>3 DEF Torus!TurnForward
  <2> QED
    BY <2>1, <2>2
<1>4. ASSUME FocusPrev PROVE Torus!TurnBackward \/ Order' = Order
  <2>1. CASE focus = NULL
    BY <1>1, <1>4, <2>1 DEF FocusPrev
  <2>2. CASE focus # NULL
    <3>1. /\ live' = live /\ next' = next /\ focus' = prev[focus] /\ focus' # NULL
          /\ focus \in live /\ LinksInverse
          /\ Tours(Order, live, next, focus) /\ Order # <<>>
      BY <1>2, <1>4, <2>2 DEF FocusPrev
    <3>2. /\ Tours(<<Last(Order)>> \o Front(Order), live, next, Last(Order))
          /\ next[Last(Order)] = focus
      BY <3>1, ToursTurn
    <3>3. Last(Order) \in live
      BY <3>2, ToursFacts
    <3>4. prev[focus] = Last(Order)
      BY <3>1, <3>2, <3>3 DEF LinksInverse
    <3>5. Order' = <<Last(Order)>> \o Front(Order)
      BY <3>1, <3>2, <3>4, NewOrder
    <3> QED
      BY <3>1, <3>5, SameOperators DEF Torus!TurnBackward
  <2> QED
    BY <2>1, <2>2
<1> QED
  BY <1>3, <1>4

----------------------------------------------------------------------------
(* The theorem *)

\* Every step of the program is one of the torus, or leaves it as it is.
LEMMA StepSimulates ==
  ASSUME Inv, [Next]_vars
  PROVE  [Torus!Next]_Order
<1>1. CASE RedrawStep
  <2>1. UNCHANGED <<live, next, focus>>
    BY <1>1 DEF RedrawStep, Arrange, FindTopmost, BeginDenormalized, Denormalized,
                DrawFocused, DrawFollowing, DrawPrevious, ring
  <2> QED
    BY <2>1, OrderKept
<1>2. CASE AddTablet
  BY <1>2, AddJoins DEF AddTablet, Torus!Next
<1>3. CASE DelTablet
  <2>1. PICK t \in live : Del(t)
    BY <1>3 DEF DelTablet
  <2>2. pc # "crashed" /\ Delete(t, next)
    BY <2>1 DEF Del
  <2> QED
    BY <2>2, DeleteLeaves DEF Torus!Next
<1>4. CASE DelFocused
  <2>1. pc = "idle" /\ Delete(focus, next)
    BY <1>4 DEF DelFocused, Del
  <2>2. focus \in live
    BY <1>4, <2>1 DEF DelFocused, Inv, RingOK, FocusInRing
  <2> QED
    BY <2>1, <2>2, DeleteLeaves DEF Torus!Next
<1>5. CASE FocusNext \/ FocusPrev
  BY <1>5, TravelTurns DEF Torus!Next
<1>6. CASE DestroyNext
  <2> DEFINE nx == [next EXCEPT ![prev[doomed]] = NULL]
  <2>1. pc = "destroy" /\ Delete(doomed, nx)
    BY <1>6 DEF DestroyNext
  <2>2. doomed \in live
    BY <2>1 DEF Inv, WalksOnLive
  <2> QED
    BY <2>1, <2>2, DeleteLeaves DEF Torus!Next
<1>7. CASE DelForeign \/ Redraw \/ MoveReel \/ Destroy \/ Update \/ UNCHANGED vars
  <2>1. UNCHANGED <<live, next, focus>>
    BY <1>7 DEF DelForeign, Redraw, MoveReel, Move, Destroy, Update, SetLines, vars, ring
  <2> QED
    BY <2>1, OrderKept
<1> QED
  BY <1>1, <1>2, <1>3, <1>4, <1>5, <1>6, <1>7 DEF Next, Call

\* The links that panelreel_add() and panelreel_del() rewrite one by one are,
\* whatever is called in whatever order, a torus that adding a tablet extends
\* at one place, deleting one shortens at one place, travelling turns by one
\* place, and no redraw, move or failure of newwin() disturbs.
THEOREM ReelIsTorus ==
  Spec => ImplementsCarousel
<1>1. Init => Torus!Init
  BY OrderIsWalk DEF Init, Torus!Init
<1>2. Inv /\ [Next]_vars => [Torus!Next]_Order
  BY StepSimulates
<1> QED
  BY <1>1, <1>2, InvAlways, PTL DEF Spec, ImplementsCarousel, Torus!Spec
=============================================================================
