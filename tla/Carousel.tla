------------------------------ MODULE Carousel ------------------------------
(***************************************************************************)
(* What a reel promises its user (README.md, "Panelreels"): the tablets    *)
(* are arranged in a torus with one of them in focus.  They are listed     *)
(* here from the focus on, in the order the "next tablet" command visits   *)
(* them; travelling turns the torus, and a tablet comes or goes without    *)
(* disturbing the order of the others or, unless it has the focus itself,  *)
(* the focus.                                                              *)
(***************************************************************************)
EXTENDS SequencesExt

CONSTANT Tablets

VARIABLE order

Init == order = <<>>

\* A new tablet goes anywhere in the torus, the focus stays.
Join ==
  \E t \in Tablets \ Range(order),
     i \in (IF order = <<>> THEN 1 ELSE 2)..Len(order) + 1 :
    order' = InsertAt(order, i, t)

\* Without the focused tablet the focus is on the one after it.
Leave == \E i \in DOMAIN order : order' = RemoveAt(order, i)

TurnForward == order # <<>> /\ order' = Append(Tail(order), Head(order))

TurnBackward == order # <<>> /\ order' = <<Last(order)>> \o Front(order)

Next == Join \/ Leave \/ TurnForward \/ TurnBackward

Spec == Init /\ [][Next]_order
=============================================================================
