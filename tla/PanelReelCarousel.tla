------------------------- MODULE PanelReelCarousel -------------------------
(***************************************************************************)
(* The reel of src/lib/panelreel.c implements the torus of Carousel: the   *)
(* links, entered at the focus, give the order.                            *)
(***************************************************************************)
EXTENDS PanelReel

Order == IF focus = NULL THEN <<>>
         ELSE [i \in 1..Cardinality(live) |-> Nth(next)[i - 1]]

Torus == INSTANCE Carousel WITH order <- Order

\* The two link fields, rewritten one by one by panelreel_add() and
\* panelreel_del(), are a torus that API calls turn, extend and shorten as the
\* README says, and that no redraw disturbs, up to the destruction of the reel.
ImplementsCarousel == Torus!Spec
=============================================================================
