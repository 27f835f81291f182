------------------------------- MODULE MCFade -------------------------------
(***************************************************************************)
(* A terminal of two colours for TLC.                                      *)
(***************************************************************************)
EXTENDS Fade

\* Components of every level, some of them equal.
Uneven ==
  { [c \in Colour |-> IF c = 0 THEN [r |-> 3, g |-> 1, b |-> 0]
                               ELSE [r |-> 0, g |-> 2, b |-> 1]] }
\* The brightest component is even, as the 1000 of a real terminal is.
Bright ==
  { [c \in Colour |-> IF c = 0 THEN [r |-> 4, g |-> 1, b |-> 0]
                               ELSE [r |-> 0, g |-> 3, b |-> 2]] }
=============================================================================
