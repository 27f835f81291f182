----------------------------- MODULE MCDrawing -----------------------------
(***************************************************************************)
(* Small windows for TLC.                                                  *)
(***************************************************************************)
EXTENDS Drawing

\* Tablets whose lines are framed above and below.
FramedMasks == SUBSET {"left", "right"}
=============================================================================
