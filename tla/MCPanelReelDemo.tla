-------------------------- MODULE MCPanelReelDemo --------------------------
(***************************************************************************)
(* A small instance of the demo for TLC.  It gets no symmetry, because     *)
(* liveness is checked.                                                    *)
(***************************************************************************)
EXTENDS PanelReelDemo, TLC
=============================================================================
