----------------------------- MODULE MCDemoMain -----------------------------
(***************************************************************************)
(* The palettes of MCFade for the demo's main program.                     *)
(***************************************************************************)
EXTENDS DemoMain, MCFade
=============================================================================
