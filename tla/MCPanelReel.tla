---------------------------- MODULE MCPanelReel ----------------------------
(***************************************************************************)
(* Small reels for TLC.  The reel fills a screen of LINES x COLS cells,    *)
(* less the offsets of the configuration.                                  *)
(***************************************************************************)
EXTENDS PanelReelValidate, PanelReelCarousel, TLC

Screen == [y |-> 0, x |-> 0, h |-> LINES, w |-> COLS]

\* The tablets differ in nothing but their addresses.
Symmetry == Permutations(Tablets)

\* Sides without a border.
AllBorders == {}
NoTopBorder == {"top"}
NoBottomBorder == {"bottom"}

\* Targets of panelreel_move(): the reel stays where it is ...
NoMoves == {}
\* ... or goes by one line or column, or off the screen.
Moves == {<<0, 0>>, <<0, 1>>, <<1, 0>>, <<1, 1>>, <<-1, 0>>}
=============================================================================
