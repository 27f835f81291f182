------------------------------ MODULE Terminal ------------------------------
(***************************************************************************)
(* External: the colours of the terminal, as ncurses keeps them for        *)
(* src/lib/fade.c and src/lib/colors.c.  The palette has COLORS colours of *)
(* three components; a colour pair is a foreground and a background out of *)
(* the palette, or -1, the terminal's own colour.                          *)
(***************************************************************************)
EXTENDS Integers

CONSTANTS
  COLORS,        \* number of colours
  COLOR_PAIRS,   \* number of colour pairs
  Depth,         \* the brightest a component can be: 1000
  Unset          \* a pair, or a colour of an array, that was never written

ASSUME TerminalAssumption ==
  COLORS \in Nat \ {0} /\ COLOR_PAIRS \in Nat \ {0} /\ Depth \in Nat \ {0}

Colour == 0..(COLORS - 1)
Channel == {"r", "g", "b"}
Level == 0..Depth
Rgb == [Channel -> Level]
Palette == [Colour -> Rgb]

PairNumber == 0..(COLOR_PAIRS - 1)
Pair == [fg : Colour, bg : -1..(COLORS - 1)]

ASSUME UnsetAssumption == Unset \notin Rgb \cup Pair

VARIABLES
  palette,   \* what each colour looks like
  pairs      \* what each colour pair is

\* init_extended_color(3) once for each colour below k, with p's components.
Painted(p, k) == [c \in Colour |-> IF c < k THEN p[c] ELSE palette[c]]

\* reset_color_pairs(3) discards what init_extended_pair(3) has set.
NoPairs == [n \in PairNumber |-> Unset]
=============================================================================
