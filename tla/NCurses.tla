------------------------------ MODULE NCurses ------------------------------
(***************************************************************************)
(* External: the window primitives of ncurses and its panel library, as    *)
(* the reel in src/lib/panelreel.c relies on them.  A window is its        *)
(* upper-left cell on the screen and its size; a panel is identified with  *)
(* the one window it carries, so a tablet's pointer p is a window or NULL. *)
(***************************************************************************)
EXTENDS Integers

CONSTANTS
  LINES, COLS,   \* size of the physical screen
  NULL           \* the null pointer: of a tablet, of a panel or of a window

ASSUME ScreenAssumption == LINES \in Nat \ {0} /\ COLS \in Nat \ {0}

Window == [y : Int, x : Int, h : Nat \ {0}, w : Nat \ {0}]

ASSUME NullAssumption == NULL \notin Window

ERR == -1

\* getbegy(3) and getmaxy(3) answer ERR for the null window.
getbegy(win) == IF win = NULL THEN ERR ELSE win.y
getmaxy(win) == IF win = NULL THEN ERR ELSE win.h

\* newwin(3): a negative size or origin is refused, a zero size extends to
\* the edge of the screen, and nothing is clipped at the lower right.
newwin(h, w, y, x) ==
  LET full == [ y |-> y, x |-> x,
                h |-> IF h = 0 THEN LINES - y ELSE h,
                w |-> IF w = 0 THEN COLS - x ELSE w ]
  IN IF h >= 0 /\ w >= 0 /\ y >= 0 /\ x >= 0 /\ full.h > 0 /\ full.w > 0
     THEN full ELSE NULL

\* wresize(3) leaves the window alone, and fails, unless both sizes are positive.
Resizable(h, w) == h >= 1 /\ w >= 1
wresize(win, h, w) ==
  IF Resizable(h, w) THEN [win EXCEPT !.h = h, !.w = w] ELSE win

\* move_panel(3) fails, and leaves the window alone, unless the whole window
\* stays on the screen.
Movable(win, y, x) ==
  y >= 0 /\ x >= 0 /\ y + win.h <= LINES /\ x + win.w <= COLS
move_panel(win, y, x) ==
  IF Movable(win, y, x) THEN [win EXCEPT !.y = y, !.x = x] ELSE win
=============================================================================
