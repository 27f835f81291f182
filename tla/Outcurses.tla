----------------------------- MODULE Outcurses -----------------------------
(***************************************************************************)
(* src/lib/outcurses.c and colors.c: outcurses_init() starts ncurses, sets *)
(* up the colour pairs and then the terminal's modes, one call of ncurses  *)
(* after the other; each may be refused, with a warning on stderr or the   *)
(* end of it all.  outcurses_stop() ends ncurses.                          *)
(***************************************************************************)
EXTENDS Terminal, Sequences

VARIABLES
  stdscr,    \* whether ncurses was ever started: stdscr is not NULL
  curses,    \* whether the terminal is in curses mode
  modes,     \* the modes set since it is
  refused,   \* history: endwin(3) was called, and refused
  warnings,  \* what outcurses_init() and outcurses_stop() have complained of
  ipc,       \* where it is: "off", "initscr", "colors", "pairs", "modes", "up"
             \* (it returned a window) or "failed" (it returned NULL)
  bg, fg, pair,   \* the locals of prep_colors(); fg is its i
  mode            \* the number of modes dealt with

terminal == <<stdscr, curses, modes, refused>>
ploop == <<bg, fg, pair>>
ovars == <<pairs, terminal, warnings, ipc, ploop, mode>>

\* The calls that configure the terminal, in their order, and those that
\* outcurses_init() does not do without.
Setup == <<"cbreak", "noecho", "intrflush", "nonl", "keypad", "leaveok", "curs_set">>
Required == {"nonl", "keypad", "leaveok", "curs_set"}

\* External: endwin(3) takes the terminal out of curses mode ...
endwin == curses' = FALSE /\ modes' = {} /\ UNCHANGED <<stdscr, refused>>

\* ... or is refused, and leaves it as it is.
EndwinRefused == refused' = TRUE /\ UNCHANGED <<stdscr, curses, modes>>

----------------------------------------------------------------------------
(* outcurses_init() *)

\* Without initcurses, somebody else must have started ncurses.
outcurses_init(initcurses) ==
  /\ ipc = "off"
  /\ ipc' = IF initcurses THEN "initscr" ELSE IF stdscr THEN "up" ELSE "failed"
  /\ UNCHANGED <<pairs, terminal, warnings, ploop, mode>>

initscr ==
  /\ ipc = "initscr"
  /\ \/ ipc' = "colors" /\ stdscr' = TRUE /\ curses' = TRUE
     \/ ipc' = "failed" /\ UNCHANGED <<stdscr, curses>>
  /\ UNCHANGED <<pairs, modes, refused, warnings, ploop, mode>>

\* The label error: whether endwin(3) is refused is not looked at.
Error == ipc' = "failed" /\ (endwin \/ EndwinRefused)

\* start_color() and assume_default_colors(); the loop over the pairs begins.
prep_colors ==
  /\ ipc = "colors"
  /\ \/ /\ ipc' = "pairs" /\ bg' = -1 /\ fg' = 0 /\ pair' = 0
        /\ warnings' \in {warnings, warnings \cup {"colors"}}
        /\ UNCHANGED terminal
     \/ Error /\ UNCHANGED <<warnings, ploop>>
  /\ UNCHANGED <<pairs, mode>>

\* Mutant: the pair that is the terminal's own does not count.
InitPairUncounted ==
  /\ ipc = "pairs" /\ bg < COLORS - 1 /\ fg < COLORS /\ pair < COLOR_PAIRS
  /\ pair' = IF bg = -1 /\ fg = 0 THEN 1 ELSE pair + 1
  /\ fg' = fg + 1
  /\ pairs' = [pairs EXCEPT ![pair'] = [fg |-> fg, bg |-> bg]]
  /\ UNCHANGED <<terminal, warnings, ipc, bg, mode>>

\* Mutant: the number of pairs is no limit.
InitPairUnlimited ==
  /\ ipc = "pairs" /\ bg < COLORS - 1 /\ fg < COLORS
  /\ pairs' = IF pair = 0 THEN pairs
              ELSE [pairs EXCEPT ![pair] = [fg |-> fg, bg |-> bg]]
  /\ pair' = pair + 1 /\ fg' = fg + 1
  /\ UNCHANGED <<terminal, warnings, ipc, bg, mode>>

\* One colour more on the background at hand; pair 0 is left alone.
InitPair ==
  /\ ipc = "pairs" /\ bg < COLORS - 1 /\ fg < COLORS /\ pair < COLOR_PAIRS
  /\ pairs' = IF pair = 0 THEN pairs
              ELSE [pairs EXCEPT ![pair] = [fg |-> fg, bg |-> bg]]
  /\ pair' = pair + 1 /\ fg' = fg + 1
  /\ UNCHANGED <<terminal, warnings, ipc, bg, mode>>

\* The next background, when the colours or the pairs are used up.
NextBackground ==
  /\ ipc = "pairs" /\ bg < COLORS - 1 /\ (fg = COLORS \/ pair >= COLOR_PAIRS)
  /\ bg' = bg + 1 /\ fg' = 0
  /\ UNCHANGED <<pairs, terminal, warnings, ipc, pair, mode>>

\* Mutant: a refused pair is passed over in silence.
PairsDoneSilently ==
  /\ ipc = "pairs" /\ ipc' = "modes" /\ mode' = 0
  /\ \/ bg = COLORS - 1
     \/ bg < COLORS - 1 /\ fg < COLORS /\ pair \in 1..(COLOR_PAIRS - 1)
  /\ UNCHANGED <<pairs, terminal, warnings, ploop>>

\* The loop ends, or is left at a pair that ncurses refuses: with a warning.
PairsDone ==
  /\ ipc = "pairs" /\ ipc' = "modes" /\ mode' = 0
  /\ \/ bg = COLORS - 1 /\ UNCHANGED warnings
     \/ /\ bg < COLORS - 1 /\ fg < COLORS /\ pair \in 1..(COLOR_PAIRS - 1)
        /\ warnings' = warnings \cup {"pairs"}
  /\ UNCHANGED <<pairs, terminal, ploop>>

SetMode ==
  /\ ipc = "modes" /\ mode < Len(Setup)
  /\ modes' = modes \cup {Setup[mode + 1]} /\ mode' = mode + 1
  /\ UNCHANGED <<pairs, stdscr, curses, refused, warnings, ipc, ploop>>

\* Mutant: an error leaves the terminal in curses mode.
ModeFailsQuietly ==
  /\ ipc = "modes" /\ mode < Len(Setup) /\ ipc' = "failed"
  /\ UNCHANGED <<pairs, terminal, warnings, ploop, mode>>

\* Mutant: no mode is required.
ModeFailsOnly ==
  /\ ipc = "modes" /\ mode < Len(Setup)
  /\ warnings' = warnings \cup {Setup[mode + 1]} /\ mode' = mode + 1
  /\ UNCHANGED <<pairs, terminal, ipc, ploop>>

\* A mode is refused: a warning for some, the end for the others.
ModeFails ==
  /\ ipc = "modes" /\ mode < Len(Setup)
  /\ IF Setup[mode + 1] \in Required
     THEN Error /\ UNCHANGED <<warnings, mode>>
     ELSE /\ warnings' = warnings \cup {Setup[mode + 1]} /\ mode' = mode + 1
          /\ UNCHANGED <<terminal, ipc>>
  /\ UNCHANGED <<pairs, ploop>>

ModesDone ==
  /\ ipc = "modes" /\ mode = Len(Setup) /\ ipc' = "up"
  /\ UNCHANGED <<pairs, terminal, warnings, ploop, mode>>

OutcursesStep ==
  \/ initscr \/ prep_colors \/ InitPair \/ NextBackground \/ PairsDone
  \/ SetMode \/ ModeFails \/ ModesDone

----------------------------------------------------------------------------
(* outcurses_stop() *)

\* A refused endwin(3) is complained of, but no failure: the answer is 0.
outcurses_stop(stopcurses) ==
  /\ ipc = "up" /\ ipc' = "off"
  /\ \/ stopcurses /\ endwin /\ UNCHANGED warnings
     \/ stopcurses /\ EndwinRefused /\ warnings' = warnings \cup {"endwin"}
     \/ ~stopcurses /\ UNCHANGED <<terminal, warnings>>
  /\ UNCHANGED <<pairs, ploop, mode>>

----------------------------------------------------------------------------
OutcursesInit ==
  /\ stdscr = FALSE /\ curses = FALSE /\ modes = {} /\ refused = FALSE /\ warnings = {}
  /\ ipc = "off" /\ bg = -1 /\ fg = 0 /\ pair = 0 /\ mode = 0
  /\ pairs = NoPairs
=============================================================================
