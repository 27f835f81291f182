------------------------------ MODULE DemoMain ------------------------------
(***************************************************************************)
(* src/bin/demo.c: the main program, which composes the parts that own the *)
(* terminal: it has Outcurses set it up, runs the demo of the reel, which  *)
(* fades the palette out when it is quit, and has the terminal restored.   *)
(* What goes on in the reel while the demo runs is PanelReelDemo's matter. *)
(*                                                                         *)
(* The other application is a unit test that starts ncurses itself         *)
(* (tests/outcurses.cpp) and leaves it alone in the end.                   *)
(***************************************************************************)
EXTENDS Fade, Outcurses

CONSTANT FADE_MILLISECONDS

ASSUME MainAssumption == FADE_MILLISECONDS \in Milliseconds

VARIABLES
  apc,          \* "main", "init", "intro", "demo", "quit", "stop", "exited",
                \* or "paused", where p was pressed, or "killed"
  initcurses,   \* the argument of outcurses_init() and outcurses_stop()
  status        \* the exit status

mvars == <<fvars, ovars, apc, initcurses, status>>

Exits(s) == apc' = "exited" /\ status' = s

\* A locale that is refused, or any option, -h included, is the end of it.
Start ==
  /\ apc = "main"
  /\ \/ /\ apc' = "init" /\ outcurses_init(initcurses) /\ UNCHANGED status
     \/ \E s \in {0, 1} : Exits(s) /\ UNCHANGED ovars
  /\ UNCHANGED <<fvars, initcurses>>

\* The unit test's own call of initscr(3).
StartCurses ==
  /\ apc = "main" /\ ~initcurses /\ ~curses
  /\ stdscr' = TRUE /\ curses' = TRUE
  /\ UNCHANGED <<fvars, modes, refused, warnings, ipc, ploop, mode, apc, initcurses, status>>

Initialise ==
  /\ apc = "init"
  /\ \/ OutcursesStep /\ UNCHANGED <<apc, status>>
     \/ ipc = "failed" /\ Exits(1) /\ UNCHANGED ovars
     \/ ipc = "up" /\ apc' = "intro" /\ UNCHANGED <<ovars, status>>
  /\ UNCHANGED <<palette, saved, call, fpc, ret, locals, initcurses>>

\* print_intro() has got its key; the unit test is done with.
Intro ==
  /\ apc = "intro" /\ apc' = (IF initcurses THEN "demo" ELSE "stop")
  /\ UNCHANGED <<fvars, ovars, initcurses, status>>

\* panelreel_demo() without an eventfd or a reel.
NoReel ==
  /\ apc = "demo" /\ apc' = "stop" /\ status' = -1
  /\ UNCHANGED <<fvars, ovars, initcurses>>

\* p: the process exits as it is.
Pause ==
  /\ apc = "demo" /\ apc' = "paused" /\ status' = 1
  /\ UNCHANGED <<fvars, ovars, initcurses>>

\* q: the palette fades out, ...
Quit ==
  /\ apc = "demo" /\ apc' = "quit" /\ fadeout(FADE_MILLISECONDS)
  /\ UNCHANGED <<terminal, warnings, ipc, ploop, mode, initcurses, status>>

Fading ==
  /\ apc = "quit" /\ FadeStep
  /\ UNCHANGED <<terminal, warnings, ipc, ploop, mode, apc, initcurses, status>>

\* ... well or not, and the reel is destroyed.
DemoEnds ==
  /\ apc = "quit" /\ fpc = "idle" /\ apc' = "stop"
  /\ status' \in {0, -1}
  /\ UNCHANGED <<fvars, ovars, initcurses>>

\* The process is killed by a signal: a redraw, in the main loop or while the
\* tablets are killed, uses a context that was freed, or asserts that a summary
\* fits its tablet, or panelreel_destroy() gets a reel with tablets.
Killed ==
  /\ apc = "demo" \/ (apc = "quit" /\ fpc = "idle")
  /\ apc' = "killed"
  /\ UNCHANGED <<fvars, ovars, initcurses, status>>

\* outcurses_stop() answers 0, whatever it did, and main() returns what the demo
\* did.
Stop ==
  /\ apc = "stop" /\ apc' = "exited" /\ outcurses_stop(initcurses)
  /\ UNCHANGED <<palette, saved, call, fpc, ret, locals, initcurses, status>>

MainInit ==
  /\ FadeInit /\ OutcursesInit
  /\ apc = "main" /\ initcurses \in BOOLEAN /\ status = 0

\* What the process does without waiting for a key.
MainStep == Start \/ Initialise \/ Fading \/ DemoEnds \/ Stop

MainNext == MainStep \/ StartCurses \/ Intro \/ NoReel \/ Pause \/ Quit \/ Killed

MainSpec == MainInit /\ [][MainNext]_mvars /\ WF_mvars(MainStep)

----------------------------------------------------------------------------
(* What makes the program correct *)

\* Every variable has its type.
MainTypeOK ==
  /\ pairs \in [PairNumber -> Pair \cup {Unset}]
  /\ {stdscr, curses, refused, initcurses} \subseteq BOOLEAN
  /\ modes \subseteq {Setup[m] : m \in DOMAIN Setup}
  /\ warnings \subseteq {Setup[m] : m \in DOMAIN Setup} \cup {"colors", "pairs", "endwin"}
  /\ ipc \in {"off", "initscr", "colors", "pairs", "modes", "up", "failed"}
  /\ apc \in {"main", "init", "intro", "demo", "quit", "stop", "exited", "paused",
             "killed"}
  /\ bg \in -1..(COLORS - 1) /\ fg \in 0..COLORS /\ pair \in 0..COLOR_PAIRS
  /\ mode \in 0..Len(Setup) /\ status \in {-1, 0, 1}

\* Colour pair p shows the foreground and the background it is the number of,
\* wherever the loop over the pairs was left: the demo computes its pair for
\* the focused tablet from that number (bin/panelreel.c:247).
PairsNumbered ==
  \A p \in PairNumber :
    pairs[p] # Unset =>
      pairs[p].fg \in Colour /\ p = (pairs[p].bg + 1) * COLORS + pairs[p].fg

\* No exit leaves the terminal half configured: what outcurses_init() returns
\* is in curses mode with every mode the library relies on, ...
Configured ==
  ipc = "up" => curses /\ (initcurses => Required \subseteq modes)

\* ... without a warning with every mode and every pair there is, until a fade
\* has the pairs reset, ...
Silent ==
  ipc = "up" /\ initcurses /\ warnings = {} /\ call = "none" =>
    /\ modes = {Setup[m] : m \in DOMAIN Setup}
    /\ \A p \in PairNumber \ {0} : p < COLORS * COLORS => pairs[p] # Unset

\* ... and whatever fails on the way, from the first mode to the fade, main() has
\* the terminal restored before it returns: it leaves it in curses mode only if
\* endwin() itself was refused, and then the process says so, by its status or
\* on stderr.  (p, and what kills the process, go round main().)
Restored ==
  apc = "exited" /\ initcurses =>
    /\ curses => refused
    /\ refused => status = 1 \/ "endwin" \in warnings

\* The set-up ends, and so does the program once it is quit: no fade keeps it.
Ends == apc \in {"init", "quit"} ~> apc \in {"intro", "exited", "killed"}
=============================================================================
