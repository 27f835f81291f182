--------------------------- MODULE DemoMainProofs ---------------------------
(***************************************************************************)
(* Theorems about the main program and the set-up of the terminal, for any *)
(* number of colours and colour pairs, and any palette.                    *)
(***************************************************************************)
EXTENDS DemoMain, TLAPS

Modes == {Setup[m] : m \in DOMAIN Setup}

\* The calls of the first m that configure the terminal.
Done(m) == {Setup[k] : k \in 1..m}

----------------------------------------------------------------------------
(* The inductive invariant *)

\* Where the program and the set-up are determines which of the two has the
\* terminal, whether it is in curses mode, and where a refused endwin(3) leaves it.
PhasesOK ==
  /\ apc = "main" => ipc = "off" /\ curses = stdscr /\ (initcurses => ~curses)
  /\ apc = "init" => ipc # "off"
  /\ apc \in {"intro", "demo", "quit", "stop", "paused", "killed"} => ipc = "up"
  /\ Restored
  /\ refused => ipc = "failed" \/ apc = "exited"
  /\ ipc \in {"initscr", "colors", "pairs", "modes"} => initcurses /\ apc = "init"
  /\ ipc = "initscr" => ~curses
  /\ ipc \in {"colors", "pairs", "modes", "up"} => curses
  /\ ipc = "failed" /\ initcurses /\ curses => refused

\* A mode dealt with is set, or there was a warning and it can be done without.
ModesOK ==
  /\ ipc = "modes" => Done(mode) \subseteq modes \cup (warnings \ Required)
  /\ ipc = "up" /\ initcurses => Modes \subseteq modes \cup (warnings \ Required)

\* The pairs before the one at hand are set, and this one is the one that its
\* number says, until the pairs run out.
PairsOK ==
  /\ ipc = "pairs" =>
       /\ bg = COLORS - 1 => fg = 0
       /\ pair >= COLOR_PAIRS \/ pair = (bg + 1) * COLORS + fg
       /\ "pairs" \notin warnings
       /\ call = "none" => \A p \in PairNumber \ {0} : p < pair => pairs[p] # Unset
  /\ ipc \in {"initscr", "colors"} \/ apc = "main" => "pairs" \notin warnings
  /\ ipc \in {"modes", "up"} /\ initcurses /\ "pairs" \notin warnings /\ call = "none" =>
       \A p \in PairNumber \ {0} : p < COLORS * COLORS => pairs[p] # Unset
  /\ fpc \in {"round", "sleep", "undefined"} => call # "none"

MainInv == MainTypeOK /\ PairsNumbered /\ PhasesOK /\ ModesOK /\ PairsOK

----------------------------------------------------------------------------
\* What the set-up leaves alone.
Rest == UNCHANGED <<apc, initcurses, status, call, fpc>>

\* What outcurses_init() asks of ncurses, and what it has asked for after m
\* calls.
LEMMA SetupFacts ==
  /\ Len(Setup) = 7 /\ DOMAIN Setup = 1..7
  /\ Modes = {"cbreak", "noecho", "intrflush", "nonl", "keypad", "leaveok", "curs_set"}
  /\ Done(0) = {} /\ Done(7) = Modes
  /\ \A m \in 0..6 : Done(m + 1) = Done(m) \cup {Setup[m + 1]} /\ Setup[m + 1] \in Modes
  /\ "pairs" \notin Modes
<1>1. Len(Setup) = 7 /\ DOMAIN Setup = 1..7
  BY DEF Setup
<1>2. Modes = {"cbreak", "noecho", "intrflush", "nonl", "keypad", "leaveok", "curs_set"}
  BY DEF Setup, Modes
<1>3. Done(0) = {} /\ Done(7) = Modes
  BY <1>1 DEF Done, Modes
<1>4. \A m \in 0..6 : Done(m + 1) = Done(m) \cup {Setup[m + 1]} /\ Setup[m + 1] \in Modes
  BY <1>1 DEF Done, Modes
<1> QED
  BY <1>1, <1>2, <1>3, <1>4

\* The pairs of one background more.
LEMMA Rows ==
  ASSUME NEW c \in Nat, NEW b \in Int
  PROVE  (b + 1) * c \in Int /\ (b + 1 + 1) * c = (b + 1) * c + c
  OBVIOUS

\* The program starts without a screen, without pairs and without modes.
LEMMA MainInitially == MainInit => MainInv
<1> SUFFICES ASSUME MainInit PROVE MainInv
  OBVIOUS
<1> USE DEF MainInit, FadeInit, OutcursesInit
<1>1. MainTypeOK
  <2>1. pairs \in [PairNumber -> Pair \cup {Unset}]
    BY DEF NoPairs
  <2>2. bg \in -1..(COLORS - 1) /\ fg \in 0..COLORS /\ pair \in 0..COLOR_PAIRS
    BY TerminalAssumption
  <2>3. mode \in 0..Len(Setup)
    BY SetupFacts
  <2> QED
    BY <2>1, <2>2, <2>3 DEF MainTypeOK
<1>2. PairsNumbered
  BY DEF PairsNumbered, NoPairs
<1>3. PhasesOK /\ ModesOK /\ PairsOK
  BY DEF PhasesOK, Restored, ModesOK, PairsOK
<1> QED
  BY <1>1, <1>2, <1>3 DEF MainInv

----------------------------------------------------------------------------
(* One lemma for each step of the set-up *)

LEMMA InitscrStep == MainInv /\ initscr /\ Rest => MainInv'
<1> SUFFICES ASSUME MainInv, initscr /\ Rest PROVE MainInv'
  OBVIOUS
<1> USE TerminalAssumption, SetupFacts DEF MainInv, Rest, initscr, terminal, ploop
<1>1. MainTypeOK'
  BY DEF MainTypeOK, Modes
<1>2. PairsNumbered'
  BY DEF PairsNumbered
<1>3. PhasesOK'
  BY DEF PhasesOK, Restored
<1>4. ModesOK'
  BY DEF MainTypeOK, ModesOK, PhasesOK, Required
<1>5. PairsOK'
  BY DEF MainTypeOK, PairsOK, PhasesOK
<1> QED
  BY <1>1, <1>2, <1>3, <1>4, <1>5

LEMMA PrepColorsStep == MainInv /\ prep_colors /\ Rest => MainInv'
<1> SUFFICES ASSUME MainInv, prep_colors /\ Rest PROVE MainInv'
  OBVIOUS
<1> USE TerminalAssumption, SetupFacts DEF MainInv, Rest, prep_colors, terminal, ploop, endwin, EndwinRefused, Error
<1>1. MainTypeOK'
  <2>1. bg' \in -1..(COLORS - 1) /\ fg' \in 0..COLORS /\ pair' \in 0..COLOR_PAIRS
    BY DEF MainTypeOK
  <2>2. warnings' \subseteq Modes \cup {"colors", "pairs", "endwin"} /\ modes' \subseteq Modes
    BY DEF MainTypeOK, Modes
  <2>3. mode' \in 0..Len(Setup) /\ {stdscr', curses', initcurses'} \subseteq BOOLEAN
    BY DEF MainTypeOK
  <2> QED
    BY <2>1, <2>2, <2>3 DEF MainTypeOK, Modes
<1>2. PairsNumbered'
  BY DEF PairsNumbered
<1>3. PhasesOK'
  <2>1. ipc = "colors" /\ apc = "init" /\ initcurses /\ ~refused
    BY DEF PhasesOK
  <2>2. CASE ipc' = "pairs"
    BY <2>1, <2>2 DEF PhasesOK, Restored
  <2>3. CASE Error
    BY <2>1, <2>3 DEF PhasesOK, Restored
  <2> QED
    BY <2>2, <2>3
<1>4. ModesOK'
  BY DEF MainTypeOK, ModesOK, PhasesOK, Required
<1>5. PairsOK'
  <2>1. "pairs" \notin warnings'
    BY DEF PairsOK
  <2>2. CASE ipc' = "pairs"
    <3>1. bg' = -1 /\ fg' = 0 /\ pair' = 0
      BY <2>2
    <3>2. (bg' + 1) * COLORS + fg' = 0
      BY <3>1
    <3>3. \A p \in PairNumber \ {0} : ~(p < pair')
      BY <3>1 DEF PairNumber
    <3>4. bg' # COLORS - 1
      BY <3>1
    <3> QED
      BY <2>1, <2>2, <3>1, <3>2, <3>3, <3>4 DEF PairsOK, PhasesOK
  <2>3. CASE ipc' = "failed"
    BY <2>3 DEF PairsOK
  <2> QED
    BY <2>2, <2>3
<1> QED
  BY <1>1, <1>2, <1>3, <1>4, <1>5

LEMMA InitPairStep == MainInv /\ InitPair /\ Rest => MainInv'
<1> SUFFICES ASSUME MainInv, InitPair /\ Rest PROVE MainInv'
  OBVIOUS
<1> USE TerminalAssumption, SetupFacts DEF MainInv, Rest, InitPair, terminal, ploop
<1>1. MainTypeOK'
  <2>1. bg' \in -1..(COLORS - 1) /\ fg' \in 0..COLORS /\ pair' \in 0..COLOR_PAIRS
    BY DEF MainTypeOK
  <2>2. warnings' \subseteq Modes \cup {"colors", "pairs", "endwin"} /\ modes' \subseteq Modes
    BY DEF MainTypeOK, Modes
  <2>3. pairs' \in [PairNumber -> Pair \cup {Unset}]
    <3>1. [fg |-> fg, bg |-> bg] \in Pair
      BY DEF MainTypeOK, Pair, Colour
    <3> QED
      BY <3>1 DEF MainTypeOK
  <2> QED
    BY <2>1, <2>2, <2>3 DEF MainTypeOK, Modes
<1>2. PairsNumbered'
  <2>1. pair = (bg + 1) * COLORS + fg
    BY DEF PairsOK, MainTypeOK
  <2> SUFFICES ASSUME NEW p \in PairNumber, pairs'[p] # Unset
               PROVE  /\ pairs'[p].fg \in Colour
                      /\ p = (pairs'[p].bg + 1) * COLORS + pairs'[p].fg
    BY DEF PairsNumbered
  <2>2. CASE pair # 0 /\ p = pair
    <3>1. pairs'[p] = [fg |-> fg, bg |-> bg]
      BY <2>2 DEF MainTypeOK
    <3> QED
      BY <2>1, <2>2, <3>1 DEF MainTypeOK, Colour
  <2>3. CASE ~(pair # 0 /\ p = pair)
    <3>1. pairs'[p] = pairs[p]
      BY <2>3 DEF MainTypeOK
    <3> QED
      BY <3>1 DEF PairsNumbered
  <2> QED
    BY <2>2, <2>3
<1>3. PhasesOK'
  BY DEF PhasesOK, Restored
<1>4. ModesOK'
  BY DEF MainTypeOK, ModesOK, PhasesOK, Required
<1>5. PairsOK'
  <2>1. (bg + 1) * COLORS \in Int
    BY Rows DEF MainTypeOK
  <2>2. pair' = (bg' + 1) * COLORS + fg'
    BY <2>1 DEF PairsOK, MainTypeOK
  <2>3. ASSUME call = "none", NEW p \in PairNumber \ {0}, p < pair'
        PROVE  pairs'[p] # Unset
    <3>1. CASE p = pair
      <4>1. [fg |-> fg, bg |-> bg] \in Pair
        BY DEF MainTypeOK, Pair, Colour
      <4> QED
        BY <3>1, <4>1, UnsetAssumption DEF MainTypeOK
    <3>2. CASE p # pair
      BY <2>3, <3>2 DEF PairsOK, MainTypeOK, PairNumber
    <3> QED
      BY <3>1, <3>2
  <2>4. bg' # COLORS - 1 /\ "pairs" \notin warnings'
    BY DEF PairsOK, MainTypeOK
  <2> QED
    BY <2>2, <2>3, <2>4 DEF PairsOK, PhasesOK
<1> QED
  BY <1>1, <1>2, <1>3, <1>4, <1>5

LEMMA NextBackgroundStep == MainInv /\ NextBackground /\ Rest => MainInv'
<1> SUFFICES ASSUME MainInv, NextBackground /\ Rest PROVE MainInv'
  OBVIOUS
<1> USE TerminalAssumption, SetupFacts DEF MainInv, Rest, NextBackground, terminal, ploop
<1>1. MainTypeOK'
  BY DEF MainTypeOK, Modes
<1>2. PairsNumbered'
  BY DEF PairsNumbered
<1>3. PhasesOK'
  BY DEF PhasesOK, Restored
<1>4. ModesOK'
  BY DEF MainTypeOK, ModesOK, PhasesOK, Required
<1>5. PairsOK'
  BY DEF MainTypeOK, PairsOK, PhasesOK
<1> QED
  BY <1>1, <1>2, <1>3, <1>4, <1>5

LEMMA PairsDoneStep == MainInv /\ PairsDone /\ Rest => MainInv'
<1> SUFFICES ASSUME MainInv, PairsDone /\ Rest PROVE MainInv'
  OBVIOUS
<1> USE TerminalAssumption, SetupFacts DEF MainInv, Rest, PairsDone, terminal, ploop
<1>1. MainTypeOK'
  BY DEF MainTypeOK, Modes
<1>2. PairsNumbered'
  BY DEF PairsNumbered
<1>3. PhasesOK'
  BY DEF PhasesOK, Restored
<1>4. ModesOK'
  BY DEF MainTypeOK, ModesOK, PhasesOK, Required
<1>5. PairsOK'
  <2>1. ASSUME "pairs" \notin warnings', call = "none",
               NEW p \in PairNumber \ {0}, p < COLORS * COLORS
        PROVE  pairs[p] # Unset
    <3>1. bg = COLORS - 1 /\ fg = 0
      BY <2>1 DEF PairsOK
    <3>2. (bg + 1) * COLORS = COLORS * COLORS
      BY <3>1
    <3>3. p < pair
      BY <2>1, <3>1, <3>2 DEF PairsOK, MainTypeOK, PairNumber
    <3> QED
      BY <2>1, <3>3 DEF PairsOK
  <2> QED
    BY <2>1 DEF PairsOK, PhasesOK
<1> QED
  BY <1>1, <1>2, <1>3, <1>4, <1>5

LEMMA SetModeStep == MainInv /\ SetMode /\ Rest => MainInv'
<1> SUFFICES ASSUME MainInv, SetMode /\ Rest PROVE MainInv'
  OBVIOUS
<1> USE TerminalAssumption, SetupFacts DEF MainInv, Rest, SetMode, terminal, ploop
<1>1. MainTypeOK'
  BY DEF MainTypeOK, Modes
<1>2. PairsNumbered'
  BY DEF PairsNumbered
<1>3. PhasesOK'
  BY DEF PhasesOK, Restored
<1>4. ModesOK'
  BY DEF MainTypeOK, ModesOK, PhasesOK, Required
<1>5. PairsOK'
  BY DEF MainTypeOK, PairsOK, PhasesOK
<1> QED
  BY <1>1, <1>2, <1>3, <1>4, <1>5

LEMMA ModeFailsStep == MainInv /\ ModeFails /\ Rest => MainInv'
<1> SUFFICES ASSUME MainInv, ModeFails /\ Rest PROVE MainInv'
  OBVIOUS
<1> USE TerminalAssumption, SetupFacts DEF MainInv, Rest, ModeFails, terminal, ploop, endwin, EndwinRefused, Error
<1>1. MainTypeOK'
  <2>1. Setup[mode + 1] \in Modes
    BY DEF MainTypeOK
  <2>2. warnings' \subseteq Modes \cup {"colors", "pairs", "endwin"} /\ modes' \subseteq Modes
    BY <2>1 DEF MainTypeOK, Modes
  <2>3. mode' \in 0..Len(Setup) /\ ipc' \in {"modes", "failed"}
    BY DEF MainTypeOK
  <2>4. {stdscr', curses', initcurses'} \subseteq BOOLEAN
    BY DEF MainTypeOK
  <2> QED
    BY <2>2, <2>3, <2>4 DEF MainTypeOK, Modes
<1>2. PairsNumbered'
  BY DEF PairsNumbered
<1>3. PhasesOK'
  BY DEF PhasesOK, Restored
<1>4. ModesOK'
  <2>1. CASE Setup[mode + 1] \in Required
    BY <2>1 DEF ModesOK
  <2>2. CASE Setup[mode + 1] \notin Required
    <3>1. mode \in 0..6 /\ mode' = mode + 1 /\ ipc' = "modes" /\ modes' = modes
      BY <2>2 DEF MainTypeOK
    <3>2. Done(mode') = Done(mode) \cup {Setup[mode + 1]}
      BY <3>1
    <3>3. warnings' = warnings \cup {Setup[mode + 1]}
      BY <2>2
    <3>4. Done(mode) \subseteq modes \cup (warnings \ Required)
      BY DEF ModesOK
    <3> QED
      BY <2>2, <3>1, <3>2, <3>3, <3>4 DEF ModesOK
  <2> QED
    BY <2>1, <2>2
<1>5. PairsOK'
  BY DEF MainTypeOK, PairsOK, PhasesOK
<1> QED
  BY <1>1, <1>2, <1>3, <1>4, <1>5

LEMMA ModesDoneStep == MainInv /\ ModesDone /\ Rest => MainInv'
<1> SUFFICES ASSUME MainInv, ModesDone /\ Rest PROVE MainInv'
  OBVIOUS
<1> USE TerminalAssumption, SetupFacts DEF MainInv, Rest, ModesDone, terminal, ploop
<1>1. MainTypeOK'
  BY DEF MainTypeOK, Modes
<1>2. PairsNumbered'
  BY DEF PairsNumbered
<1>3. PhasesOK'
  BY DEF PhasesOK, Restored
<1>4. ModesOK'
  BY DEF MainTypeOK, ModesOK, PhasesOK, Required
<1>5. PairsOK'
  BY DEF MainTypeOK, PairsOK, PhasesOK
<1> QED
  BY <1>1, <1>2, <1>3, <1>4, <1>5

----------------------------------------------------------------------------
(* One lemma for each step of the program *)

LEMMA StartStep == MainInv /\ Start => MainInv'
<1> SUFFICES ASSUME MainInv, Start PROVE MainInv'
  OBVIOUS
<1> USE DEF MainInv, ovars, fvars, locals, terminal, ploop, Start, outcurses_init, Exits
<1>1. MainTypeOK'
  BY DEF MainTypeOK
<1>2. PairsNumbered'
  BY DEF PairsNumbered
<1>3. PhasesOK'
  BY DEF PhasesOK, Restored, MainTypeOK
<1>4. ModesOK'
  BY DEF ModesOK, PhasesOK
<1>5. PairsOK'
  BY DEF PairsOK, PhasesOK
<1> QED
  BY <1>1, <1>2, <1>3, <1>4, <1>5

LEMMA StartCursesStep == MainInv /\ StartCurses => MainInv'
<1> SUFFICES ASSUME MainInv, StartCurses PROVE MainInv'
  OBVIOUS
<1> USE DEF MainInv, ovars, fvars, locals, terminal, ploop, StartCurses
<1>1. MainTypeOK'
  BY DEF MainTypeOK
<1>2. PairsNumbered'
  BY DEF PairsNumbered
<1>3. PhasesOK'
  BY DEF PhasesOK, Restored, MainTypeOK
<1>4. ModesOK'
  BY DEF ModesOK, PhasesOK
<1>5. PairsOK'
  BY DEF PairsOK, PhasesOK
<1> QED
  BY <1>1, <1>2, <1>3, <1>4, <1>5

LEMMA InitialiseStep == MainInv /\ Initialise => MainInv'
<1> SUFFICES ASSUME MainInv, Initialise PROVE MainInv'
  OBVIOUS
<1> USE DEF Initialise
<1>1. CASE OutcursesStep /\ UNCHANGED <<apc, status>>
  BY <1>1, InitscrStep, PrepColorsStep, InitPairStep, NextBackgroundStep,
     PairsDoneStep, SetModeStep, ModeFailsStep, ModesDoneStep
  DEF OutcursesStep, Rest
<1>2. CASE ipc = "failed" /\ Exits(1) /\ UNCHANGED ovars
  BY <1>2 DEF MainInv, MainTypeOK, PairsNumbered, PhasesOK, Restored, ModesOK, PairsOK,
              Exits, ovars, fvars, locals, terminal, ploop
<1>3. CASE ipc = "up" /\ apc' = "intro" /\ UNCHANGED <<ovars, status>>
  BY <1>3 DEF MainInv, MainTypeOK, PairsNumbered, PhasesOK, Restored, ModesOK, PairsOK, ovars, fvars, locals, terminal, ploop
<1> QED
  BY <1>1, <1>2, <1>3

\* The program waits for a key, or leaves the demo, and nothing else changes.
LEMMA WaitingStep ==
  MainInv /\ (Intro \/ NoReel \/ Pause \/ DemoEnds \/ Killed \/ UNCHANGED mvars) => MainInv'
  BY DEF MainInv, MainTypeOK, PairsNumbered, PhasesOK, Restored, ModesOK, PairsOK,
         Intro, NoReel, Pause, DemoEnds, Killed, mvars, ovars, fvars, locals, terminal, ploop

LEMMA QuitStep == MainInv /\ Quit => MainInv'
<1> SUFFICES ASSUME MainInv, Quit PROVE MainInv'
  OBVIOUS
<1> USE DEF MainInv, ovars, fvars, locals, terminal, ploop, Quit, fadeout, Begins, Returns
<1>1. MainTypeOK'
  BY DEF MainTypeOK
<1>2. PairsNumbered'
  BY DEF PairsNumbered
<1>3. PhasesOK'
  BY DEF PhasesOK, Restored, MainTypeOK
<1>4. ModesOK'
  BY DEF ModesOK, PhasesOK
<1>5. PairsOK'
  BY DEF PairsOK, PhasesOK
<1> QED
  BY <1>1, <1>2, <1>3, <1>4, <1>5

LEMMA FadingStep == MainInv /\ Fading => MainInv'
<1> SUFFICES ASSUME MainInv, Fading PROVE MainInv'
  OBVIOUS
<1> USE DEF MainInv, ovars, fvars, locals, terminal, ploop, Fading, FadeStep, Stray, Round, Sleep, Finish, Returns
<1>1. MainTypeOK'
  <2>1. pairs' \in [PairNumber -> Pair \cup {Unset}]
    BY DEF MainTypeOK, NoPairs
  <2> QED
    BY <2>1 DEF MainTypeOK
<1>2. PairsNumbered'
  <2>1. CASE UNCHANGED pairs
    BY <2>1 DEF PairsNumbered
  <2>2. CASE pairs' = NoPairs
    BY <2>2 DEF PairsNumbered, NoPairs
  <2> QED
    BY <2>1, <2>2
<1>3. PhasesOK'
  BY DEF PhasesOK, Restored, MainTypeOK
<1>4. ModesOK'
  BY DEF ModesOK, PhasesOK
<1>5. PairsOK'
  BY DEF PairsOK, PhasesOK
<1> QED
  BY <1>1, <1>2, <1>3, <1>4, <1>5

LEMMA StopStep == MainInv /\ Stop => MainInv'
<1> SUFFICES ASSUME MainInv, Stop PROVE MainInv'
  OBVIOUS
<1> USE DEF MainInv, ovars, fvars, locals, terminal, ploop, Stop, outcurses_stop, endwin, EndwinRefused
<1>1. MainTypeOK'
  BY DEF MainTypeOK
<1>2. PairsNumbered'
  BY DEF PairsNumbered
<1>3. PhasesOK'
  <2>1. apc = "stop" /\ apc' = "exited" /\ ipc' = "off" /\ ~refused
    BY DEF PhasesOK
  <2>2. CASE initcurses /\ endwin
    BY <2>1, <2>2 DEF PhasesOK, Restored
  <2>3. CASE initcurses /\ EndwinRefused /\ warnings' = warnings \cup {"endwin"}
    BY <2>1, <2>3 DEF PhasesOK, Restored
  <2>4. CASE ~initcurses /\ UNCHANGED <<terminal, warnings>>
    BY <2>1, <2>4 DEF PhasesOK, Restored
  <2> QED
    BY <2>2, <2>3, <2>4
<1>4. ModesOK'
  BY DEF ModesOK, PhasesOK
<1>5. PairsOK'
  BY DEF PairsOK, PhasesOK
<1> QED
  BY <1>1, <1>2, <1>3, <1>4, <1>5

----------------------------------------------------------------------------
\* One step per action, gathered.
LEMMA MainInductive == MainSpec => []MainInv
<1>1. MainInv /\ [MainNext]_mvars => MainInv'
  BY StartStep, StartCursesStep, InitialiseStep, WaitingStep, QuitStep,
     FadingStep, StopStep DEF MainNext, MainStep
<1> QED
  BY <1>1, MainInitially, PTL DEF MainSpec

\* Every variable of the set-up and of the program has its type: in particular
\* the loop over the colour pairs never counts past COLOR_PAIRS, and sets no
\* pair that does not exist (colors.c:28).
THEOREM MainTypes == MainSpec => []MainTypeOK
<1>1. MainInv => MainTypeOK
  BY DEF MainInv
<1> QED
  BY <1>1, MainInductive, PTL

\* Colour pair p has the colours its number says, for any number of colours and
\* pairs, at every step of the loop of prep_colors() and however it is left
\* (colors.c:26-41).
THEOREM PairsAreNumbered == MainSpec => []PairsNumbered
<1>1. MainInv => PairsNumbered
  BY DEF MainInv
<1> QED
  BY <1>1, MainInductive, PTL

\* A window that outcurses_init() returns is one in curses mode, with every mode
\* that was required, whatever else was refused (outcurses.c:12-49).
THEOREM InitConfigures == MainSpec => []Configured
<1>1. MainInv => Configured
  BY SetupFacts DEF MainInv, PhasesOK, ModesOK, Configured, Required
<1> QED
  BY <1>1, MainInductive, PTL

\* Without a warning nothing is missing: all modes, and all pairs that colours
\* and COLOR_PAIRS allow (colors.c:28, outcurses.c:15-49).
THEOREM InitIsSilent == MainSpec => []Silent
<1>1. MainInv => Silent
  BY SetupFacts DEF MainInv, MainTypeOK, ModesOK, PairsOK, Silent, Modes
<1> QED
  BY <1>1, MainInductive, PTL

\* When main() returns after it had curses mode set up, by whatever way - a start
\* that failed at any call, a reel that failed, or a fade that did -, the terminal
\* is out of it, or endwin() was refused and the process has said so
\* (demo.c:50-61, outcurses.c:58-70).
THEOREM ExitRestores == MainSpec => []Restored
<1>1. MainInv => Restored
  BY DEF MainInv, PhasesOK, Restored
<1> QED
  BY <1>1, MainInductive, PTL
=============================================================================
