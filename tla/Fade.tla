-------------------------------- MODULE Fade --------------------------------
(***************************************************************************)
(* src/lib/fade.c: the palette fades.  A fade scales every component of    *)
(* the palette, in rounds: it reads the clock, derives from the time that  *)
(* has passed how far the fade ought to be, paints every colour and sleeps *)
(* until a later round is due.  The clock runs on while it paints and the  *)
(* sleep may end late; colours, clock and memory may be refused.           *)
(*                                                                         *)
(* Calls are made one at a time, by an application that owns one array,    *)
(* saved, which retrieve_palette() fills and fadein() fades to.            *)
(***************************************************************************)
EXTENDS Terminal, FiniteSetsExt

CONSTANTS
  NANOSECS_IN_MS,   \* the clock's resolution
  Milliseconds,     \* the durations asked for
  MaxLate,          \* how late the clock may be read, in nanoseconds
  Palettes          \* the palettes a terminal may start with

\* A component has fewer levels than a millisecond has nanoseconds.
ASSUME FadeAssumption ==
  /\ NANOSECS_IN_MS \in Nat /\ Depth <= NANOSECS_IN_MS
  /\ Milliseconds \subseteq Nat /\ MaxLate \in Nat /\ Palettes \subseteq Palette

VARIABLES
  saved,      \* the application's array of colours
  call,       \* the last call: "fadeout", "fadein", or another one
  fpc,        \* where it is: "round", "sleep", "idle" (it has returned), or
              \* "undefined": C does not say what happens next
  ret,        \* what it returned
  target,     \* orig of fadeout(), palette of fadein()
  count,      \* the number of colours in target
  buffer,     \* whether malloc() gave fadein() its buffer
  ms, maxsteps, nanosecs_step, iter,   \* the locals of these names
  elapsed     \* curns - startns

locals == <<target, count, buffer, ms, maxsteps, nanosecs_step, iter, elapsed>>
fvars == <<palette, pairs, saved, call, fpc, ret, locals>>

----------------------------------------------------------------------------
(* Palettes *)

Black == [c \in Colour |-> [h \in Channel |-> 0]]

\* The largest component of the first n colours; retrieve_palette() and
\* find_palette_max() both compute it.
Brightest(p, n) ==
  Max({p[c][h] : c \in {d \in Colour : d < n}, h \in Channel} \cup {0})

\* Mutant: the fade runs the other way.
ScaledUp(p, i) ==
  [c \in Colour |-> [h \in Channel |-> (p[c][h] * i) \div maxsteps]]

\* Palette p in round i of the call under way.
Scaled(p, i) ==
  LET share == IF call = "fadeout" THEN maxsteps - i ELSE i
  IN [c \in Colour |-> [h \in Channel |-> (p[c][h] * share) \div maxsteps]]

\* No component of p is brighter than that of q.
Darker(p, q) == \A c \in Colour, h \in Channel : p[c][h] <= q[c][h]

\* The first n colours of the application's array were retrieved.
Retrieved(n) == \A c \in Colour : c < n => saved[c] # Unset

----------------------------------------------------------------------------
(* The calls *)

Returns(r) == fpc' = "idle" /\ ret' = r

\* Mutant: a colour is read after it was zeroed.
RetrieveZeroed(n, zeroout) ==
  /\ fpc = "idle" /\ call' = "retrieve_palette"
  /\ \E k \in 0..n :
       /\ palette' = IF zeroout THEN Painted(Black, k) ELSE palette
       /\ saved' = [c \in Colour |-> IF c < k THEN palette'[c] ELSE saved[c]]
       /\ Returns(IF k = n THEN 0 ELSE -1)
  /\ UNCHANGED <<pairs, locals>>

\* Colour by colour, up to the first, k, that cannot be read, or cannot be
\* zeroed once it is read.
retrieve_palette(n, zeroout) ==
  /\ fpc = "idle" /\ call' = "retrieve_palette"
  /\ \E k \in 0..n :
       /\ \E l \in {k} \cup (IF zeroout /\ k < n THEN {k + 1} ELSE {}) :
            saved' = [c \in Colour |-> IF c < l THEN palette[c] ELSE saved[c]]
       /\ palette' = IF zeroout THEN Painted(Black, k) ELSE palette
       /\ Returns(IF k = n THEN 0 ELSE -1)
  /\ UNCHANGED <<pairs, locals>>

\* Up to the first colour that is refused.
set_palette(n) ==
  /\ fpc = "idle" /\ call' = "set_palette" /\ Retrieved(n)
  /\ \E k \in 0..n :
       palette' = Painted(saved, k) /\ Returns(IF k = n THEN 0 ELSE -1)
  /\ UNCHANGED <<pairs, saved, locals>>

\* Mutant: the division comes first.
StepTruncated(m, steps) == (m \div steps) * NANOSECS_IN_MS

\* Number of nanoseconds in an ideal steptime.
StepTime(m, steps) == (m * NANOSECS_IN_MS) \div steps

\* A fade of m milliseconds in so many steps begins: the step time, which C
\* does not define without a step, and the first two readings of the clock.
Begins(p, n, m, steps) ==
  /\ target' = p /\ count' = n /\ ms' = m /\ maxsteps' = steps /\ iter' = 0
  /\ IF steps > 0
     THEN /\ fpc' = "round" /\ nanosecs_step' = StepTime(m, steps)
          /\ elapsed' \in 0..MaxLate
     ELSE fpc' = "undefined" /\ UNCHANGED <<nanosecs_step, elapsed>>
  /\ UNCHANGED <<palette, pairs, saved, ret>>

\* A palette without light is taken for an error.
fadeout(m) ==
  /\ fpc = "idle" /\ call' = "fadeout"
  /\ \/ /\ Brightest(palette, COLORS) >= 1 /\ buffer' = TRUE
        /\ Begins(palette, COLORS, m, Brightest(palette, COLORS))
     \/ \* ... and so are missing memory, or a colour that cannot be read.
        /\ Returns(-1) /\ target' = palette
        /\ UNCHANGED <<palette, pairs, saved, count, buffer, ms, maxsteps,
                       nanosecs_step, iter, elapsed>>

\* Neither the buffer nor the divisor of the step time is checked.
fadein(n, m) ==
  /\ fpc = "idle" /\ call' = "fadein" /\ Retrieved(n)
  /\ buffer' \in BOOLEAN
  /\ Begins(saved, n, m, Brightest(saved, n))

----------------------------------------------------------------------------
(* The rounds of a fade *)

\* The round that the time passed calls for.
Due == elapsed \div nanosecs_step + 1

\* Mutant: the fade ends a step late.
OverSoon == Due > maxsteps + 1

Over == Due > maxsteps

\* The buffer is written, and the palette read, for every colour there is.
Reachable == buffer /\ count = COLORS

\* C does not say what comes of a division by zero, a null pointer or an
\* index out of bounds.
Stray ==
  /\ fpc = "round" /\ fpc' = "undefined"
  /\ IF nanosecs_step = 0 THEN TRUE ELSE ~Over /\ ~Reachable
  /\ UNCHANGED <<palette, pairs, saved, call, ret, locals>>

\* Every colour is painted for this round, up to one that is refused.
Round ==
  /\ fpc = "round" /\ nanosecs_step > 0 /\ ~Over /\ Reachable
  /\ iter' = Due
  /\ \E k \in 0..COLORS :
       /\ palette' = Painted(Scaled(target, Due), k)
       /\ IF k = COLORS THEN fpc' = "sleep" /\ UNCHANGED ret ELSE Returns(-1)
  /\ UNCHANGED <<pairs, saved, call, target, count, buffer, ms, maxsteps,
                 nanosecs_step, elapsed>>

\* Mutant: it sleeps until the round under way was due.
WakeNow == (iter - 1) * nanosecs_step

nextwake == (iter + 1) * nanosecs_step

\* clock_nanosleep() until the next wake, or later; a signal ends the fade.
Sleep ==
  /\ fpc = "sleep"
  /\ \/ /\ fpc' = "round" /\ UNCHANGED ret
        /\ \E late \in 0..MaxLate : elapsed' = nextwake + late
     \/ Returns(-1) /\ UNCHANGED elapsed
  /\ UNCHANGED <<palette, pairs, saved, call, target, count, buffer, ms,
                 maxsteps, nanosecs_step, iter>>

\* Mutant: the palette is left as it was last painted.
NotRestored ==
  /\ fpc = "round" /\ nanosecs_step > 0 /\ Over
  /\ Returns(0)
  /\ UNCHANGED <<palette, pairs, saved, call, locals>>

\* The time is up: fadeout() restores the palette, and resets the pairs;
\* fadein() leaves it as it is.
Finish ==
  /\ fpc = "round" /\ nanosecs_step > 0 /\ Over
  /\ \/ call = "fadein" /\ Returns(0) /\ UNCHANGED <<palette, pairs>>
     \/ /\ call = "fadeout"
        /\ \E k \in 0..COLORS :
             /\ palette' = Painted(target, k)
             /\ IF k = COLORS THEN Returns(0) /\ pairs' = NoPairs
                              ELSE Returns(-1) /\ UNCHANGED pairs
  /\ UNCHANGED <<saved, call, locals>>

FadeStep == Stray \/ Round \/ Sleep \/ Finish

----------------------------------------------------------------------------
FadeInit ==
  /\ palette \in Palettes
  /\ saved = [c \in Colour |-> Unset]
  /\ call = "none" /\ fpc = "idle" /\ ret = 0
  /\ target = saved /\ count = 0 /\ buffer = FALSE /\ ms = 0
  /\ maxsteps = 0 /\ nanosecs_step = 0 /\ iter = 0 /\ elapsed = 0

FadeCall ==
  \/ \E n \in 0..COLORS :
       \/ \E zeroout \in BOOLEAN : retrieve_palette(n, zeroout)
       \/ set_palette(n)
       \/ \E m \in Milliseconds : fadein(n, m)
  \/ \E m \in Milliseconds : fadeout(m)

FadeNext == FadeCall \/ FadeStep

\* On its own, without the set-up of colour pairs.
InitAlone == FadeInit /\ pairs = NoPairs

FadeSpec == InitAlone /\ [][FadeNext]_fvars

\* A fade runs in the thread that called it, and the clock goes on.
FairFadeSpec == FadeSpec /\ WF_fvars(FadeStep)

----------------------------------------------------------------------------
(* What makes the fades correct *)

\* Every variable has its type.
FadeTypeOK ==
  /\ palette \in Palette
  /\ saved \in [Colour -> Rgb \cup {Unset}] /\ target \in [Colour -> Rgb \cup {Unset}]
  /\ call \in {"none", "retrieve_palette", "set_palette", "fadeout", "fadein"}
  /\ fpc \in {"idle", "round", "sleep", "undefined"}
  /\ ret \in {0, -1} /\ buffer \in BOOLEAN
  /\ count \in 0..COLORS /\ maxsteps \in Level /\ iter \in Level
  /\ {ms, nanosecs_step, elapsed} \subseteq Nat
  /\ fpc \in {"round", "sleep"} => call \in {"fadeout", "fadein"}

\* A fade only goes one way, however irregular the clock: no round of
\* fadeout() makes a component brighter, and none of fadein() but the first
\* makes one darker (fade.c:115, 186).
OneWay ==
  [][fpc = "round" /\ fpc' = "sleep" =>
       \/ call = "fadeout" /\ Darker(palette', palette)
       \/ call = "fadein" /\ (iter = 0 \/ Darker(palette, palette'))]_fvars

\* fadeout() that succeeds leaves the palette it found; wherever else it
\* stops, the palette is that one with some colours dimmed, none brighter.
AfterFadeout ==
  call = "fadeout" =>
    /\ Darker(palette, target)
    /\ fpc = "idle" /\ ret = 0 => palette = target

\* A fade takes the milliseconds it is given, less the fraction of a
\* nanosecond each step loses, and never sleeps for more than a step beyond.
Punctual ==
  /\ fpc = "sleep" => nextwake <= ms * NANOSECS_IN_MS + nanosecs_step
  /\ fpc = "idle" /\ ret = 0 /\ call \in {"fadeout", "fadein"} =>
       elapsed + maxsteps > ms * NANOSECS_IN_MS

\* C leaves undefined what happens only for fades that take no time and, in
\* fadein(), for black palettes, for a palette smaller than the terminal's and
\* when there is no memory.
Defined ==
  fpc = "undefined" =>
    \/ ms = 0
    \/ call = "fadein" /\ (maxsteps = 0 \/ count < COLORS \/ ~buffer)

\* retrieve_palette() destroys nothing: a colour it has zeroed is one it has
\* read before, also when it fails half way.
NothingLost ==
  [][call' = "retrieve_palette" =>
       \A c \in Colour : palette'[c] = palette[c] \/ saved'[c] = palette[c]]_fvars

\* Every fade ends.
FadeEnds == fpc \in {"round", "sleep"} ~> fpc \in {"idle", "undefined"}

(* What the header says, and the code does not do *)

\* "fade in to the specified palette" (outcurses.h:42).
ReachesTarget ==
  call = "fadein" /\ fpc = "idle" /\ ret = 0 /\ count = COLORS => palette = target
=============================================================================
