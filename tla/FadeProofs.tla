----------------------------- MODULE FadeProofs -----------------------------
(***************************************************************************)
(* Theorems about the palette fades, for any number of colours, depth of   *)
(* components, durations and resolution of the clock, and any lateness.    *)
(***************************************************************************)
EXTENDS Fade, FiniteSetTheorems, WellFoundedInduction, TLAPS

(* The inductive invariant *)

\* A fade under way has steps, the step time that follows from them, and a
\* palette to fade to, or from, as far as it was given one.
StepsOK ==
  fpc \in {"round", "sleep"} =>
    /\ maxsteps > 0 /\ nanosecs_step = StepTime(ms, maxsteps)
    /\ \A c \in Colour : c < count => target[c] \in Rgb
    /\ call = "fadeout" => Reachable

\* The palette is what the last round painted, and the next round is later.
RoundsOK ==
  /\ fpc = "sleep" => iter > 0
  /\ fpc \in {"round", "sleep"} /\ iter > 0 =>
       /\ Reachable /\ nanosecs_step > 0 /\ iter <= maxsteps
       /\ palette = Scaled(target, iter)
  /\ fpc = "round" /\ iter > 0 => elapsed >= nextwake
  /\ fpc \in {"round", "sleep"} /\ iter = 0 /\ call = "fadeout" => palette = target

FadeInv ==
  FadeTypeOK /\ StepsOK /\ RoundsOK /\ AfterFadeout /\ Punctual /\ Defined

----------------------------------------------------------------------------
(* Arithmetic *)

\* The bounds of a quotient.
LEMMA DivBounds ==
  ASSUME NEW a \in Nat, NEW m \in Nat \ {0}
  PROVE  a \div m \in Nat /\ m * (a \div m) <= a /\ a < m * (a \div m) + m
  OBVIOUS

\* Multiplying by a natural number keeps the order.
LEMMA ProductMono ==
  ASSUME NEW q \in Nat, NEW s \in Nat, NEW t \in Nat, s <= t
  PROVE  q * s \in Nat /\ q * s <= q * t
  OBVIOUS

\* So does dividing by one.
LEMMA DivMono ==
  ASSUME NEW m \in Nat \ {0}, NEW a \in Nat, NEW b \in Nat, a <= b
  PROVE  a \div m <= b \div m
  OBVIOUS

\* Dividing undoes multiplying.
LEMMA DivMultiple ==
  ASSUME NEW m \in Nat \ {0}, NEW q \in Nat
  PROVE  (q * m) \div m = q
  OBVIOUS

\* A bounded set of numbers that is not empty has a greatest one:
\* find_palette_max() finds it.
LEMMA MaxExists ==
  ASSUME NEW D \in Nat, NEW S \in SUBSET (0..D), S # {}
  PROVE  Max(S) \in S /\ \A y \in S : y <= Max(S)
<1> DEFINE Above(x) == {y \in S : y > x}
           Aboves == {Above(x) : x \in S}
           R == StrictSubsetOrdering(S)
<1>1. IsFiniteSet(S)
  <2>1. IsFiniteSet(0..D)
    BY FS_Interval
  <2> QED
    BY <2>1, FS_Subset
<1>2. Aboves \subseteq FiniteSubsetsOf(S) /\ Aboves # {}
  <2>1. \A z \in S : Above(z) \in SUBSET S
    OBVIOUS
  <2>2. \A T \in SUBSET S : IsFiniteSet(T)
    BY <1>1, FS_Subset
  <2>3. Aboves \subseteq SUBSET S
    BY <2>1
  <2> HIDE DEF Above
  <2>4. Aboves # {}
    OBVIOUS
  <2> HIDE DEF Aboves
  <2> QED
    BY <2>2, <2>3, <2>4 DEF FiniteSubsetsOf
<1>3. \E U \in Aboves : \A V \in Aboves : <<V, U>> \notin R
  <2>1. IsWellFoundedOn(R, FiniteSubsetsOf(S))
    BY FS_StrictSubsetOrderingWellFounded
  <2> HIDE DEF Aboves, R
  <2> QED
    BY <1>2, <2>1, WFMin
<1>4. PICK x \in S : \A z \in S : <<Above(z), Above(x)>> \notin R
  BY <1>3
<1>5. \A z \in S : z <= x
  <2> SUFFICES ASSUME NEW z \in S, z > x PROVE FALSE
    OBVIOUS
  <2>1. z \in 0..D /\ x \in 0..D
    OBVIOUS
  <2>2. z \in Above(x) /\ z \notin Above(z)
    BY <2>1
  <2>3. \A y \in S : y \in 0..D
    OBVIOUS
  <2>4. Above(z) \subseteq Above(x)
    <3> SUFFICES ASSUME NEW y \in Above(z) PROVE y \in Above(x)
      OBVIOUS
    <3>1. y \in S /\ y > z
      OBVIOUS
    <3>2. y > x
      BY <2>1, <2>3, <3>1
    <3> QED
      BY <3>1, <3>2
  <2>5. <<Above(z), Above(x)>> \in R
    BY <2>2, <2>4 DEF StrictSubsetOrdering
  <2> QED
    BY <1>4, <2>5
<1>6. Max(S) = x
  <2>1. x \in S /\ \A z \in S : x >= z
    BY <1>5
  <2>2. \A w \in S : (\A z \in S : w >= z) => w = x
    BY <2>1
  <2> QED
    BY <2>1, <2>2 DEF Max
<1> QED
  BY <1>5, <1>6

\* A share of a component is at most the component, and grows with the share.
LEMMA Share ==
  ASSUME NEW m \in Nat \ {0}, NEW q \in Nat, NEW s \in Nat, NEW t \in Nat, s <= t
  PROVE  /\ (q * s) \div m \in Nat
         /\ (q * s) \div m <= (q * t) \div m
         /\ t = m => (q * s) \div m <= q
<1>1. q * s \in Nat /\ q * t \in Nat /\ q * s <= q * t
  BY ProductMono
<1>2. (q * s) \div m \in Nat /\ (q * s) \div m <= (q * t) \div m
  BY <1>1, DivBounds, DivMono
<1>3. t = m => (q * t) \div m = q
  BY DivMultiple
<1> QED
  BY <1>2, <1>3

\* The greatest component of a palette that was read is a component.
LEMMA BrightestType ==
  ASSUME NEW p, NEW n \in Nat, \A c \in Colour : c < n => p[c] \in Rgb
  PROVE  Brightest(p, n) \in Level
<1> DEFINE S == {p[c][h] : c \in {d \in Colour : d < n}, h \in Channel} \cup {0}
<1>1. S \in SUBSET (0..Depth) /\ S # {}
  <2>1. \A c \in {d \in Colour : d < n}, h \in Channel : p[c][h] \in 0..Depth
    BY DEF Rgb, Level
  <2> QED
    BY <2>1, TerminalAssumption
<1>2. Max(S) \in S
  <2> HIDE DEF S
  <2> QED
    BY <1>1, MaxExists, TerminalAssumption
<1> QED
  BY <1>1, <1>2 DEF Brightest, Level

\* The steps of a fade take no more time together than the fade was given.
LEMMA StepTimeFacts ==
  ASSUME NEW m \in Nat, NEW steps \in Nat \ {0}
  PROVE  /\ StepTime(m, steps) \in Nat
         /\ steps * StepTime(m, steps) <= m * NANOSECS_IN_MS
         /\ m * NANOSECS_IN_MS < steps * StepTime(m, steps) + steps
         /\ steps <= Depth /\ m > 0 => StepTime(m, steps) > 0
<1>1. m * NANOSECS_IN_MS \in Nat
  BY FadeAssumption
<1>2. m > 0 => m * NANOSECS_IN_MS >= NANOSECS_IN_MS
  BY FadeAssumption, ProductMono, <1>1
<1>3. /\ StepTime(m, steps) \in Nat
      /\ steps * StepTime(m, steps) <= m * NANOSECS_IN_MS
      /\ m * NANOSECS_IN_MS < steps * StepTime(m, steps) + steps
  BY <1>1, DivBounds DEF StepTime
<1>4. ASSUME steps <= Depth, m > 0, StepTime(m, steps) = 0 PROVE FALSE
  BY <1>1, <1>2, <1>3, <1>4, FadeAssumption, TerminalAssumption
<1> QED
  BY <1>3, <1>4

\* Palette p in a round: no component is brighter than in p.
LEMMA ScaledFacts ==
  ASSUME NEW p \in Palette, NEW i \in Nat, i <= maxsteps, maxsteps \in Nat \ {0}
  PROVE  Scaled(p, i) \in Palette /\ Darker(Scaled(p, i), p)
<1> DEFINE share == IF call = "fadeout" THEN maxsteps - i ELSE i
<1>1. share \in Nat /\ share <= maxsteps
  OBVIOUS
<1>2. ASSUME NEW c \in Colour, NEW h \in Channel
      PROVE  /\ Scaled(p, i)[c][h] \in Level
             /\ Scaled(p, i)[c][h] <= p[c][h]
  <2>1. p[c][h] \in Level /\ p[c][h] \in Nat
    BY TerminalAssumption DEF Palette, Rgb, Level
  <2>2. (p[c][h] * share) \div maxsteps \in Nat /\ (p[c][h] * share) \div maxsteps <= p[c][h]
    BY <1>1, <2>1, Share
  <2>3. Scaled(p, i)[c][h] = (p[c][h] * share) \div maxsteps
    BY DEF Scaled
  <2> QED
    BY <2>1, <2>2, <2>3, TerminalAssumption DEF Level
<1>3. Scaled(p, i) \in Palette
  BY <1>2 DEF Scaled, Palette, Rgb
<1> QED
  BY <1>2, <1>3 DEF Darker

\* A later round of fadeout() is darker, one of fadein() brighter.
LEMMA ScaledMono ==
  ASSUME NEW p \in Palette, NEW i \in Nat, NEW j \in Nat, i <= j, j <= maxsteps,
         maxsteps \in Nat \ {0}
  PROVE  /\ call = "fadeout" => Darker(Scaled(p, j), Scaled(p, i))
         /\ call # "fadeout" => Darker(Scaled(p, i), Scaled(p, j))
<1>1. ASSUME NEW c \in Colour, NEW h \in Channel
      PROVE  /\ call = "fadeout" => Scaled(p, j)[c][h] <= Scaled(p, i)[c][h]
             /\ call # "fadeout" => Scaled(p, i)[c][h] <= Scaled(p, j)[c][h]
  <2>1. p[c][h] \in Nat
    BY TerminalAssumption DEF Palette, Rgb, Level
  <2>2. /\ maxsteps - j \in Nat /\ maxsteps - i \in Nat /\ maxsteps - j <= maxsteps - i
    OBVIOUS
  <2>3. /\ (p[c][h] * (maxsteps - j)) \div maxsteps <= (p[c][h] * (maxsteps - i)) \div maxsteps
        /\ (p[c][h] * i) \div maxsteps <= (p[c][h] * j) \div maxsteps
    BY <2>1, <2>2, Share
  <2> QED
    BY <2>3 DEF Scaled
<1> QED
  BY <1>1 DEF Darker

\* What is painted up to a colour k is typed, and as dark as its two parts.
LEMMA PaintedFacts ==
  ASSUME palette \in Palette, NEW k \in 0..COLORS, NEW p,
         \A c \in Colour : c < k => p[c] \in Rgb
  PROVE  /\ Painted(p, k) \in Palette
         /\ p \in Palette /\ k = COLORS => Painted(p, k) = p
         /\ \A q \in Palette : p \in Palette /\ Darker(palette, q) /\ Darker(p, q)
              => Darker(Painted(p, k), q)
<1>1. Painted(p, k) \in Palette
  BY DEF Painted, Palette
<1>2. p \in Palette /\ k = COLORS => Painted(p, k) = p
  BY TerminalAssumption DEF Painted, Palette, Colour
<1>3. \A q \in Palette : p \in Palette /\ Darker(palette, q) /\ Darker(p, q)
        => Darker(Painted(p, k), q)
  BY DEF Painted, Darker
<1> QED
  BY <1>1, <1>2, <1>3

----------------------------------------------------------------------------
(* Every step keeps the invariant *)

\* No fade is under way at first.
LEMMA FadeInitially == FadeInit => FadeInv
<1> SUFFICES ASSUME FadeInit PROVE FadeInv
  OBVIOUS
<1>1. FadeTypeOK
  <2>1. palette \in Palette
    BY FadeAssumption DEF FadeInit
  <2>2. saved \in [Colour -> Rgb \cup {Unset}] /\ target = saved
    BY DEF FadeInit
  <2>3. count \in 0..COLORS /\ maxsteps \in Level /\ iter \in Level
    BY TerminalAssumption DEF FadeInit, Level
  <2>4. call = "none" /\ fpc = "idle" /\ ret = 0 /\ buffer \in BOOLEAN
    BY DEF FadeInit
  <2>5. ms \in Nat /\ nanosecs_step \in Nat /\ elapsed \in Nat
    BY DEF FadeInit
  <2> QED
    BY <2>1, <2>2, <2>3, <2>4, <2>5 DEF FadeTypeOK
<1> QED
  BY <1>1 DEF FadeInit, FadeInv, StepsOK, RoundsOK, AfterFadeout, Punctual, Defined

\* A fade of a palette that is known as far as n begins.
LEMMA BeginsFacts ==
  ASSUME FadeTypeOK, NEW p, NEW n \in 0..COLORS, NEW m \in Milliseconds,
         p \in [Colour -> Rgb \cup {Unset}], \A c \in Colour : c < n => p[c] \in Rgb,
         Begins(p, n, m, Brightest(p, n)), call' \in {"fadeout", "fadein"},
         buffer' \in BOOLEAN,
         call' = "fadeout" =>
           buffer' /\ n = COLORS /\ p = palette /\ Brightest(p, n) >= 1
  PROVE  FadeInv'
<1>1. Brightest(p, n) \in Level /\ m \in Nat /\ n \in Nat
  BY BrightestType, FadeAssumption, TerminalAssumption
<1>2. Brightest(p, n) > 0 => StepTime(m, Brightest(p, n)) \in Nat
  BY <1>1, StepTimeFacts, TerminalAssumption DEF Level
<1>3. FadeTypeOK'
  BY <1>1, <1>2, FadeAssumption, TerminalAssumption DEF FadeTypeOK, Begins, Level
<1>4. StepsOK'
  BY DEF StepsOK, Begins, Reachable, StepTime
<1>5. RoundsOK'
  BY DEF RoundsOK, Begins
<1>6. AfterFadeout'
  BY DEF AfterFadeout, Begins, Darker, FadeTypeOK, Palette, Rgb, Level
<1>7. Punctual'
  BY DEF Punctual, Begins
<1>8. Defined'
  BY <1>1, TerminalAssumption DEF Defined, Begins, Level
<1> QED
  BY <1>3, <1>4, <1>5, <1>6, <1>7, <1>8 DEF FadeInv

LEMMA FadeCallStep == FadeInv /\ FadeCall => FadeInv'
<1> SUFFICES ASSUME FadeInv, FadeCall PROVE FadeInv'
  OBVIOUS
<1> USE DEF FadeInv
<1>1. palette \in Palette
  BY DEF FadeTypeOK
<1>2. ASSUME NEW n \in 0..COLORS, NEW zeroout \in BOOLEAN, retrieve_palette(n, zeroout)
      PROVE  FadeInv'
  <2>1. palette' \in Palette
    <3>1. \A k \in 0..n : k \in 0..COLORS
      BY TerminalAssumption
    <3>2. \A c \in Colour : Black[c] \in Rgb
      BY TerminalAssumption DEF Black, Rgb, Level
    <3> QED
      BY <1>1, <1>2, <3>1, <3>2, PaintedFacts DEF retrieve_palette
  <2>2. saved' \in [Colour -> Rgb \cup {Unset}]
    BY <1>1, <1>2 DEF retrieve_palette, FadeTypeOK, Palette
  <2>3. FadeTypeOK'
    BY <1>2, <2>1, <2>2 DEF retrieve_palette, Returns, locals, FadeTypeOK
  <2> QED
    BY <1>2, <2>3 DEF retrieve_palette, Returns, locals, StepsOK, RoundsOK,
                      AfterFadeout, Punctual, Defined
<1>3. ASSUME NEW n \in 0..COLORS, set_palette(n)
      PROVE  FadeInv'
  <2>1. \A c \in Colour : c < n => saved[c] \in Rgb
    BY <1>3 DEF set_palette, Retrieved, FadeTypeOK
  <2>2. palette' \in Palette
    <3>1. PICK k \in 0..n : palette' = Painted(saved, k)
      BY <1>3 DEF set_palette
    <3>2. k \in 0..COLORS /\ \A c \in Colour : c < k => saved[c] \in Rgb
      BY <2>1, TerminalAssumption DEF Colour
    <3> QED
      BY <1>1, <3>1, <3>2, PaintedFacts
  <2>3. FadeTypeOK'
    BY <1>3, <2>2 DEF set_palette, Returns, locals, FadeTypeOK
  <2> QED
    BY <1>3, <2>3 DEF set_palette, Returns, locals, StepsOK, RoundsOK,
                      AfterFadeout, Punctual, Defined
<1>4. ASSUME NEW n \in 0..COLORS, NEW m \in Milliseconds, fadein(n, m)
      PROVE  FadeInv'
  <2>1. saved \in [Colour -> Rgb \cup {Unset}] /\ \A c \in Colour : c < n => saved[c] \in Rgb
    BY <1>4 DEF fadein, Retrieved, FadeTypeOK
  <2> QED
    BY <1>4, <2>1, BeginsFacts DEF fadein
<1>5. ASSUME NEW m \in Milliseconds, fadeout(m)
      PROVE  FadeInv'
  <2>1. palette \in [Colour -> Rgb \cup {Unset}] /\ \A c \in Colour : palette[c] \in Rgb
    BY <1>1 DEF Palette
  <2>2. CASE /\ Brightest(palette, COLORS) >= 1 /\ buffer' = TRUE
             /\ Begins(palette, COLORS, m, Brightest(palette, COLORS))
    BY <1>5, <2>1, <2>2, BeginsFacts, TerminalAssumption DEF fadeout
  <2>3. CASE /\ Returns(-1) /\ target' = palette
             /\ UNCHANGED <<palette, pairs, saved, count, buffer, ms, maxsteps,
                            nanosecs_step, iter, elapsed>>
    <3>1. FadeTypeOK' /\ call' = "fadeout"
      BY <1>5, <2>1, <2>3 DEF fadeout, Returns, FadeTypeOK
    <3>2. AfterFadeout'
      BY <1>1, <2>3 DEF Returns, AfterFadeout, Darker, Palette, Rgb, Level
    <3> QED
      BY <2>3, <3>1, <3>2 DEF Returns, StepsOK, RoundsOK, Punctual, Defined
  <2> QED
    BY <1>5, <2>2, <2>3 DEF fadeout
<1> QED
  BY <1>2, <1>3, <1>4, <1>5 DEF FadeCall

\* Neither the numbers of a fade nor what it was given change while it runs.
Running == UNCHANGED <<saved, call, target, count, buffer, ms, maxsteps, nanosecs_step>>

LEMMA StrayStep == FadeInv /\ Stray => FadeInv'
<1> SUFFICES ASSUME FadeInv, Stray PROVE FadeInv'
  OBVIOUS
<1> USE DEF FadeInv, Stray, locals
<1>1. FadeTypeOK' /\ StepsOK' /\ RoundsOK' /\ AfterFadeout' /\ Punctual'
  BY DEF FadeTypeOK, StepsOK, RoundsOK, AfterFadeout, Punctual, Darker
<1>2. Defined'
  <2>1. ms \in Nat /\ maxsteps \in Nat \ {0} /\ maxsteps <= Depth
    BY TerminalAssumption DEF FadeTypeOK, StepsOK, Level
  <2>2. CASE nanosecs_step = 0
    BY <2>1, <2>2, StepTimeFacts DEF StepsOK, Defined
  <2>3. CASE ~Reachable
    <3>1. call = "fadein" /\ (count # COLORS \/ ~buffer)
      BY <2>3 DEF StepsOK, Reachable, FadeTypeOK
    <3>2. count <= COLORS /\ count \in Int /\ COLORS \in Int
      BY TerminalAssumption DEF FadeTypeOK
    <3>3. call' = "fadein" /\ (count' < COLORS \/ ~buffer')
      BY <3>1, <3>2
    <3> QED
      BY <3>3 DEF Defined
  <2> QED
    BY <2>2, <2>3
<1> QED
  BY <1>1, <1>2

\* The round that is due comes after the one before, and is one of the fade.
LEMMA DueFacts ==
  ASSUME FadeInv, fpc = "round", nanosecs_step > 0
  PROVE  /\ Due \in Nat \ {0} /\ nanosecs_step \in Nat /\ elapsed \in Nat
         /\ maxsteps \in Nat \ {0} /\ iter \in Nat
         /\ iter > 0 => Due > iter
         /\ nanosecs_step * (Due - 1) <= elapsed
<1> USE DEF FadeInv
<1>1. nanosecs_step \in Nat \ {0} /\ elapsed \in Nat /\ maxsteps \in Nat \ {0} /\ iter \in Nat
  BY TerminalAssumption DEF FadeTypeOK, StepsOK, Level
<1>2. Due \in Nat \ {0} /\ nanosecs_step * (Due - 1) <= elapsed
  BY <1>1, DivBounds DEF Due
<1>3. ASSUME iter > 0 PROVE Due > iter
  <2>1. elapsed >= (iter + 1) * nanosecs_step /\ (iter + 1) * nanosecs_step \in Nat
    BY <1>1, <1>3 DEF RoundsOK, nextwake
  <2>2. ((iter + 1) * nanosecs_step) \div nanosecs_step = iter + 1
    BY <1>1, DivMultiple
  <2>3. elapsed \div nanosecs_step >= iter + 1
    BY <1>1, <2>1, <2>2, DivMono
  <2>4. elapsed \div nanosecs_step \in Nat
    BY <1>1, DivBounds
  <2> QED
    BY <1>1, <2>3, <2>4 DEF Due
<1> QED
  BY <1>1, <1>2, <1>3

LEMMA RoundStep == FadeInv /\ Round => FadeInv'
<1> SUFFICES ASSUME FadeInv, Round PROVE FadeInv'
  OBVIOUS
<1> USE DEF FadeInv
<1>1. PICK k \in 0..COLORS :
        /\ palette' = Painted(Scaled(target, Due), k)
        /\ IF k = COLORS THEN fpc' = "sleep" /\ UNCHANGED ret ELSE Returns(-1)
  BY DEF Round
<1>2. /\ fpc = "round" /\ nanosecs_step > 0 /\ ~Over /\ Reachable /\ iter' = Due
      /\ Running /\ elapsed' = elapsed
  BY DEF Round, Running
<1>3. /\ Due \in Nat \ {0} /\ Due <= maxsteps /\ maxsteps \in Nat \ {0}
      /\ nanosecs_step \in Nat /\ elapsed \in Nat
  BY <1>2, DueFacts DEF Over
<1>4. palette \in Palette /\ target \in Palette
  BY <1>2 DEF StepsOK, Reachable, FadeTypeOK, Palette, Colour
<1>5. /\ Scaled(target, Due) \in Palette /\ Darker(Scaled(target, Due), target)
  BY <1>3, <1>4, ScaledFacts
<1>6. /\ palette' \in Palette
      /\ k = COLORS => palette' = Scaled(target, Due)
      /\ call = "fadeout" => Darker(palette', target)
  <2>1. \A c \in Colour : Scaled(target, Due)[c] \in Rgb
    BY <1>5 DEF Palette
  <2>2. call = "fadeout" => Darker(palette, target)
    BY DEF AfterFadeout
  <2> HIDE DEF FadeInv
  <2> QED
    BY <1>1, <1>4, <1>5, <2>1, <2>2, PaintedFacts
<1>7. FadeTypeOK'
  <2>1. Due \in Level
    BY <1>3, TerminalAssumption DEF FadeTypeOK, Level
  <2> QED
    BY <1>1, <1>2, <1>6, <2>1 DEF FadeTypeOK, Running, Returns
<1>8. StepsOK'
  BY <1>2 DEF StepsOK, Running, Reachable, StepTime
<1>9. RoundsOK'
  BY <1>1, <1>2, <1>3, <1>6 DEF RoundsOK, Running, Reachable, Returns, Scaled
<1>10. AfterFadeout'
  BY <1>1, <1>2, <1>6 DEF AfterFadeout, Running, Returns, Darker
<1>11. Punctual'
  <2>1. CASE k = COLORS
    <3>1. maxsteps * nanosecs_step <= ms * NANOSECS_IN_MS
      BY <1>2, <1>3, StepTimeFacts DEF StepsOK, FadeTypeOK
    <3>2. nanosecs_step * Due <= nanosecs_step * maxsteps
      BY <1>3, ProductMono
    <3>3. ms * NANOSECS_IN_MS \in Nat
      BY FadeAssumption DEF FadeTypeOK
    <3>4. (Due + 1) * nanosecs_step = nanosecs_step * Due + nanosecs_step
      BY <1>3
    <3>5. (Due + 1) * nanosecs_step <= ms * NANOSECS_IN_MS + nanosecs_step
      BY <1>3, <3>1, <3>2, <3>3, <3>4
    <3> QED
      BY <1>1, <1>2, <2>1, <3>5 DEF Punctual, nextwake, Running
  <2>2. CASE k # COLORS
    BY <1>1, <1>2, <2>2 DEF Punctual, Returns
  <2> QED
    BY <2>1, <2>2
<1>12. Defined'
  BY <1>1 DEF Defined, Returns
<1> QED
  BY <1>7, <1>8, <1>9, <1>10, <1>11, <1>12

LEMMA SleepStep == FadeInv /\ Sleep => FadeInv'
<1> SUFFICES ASSUME FadeInv, Sleep PROVE FadeInv'
  OBVIOUS
<1> USE DEF FadeInv
<1>1. nextwake \in Nat /\ elapsed' \in Nat /\ (fpc' = "round" => elapsed' >= nextwake)
  <2>1. iter \in Nat /\ nanosecs_step \in Nat /\ elapsed \in Nat
    BY TerminalAssumption DEF FadeTypeOK, Level
  <2>2. nextwake \in Nat
    BY <2>1 DEF nextwake
  <2> QED
    BY <2>1, <2>2, FadeAssumption DEF Sleep, Returns
<1>2. FadeTypeOK'
  BY <1>1 DEF FadeTypeOK, Sleep, Returns
<1>3. StepsOK' /\ AfterFadeout' /\ Defined'
  BY DEF StepsOK, AfterFadeout, Defined, Sleep, Returns, Darker, Reachable, StepTime
<1>4. RoundsOK'
  BY <1>1 DEF RoundsOK, Sleep, Returns, Reachable, Scaled, nextwake
<1>5. Punctual'
  BY DEF Punctual, Sleep, Returns, FadeTypeOK
<1> QED
  BY <1>2, <1>3, <1>4, <1>5

LEMMA FinishStep == FadeInv /\ Finish => FadeInv'
<1> SUFFICES ASSUME FadeInv, Finish PROVE FadeInv'
  OBVIOUS
<1> USE DEF FadeInv
<1>1. fpc = "round" /\ nanosecs_step > 0 /\ Over /\ fpc' = "idle" /\ ret' \in {0, -1}
  BY DEF Finish, Returns
<1>2. palette' \in Palette /\ AfterFadeout'
  <2>1. CASE call = "fadein"
    BY <2>1 DEF Finish, locals, FadeTypeOK, AfterFadeout
  <2>2. CASE call = "fadeout"
    <3>1. palette \in Palette /\ target \in Palette /\ Darker(palette, target)
      BY <1>1, <2>2 DEF StepsOK, Reachable, FadeTypeOK, AfterFadeout, Palette, Colour
    <3>2. PICK k \in 0..COLORS :
            palette' = Painted(target, k) /\ IF k = COLORS THEN Returns(0) ELSE Returns(-1)
      BY <2>2 DEF Finish
    <3>3. Darker(target, target)
      BY <3>1 DEF Darker, Palette, Rgb, Level
    <3>4. \A c \in Colour : target[c] \in Rgb
      BY <3>1 DEF Palette
    <3>5. palette' \in Palette /\ Darker(palette', target) /\ (k = COLORS => palette' = target)
      <4> HIDE DEF FadeInv
      <4> QED
        BY <3>1, <3>2, <3>3, <3>4, PaintedFacts
    <3>6. target' = target /\ call' = call
      BY DEF Finish, locals
    <3> QED
      BY <3>2, <3>5, <3>6 DEF AfterFadeout, Returns, Darker
  <2> QED
    BY <1>1, <2>1, <2>2 DEF FadeTypeOK
<1>3. FadeTypeOK'
  BY <1>1, <1>2 DEF Finish, locals, FadeTypeOK
<1>4. StepsOK' /\ RoundsOK' /\ Defined'
  BY <1>1 DEF StepsOK, RoundsOK, Defined
<1>5. Punctual'
  <2>1. /\ Due \in Nat /\ Due - 1 >= maxsteps /\ maxsteps \in Nat \ {0} /\ Due - 1 \in Nat
        /\ nanosecs_step \in Nat /\ elapsed \in Nat
        /\ nanosecs_step * (Due - 1) <= elapsed
    BY <1>1, DueFacts DEF Over
  <2>2. nanosecs_step * maxsteps <= nanosecs_step * (Due - 1)
    BY <2>1, ProductMono
  <2>3. ms * NANOSECS_IN_MS < maxsteps * nanosecs_step + maxsteps
    BY <1>1, <2>1, StepTimeFacts DEF StepsOK, FadeTypeOK
  <2>4. ms * NANOSECS_IN_MS \in Nat
    BY FadeAssumption DEF FadeTypeOK
  <2>5. elapsed + maxsteps > ms * NANOSECS_IN_MS
    BY <2>1, <2>2, <2>3, <2>4
  <2> QED
    BY <1>1, <2>5 DEF Punctual, Finish, locals
<1> QED
  BY <1>2, <1>3, <1>4, <1>5

----------------------------------------------------------------------------
\* One step per action, gathered.
LEMMA FadeInductive == FadeSpec => []FadeInv
<1>1. FadeInv /\ [FadeNext]_fvars => FadeInv'
  <2> SUFFICES ASSUME FadeInv, [FadeNext]_fvars PROVE FadeInv'
    OBVIOUS
  <2>1. CASE UNCHANGED fvars
    BY <2>1 DEF FadeInv, FadeTypeOK, StepsOK, RoundsOK, AfterFadeout, Punctual,
                Defined, fvars, locals, Reachable, StepTime, nextwake, Scaled, Darker
  <2>2. CASE FadeNext
    BY <2>2, FadeCallStep, StrayStep, RoundStep, SleepStep, FinishStep
    DEF FadeNext, FadeStep
  <2> QED
    BY <2>1, <2>2
<1> QED
  BY <1>1, FadeInitially, PTL DEF FadeSpec, InitAlone

\* Every variable of the fades has its type: every component painted is one the
\* terminal has, whatever the palette, the durations and the clock, and no round
\* counts past the last (fade.c:111-117, 182-188).
THEOREM FadeTypes == FadeSpec => []FadeTypeOK
<1>1. FadeInv => FadeTypeOK
  BY DEF FadeInv
<1> QED
  BY <1>1, FadeInductive, PTL

\* fadeout() that succeeds restores the palette it found, and one that fails has
\* made no component brighter (fade.c:114-145).
THEOREM FadeoutRestores == FadeSpec => []AfterFadeout
<1>1. FadeInv => AfterFadeout
  BY DEF FadeInv
<1> QED
  BY <1>1, FadeInductive, PTL

\* A fade neither ends more than a nanosecond a step early nor plans to sleep
\* more than a step beyond its time (fade.c:99-127).
THEOREM FadeIsPunctual == FadeSpec => []Punctual
<1>1. FadeInv => Punctual
  BY DEF FadeInv
<1> QED
  BY <1>1, FadeInductive, PTL

\* A fade of at least a millisecond that has its palette, its light and its
\* memory divides by no zero and strays from no array (fade.c:99, 110, 177-186).
THEOREM FadeIsDefined == FadeSpec => []Defined
<1>1. FadeInv => Defined
  BY DEF FadeInv
<1> QED
  BY <1>1, FadeInductive, PTL

\* However late the clock is read, a round never undoes what an earlier one did
\* (fade.c:110-117, 181-188).
THEOREM FadeGoesOneWay == FadeSpec => OneWay
<1>1. ASSUME FadeInv, FadeNext, fpc = "round", fpc' = "sleep"
      PROVE  \/ call = "fadeout" /\ Darker(palette', palette)
             \/ call = "fadein" /\ (iter = 0 \/ Darker(palette, palette'))
  <2>1. Round
    BY <1>1 DEF FadeNext, FadeCall, retrieve_palette, set_palette, fadein, fadeout,
                FadeStep, Stray, Sleep, Finish, Returns
  <2>2. /\ Due \in Nat \ {0} /\ Due <= maxsteps /\ maxsteps \in Nat \ {0} /\ iter \in Nat
        /\ iter > 0 => Due > iter
    BY <1>1, <2>1, DueFacts DEF Round, Over
  <2>3. target \in Palette /\ call \in {"fadeout", "fadein"}
    BY <1>1, <2>1 DEF FadeInv, StepsOK, Round, Reachable, FadeTypeOK, Palette, Colour
  <2>4. palette' = Scaled(target, Due)
    <3>1. Scaled(target, Due) \in Palette /\ palette \in Palette
      BY <1>1, <2>2, <2>3, ScaledFacts DEF FadeInv, FadeTypeOK
    <3>2. palette' = Painted(Scaled(target, Due), COLORS)
      BY <1>1, <2>1 DEF Round, Returns
    <3> QED
      BY <3>1, <3>2, TerminalAssumption DEF Painted, Palette, Colour
  <2>5. CASE iter = 0 /\ call = "fadeout"
    BY <1>1, <2>2, <2>3, <2>4, <2>5, ScaledFacts DEF FadeInv, RoundsOK
  <2>6. CASE iter > 0
    BY <1>1, <2>2, <2>3, <2>4, <2>6, ScaledMono DEF FadeInv, RoundsOK
  <2> QED
    BY <2>2, <2>3, <2>5, <2>6
<1>2. FadeInv /\ [FadeNext]_fvars =>
        [fpc = "round" /\ fpc' = "sleep" =>
           \/ call = "fadeout" /\ Darker(palette', palette)
           \/ call = "fadein" /\ (iter = 0 \/ Darker(palette, palette'))]_fvars
  BY <1>1
<1> QED
  BY <1>2, FadeInductive, PTL DEF FadeSpec, OneWay

\* retrieve_palette() zeroes no colour that it has not read, wherever it stops
\* (fade.c:31-49).
THEOREM RetrievalLosesNothing == FadeSpec => NothingLost
<1>1. ASSUME FadeInv, FadeNext, call' = "retrieve_palette", NEW c \in Colour
      PROVE  palette'[c] = palette[c] \/ saved'[c] = palette[c]
  <2>1. CASE FadeStep
    BY <1>1, <2>1 DEF FadeInv, FadeTypeOK, FadeStep, Stray, Round, Sleep, Finish
  <2>2. CASE FadeCall
    <3>1. PICK n \in 0..COLORS, zeroout \in BOOLEAN : retrieve_palette(n, zeroout)
      BY <1>1, <2>2 DEF FadeCall, set_palette, fadein, fadeout
    <3>2. PICK k \in 0..n :
            \E l \in {k} \cup (IF zeroout /\ k < n THEN {k + 1} ELSE {}) :
            /\ saved' = [d \in Colour |-> IF d < l THEN palette[d] ELSE saved[d]]
            /\ palette' = IF zeroout THEN Painted(Black, k) ELSE palette
      BY <3>1 DEF retrieve_palette
    <3>3. CASE c < k
      BY <3>2, <3>3, TerminalAssumption DEF Colour
    <3>4. CASE ~(c < k)
      BY <3>2, <3>4, <1>1 DEF Painted
    <3> QED
      BY <3>3, <3>4
  <2> QED
    BY <1>1, <2>1, <2>2 DEF FadeNext
<1>2. FadeInv /\ [FadeNext]_fvars =>
        [call' = "retrieve_palette" =>
           \A c \in Colour : palette'[c] = palette[c] \/ saved'[c] = palette[c]]_fvars
  BY <1>1
<1> QED
  BY <1>2, FadeInductive, PTL DEF FadeSpec, NothingLost
=============================================================================
