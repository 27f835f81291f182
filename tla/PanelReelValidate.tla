------------------------- MODULE PanelReelValidate -------------------------
(***************************************************************************)
(* panelreel_validate() of src/lib/panelreel.c, the oracle of the          *)
(* project's own unit tests: it walks the tablets on screen and asserts    *)
(* where each of them ought be.  The tests call it on reels of at most one *)
(* tablet.                                                                 *)
(***************************************************************************)
EXTENDS PanelReel

LastColumn(w) == w.x + w.w - 1

\* What a walk has found: the lines covered, whether an assertion failed,
\* and why it ended ("" while it goes on).
Unwalked == [start |-> reel.y - 1, end |-> LastLine(reel) + 1, ok |-> TRUE, ended |-> ""]

AlignedWindow(w) ==
  /\ w.x = reel.x + ReelBorder("left")
  /\ LastColumn(w) = LastColumn(reel) - ReelBorder("right")

Extend(acc, w) == [acc EXCEPT !.end = IF LastLine(w) >= @ THEN LastLine(w) ELSE @]

\* One tablet on the way back from the focus to the top.
Back(acc, t) ==
  IF acc.ended # "" THEN acc
  ELSE IF ~Shown(t) THEN [acc EXCEPT !.ended = "hidden"]
  ELSE LET w == win[t]
           here == [acc EXCEPT !.ok = @ /\ AlignedWindow(w)]
       IN IF acc.start = reel.y - 1
          THEN [acc EXCEPT !.start = w.y, !.end = LastLine(w)]
          ELSE IF LastLine(w) < acc.start
          THEN [here EXCEPT !.ok = @ /\ LastLine(w) = acc.start - 2, !.start = w.y]
          ELSE IF w.y > acc.end + 2 THEN [here EXCEPT !.ended = "round"]
          ELSE Extend(here, w)

\* One tablet on the way down, past the focus.
Down(acc, t) ==
  IF acc.ended # "" THEN acc
  ELSE IF ~Shown(t) THEN [acc EXCEPT !.ended = "hidden"]
  ELSE Extend([acc EXCEPT !.ok = @ /\ AlignedWindow(win[t])], win[t])

\* What the way back has found after n tablets, and the way down from acc on.
WalkBack ==
  LET found[n \in Nat] ==
        IF n = 0 THEN Unwalked ELSE Back(found[n - 1], Nth(prev)[n - 1])
  IN found

WalkDown(acc) ==
  LET found[n \in Nat] ==
        IF n = 0 THEN acc ELSE Down(found[n - 1], Nth(next)[n])
  IN found

\* The reel fills its parent, less the offsets.
FillsParent ==
  /\ reel.y = Parent.y + toff /\ reel.h = Parent.h - (toff + boff)
  /\ reel.x = Parent.x + loff /\ reel.w = Parent.w - (loff + roff)

\* panelreel_validate(): TRUE where it returns 0 and no assertion fails.  Its
\* `t != pr->tablets' is also FALSE if the focus itself is hidden.
Validates ==
  LET n     == Cardinality(live)
      back  == WalkBack[n]
      again == back.ended # "" /\ Shown(focus)
      all   == ~again \/ back.ended = "round"
      walk  == IF again THEN WalkDown([back EXCEPT !.ended = ""])[n - 1] ELSE back
      btarg == LastLine(reel) - ReelBorder("bottom")
  IN /\ FillsParent
     /\ focus # NULL => /\ walk.ok
                        /\ walk.start = reel.y + ReelBorder("top")
                        /\ ~all => walk.end >= btarg - 2
                        /\ walk.end <= btarg

\* Between two calls of the API the reel passes its own validation.
Valid == pc = "idle" => Validates
=============================================================================
