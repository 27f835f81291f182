----------------------------- MODULE PanelReel -----------------------------
(***************************************************************************)
(* src/lib/panelreel.c: a reel of tablets.  The tablets form a doubly      *)
(* linked ring that is entered at the focused tablet; those that fit are   *)
(* laid out, one window each, inside the reel's own window.                *)
(*                                                                         *)
(* A call of the API is one action, up to its panelreel_redraw().  The     *)
(* redraw itself is a sequence of steps, one per tablet drawn, because     *)
(* drawing a tablet calls back into the application: the number of lines a *)
(* tablet holds may change between any two of them.  pc says what the      *)
(* (single) thread inside the library is doing.                            *)
(***************************************************************************)
EXTENDS NCurses, FiniteSets, Sequences

CONSTANTS
  Tablets,         \* the addresses malloc() may return for a tablet
  Foreign,         \* tablets that belong to other reels, alone in each
  LineCounts,      \* numbers of lines an application may have to show
  Parent,          \* the WINDOW given to panelreel_create()
  toff, roff, boff, loff, \* popts: offsets of the reel within Parent
  infinitescroll, circular, \* popts: how navigation treats the ends
  bordermask,      \* popts: sides of the reel without a border
  tabletmask,      \* popts: sides of the tablets without a border
  MoveTargets,     \* <<y, x>> positions asked of panelreel_move()
  MemoryFails      \* whether newwin() and new_panel() may fail

Sides == {"top", "right", "bottom", "left"}

\* panelreel_create(): the length of the reel along one axis of its parent,
\* less both offsets, or failing that the near one, or failing that 0.
Extent(len, near, far) ==
  IF len - far - near >= 0 THEN len - far - near
  ELSE IF len - 1 - near >= 0 THEN len - 1 - near
  ELSE 0

ReelWindow ==
  newwin(Extent(Parent.h, toff, boff), Extent(Parent.w, loff, roff),
         toff + Parent.y, loff + Parent.x)

\* validate_panelreel_opts(): the options no reel is created without.
ValidOptions ==
  /\ circular => infinitescroll
  /\ bordermask \subseteq Sides /\ tabletmask \subseteq Sides

ASSUME ReelAssumption ==
  /\ NULL \notin Tablets
  /\ Foreign \cap Tablets = {}
  /\ IsFiniteSet(Tablets) /\ IsFiniteSet(Foreign)
  /\ LineCounts \subseteq Nat /\ LineCounts # {}
  /\ Parent \in Window /\ {toff, roff, boff, loff} \subseteq Nat
  /\ {infinitescroll, circular, MemoryFails} \subseteq BOOLEAN
  /\ MoveTargets \subseteq Int \X Int
  /\ ValidOptions
  /\ ReelWindow # NULL

VARIABLES
  live,        \* the tablets of this reel that are allocated
  foreign,     \* the tablets of other reels that are still allocated
  next, prev,  \* the links of each tablet; NULL in freed memory
  focus,       \* pr->tablets
  count,       \* pr->tabletcount
  win,         \* t->p: the window of each tablet, NULL when off-screen
  reel,        \* the window of pr->p
  allVisible,  \* pr->all_visible
  dir,         \* pr->last_traveled_direction
  lines,       \* the application's: how many lines each tablet holds
  pc,          \* what the library is doing; "idle" between two calls
  working,     \* the local of the same name in the loops that draw
  otherend,    \* their otherend (topmost in panelreel_arrange_denormalized)
  passes,      \* the draw_*_tablets() calls panelreel_arrange() has left
  doomed       \* t in panelreel_destroy(), NULL outside it

ring == <<live, foreign, next, prev, focus, count>>
view == <<win, reel, allVisible, dir>>
ctl  == <<pc, working, otherend, passes, doomed>>
vars == <<live, foreign, next, prev, focus, count, win, reel, allVisible, dir,
          lines, pc, working, otherend, passes, doomed>>

----------------------------------------------------------------------------
(* Geometry of one tablet *)

ReelBorder(side)   == IF side \in bordermask THEN 0 ELSE 1
TabletBorder(side) == IF side \in tabletmask THEN 0 ELSE 1

TabletW == reel.w - ReelBorder("left") - ReelBorder("right")
Top     == reel.y + ReelBorder("top")
Shown(t) == win[t] # NULL

\* Mutant: the bottom border of the reel is forgotten.
RoomWithoutBottom(d) == reel.h - (IF d <= 0 THEN ReelBorder("top") ELSE 0)

\* The lines of the reel left by the borders on the sides a tablet may reach.
Room(d) == reel.h - (IF d <= 0 THEN ReelBorder("top") ELSE 0)
                  - (IF d >= 0 THEN ReelBorder("bottom") ELSE 0)

\* tablet_columns(): the largest space a tablet may take that starts (d > 0)
\* or ends (d < 0) at line frontier; the focused one (d = 0) has all of it.
\* Only the top border is consulted for the two limits.
TabletColumns(frontier, d) ==
  LET y0 == IF d <= 0 THEN Top ELSE reel.y
  IN [ ok |-> IF d <= 0 THEN frontier >= Top
              ELSE frontier <= reel.y + reel.h - 1 - ReelBorder("top"),
       y  |-> IF d > 0 THEN frontier ELSE y0,
       x  |-> reel.x + ReelBorder("left"),
       h  |-> IF d > 0 THEN Room(d) - (frontier - y0)
              ELSE IF d < 0 THEN frontier - y0 + 1 ELSE Room(d) ]

\* The window in which the callback will draw: created, or resized and moved
\* to the space offered.  ok is FALSE where the code returns -1.
Placed(w0, c, oom) ==
  IF w0 = NULL
  THEN LET w == IF oom THEN NULL ELSE newwin(c.h + 1, TabletW, c.y, c.x)
       IN [ ok  |-> w # NULL,
            win |-> IF w = NULL THEN NULL ELSE wresize(w, c.h, TabletW) ]
  ELSE LET sized == IF w0.h # c.h THEN wresize(w0, c.h, w0.w) ELSE w0
           fits  == w0.h = c.h \/ Resizable(c.h, w0.w)
           stays == c.y = w0.y \/ Movable(sized, c.y, c.x)
           moved == IF c.y = w0.y THEN sized ELSE move_panel(sized, c.y, c.x)
       IN [ ok  |-> fits /\ stays,
            win |-> IF fits /\ stays THEN wresize(moved, c.h, TabletW) ELSE sized ]

\* The application's callback: it fills the rows it is offered, as far as it
\* has lines, and answers how many it wrote.
Callback(t, h, d) ==
  LET begy == IF d >= 0 THEN TabletBorder("top") ELSE 0
      maxy == h - 1 - (IF d < 0 THEN TabletBorder("bottom") ELSE 0)
      room == IF maxy >= begy THEN maxy - begy + 1 ELSE 0
  IN IF lines[t] < room THEN lines[t] ELSE room

\* What panelreel_draw_tablet() does after the callback: shrink the window to
\* the ll lines written and their borders, keep it at the edge it grows from,
\* and let the focused one (d = 0) return to its frontier, or above.
Fitted(w0, c, ll, frontier, d) ==
  LET clipped == ll = c.h - 1
      size    == ll + (IF clipped
                       THEN TabletBorder(IF d < 0 THEN "bottom" ELSE "top")
                       ELSE TabletBorder("top") + TabletBorder("bottom"))
      sized   == wresize(w0, size, TabletW)
      ybottom == c.y + c.h - size
      placed  == IF d < 0 THEN move_panel(sized, ybottom, c.x) ELSE sized
      front   == IF c.h - frontier + 1 < size THEN c.h - size + reel.y ELSE frontier
  IN IF ll = c.h THEN [ win |-> w0, broken |-> FALSE ]
     ELSE IF d = 0
     THEN [ win |-> move_panel(placed, front, c.x),
            broken |-> clipped \/ ~Movable(placed, front, c.x) ]
     ELSE [ win |-> placed,
            broken |-> clipped \/ (d < 0 /\ ~Movable(sized, ybottom, c.x)) ]

\* panelreel_draw_tablet(): the tablet's window afterwards (NULL if it must
\* be hidden), and whether it answers non-zero.
DrawTablet(t, frontier, d, oom) ==
  LET c == TabletColumns(frontier, d)
      p == Placed(win[t], c, oom)
  IN IF ~c.ok THEN [ win |-> NULL, broken |-> TRUE ]
     ELSE IF ~p.ok THEN [ win |-> p.win, broken |-> TRUE ]
     ELSE Fitted(p.win, c, Callback(t, c.h, d), frontier, d)

Oom == {FALSE, MemoryFails}

----------------------------------------------------------------------------
(* The redraw: panelreel_redraw() and panelreel_arrange() *)

\* Back to the caller of panelreel_redraw().
Return ==
  /\ pc' = IF doomed = NULL THEN "idle" ELSE "destroy"
  /\ working' = NULL /\ otherend' = NULL /\ passes' = <<>>
  /\ UNCHANGED doomed

\* Mutant: whether there is a tablet is not asked.
ArrangeUnchecked ==
  /\ pc = "redraw"
  /\ pc' = IF allVisible THEN "topmost" ELSE "focused"
  /\ working' = focus
  /\ UNCHANGED <<ring, view, lines, otherend, passes, doomed>>

\* panelreel_arrange(): an empty reel has nothing to arrange.
Arrange ==
  /\ pc = "redraw"
  /\ \/ focus = NULL /\ Return
     \/ /\ focus # NULL
        /\ pc' = IF allVisible THEN "topmost" ELSE "focused"
        /\ working' = focus
        /\ UNCHANGED <<otherend, passes, doomed>>
  /\ UNCHANGED <<ring, view, lines>>

\* Mutant: two tablets at one line are each above the other.
HigherOrLevel(t) == getbegy(win[prev[t]]) <= getbegy(win[t])

\* The previous tablet is above t.
Higher(t) == getbegy(win[prev[t]]) < getbegy(win[t])

\* find_topmost(), one tablet further up.
FindTopmost ==
  /\ pc = "topmost"
  /\ Higher(working)
  /\ working' = prev[working]
  /\ UNCHANGED <<ring, view, lines, pc, otherend, passes, doomed>>

\* find_topmost() ends.  If the focus moved round the end of the screen the
\* tablets turn by one, so that their order on screen is kept.
BeginDenormalized ==
  /\ pc = "topmost"
  /\ ~Higher(working)
  /\ LET now == getbegy(win[focus])
         topmost ==
           IF dir >= 0 /\ getbegy(win[prev[focus]]) > now THEN next[working]
           ELSE IF dir < 0 /\ getbegy(win[next[focus]]) < now THEN prev[working]
           ELSE working
     IN working' = topmost /\ otherend' = topmost
  /\ pc' = "denormalized"
  /\ UNCHANGED <<ring, view, lines, passes, doomed>>

\* Mutant: no gap is left after the previous tablet.
FrontierWithoutGap ==
  IF working = otherend THEN Top
  ELSE getmaxy(win[prev[working]]) + getbegy(win[prev[working]])

\* Mutant: every tablet is drawn below the topmost.
FrontierBelowTopmost ==
  IF working = otherend THEN Top
  ELSE getmaxy(win[otherend]) + getbegy(win[otherend]) + 1

\* Mutant: the gap of insert_new_panel() is left.
FrontierAsAdded ==
  IF working = otherend THEN Top
  ELSE getmaxy(win[prev[working]]) + getbegy(win[prev[working]]) + 2

\* The line after the previous tablet and the gap: the one drawn just before.
DenormalizedFrontier ==
  IF working = otherend THEN Top
  ELSE getmaxy(win[prev[working]]) + getbegy(win[prev[working]]) + 1

\* One iteration of panelreel_arrange_denormalized(), downwards from topmost.
\* It gives up, for good, at the first tablet that is not wholly visible.
Denormalized ==
  /\ pc = "denormalized"
  /\ \E oom \in Oom :
       LET d == DrawTablet(working, DenormalizedFrontier,
                           IF working = focus THEN 0 ELSE 1, oom)
           failed == d.win = NULL \/ d.broken
       IN /\ win' = [win EXCEPT ![working] = d.win]
          /\ allVisible' = (allVisible /\ ~failed)
          /\ IF failed \/ next[working] = otherend
             THEN Return
             ELSE /\ working' = next[working]
                  /\ UNCHANGED <<pc, otherend, passes, doomed>>
  /\ UNCHANGED <<ring, reel, dir, lines>>

\* Mutant: coming from below, the reel's own border is forgotten.
FulcrumOnBorder ==
  IF Shown(focus) THEN getbegy(win[focus])
  ELSE IF dir >= 0 THEN reel.h + reel.y - ReelBorder("bottom") ELSE reel.y

\* draw_focused_tablet(): where the focused tablet would like to start.
Fulcrum ==
  LET bottom == reel.h + reel.y - ReelBorder("bottom")
      here   == getbegy(win[focus])
  IN IF ~Shown(focus) THEN (IF dir >= 0 THEN bottom ELSE Top)
     ELSE IF dir > 0 /\ Shown(prev[focus]) /\ here < getbegy(win[prev[focus]])
          THEN bottom
     ELSE IF dir < 0 /\ Shown(next[focus]) /\ here > getbegy(win[next[focus]])
          THEN Top
     ELSE here

\* draw_focused_tablet(); then the passes, against the direction of travel.
DrawFocused ==
  /\ pc = "focused"
  /\ \E oom \in Oom :
       win' = [win EXCEPT ![focus] = DrawTablet(focus, Fulcrum, 0, oom).win]
  /\ pc' = "pass"
  /\ working' = focus /\ otherend' = focus
  /\ passes' = IF dir >= 0 THEN <<"up", "down", "up">> ELSE <<"down", "up", "down">>
  /\ UNCHANGED <<ring, reel, allVisible, dir, lines, doomed>>

\* A pass ends at tablet t, which is the next pass's otherend.
EndPass(t) ==
  IF Len(passes) = 1 THEN Return
  ELSE /\ passes' = Tail(passes) /\ working' = focus /\ otherend' = t
       /\ UNCHANGED <<pc, doomed>>

\* Mutant: the end mark is not looked at.
FollowingToHidden ==
  /\ pc = "pass" /\ Head(passes) = "down"
  /\ LET t == next[working]
         frontier == getbegy(win[working]) + getmaxy(win[working]) + 1
     IN \E oom \in Oom :
          LET w == DrawTablet(t, frontier, 1, oom).win
          IN /\ win' = [win EXCEPT ![t] = w]
             /\ IF w = NULL THEN EndPass(t)
                ELSE working' = t /\ UNCHANGED <<otherend, pc, passes, doomed>>
  /\ UNCHANGED <<ring, reel, allVisible, dir, lines>>

\* One iteration of draw_following_tablets().
DrawFollowing ==
  /\ pc = "pass" /\ Head(passes) = "down"
  /\ LET t == next[working]
         frontier == getbegy(win[working]) + getmaxy(win[working]) + 1
     IN IF t = otherend /\ Shown(otherend)
        THEN EndPass(t) /\ UNCHANGED win
        ELSE \E oom \in Oom :
               LET w == DrawTablet(t, frontier, 1, oom).win
               IN /\ win' = [win EXCEPT ![t] = w]
                  /\ IF w = NULL THEN EndPass(t)
                     ELSE /\ working' = t
                          /\ otherend' = IF t = otherend THEN next[t] ELSE otherend
                          /\ UNCHANGED <<pc, passes, doomed>>
  /\ UNCHANGED <<ring, reel, allVisible, dir, lines>>

\* One iteration of draw_previous_tablets().
DrawPrevious ==
  /\ pc = "pass" /\ Head(passes) = "up"
  /\ LET t == prev[working]
     IN IF t = otherend /\ Shown(otherend)
        THEN EndPass(working) /\ UNCHANGED win
        ELSE \E oom \in Oom :
               LET w == DrawTablet(t, getbegy(win[working]) - 2, -1, oom).win
               IN /\ win' = [win EXCEPT ![t] = w]
                  /\ IF w = NULL THEN EndPass(t)
                     ELSE /\ working' = t
                          /\ otherend' = IF t = otherend THEN prev[t] ELSE otherend
                          /\ UNCHANGED <<pc, passes, doomed>>
  /\ UNCHANGED <<ring, reel, allVisible, dir, lines>>

RedrawStep ==
  \/ Arrange \/ FindTopmost \/ BeginDenormalized \/ Denormalized
  \/ DrawFocused \/ DrawFollowing \/ DrawPrevious

----------------------------------------------------------------------------
(* The API *)

\* The window insert_new_panel() gives a new tablet: the whole reel if it is
\* alone, else two lines below its predecessor.
FirstWindow(t, oom) ==
  LET p == prev'[t]
      alone == p = t
      c == TabletColumns(IF alone THEN Top
                         ELSE getbegy(win[p]) + getmaxy(win[p]) + 2, 1)
  IN IF c.ok /\ ~oom THEN newwin(IF alone THEN c.h ELSE 2, TabletW, c.y, c.x) ELSE NULL

\* Mutant: that there was no room is not noted.
InsertNewPanelUnnoted(t, oom) ==
  /\ win' = [win EXCEPT ![t] = IF allVisible THEN FirstWindow(t, oom) ELSE NULL]
  /\ UNCHANGED allVisible

\* insert_new_panel(): while everything is visible a new tablet gets a window
\* at once; failing that, not everything is visible.
InsertNewPanel(t, oom) ==
  /\ win' = [win EXCEPT ![t] = IF allVisible THEN FirstWindow(t, oom) ELSE NULL]
  /\ allVisible' = (allVisible /\ FirstWindow(t, oom) # NULL)

\* Mutant: the next tablet keeps its link to the one that was before it.
InsertHalf(t, p, n) ==
  /\ next' = [next EXCEPT ![t] = n, ![p] = t]
  /\ prev' = [prev EXCEPT ![t] = p]

\* t is linked in between p and n.
Insert(t, p, n) ==
  /\ next' = [next EXCEPT ![t] = n, ![p] = t]
  /\ prev' = [prev EXCEPT ![t] = p, ![n] = t]

\* panelreel_add(): t is what malloc() returned, after and before are the
\* caller's, NULL if not given.  A pair that is refused changes nothing.
Add(t, after, before) ==
  /\ pc = "idle" /\ t \in Tablets \ live
  /\ (after # NULL /\ before # NULL) => prev[after] = before /\ next[before] = after
  /\ IF after # NULL THEN Insert(t, after, next[after])
     ELSE IF before # NULL THEN Insert(t, prev[before], before)
     ELSE IF focus # NULL THEN Insert(t, prev[focus], focus)
     ELSE Insert(t, t, t)
  /\ focus' = IF focus = NULL THEN t ELSE focus
  /\ live' = live \cup {t}
  /\ count' = count + 1
  /\ \E n \in LineCounts : lines' = [lines EXCEPT ![t] = n]
  /\ \E oom \in Oom : InsertNewPanel(t, oom)
  /\ pc' = "redraw"
  /\ UNCHANGED <<foreign, reel, dir, working, otherend, passes, doomed>>

AddTablet ==
  \E t \in Tablets \ live, after, before \in live \cup {NULL} : Add(t, after, before)

\* Mutant: the tablet is not subtracted from the count.
FreedUncounted(t) ==
  /\ win'  = [win EXCEPT ![t] = NULL]
  /\ live' = live \ {t}
  /\ lines' = [lines EXCEPT ![t] = 0]
  /\ UNCHANGED count

\* The end of panelreel_del(): tablet t goes, with its window.
Freed(t) ==
  /\ win'  = [win EXCEPT ![t] = NULL]
  /\ live' = live \ {t}
  /\ lines' = [lines EXCEPT ![t] = 0]
  /\ count' = count - 1

\* Mutant: the focus goes to the previous tablet.
DeleteFocusBack(t, nx) ==
  LET n1 == [nx EXCEPT ![prev[t]] = nx[t]]
      heir == IF prev[t] = t THEN NULL ELSE prev[t]
  IN /\ focus' = IF focus = t THEN heir ELSE focus
     /\ n1[t] # NULL
     /\ next' = [n1 EXCEPT ![t] = NULL]
     /\ prev' = [[prev EXCEPT ![n1[t]] = prev[t]] EXCEPT ![t] = NULL]
     /\ Freed(t)
     /\ pc' = "redraw"

\* The body of panelreel_del() for a tablet t of this reel, when nx holds the
\* next links.  It writes through t->next: if that is NULL the process dies.
Delete(t, nx) ==
  LET n1 == [nx EXCEPT ![prev[t]] = nx[t]]
      heir == IF n1[t] = t THEN NULL ELSE n1[t]
  IN /\ focus' = IF focus = t THEN heir ELSE focus
     /\ IF n1[t] = NULL
        THEN /\ pc' = "crashed" /\ next' = n1
             /\ UNCHANGED <<live, prev, count, win, lines>>
        ELSE /\ next' = [n1 EXCEPT ![t] = NULL]
             /\ prev' = [[prev EXCEPT ![n1[t]] = prev[t]] EXCEPT ![t] = NULL]
             /\ Freed(t)
             /\ pc' = "redraw"

Del(t) ==
  /\ pc = "idle"
  /\ Delete(t, next)
  /\ UNCHANGED <<foreign, reel, allVisible, dir, working, otherend, passes, doomed>>

DelTablet == \E t \in live : Del(t)

\* panelreel_del_focused(); with no tablet it answers -1 and does nothing.
DelFocused == focus # NULL /\ Del(focus)

\* panelreel_del() given a tablet of another reel, where it is alone: it is
\* unlinked from its own ring, freed, and subtracted from this reel's count.
DelForeign ==
  /\ pc = "idle"
  /\ \E t \in foreign : foreign' = foreign \ {t}
  /\ count' = count - 1
  /\ pc' = "redraw"
  /\ UNCHANGED <<live, next, prev, focus, view, lines, working, otherend, passes, doomed>>

\* Mutant: the direction is accumulated.
TravelAccumulates(d, link) ==
  /\ pc = "idle"
  /\ IF focus = NULL THEN UNCHANGED <<focus, dir>>
     ELSE focus' = link[focus] /\ dir' = dir + d
  /\ pc' = "redraw"
  /\ UNCHANGED <<live, foreign, next, prev, count, win, reel, allVisible, lines,
                 working, otherend, passes, doomed>>

\* panelreel_next() and panelreel_prev().
Travel(d, link) ==
  /\ pc = "idle"
  /\ IF focus = NULL THEN UNCHANGED <<focus, dir>>
     ELSE focus' = link[focus] /\ dir' = d
  /\ pc' = "redraw"
  /\ UNCHANGED <<live, foreign, next, prev, count, win, reel, allVisible, lines,
                 working, otherend, passes, doomed>>

FocusNext == Travel(1, next)

FocusPrev == Travel(-1, prev)

\* panelreel_redraw() asked for by the application.
Redraw ==
  /\ pc = "idle" /\ pc' = "redraw"
  /\ UNCHANGED <<ring, view, lines, working, otherend, passes, doomed>>

\* The n-th tablet from the focus along the links.
Nth(link) == LET f[n \in Nat] == IF n = 0 THEN focus ELSE link[f[n - 1]] IN f

\* Mutant: panelreel_move() stops where the walk backwards does.
VisitedBackwards ==
  { Nth(prev)[n] : n \in { m \in 0..Cardinality(live) - 1 :
                             \A i \in 0..m : Shown(Nth(prev)[i]) } }

\* panelreel_move() visits the tablets backwards from the focus until one is
\* hidden, then forwards from the focus until one is hidden.
Visited ==
  LET run(link) == { n \in 0..Cardinality(live) - 1 : \A m \in 0..n : Shown(Nth(link)[m]) }
  IN { Nth(prev)[n] : n \in run(prev) } \cup { Nth(next)[n] : n \in run(next) }

\* panelreel_move() to <<y, x>>; off the screen only the redraw is left.
Move(y, x) ==
  /\ pc = "idle"
  /\ reel' = move_panel(reel, y, x)
  /\ LET by(w) == move_panel(w, w.y + y - reel.y, w.x + x - reel.x)
     IN win' = IF ~Movable(reel, y, x) \/ focus = NULL THEN win
               ELSE [t \in Tablets |-> IF t \in Visited /\ Shown(t) THEN by(win[t]) ELSE win[t]]
  /\ pc' = "redraw"
  /\ UNCHANGED <<ring, allVisible, dir, lines, working, otherend, passes, doomed>>

MoveReel == \E at \in MoveTargets : Move(at[1], at[2])

\* panelreel_destroy(), and one iteration of its loop up to the redraw in
\* panelreel_del().  An empty reel is just freed.
Destroy ==
  /\ pc = "idle"
  /\ doomed' = focus
  /\ pc' = IF focus = NULL THEN "freed" ELSE "destroy"
  /\ UNCHANGED <<ring, view, lines, working, otherend, passes>>

DestroyNext ==
  /\ pc = "destroy"
  /\ LET nx == [next EXCEPT ![prev[doomed]] = NULL]
     IN Delete(doomed, nx) /\ doomed' = nx[doomed]
  /\ UNCHANGED <<foreign, reel, allVisible, dir, working, otherend, passes>>

\* The application, from any of its threads: tablet t now holds n lines.
SetLines(t, n) ==
  /\ lines' = [lines EXCEPT ![t] = n]
  /\ UNCHANGED <<ring, view, ctl>>

Update == pc # "crashed" /\ \E t \in live, n \in LineCounts : SetLines(t, n)

----------------------------------------------------------------------------
Init ==
  /\ live = {} /\ foreign = Foreign
  /\ next = [t \in Tablets |-> NULL] /\ prev = [t \in Tablets |-> NULL]
  /\ focus = NULL /\ count = 0
  /\ win = [t \in Tablets |-> NULL] /\ reel = ReelWindow
  /\ allVisible = TRUE /\ dir = -1
  /\ lines = [t \in Tablets |-> 0]
  /\ pc = "idle" /\ working = NULL /\ otherend = NULL /\ passes = <<>> /\ doomed = NULL

Call == AddTablet \/ DelTablet \/ DelFocused \/ DelForeign \/ FocusNext \/ FocusPrev
        \/ Redraw \/ MoveReel \/ Destroy

Next == RedrawStep \/ Call \/ DestroyNext \/ Update

Spec == Init /\ [][Next]_vars

\* The thread that called the library keeps running: nothing in it blocks.
FairSpec == Spec /\ WF_vars(RedrawStep) /\ WF_vars(DestroyNext)

----------------------------------------------------------------------------
(* What makes the reel correct *)

\* Every variable has its type: in particular a tablet's p is NULL or a window
\* of positive size, and the direction of travel is one step.
TypeOK ==
  /\ live \subseteq Tablets /\ foreign \subseteq Foreign
  /\ next \in [Tablets -> Tablets \cup {NULL}]
  /\ prev \in [Tablets -> Tablets \cup {NULL}]
  /\ focus \in Tablets \cup {NULL}
  /\ count \in Int
  /\ win \in [Tablets -> Window \cup {NULL}]
  /\ reel \in Window
  /\ allVisible \in BOOLEAN /\ dir \in {-1, 1}
  /\ lines \in [Tablets -> Nat]
  /\ pc \in {"idle", "redraw", "topmost", "denormalized", "focused", "pass",
             "destroy", "freed", "crashed"}
  /\ {working, otherend, doomed} \subseteq Tablets \cup {NULL}
  /\ passes \in Seq({"up", "down"})

\* The links of the live tablets lead to live tablets and undo each other.
LinksInverse ==
  \A t \in live : /\ next[t] \in live /\ prev[t] \in live
                  /\ prev[next[t]] = t /\ next[prev[t]] = t

\* No part of the tablets is closed under next: they form one ring, so that
\* the walks of the redraw, of panelreel_move() and of panelreel_destroy()
\* reach each of them.
OneRing ==
  \A S \in SUBSET live :
    S # {} /\ (\A t \in S : next[t] \in S) => S = live

\* Exactly one tablet is focused if there is one (panelreel.c:28).
FocusInRing ==
  IF live = {} THEN focus = NULL ELSE focus \in live

\* After any sequence of insertions, deletions (also of the focus, or of the
\* last tablet) and travels, the tablets are one ring that is entered at the
\* focus, and no link or window of a freed tablet is left.
RingOK ==
  pc # "crashed" =>
    /\ LinksInverse /\ OneRing /\ FocusInRing
    /\ \A t \in Tablets \ live : next[t] = NULL /\ prev[t] = NULL /\ win[t] = NULL

\* pr->tabletcount, which is kept beside the ring, is the number of tablets in
\* it: after any insertion, deletion and failed window, in the middle of a
\* redraw and of panelreel_destroy(), as long as every tablet deleted through
\* this reel was one of its own.
CountTracks ==
  pc # "crashed" /\ foreign = Foreign => count = Cardinality(live)

\* Where all_visible is set every tablet has a window, also in the middle of
\* a redraw and when windows cannot be had: find_topmost() and
\* panelreel_arrange_denormalized() read all of them unchecked.
AllVisiblePanels == allVisible => \A t \in live : Shown(t)

\* The steps of a redraw and of panelreel_destroy() only follow pointers to
\* live tablets, what is destroyed next has the focus, and the layout that may
\* hide a tablet is only used once not all of them are visible.
WalksOnLive ==
  /\ pc \in {"topmost", "denormalized", "focused", "pass"} => {focus, working} \subseteq live
  /\ pc \in {"denormalized", "pass"} => otherend \in live
  /\ pc \in {"focused", "pass"} => ~allVisible
  /\ pc = "pass" => passes # <<>>
  /\ pc = "destroy" => doomed \in live
  /\ pc \in {"idle", "freed"} => doomed = NULL
  /\ doomed # NULL /\ pc # "crashed" => doomed = focus

Idle == pc = "idle"
LastLine(w) == w.y + w.h - 1

\* The focused tablet "is always visible" (panelreel.c:29).
FocusShown == Idle /\ focus # NULL => Shown(focus)

\* No tablet is drawn on the reel's top or bottom border, or beyond them.
InsideReel ==
  Idle => \A t \in live : Shown(t) =>
            /\ win[t].y >= Top
            /\ LastLine(win[t]) <= LastLine(reel) - ReelBorder("bottom")

\* Every tablet on screen spans the columns between the reel's borders.
AlignedColumns ==
  Idle => \A t \in live : Shown(t) =>
            /\ win[t].x = reel.x + ReelBorder("left")
            /\ win[t].w = TabletW

\* While all is visible the tablets are stacked from the top of the reel, in
\* the order of the ring, one gap apart; only one of them is at the top.
Stacked ==
  Idle /\ allVisible /\ focus # NULL =>
    \E top \in live : \A t \in live :
      win[t].y = IF t = top THEN Top ELSE LastLine(win[prev[t]]) + 2

\* Nothing is hidden in a reel that has room for all of its tablets.
AlwaysVisible == allVisible

\* The height of tablet t when none of its lines are clipped.
Whole(t) == lines[t] + TabletBorder("top") + TabletBorder("bottom")

\* "As much of the active panel as is possible is always displayed"
\* (outcurses.h): drawn, the focused tablet shows all of its lines and its
\* two borders if the reel has the room, whatever is around it.
FocusWhole ==
  [][DrawFocused =>
       /\ win'[focus] # NULL
       /\ Whole(focus) <= Room(0) => win'[focus].h = Whole(focus)]_vars

\* Laying out the other tablets never disturbs the focused one: going down from
\* it, up, and back, no pass comes round the ring to the focus and draws it
\* again as a follower, whatever the others hold by then (panelreel.c:382, 403:
\* the loops end at a mark that moves while they run).
FocusUndisturbed ==
  [][DrawFollowing \/ DrawPrevious => win'[focus] = win[focus]]_vars

\* Every call of the API comes to its end, however the contents of the tablets
\* change while they are drawn.
Returns == pc \in {"redraw", "topmost", "denormalized", "focused", "pass", "destroy"}
             ~> pc \in {"idle", "freed", "crashed"}

(* What the documentation says of the reel, and the code does not do *)

\* "Destroy a panelreel": the process survives panelreel_destroy().
NeverCrashes == pc # "crashed"

\* "Return the number of tablets" (outcurses.h), where panelreel_del() "Returns
\* -1 if the tablet cannot be found", rather than deleting it all the same.
CountsTablets == pc # "crashed" => count = Cardinality(live)

\* "The visible screen can be reconstructed from three things": the focus, its
\* row and the list (panelreel.c:20).  What is on screen is an arc of the ring
\* around the focus: no window of an earlier layout is left beyond a hidden
\* tablet, under or over the others, where panelreel_move() does not find it.
VisibleArc == Idle => \A t \in live : Shown(t) => t \in Visited
=============================================================================
