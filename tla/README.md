# panelreels, verified

This directory holds TLA+ models of panelreels, the ncurses "tablet reel" of
`src/` (C, about 1700 lines), the TLC configurations that check them, and proofs
that TLAPS checks. It is written to be read beside the code: `PROJECT.json` maps
every definition of a model to the lines it translates.

## 1. The system

| Part | Source | State | Operations |
|---|---|---|---|
| **panelreel** | `src/src/lib/panelreel.c`, `src/include/outcurses.h` | a ring of tablets (`next`, `prev`), the focus, a count, one window per visible tablet, the reel's own window, `all_visible`, `last_traveled_direction` | `panelreel_create/add/del/del_focused/next/prev/move/redraw/destroy/touch/validate` |
| **the demo** | `src/src/bin/panelreel.c` | the list of tablet contexts, each with a mutex and a thread; an eventfd | a key loop; threads that change a tablet's lines and signal the eventfd; a drawing callback; the shutdown |
| **tablet drawing** | `draw_borders()` and the second half of `panelreel_draw_tablet()`; `tabletdraw()` in `src/src/bin/panelreel.c` | what each cell of a tablet's window shows | a drawing upwards, downwards or in focus; hiding |
| **palette fades** | `src/src/lib/fade.c` | the terminal's palette, a clock | `fadein()`, `fadeout()`, `retrieve_palette()`, `set_palette()` |
| **terminal initialisation** | `src/src/lib/outcurses.c`, `colors.c` | curses mode, the terminal's modes, the colour pairs | `outcurses_init()`, `prep_colors()`, `outcurses_stop()` |
| **main program** | `src/src/bin/demo.c` | the order of all this, the exit status | start, introduction, demo, exit |
| version, tests, packaging | `src/src/lib/version.c`, `src/tests/`, `src/debian/` ... | none | |

How they interact. The application calls the library from one thread. Almost
every call ends in `panelreel_redraw()`, which lays the tablets out and, for each
tablet it draws, **calls back** into the application. The callback reads content
that **other threads** change at any time, under a mutex per tablet; a thread
that changed something calls `panelreel_touch()`, which writes to an eventfd that
the main loop polls next to the keyboard. So the hard behaviours are: long
sequences of calls on a ring that is rewired by hand; a layout computed from
sizes that change while it is computed; cached facts (`all_visible`, the
direction of travel, the windows themselves) that must stay true across calls;
windows that ncurses refuses; wake-ups and keys that arrive together; threads
cancelled while they hold a mutex; and a shutdown that takes all this apart in
the right order. Around the reel, the main program has the terminal set up by
calls of ncurses any of which may be refused, and on quitting fades the palette
out against a clock that does not wait: rounds are skipped, a colour or a sleep
may be refused half way, and the terminal has to be restored however it
went. `PROJECT.json` lists each of these hazards at its line with the
properties aimed at it.

What makes each part correct:

* *panelreel*: the tablets are one ring entered at the focus; no freed tablet is
  referenced; `all_visible` is only set when every tablet has a window; the focus
  is on screen and whole; what is on screen lies inside the borders and moves with
  the reel; nothing is hidden that fits; every call returns.
* *the demo*: no update is lost, no freed context is used, no mutex is waited for
  in vain, and quitting leaves nothing behind.
* *drawing*: a tablet shows a frame, open at its clipped end only, around the
  right lines in order, whatever its window showed before; it is reported
  clipped exactly when it is.
* *fades*: they go one way, end in time, give the palette back, lose no colour.
* *initialisation* and *main program*: colour pairs are where their numbers say,
  no window is returned half configured, the terminal is restored when `main()`
  returns, or the process says that it could not be.

## 2. The modules

| Module | What it is |
|---|---|
| `NCurses` | external: `newwin`, `wresize`, `move_panel` and the coordinates of a window, as the library relies on them, with their refusals |
| `PanelReel` | the library: state, every API call, every step of the redraw, its properties |
| `PanelReelValidate` | `panelreel_validate()`, the unit tests' oracle, as a predicate |
| `Carousel` | what the README promises: a torus of tablets that turns, grows and shrinks |
| `PanelReelCarousel` | the mapping under which `PanelReel` implements `Carousel` |
| `PanelReelDemo` | the demo: main loop, threads, mutexes, eventfd, shutdown |
| `Drawing` | one tablet's window, cell by cell |
| `Terminal` | external: the palette and the colour pairs |
| `Fade` | the palette fades |
| `Outcurses` | `outcurses_init()`, `prep_colors()`, `outcurses_stop()` |
| `DemoMain` | the main program: composes `Fade` and `Outcurses` |
| `PanelReelProofs` | theorems: the reel's ring and cached facts |
| `PanelReelLayoutProofs` | theorems: where the reel's windows are, and its own validation |
| `PanelReelCarouselProofs` | theorem: `PanelReel` implements `Carousel` |
| `PanelReelDemoProofs` | theorems: the demo |
| `TorusLemmas` | lemmas about sequences as toruses and walks along links |
| `DrawingProofs`, `FadeProofs`, `DemoMainProofs` | theorems: drawing, fades, main program |
| `MCPanelReel`, `MCPanelReelDemo`, `MCDrawing`, `MCFade`, `MCDemoMain` | instances for TLC |

### PanelReel

The variables are the fields of `panelreel` and `tablet` under their names
(`focus` is `pr->tablets`, `count` is `pr->tabletcount`, `win[t]` the window in
`t->p`, NULL when there is none), the set `live` of allocated tablets, and what
the application holds: `lines[t]`, the number of lines tablet `t` has to show.
`pc`, `working`, `otherend`, `passes` and `doomed` are the place and the locals of
the one call under way.

A call of the API is one action up to its `panelreel_redraw()`. A redraw is a
sequence of steps, one per tablet drawn (`Arrange`, `FindTopmost`,
`BeginDenormalized`, `Denormalized`, `DrawFocused`, `DrawFollowing`,
`DrawPrevious`), because every drawing calls back: between any two steps the
action `Update` may change any tablet's lines, which is what the demo's threads
do. `panelreel_destroy()` is a step per tablet, with the redraw that
`panelreel_del()` makes in between.

`DrawTablet` is `panelreel_draw_tablet()` as a function from the tablet's window,
the frontier and the direction to the window afterwards and the return value;
`TabletColumns`, `Placed`, `Callback` and `Fitted` are its four parts. `Callback`
is the demo's `tabletdraw()`: it writes as many lines as it has and as fit.
Where the code would follow a NULL link the model goes to `pc = "crashed"`, where
it stops.

Abstracted away: characters, colours and attributes; `update_panels()`; the screen
below the reel; what the windows show, which is `Drawing`'s matter. That the
reel's own border never makes a redraw fail is proved there (`BordersNeverFail`).
Assumed: the terminal keeps its size, `malloc()` failing in `panelreel_add()` is
a call that changes nothing, `panelreel_create()` succeeded with options that
pass `validate_panelreel_opts()`. Tablets of
other reels occur as arguments of `panelreel_del()` only.

### PanelReelDemo

One variable `mpc` for the main thread and one `tpc[t]` per tablet thread; the
mutex of a context is held when the context is in `locked`; `signaled` is the
eventfd's counter, as far as `poll()` sees it. `Poll`, `Read` and the key actions are
`handle_input()` and the switch of `panelreel_demo_core()`; `AddKey` and `Create`
are `new_tabletctx()`; `DeleteKey`, `Join` and `Free` are `kill_tablet()` under
`kill_active_tablet()` or, after `q`, under `KillAll`. Of the reel only the order
of the tablets is kept, and changed by the operations of `Carousel`, which
`PanelReel` is shown to implement. The list of contexts is a sequence too: that
`kill_active_tablet()` splices a context out through a pointer to a link is
abstracted to its removal. A redraw calls back any set of
the tablets, in any order, each under
its mutex; calling back with a freed context, which a failed `pthread_create()`
leaves in the reel, ends in "crashed". `Lock`, `Touch`, `Unlock`, `Wake` and `Die` are `tablet_thread()` with
its two cancellation points, `nanosleep()` and the `write()` in
`panelreel_touch()`; the second one is reached with the mutex held. What counts as
an update not yet drawn (`stale`) is dropped for tablets the redraw does not call
back: whether the library should have is PanelReel's business.

### Drawing

`glass` is the window of one tablet, a function from cells to what they show;
`wresize` keeps what was there, as wresize(3) does. `Draw` is one drawing in
direction `d` with `leny` rows of room: `Text` is what the callback writes (`Down`
and `Up` are `tabletdown()` and `tabletup()`, `SummaryRow` the row of the line
printed over them), `Size` is what the window shrinks to afterwards, and `Frame` what
`draw_borders()` adds. Lines are numbers: which cell shows which line is what the
properties tell apart. `Update` changes the number of lines between two drawings,
as the demo's threads do; a callback sees one number, because it holds the mutex.

### Fade, Outcurses and DemoMain

A fade is in `fpc` "round" before it works out the round that is due, and in
"sleep" before its `clock_nanosleep()`. `elapsed` is the clock at its last
reading, up to `MaxLate` late. `Round` paints every colour, or the first k when
ncurses refuses one; `Sleep` may be interrupted; `Finish` is the way out when the
time is up. Where C leaves open what happens (a division by zero, a buffer that
was not allocated, an index beyond the caller's array) `fpc` is "undefined", and
`Defined` says that this happens in the cases it names and no others. Assumed: no
counter overflows (`int iter` would after 2^31 steps), components of 0 to `Depth`,
no more levels than a millisecond has nanoseconds.

`Outcurses` makes one call of ncurses a step (`ipc`), with its success and its
refusal; `InitPair`, `NextBackground` and `PairsDone` are the two loops of
`prep_colors()`. `endwin()` may be refused as well, at the label error, where nobody
looks, and in `outcurses_stop()`, which complains and answers 0 all the same;
`refused` remembers it. `DemoMain` runs this, then the demo, of which it keeps how it
ends (no reel, p, q, or killed by a freed context or an assertion: `Killed`), then the
fade of q, then `outcurses_stop()`. With `initcurses` FALSE it is the unit test that
starts ncurses itself (`StartCurses`).

## 3. What is checked

Every property has a mutant in `PROJECT.json`: a plausible slip in the code
(a forgotten border, a link left behind, an unlock left out) under which TLC finds
it violated. The mutants stand in the modules right before what they mutate.

| Run | Properties | What it shows |
|---|---|---|
| `reel` | TypeOK, RingOK, CountTracks, AllVisiblePanels, WalksOnLive; ImplementsCarousel, Returns | ring, cached facts, refinement, termination, with refused windows and a foreign tablet |
| `reel_small` | FocusShown, InsideReel, AlignedColumns; FocusWhole, FocusUndisturbed | layout of a reel that cannot show all its tablets, moved about |
| `reel_fits` | Valid, Stacked, AlwaysVisible | layout of a reel that can, by the tests' own oracle |
| `demo` | TypeOK, NoLostUpdate, OnlyAllocated, NoAbandonedLock, ListMatchesReel, EndsClean; Served | the demo's threads, on the torus of the reel; failures of `pthread_create()`, the shutdown; every key and event is dealt with |
| `drawing` | TypeOK, Framed, Honest | one window, drawn again and again in every direction and room |
| `fade` | FadeTypeOK, AfterFadeout, Punctual, Defined; OneWay, NothingLost, FadeEnds | every sequence of the four calls, with a late clock and refusals anywhere |
| `main` | MainTypeOK, PairsNumbered, Configured, Silent, Restored; Ends | the main program with every refusal, `endwin()`'s included, pairs that run out, the fade at its end, and a demo that may be killed |

Five more runs show where the code and what is said of it differ; they are listed
below.

### Bounds, and why they are enough

* *Tablets.* Three make every case of the link surgery: alone, a pair (where
  next = prev), and a proper neighbourhood with a focus apart from both. Four, in
  `reel_small`, leave a tablet neither pass of the layout reaches, and five, in
  `stale_window`, one that has a window there.
* *Lines* `{1, 4}` in `reel`: two of the tall ones do not fit, so tablets
  hide, reappear and change between all the redraws. `{1, 3}` in `reel_small`, in
  a reel with eight lines inside its borders: the properties of that run hold as
  long as the tallest tablet (three lines and two borders), a gap and the two
  lines `insert_new_panel()` takes fit together. **They fail with
  taller tablets**: `focus_vanishes` shows how, with a tablet that fits the reel
  exactly. At most three of the four tablets show at a time, and all borders are there:
  without a reel's or a tablet's top border InsideReel and FocusWhole fail, as said
  below. InsideReel also fails in a smaller reel
  that has all the room its tallest tablet needs (a screen of 8 lines, three tablets of one or three
  lines without borders): a new tablet's window of two lines, placed on the last
  line, is never laid out if a tablet above it grows at that moment. It is therefore
  proved for reels that have room for all their tablets (section 4).
* `reel_fits` has one line more than three tablets at their largest, with their
  two gaps, take up; with one line less the redraw takes the last tablet for
  clipped (line 285 cannot tell) and hides tablets. It is the run with
  borders masked: the reel has no bottom border and the tablets no top border.
  The three properties hold with the other masks too, given the lines.
* *The screen* is as large as the reel and its offsets, one axis matters, the
  columns are there for `panelreel_move()`. `Moves` are the neighbouring
  positions and one off the screen.
* *The demo*: two contexts, a head and a tail of the list, one that is joined while the
  other's thread goes on, one without a thread beside one that has it. One lock per
  tablet and a main thread that takes one at a time: no third actor can matter to a
  wait. The invariants are proved for any number (section 4).
* *Drawing.* Six rows and five lines make every case of the sizing: no row for a line,
  one row less than needed, just enough, room to spare. Four columns leave two between the
  borders, so that the summary's cell and an ordinary one differ.
* *Fades.* Two colours, so that a refusal can fall between them, of components
  that do not divide evenly; three steps, so that one can be skipped; a
  millisecond of four nanoseconds, which three does not divide; fades of no
  time; a clock late by up to three nanoseconds, most of the fade.
* *Main program.* Three colours take nine pairs and there are seven: they run out in
  the middle of a background. The proofs cover every number.
* Tablet addresses are interchangeable, so symmetry is used except where
  liveness is checked. Nothing else is bounded: no counter grows.

### Fairness

`FairSpec` of PanelReel has weak fairness of the redraw's steps and of
`panelreel_destroy()`'s: they run in one thread that never blocks in the library.
API calls and updates are never forced. `FairSpec` of PanelReelDemo has weak
fairness of the main thread once it has input, weak fairness of every tablet
thread (`nanosleep()` ends), and strong fairness of `Draw`: `tabletdraw()` waits
for a mutex whose thread releases and takes it again for ever, but sleeps up to
three seconds in between. `poll()` is never forced: nobody needs to press a key.
`FairFadeSpec` and `MainSpec` have weak fairness of the steps of a fade, and of
the set-up and the exit: they run in one thread that waits for nothing but the
clock. The keys that end the introduction and the demo are never forced.

### Where code and documentation disagree

Each is a run in which TLC finds a property taken from a comment or header
violated; `PROJECT.json` quotes both sides under "findings".

| Run | The code |
|---|---|
| `destroy_crashes` | `panelreel_destroy()` clears a link that `panelreel_del()` follows: it dies on any reel that has tablets |
| `miscount` | `panelreel_del()` does not notice a tablet of another reel, and takes it from this reel's count |
| `focus_vanishes` | a focused tablet that has grown to fit exactly between the reel's borders is placed on the top border, and hidden by the next redraw |
| `stale_window` | a window of an earlier layout survives beyond a hidden tablet (the FIXME at panelreel.c:418) |
| `fadein_short` | `fadein()` paints the odd rounds of an even number of them, and returns 0 one step short of the palette it was given |

`CountTracks`, `InsideReel`, `FocusWhole` and `FocusShown` are checked, and proved,
where these do not bite: for a reel of which only its own tablets are deleted, with
its borders, and with tablets that leave it a line.

Seen while modelling, and not given a run of their own.

The reel:

* With both neighbours given, `panelreel_add()` accepts them reversed only (line 674
  compares after->prev with before), and links the tablet in after `after`, which is
  not between them: outcurses.h:143-145 promises "the resulting location". `Add`
  does what the code does.
* src/README.md:239-254 says that an enlarged tablet "grows towards the nearest boundary".
  The focused one keeps its first line as long as it fits below it (line 316): in a full
  reel of 12 lines a focused tablet on the fifth to seventh line, nearer to the top and
  with room there, grows down to the eighth.
* Line 159 takes the mask of the top border for the bottom's. In a reel without a top
  border but with a bottom one the last tablet gets a window of one line on the bottom
  border (three tablets of one line in nine): InsideReel is checked and proved with a top
  border. Header (outcurses.h:94): "partially inhibit borders by setting individual bits".
* A tablet without a top border that fits exactly is taken for clipped (line 285), and
  loses its bottom border: FocusWhole fails for five lines and one border in six lines.
* Without `infinitescroll` the reel scrolls round all the same, though
  src/README.md:172 says "No change": the options are validated and never consulted.
* `panelreel_validate()` fails on reels whose tablets do not all fit (`Valid` under
  `reel_small.cfg`): windows overlap after `panelreel_arrange_denormalized()` gives
  up half way. The unit tests only validate reels with at most one tablet.
* Line 316 compares lengths with an absolute line. With `toff` of 4 or more
  `Stacked` fails in a reel in which all tablets fit, and in a reel without a
  top border the focused tablet may be laid out one line past the last.
* `panelreel_move()` does not update the offsets, contrary to the header
  (outcurses.h:82), and `panelreel_validate()` compares with them. `reel_fits` has
  no moves for that reason.
* `all_visible` never becomes true again once false.
* The minimal rows and columns are never enforced: lines 137 and 140 swap them,
  compare absolute coordinates with sizes, and return success, so that the message
  promised at outcurses.h:67-73 never appears.

Drawing:

* The header says that maxx and maxy are the first column and row that may not be
  used (outcurses.h:121-124); line 285 and the demo's callback take them to be the
  last that may.
* Without a top border, a tablet drawn downwards that has more lines than room is
  taken for one that fits, and the bottom border goes over its last line. Framed
  and Honest are therefore checked and proved for tablets with top and bottom borders.
* The demo asserts that its summary fits (bin/panelreel.c:147) and aborts in a
  narrow terminal. Drawing assumes a window wide enough for it.

The demo:

* It swallows an event that is read along with an unknown key (line 225):
  the `missed` exemption of NoLostUpdate. It closes its eventfd twice.
* The tablets whose `pthread_create()` failed are the `orphans` that OnlyAllocated and
  EndsClean exempt. The context is freed and the tablet stays in the reel
  (bin/panelreel.c:196): the next redraw that calls it back uses freed memory, or
  `panelreel_destroy()` gets a reel that is not empty, and the process dies (`mpc` is
  "crashed"), one key after the one that failed.
* p leaves the process without `endwin()`, and so does what kills it: Restored speaks
  of `main()` returning.

Fades and initialisation:

* A `fadeout()` that fails (a colour refused, a signal, the palette not restored)
  leaves the palette dimmed, though src/README.md:292 says "Upon completion, restores
  the palette". AfterFadeout says what it leaves.
* A successful `fadeout()` resets the colour pairs, and with them all that
  `prep_colors()` set: the exemption of Silent.
* A clock first read after the whole time of a fade has `fadein()` paint nothing
  and return 0.
* `curs_set()` refused ends `outcurses_init()`, though the comment says "if supported
  by the terminal" (outcurses.c:45-48), while refused pairs do not. `outcurses_stop()`
  answers 0 also when `endwin()` was refused (outcurses.c:66-70), so that the branch at
  demo.c:57 is dead: Restored allows for the terminal that is then left in curses mode.
* `fadein()` without the memory for its buffer, or with a count below the number of
  colours, is undefined (fade.c:177, 185): the cases Defined names.
* The colour pairs are neither those of src/README.md:60 (the default background only)
  nor those of the comment at colors.c:11-12 (every colour as a background): the
  first block has the default background, and the last colour is never one.

## 4. What is proved

All theorems are about the specifications that the runs check, for every value of
the constants their assumptions admit.

### The reel: `PanelReelProofs`

For any finite sets of tablets and foreign tablets, any line counts, geometry,
offsets, borders and move targets, with and without refused windows:

| Theorem | Statement |
|---|---|
| `TypeCorrect` | `Spec => []TypeOK` |
| `RingCorrect` | `Spec => []RingOK` |
| `CountCorrect` | `Spec => []CountTracks` |
| `PanelsCorrect` | `Spec => []AllVisiblePanels` |
| `WalksCorrect` | `Spec => []WalksOnLive` |

All five follow from one inductive invariant, `Inv`, their conjunction. None is
inductive alone. A step of the redraw keeps the types only because the tablet it
draws and its neighbours are live (WalksOnLive), whose links are live (RingOK).
WalksOnLive survives a deletion because it happens only between calls or with
the doomed tablet in focus, and rests on AllVisiblePanels for the first of the two layouts.
CountTracks needs that what is added was not live and what is deleted was, and is
strengthened by `CountOffset`: the count is off by the foreign tablets that were deleted.
It is stated for a reel of which none is (with one it fails: `miscount`).
The heart is `OneRing`, that no proper subset of the tablets is closed under
`next`, which is "one cycle" without induction over a path: inserting or removing
one tablet extends or restricts a closed set of the new ring to one of the old.
There are lemmas for the geometry (every window stays well typed through
`newwin`, `wresize` and `move_panel`), for insertion and deletion in the ring, and
one step per action.

The assumptions used are `ScreenAssumption`, `NullAssumption` and
`ReelAssumption`: a screen of positive size, NULL not a window or a tablet, natural offsets,
options that pass the library's own validation, and a reel window that ncurses
grants. The proof covers `panelreel_destroy()` up to the moment it follows the NULL
link, where the model stops.

### The layout: `PanelReelLayoutProofs`

Where the windows are depends on how the tablets' sizes relate to the reel's, so
these theorems have hypotheses on the constants. The first is `Steady`: the
application never moves the reel, windows are not refused for lack of memory,
the reel has a top border and is on the screen, and each number of lines a tablet
may hold fits in it, bordered, with a line to spare. The tablets need not fit
together: they hide and reappear.

| Theorem | Statement |
|---|---|
| `FocusVisible` | `Steady /\ Spec => []FocusShown` |
| `ColumnsAligned` | `Steady /\ Spec => []AlignedColumns` |
| `FocusDrawnWhole` | `Steady /\ Spec => FocusWhole` |
| `FocusLeftAlone` | `Steady /\ Spec => FocusUndisturbed` |

The invariant is `SteadyInv`. That the focused tablet is drawn is seldom in
doubt; the difficulty is that nothing hides it afterwards. A pass follows the ring
from the focus and stops at the tablet where the one before it stopped, so three
passes in a row might come round to the focus and draw it again, with what room is
left beyond the others (FocusUndisturbed says that they do not). `Apart` says why they do not: there is a set V of tablets
that the pass has behind it (`Behind`), an arc of the ring from the focus to
`working`, and the tablet that ends the pass is not in it or is the focus itself.
`Full` says that the other layout is only used while `all_visible` is set, and
`Held` that every window starts inside the reel and spans its columns.

Each hypothesis serves. A move leaves windows behind beyond a hidden tablet
(the FIXME at panelreel.c:418), against which the focus is then laid out; a
refused window hides the focus; the top border's mask stands for the bottom's at
line 159; a tablet exactly as tall as the reel is taken for clipped (line 285) and
loses a border; without lines and without borders a tablet's window has no size.

The second hypothesis is `Roomy(M)`, for any number M: no lack of memory, a top
border, on the screen, M lines hold any tablet with one to spare for its contents, and
the reel has M lines and a gap for every tablet (counted from its first line on the
screen too, wherever it is moved: panelreel.c:316 compares a line of the screen with a
length). Moves are allowed.

| Theorem | Statement |
|---|---|
| `NothingHidden` | `Roomy(M) /\ Spec => []AlwaysVisible` |
| `TabletsStacked` | `Roomy(M) /\ Spec => []Stacked` |
| `TabletsInside` | `Roomy(M) /\ Spec => []InsideReel` |
| `Validated` | `Roomy(M) /\ Fixed /\ Spec => []Valid` |

The invariant is `RoomyInv(M)`: the layout that may hide a tablet is never used,
between two calls all tablets are stacked from a topmost one (`Stack`), and during
a layout those before `working` are (`Stacking`), each in at most M lines and a gap.
That a move takes all windows along needs that the two walks of `panelreel_move()`
reach all tablets, which is a fact about walks in a ring (`AllVisited`). `Fixed` adds
that the reel is never moved and that its offsets leave room in the parent. Then the
walk of `panelreel_validate()` back from the focus climbs, tablet by tablet, to the
topmost and finds every gap (`Climbed`), and what it meets beyond it, from below, and
on its way down (`Descended`) fails no assertion either: the oracle that the unit
tests apply to at most one tablet holds for any number.

The constants of `reel_fits` satisfy all of these hypotheses (with M = 3).

### The refinement: `PanelReelCarouselProofs`

`ReelIsTorus` is `Spec => ImplementsCarousel`: for any tablets, the reel of links
implements the README's torus, with and without room, memory and moves. The
torus is `Order`, the walk along `next` from the focus, which is a recursive
function. The prover has no induction over an operator, but the same can be said of
sets of numbers: `AllNaturals` (from the well-foundedness of <) says that a set of
numbers with 0 and all successors of its members has them all, and is cited with the set of
the numbers for which a walk is what it should be. From it `WalkFacts` and
`SeriesFacts` show that recursive definitions define something, and `WalkTours` that
in a ring (links inverse to each other, no proper subset closed) the walk meets
every member once before it returns. Such a tour is unique (`ToursUnique`), so each
action needs no more than that the abstract operation's result is a tour of the new
links: `ToursInsert`, `ToursRemove` and `ToursTurn` say so.

### The demo: `PanelReelDemoProofs`

For any number of tablets, with failures of `pthread_create()` at any time:

| Theorem | Statement |
|---|---|
| `DemoInvariant` | `Spec => []DemoInv` |
| `DemoTypes` | `Spec => []TypeOK` |
| `NoUpdateLost` | `Spec => []NoLostUpdate` |
| `FreedLast` | `Spec => []OnlyAllocated` |
| `DrawsNoDead` | `Spec => []NoAbandonedLock` |
| `ListKept` | `Spec => []ListMatchesReel` |
| `CleanEnd` | `Spec => []EndsClean` |

`DemoInv` is the conjunction of `TypeOK` with four parts. `PhasesOK` says what the
main thread has in hand at each place it may be at; `ReelOK` that the allocated contexts
are those on the list and the one in hand, and that each has its tablet in the reel, with
the orphans of a failed `pthread_create()`, until it is taken out to be freed;
`ThreadsOK` that threads run on allocated contexts only and die of
`pthread_cancel()` alone; `StaleOK` that a tablet with an update not yet drawn has its
thread still to signal, the eventfd signaled, or a redraw coming that will call it
back. None is inductive alone: a context that is freed is not on the list
because of what the main thread has in hand, and has no thread because that thread was joined;
the mutex left locked by a cancelled thread is that of the tablet already out
of the reel; an update is still awaited because its thread runs; and the process only
dies where an orphan is called back or destroyed.

### A tablet's window: `DrawingProofs`

For any room, width, number of lines and sequence of drawings, of tablets with
top and bottom borders (`TopAndBottom`) and left and right ones masked or not:

| Theorem | Statement |
|---|---|
| `DrawingTypes` | `Spec => []TypeOK` |
| `DrawingFrames` | `Spec => []Framed` |
| `DrawingIsHonest` | `Spec => []Honest` |
| `BordersNeverFail` | `draw_panelreel_borders()` never fails because of its border, for any mask |

What a drawing leaves does not depend on what was there: every cell left of the
window is a border or between them (`FrameFacts`), and every row between them was
written (`RowsFacts`, `SizeFacts`). Cells are counted with the library's theorems
on intervals and bijections. `DrawingAssumption` is used: at least three columns.

### The fades: `FadeProofs`

For any number of colours, components, durations, resolution and lateness:

| Theorem | Statement |
|---|---|
| `FadeTypes` | `FadeSpec => []FadeTypeOK` |
| `FadeoutRestores` | `FadeSpec => []AfterFadeout` |
| `FadeIsPunctual` | `FadeSpec => []Punctual` |
| `FadeIsDefined` | `FadeSpec => []Defined` |
| `FadeGoesOneWay` | `FadeSpec => OneWay` |
| `RetrievalLosesNothing` | `FadeSpec => NothingLost` |

`FadeInv` adds to the four invariants that the step time is the quotient it was
computed as (`StepsOK`) and that the palette is the one the last round painted, with
the next round later than it (`RoundsOK`). The rest is arithmetic: the bounds and
the monotony of a quotient, and that scaling by a larger share is brighter. That
a palette has a brightest component is shown from the well-foundedness of
strict inclusion. `TerminalAssumption`, `UnsetAssumption` and `FadeAssumption` are used.

### The main program: `DemoMainProofs`

For any number of colours and pairs, and any refusals:

| Theorem | Statement |
|---|---|
| `MainTypes` | `MainSpec => []MainTypeOK` |
| `PairsAreNumbered` | `MainSpec => []PairsNumbered` |
| `InitConfigures` | `MainSpec => []Configured` |
| `InitIsSilent` | `MainSpec => []Silent` |
| `ExitRestores` | `MainSpec => []Restored` |

`MainInv` says which of the program and the set-up has the terminal (`PhasesOK`),
that the modes dealt with are set or were complained of (`ModesOK`), and that the
counter `pair` is the number of the pair at hand until the pairs run out
(`PairsOK`), the loop invariant that `prep_colors()` keeps in three variables. It
needs nothing of a fade but that it may reset the pairs. `ExitRestores` holds for every
combination of refusals and ends of the demo: the terminal is out of curses mode when
`main()` returns, or it was `endwin()` that was refused, and then the status is 1 (a failed
start) or there is a warning.

### Only model-checked

Every invariant and action property of the passing runs has a theorem. The layout
properties are checked beyond the hypotheses of theirs: `reel_small` moves a reel
that cannot show all its tablets, where FocusShown, InsideReel, AlignedColumns,
FocusWhole and FocusUndisturbed hold for its sizes and no theorem says so.
Returns, Served, FadeEnds and Ends are liveness, which the prover does not reach.

## 5. Not modelled

The version is a constant; the tests and packaging are not behaviour. Of the
parts that are modelled: the text of the summary and of the introduction; a
terminal that is resized; `panelreel_add()` with tablets of another reel, which
would merge two rings; two reels at a time.

## 6. Plan

1. Done: all parts modelled and checked; proofs of the ring, the refinement of
   `Carousel` by the reel, the demo's invariants, drawing, fades, initialisation and
   main program, and of the layout under hypotheses.
2. The layout of a reel that is moved and cannot show all its tablets: the properties of
   `reel_small` from `Steady` with moves, the stale windows (`stale_window`: they do arise)
   described by the invariant.
3. A measure that decreases with every step of a redraw, as an action property: what
   Returns rests on, without the fairness.
