--------------------------- MODULE PanelReelDemo ---------------------------
(***************************************************************************)
(* src/bin/panelreel.c: the demo application.  Its main thread waits for   *)
(* keys and for an eventfd and owns the reel; each tablet has a context    *)
(* with a mutex, and a thread of its own that changes the tablet's lines   *)
(* and signals the eventfd (panelreel_touch()).  A redraw of the reel      *)
(* calls back into tabletdraw(), which takes the mutexes one by one.       *)
(*                                                                         *)
(* The reel itself is the torus of Carousel.  Which of its tablets are on  *)
(* screen, and are called back by a redraw, is left open: a redraw deals   *)
(* with every change made before it, and calls back any set of tablets.    *)
(***************************************************************************)
EXTENDS SequencesExt

CONSTANTS
  Contexts,    \* the addresses malloc() may return for a tabletctx
  NULL,
  CreateFails   \* whether pthread_create() may fail

ASSUME DemoAssumption == NULL \notin Contexts /\ CreateFails \in BOOLEAN

VARIABLES
  order,    \* the reel's tablets from the focus on, each by its context
  list,     \* tctxs: the linked list of contexts
  heap,     \* the contexts that are allocated
  tpc,      \* what the thread of each context is doing
  locked,   \* the contexts whose mutex is held by their thread
  cancelled, \* the contexts whose thread was sent pthread_cancel()
  stale,    \* the contexts that changed since their tablet was drawn
  signaled, \* whether the eventfd's counter is positive
  mpc,      \* what the main thread is doing
  ready,    \* revents: what poll() found
  todraw,   \* the tablets the redraw under way still has to call back
  after,    \* where the main thread goes after the redraw
  ctx,      \* the context being created or killed
  orphans,  \* the tablets in the reel whose context has no thread: freed
  quit,     \* whether the main loop was left
  missed    \* history: an event was read along with an unknown key and no
            \* redraw has begun since

threads == <<tpc, locked>>
vars == <<order, list, heap, tpc, locked, cancelled, stale, signaled, mpc,
          ready, todraw, after, ctx, orphans, quit, missed>>

----------------------------------------------------------------------------
(* The main thread *)

\* poll() returns: a key was pressed, the eventfd was signaled, or both.
Poll ==
  /\ mpc = "poll" /\ mpc' = "read"
  /\ ready' \in (SUBSET {"key", "event"}) \ {{}}
  /\ "event" \in ready' <=> signaled
  /\ UNCHANGED <<order, list, heap, threads, cancelled, stale, signaled,
                 todraw, after, ctx, orphans, quit, missed>>

\* A call that redraws the reel, whose tablets are now o: some are called
\* back, and only they still have to be drawn.
Redraws(o, then) ==
  /\ order' = o
  /\ \E V \in SUBSET Range(o) : todraw' = V /\ stale' = stale \cap V
  /\ mpc' = "draw" /\ after' = then /\ missed' = FALSE

\* Mutant: the eventfd is read after the redraw it asks for.
ReadLate ==
  /\ mpc = "read"
  /\ IF "key" \in ready
     THEN mpc' = "key" /\ UNCHANGED <<order, stale, todraw, after, missed, signaled>>
     ELSE IF after # "read"
     THEN Redraws(order, "read") /\ UNCHANGED signaled
     ELSE /\ mpc' = "poll" /\ after' = "poll" /\ signaled' = FALSE
          /\ UNCHANGED <<order, stale, todraw, missed>>
  /\ UNCHANGED <<list, heap, threads, cancelled, ready, ctx, orphans, quit>>

\* handle_input() reads what is ready.  A redraw for the event is left to the
\* key, if there is one.
Read ==
  /\ mpc = "read"
  /\ signaled' = (signaled /\ "event" \notin ready)
  /\ IF "key" \in ready
     THEN mpc' = "key" /\ UNCHANGED <<order, stale, todraw, after, missed>>
     ELSE Redraws(order, "poll")
  /\ UNCHANGED <<list, heap, threads, cancelled, ready, ctx, orphans, quit>>

\* panelreel_move(), panelreel_prev() and panelreel_next() all redraw.
TravelKey ==
  /\ mpc = "key"
  /\ \/ Redraws(order, "poll")
     \/ order # <<>> /\ Redraws(Append(Tail(order), Head(order)), "poll")
     \/ order # <<>> /\ Redraws(<<Last(order)>> \o Front(order), "poll")
  /\ UNCHANGED <<list, heap, threads, cancelled, signaled, ready, ctx, orphans, quit>>

\* A key with no meaning, or a, b, c without memory: nothing is redrawn.
OtherKey ==
  /\ mpc = "key" /\ mpc' = "poll"
  /\ missed' = (missed \/ "event" \in ready)
  /\ UNCHANGED <<order, list, heap, threads, cancelled, stale, signaled,
                 ready, todraw, after, ctx, orphans, quit>>

\* new_tabletctx(): the tablet is in the reel, before the focus, and drawn ...
\* (The address of a context that a tablet still refers to is not reused.)
AddKey ==
  /\ mpc = "key"
  /\ \E t \in Contexts \ (heap \cup orphans) :
       heap' = heap \cup {t} /\ ctx' = t /\ Redraws(Append(order, t), "create")
  /\ UNCHANGED <<list, threads, cancelled, signaled, ready, orphans, quit>>

\* Mutant: the contexts before the new one are dropped.
ListedAlone(t) == list' = <<t>>

\* The head of the list is the newest context.
Listed(t) == list' = <<t>> \o list

\* Mutant: whether a context came back is not asked.
CreateUnchecked ==
  /\ mpc = "create" /\ mpc' = "poll" /\ ctx' = NULL
  /\ \/ tpc' = [tpc EXCEPT ![ctx] = "asleep"] /\ Listed(ctx) /\ UNCHANGED <<heap, orphans>>
     \/ CreateFails /\ heap' = heap \ {ctx} /\ orphans' = orphans \cup {ctx}
        /\ Listed(NULL) /\ UNCHANGED tpc
  /\ UNCHANGED <<order, locked, cancelled, stale, signaled, ready, todraw,
                 after, quit, missed>>

\* ... before it has a thread.  Without one its context is freed.
Create ==
  /\ mpc = "create" /\ mpc' = "poll" /\ ctx' = NULL
  /\ \/ tpc' = [tpc EXCEPT ![ctx] = "asleep"] /\ Listed(ctx) /\ UNCHANGED heap
        /\ UNCHANGED orphans
     \/ CreateFails /\ heap' = heap \ {ctx} /\ orphans' = orphans \cup {ctx}
        /\ UNCHANGED <<tpc, list>>
  /\ UNCHANGED <<order, locked, cancelled, stale, signaled, ready, todraw,
                 after, quit, missed>>

\* kill_active_tablet(): the focused tablet's context is taken off the list
\* and its thread is cancelled.
DeleteKey ==
  /\ mpc = "key"
  /\ LET t == Head(order)
     IN IF order # <<>> /\ Contains(list, t)
        THEN /\ list' = RemoveFirst(list, t)
             /\ cancelled' = cancelled \cup {t} /\ ctx' = t
             /\ mpc' = "join" /\ UNCHANGED missed
        ELSE /\ mpc' = "poll" /\ missed' = (missed \/ "event" \in ready)
             /\ UNCHANGED <<list, cancelled, ctx>>
  /\ UNCHANGED <<order, heap, threads, stale, signaled, ready, todraw, after, orphans, quit>>

\* Mutant: the thread is not waited for.
Joined(t) == TRUE

\* pthread_join()
Dead(t) == tpc[t] = "dead"

\* Mutant: the tablet is drawn once more while it is taken out.
DrawnWithout(t) ==
  /\ order' = RemoveFirst(order, t)
  /\ \E V \in SUBSET Range(order) : todraw' = V /\ stale' = stale \cap V
  /\ mpc' = "draw" /\ after' = "free" /\ missed' = FALSE

\* panelreel_del() takes the tablet out of the reel and redraws the others.
Deleted(t) == Redraws(RemoveFirst(order, t), "free")

\* kill_tablet(): once the thread is gone, the tablet goes ...
Join ==
  /\ mpc = "join" /\ Dead(ctx)
  /\ Deleted(ctx)
  /\ UNCHANGED <<list, heap, threads, cancelled, signaled, ready, ctx, orphans, quit>>

\* ... and, redrawn without it, the context.
Free ==
  /\ mpc = "free"
  /\ heap' = heap \ {ctx} /\ ctx' = NULL
  /\ locked' = locked \ {ctx} /\ cancelled' = cancelled \ {ctx}
  /\ stale' = stale \ {ctx}
  /\ list' = IF quit THEN Tail(list) ELSE list
  /\ mpc' = IF quit THEN "quit" ELSE "poll"
  /\ UNCHANGED <<order, tpc, signaled, ready, todraw, after, orphans, quit, missed>>

\* tabletdraw() for one tablet, under its mutex; through a context that was
\* freed it would read freed memory.  At last the redraw returns.
Draw ==
  /\ mpc = "draw"
  /\ \/ todraw = {} /\ mpc' = after /\ UNCHANGED <<stale, todraw>>
     \/ \E t \in todraw \ locked :
          /\ todraw' = todraw \ {t} /\ stale' = stale \ {t}
          /\ mpc' = IF t \in heap THEN "draw" ELSE "crashed"
  /\ UNCHANGED <<order, list, heap, threads, cancelled, signaled, ready,
                 after, ctx, orphans, quit, missed>>

QuitKey ==
  /\ mpc = "key" /\ mpc' = "quit" /\ quit' = TRUE
  /\ UNCHANGED <<order, list, heap, threads, cancelled, stale, signaled,
                 ready, todraw, after, ctx, orphans, missed>>

\* p: a pause, and the process exits.
AbortKey ==
  /\ mpc = "key" /\ mpc' = "exited"
  /\ UNCHANGED <<order, list, heap, threads, cancelled, stale, signaled,
                 ready, todraw, after, ctx, orphans, quit, missed>>

\* Mutant: only one tablet is killed.
AllKilledSoon == Len(list) <= 1

AllKilled == list = <<>>

\* panelreel_demo(): at the end every context on the list is killed, ...
KillAll ==
  /\ mpc = "quit"
  /\ IF AllKilled
     THEN mpc' = "close" /\ UNCHANGED <<ctx, cancelled>>
     ELSE /\ mpc' = "join" /\ ctx' = Head(list)
          /\ cancelled' = cancelled \cup {Head(list)}
  /\ UNCHANGED <<order, list, heap, threads, stale, signaled, ready, todraw,
                 after, orphans, quit, missed>>

\* ... the eventfd closed, and the reel destroyed, which it only survives empty.
Close ==
  /\ \/ mpc = "close" /\ mpc' = "destroy"
     \/ mpc = "destroy" /\ mpc' = IF order = <<>> THEN "done" ELSE "crashed"
  /\ UNCHANGED <<order, list, heap, threads, cancelled, stale, signaled, ready,
                 todraw, after, ctx, orphans, quit, missed>>

----------------------------------------------------------------------------
(* tablet_thread() *)

main == <<order, list, heap, cancelled, mpc, ready, todraw, after, ctx,
          orphans, quit, missed>>

\* nanosleep() is over.
Wake(t) ==
  /\ tpc[t] = "asleep" /\ t \notin cancelled
  /\ tpc' = [tpc EXCEPT ![t] = "awake"]
  /\ UNCHANGED <<main, locked, stale, signaled>>

\* With the mutex, the thread changes its lines, or does nothing this time.
Lock(t) ==
  /\ tpc[t] = "awake" /\ t \notin locked
  /\ locked' = locked \cup {t}
  /\ \/ tpc' = [tpc EXCEPT ![t] = "touch"] /\ stale' = stale \cup {t}
     \/ tpc' = [tpc EXCEPT ![t] = "unlock"] /\ UNCHANGED stale
  /\ UNCHANGED <<main, signaled>>

\* panelreel_touch() writes to the eventfd.
Touch(t) ==
  /\ tpc[t] = "touch" /\ t \notin cancelled
  /\ signaled' = TRUE
  /\ tpc' = [tpc EXCEPT ![t] = "unlock"]
  /\ UNCHANGED <<main, locked, stale>>

\* Mutant: the mutex is kept over the sleep.
UnlockNever(t) ==
  /\ tpc[t] = "unlock"
  /\ tpc' = [tpc EXCEPT ![t] = "asleep"]
  /\ UNCHANGED <<main, locked, stale, signaled>>

Unlock(t) ==
  /\ tpc[t] = "unlock"
  /\ tpc' = [tpc EXCEPT ![t] = "asleep"] /\ locked' = locked \ {t}
  /\ UNCHANGED <<main, stale, signaled>>

\* A cancelled thread ends in nanosleep() or in write(), the mutex as it is.
Die(t) ==
  /\ tpc[t] \in {"asleep", "touch"} /\ t \in cancelled
  /\ tpc' = [tpc EXCEPT ![t] = "dead"]
  /\ UNCHANGED <<main, locked, stale, signaled>>

Thread(t) == Wake(t) \/ Lock(t) \/ Touch(t) \/ Unlock(t) \/ Die(t)

----------------------------------------------------------------------------
Init ==
  /\ order = <<>> /\ list = <<>> /\ heap = {}
  /\ tpc = [t \in Contexts |-> "none"] /\ locked = {} /\ cancelled = {} /\ stale = {}
  /\ signaled = FALSE /\ mpc = "poll" /\ ready = {} /\ todraw = {} /\ after = "poll"
  /\ ctx = NULL /\ orphans = {} /\ quit = FALSE /\ missed = FALSE

\* What the main thread does of its own accord, once there is input.
Work == Read \/ TravelKey \/ OtherKey \/ AddKey \/ Create \/ DeleteKey \/ Join
        \/ Free \/ QuitKey \/ AbortKey \/ KillAll \/ Close

Next == Poll \/ Work \/ Draw \/ \E t \in Contexts : Thread(t)

Spec == Init /\ [][Next]_vars

\* Threads that can run do.  tabletdraw() gets each mutex in the end: a thread
\* holds its own for a moment between two sleeps.
FairSpec ==
  /\ Spec
  /\ WF_vars(Work) /\ SF_vars(Draw)
  /\ \A t \in Contexts : WF_vars(Thread(t))

----------------------------------------------------------------------------
(* What makes the application correct *)

Running(t) == tpc[t] \in {"asleep", "awake", "touch", "unlock"}

\* Every variable has its type.
TypeOK ==
  /\ order \in Seq(Contexts) /\ list \in Seq(Contexts)
  /\ heap \subseteq Contexts /\ locked \subseteq Contexts
  /\ cancelled \subseteq Contexts /\ stale \subseteq Contexts
  /\ todraw \subseteq Contexts /\ orphans \subseteq Contexts
  /\ tpc \in [Contexts -> {"none", "asleep", "awake", "touch", "unlock", "dead"}]
  /\ {signaled, quit, missed} \subseteq BOOLEAN
  /\ mpc \in {"poll", "read", "key", "draw", "create", "join", "free", "quit",
              "close", "destroy", "done", "exited", "crashed"}
  /\ after \in {"poll", "create", "free"}
  /\ ready \subseteq {"key", "event"}
  /\ ctx \in Contexts \cup {NULL}

\* While the main thread sleeps in poll() with nothing to wake it, every
\* change of a tablet was drawn or is about to be signaled, unless its event
\* was swallowed with an unknown key (handle_input(), line 225).
NoLostUpdate ==
  mpc = "poll" /\ ~signaled /\ ~missed => \A t \in stale : tpc[t] = "touch"

\* Neither a running thread nor a redraw uses the context of a tablet that was
\* freed, and what is freed is out of the reel; but for the tablets
\* pthread_create() failed for, which new_tabletctx() leaves there.
OnlyAllocated ==
  /\ \A t \in Contexts : Running(t) => t \in heap
  /\ todraw \cup Range(order) \subseteq heap \cup orphans

\* tabletdraw() never waits for a mutex whose thread was cancelled while it
\* held it, in write(), which nobody will release.
NoAbandonedLock == mpc = "draw" => \A t \in todraw \cap locked : tpc[t] # "dead"

\* Between two keys the list of contexts and the reel hold the same tablets:
\* kill_active_tablet() finds each, and none is left behind at the end.
ListMatchesReel ==
  mpc = "poll" =>
    Range(list) = Range(order) \ orphans /\ Len(list) = Cardinality(Range(list))

\* At the end no context and no thread is left that might write to the closed
\* eventfd, and panelreel_destroy(), which does not survive a reel with tablets,
\* gets none of them but those whose pthread_create() failed: without such a
\* tablet the process never dies, neither there nor of a freed context.
EndsClean ==
  /\ mpc \in {"close", "destroy", "done"} =>
       /\ heap = {} /\ \A t \in Contexts : ~Running(t)
       /\ Range(order) \subseteq orphans
  /\ mpc = "crashed" => orphans # {}

\* Every key and every event is dealt with: no redraw and no pthread_join()
\* waits for ever, and after q the application ends.
Served == mpc \notin {"poll", "done", "exited", "crashed"}
            ~> mpc \in {"poll", "done", "exited"} \/ orphans # {}
=============================================================================
