------------------------ MODULE PanelReelDemoProofs ------------------------
(***************************************************************************)
(* Theorems about the demo application, for any number of contexts.        *)
(***************************************************************************)
EXTENDS PanelReelDemo, TorusLemmas

----------------------------------------------------------------------------
(* The inductive invariant *)

\* What the main thread is at, or will be once the redraw under way is over.
At == IF mpc = "draw" THEN after ELSE mpc

Creating == At = "create"

Killing == At \in {"join", "free"}

\* The context being created or killed, and where the application is bound
\* for, follow from what the main thread is at.
PhasesOK ==
  /\ mpc # "crashed" => (ctx = NULL <=> ~Creating /\ ~Killing)
  /\ At \in {"poll", "read", "key", "create"} => ~quit
  /\ At \in {"quit", "close", "destroy", "done"} => quit
  /\ At \in {"close", "destroy", "done"} => list = <<>>
  /\ Creating \/ (Killing /\ ~quit) => ctx \notin Range(list)
  /\ Killing /\ quit => list # <<>> /\ ctx = Head(list)

\* The contexts on the list and the one at hand are those that are allocated,
\* and each has its tablet in the reel until it is taken out to be freed; any
\* other tablet there has no thread, and only such a tablet is fatal.
ReelOK ==
  /\ IsInjective(order) /\ IsInjective(list)
  /\ orphans \cap heap = {}
  /\ todraw \subseteq Range(order) /\ Range(order) \subseteq heap \cup orphans
  /\ mpc # "crashed" =>
       /\ heap = Range(list) \cup ({ctx} \ {NULL})
       /\ Range(order) = (heap \cup orphans) \ IF At = "free" THEN {ctx} ELSE {}
  /\ mpc = "crashed" => orphans # {}

\* A thread runs on an allocated context that was created and not yet joined,
\* and it dies of pthread_cancel() alone.
ThreadsOK ==
  /\ \A t \in Contexts : Running(t) => t \in heap
  /\ Creating => ~Running(ctx)
  /\ At = "free" => Dead(ctx)
  /\ cancelled \subseteq {ctx} /\ (mpc # "crashed" /\ ~Killing => cancelled = {})
  /\ \A t \in locked : Dead(t) => t \in cancelled

\* What a changed tablet still waits for.
Awaited(t) ==
  \/ tpc[t] = "touch" \/ signaled \/ missed
  \/ mpc = "key" /\ "event" \in ready
  \/ mpc = "draw" /\ t \in todraw

StaleOK ==
  mpc \in {"poll", "read", "key", "draw", "create", "free"} =>
    \A t \in stale : Awaited(t)

DemoInv == TypeOK /\ PhasesOK /\ ReelOK /\ ThreadsOK /\ StaleOK

----------------------------------------------------------------------------
(* Steps of the main thread *)

\* At the start there is no tablet and no thread.
LEMMA InitiallyDemo == Init => DemoInv
<1> SUFFICES ASSUME Init PROVE DemoInv
  OBVIOUS
<1> USE DEF Init, At, Creating, Killing
<1>1. <<>> \in Seq(Contexts) /\ Range(<<>>) = {} /\ IsInjective(<<>>)
  BY EmptySeq, TorusFacts
<1>2. TypeOK
  BY <1>1 DEF TypeOK
<1>3. PhasesOK
  BY DEF PhasesOK
<1>4. ReelOK
  BY <1>1 DEF ReelOK
<1>5. ThreadsOK
  BY DEF ThreadsOK, Running, Dead
<1>6. StaleOK
  BY DEF StaleOK
<1> QED
  BY <1>2, <1>3, <1>4, <1>5, <1>6 DEF DemoInv

\* A redraw leaves what is stale to what it still calls back.
LEMMA RedrawFacts ==
  ASSUME TypeOK, NEW o, NEW then, Redraws(o, then)
  PROVE  /\ order' = o /\ todraw' \subseteq Range(o)
         /\ stale' \subseteq stale /\ stale' \subseteq todraw'
         /\ mpc' = "draw" /\ after' = then /\ missed' = FALSE /\ At' = then
BY DEF Redraws, At

\* A redraw of a torus o has typed results.
LEMMA RedrawTyped ==
  ASSUME TypeOK, NEW o \in Seq(Contexts), NEW then \in {"poll", "create", "free"},
         Redraws(o, then)
  PROVE  /\ order' \in Seq(Contexts) /\ todraw' \subseteq Contexts /\ stale' \subseteq Contexts
         /\ mpc' = "draw" /\ after' = then /\ missed' \in BOOLEAN
<1>1. Range(o) \subseteq Contexts
  BY TorusFacts
<1> QED
  BY <1>1, RedrawFacts DEF TypeOK

\* poll() finds something to read.
LEMMA PollKeeps == DemoInv /\ Poll => DemoInv'
<1> SUFFICES ASSUME TypeOK, PhasesOK, ReelOK, ThreadsOK, StaleOK, Poll
           PROVE  DemoInv'
  BY DEF DemoInv
<1> USE DEF Poll, At, Creating, Killing, threads
<1>1. TypeOK'
  BY DEF TypeOK
<1>2. PhasesOK'
  BY DEF TypeOK, PhasesOK
<1>3. ReelOK'
  BY DEF TypeOK, ReelOK, PhasesOK
<1>4. ThreadsOK'
  BY DEF TypeOK, ThreadsOK, PhasesOK, ReelOK, Running, Dead
<1>5. StaleOK'
  BY DEF TypeOK, StaleOK, Awaited, PhasesOK
<1> QED
  BY <1>1, <1>2, <1>3, <1>4, <1>5 DEF DemoInv

\* A key without a meaning.
LEMMA OtherKeyKeeps == DemoInv /\ OtherKey => DemoInv'
<1> SUFFICES ASSUME TypeOK, PhasesOK, ReelOK, ThreadsOK, StaleOK, OtherKey
           PROVE  DemoInv'
  BY DEF DemoInv
<1> USE DEF OtherKey, At, Creating, Killing, threads
<1>1. TypeOK'
  BY DEF TypeOK
<1>2. PhasesOK'
  BY DEF TypeOK, PhasesOK
<1>3. ReelOK'
  BY DEF TypeOK, ReelOK, PhasesOK
<1>4. ThreadsOK'
  BY DEF TypeOK, ThreadsOK, PhasesOK, ReelOK, Running, Dead
<1>5. StaleOK'
  BY DEF TypeOK, StaleOK, Awaited, PhasesOK
<1> QED
  BY <1>1, <1>2, <1>3, <1>4, <1>5 DEF DemoInv

\* q.
LEMMA QuitKeyKeeps == DemoInv /\ QuitKey => DemoInv'
<1> SUFFICES ASSUME TypeOK, PhasesOK, ReelOK, ThreadsOK, StaleOK, QuitKey
           PROVE  DemoInv'
  BY DEF DemoInv
<1> USE DEF QuitKey, At, Creating, Killing, threads
<1>1. TypeOK'
  BY DEF TypeOK
<1>2. PhasesOK'
  BY DEF TypeOK, PhasesOK
<1>3. ReelOK'
  BY DEF TypeOK, ReelOK, PhasesOK
<1>4. ThreadsOK'
  BY DEF TypeOK, ThreadsOK, PhasesOK, ReelOK, Running, Dead
<1>5. StaleOK'
  BY DEF TypeOK, StaleOK, Awaited, PhasesOK
<1> QED
  BY <1>1, <1>2, <1>3, <1>4, <1>5 DEF DemoInv

\* p.
LEMMA AbortKeyKeeps == DemoInv /\ AbortKey => DemoInv'
<1> SUFFICES ASSUME TypeOK, PhasesOK, ReelOK, ThreadsOK, StaleOK, AbortKey
           PROVE  DemoInv'
  BY DEF DemoInv
<1> USE DEF AbortKey, At, Creating, Killing, threads
<1>1. TypeOK'
  BY DEF TypeOK
<1>2. PhasesOK'
  BY DEF TypeOK, PhasesOK
<1>3. ReelOK'
  BY DEF TypeOK, ReelOK, PhasesOK
<1>4. ThreadsOK'
  BY DEF TypeOK, ThreadsOK, PhasesOK, ReelOK, Running, Dead
<1>5. StaleOK'
  BY DEF TypeOK, StaleOK, Awaited, PhasesOK
<1> QED
  BY <1>1, <1>2, <1>3, <1>4, <1>5 DEF DemoInv

\* tabletdraw(), or the end of the redraw.
LEMMA DrawKeeps == DemoInv /\ Draw => DemoInv'
<1> SUFFICES ASSUME TypeOK, PhasesOK, ReelOK, ThreadsOK, StaleOK, Draw
           PROVE  DemoInv'
  BY DEF DemoInv
<1> USE DEF Draw, At, Creating, Killing, threads
<1>1. TypeOK'
  BY DEF TypeOK
<1>2. PhasesOK'
  BY DEF TypeOK, PhasesOK
<1>3. ReelOK'
  BY DEF TypeOK, ReelOK, PhasesOK
<1>4. ThreadsOK'
  BY DEF TypeOK, ThreadsOK, PhasesOK, ReelOK, Running, Dead
<1>5. StaleOK'
  BY DEF TypeOK, StaleOK, Awaited, PhasesOK
<1> QED
  BY <1>1, <1>2, <1>3, <1>4, <1>5 DEF DemoInv

\* The eventfd and the reel go, or the process dies of a reel that is not empty.
LEMMA CloseKeeps == DemoInv /\ Close => DemoInv'
<1> SUFFICES ASSUME TypeOK, PhasesOK, ReelOK, ThreadsOK, StaleOK, Close
           PROVE  DemoInv'
  BY DEF DemoInv
<1> USE DEF Close, At, Creating, Killing, threads
<1>1. TypeOK'
  BY DEF TypeOK
<1>2. PhasesOK'
  BY DEF TypeOK, PhasesOK
<1>3. ReelOK'
  <2>1. ASSUME mpc = "destroy", order # <<>> PROVE orphans # {}
    <3>1. list = <<>> /\ ctx = NULL /\ Range(order) \subseteq heap \cup orphans
      BY <2>1 DEF PhasesOK, ReelOK
    <3>2. heap = {}
      BY <2>1, <3>1, EmptySeq, TorusFacts DEF ReelOK, TypeOK
    <3>3. Range(order) # {}
      BY <2>1, TorusFacts DEF TypeOK
    <3> QED
      BY <3>1, <3>2, <3>3
  <2> QED
    BY <2>1 DEF TypeOK, ReelOK, PhasesOK
<1>4. ThreadsOK'
  BY DEF TypeOK, ThreadsOK, PhasesOK, ReelOK, Running, Dead
<1>5. StaleOK'
  BY DEF TypeOK, StaleOK, Awaited, PhasesOK
<1> QED
  BY <1>1, <1>2, <1>3, <1>4, <1>5 DEF DemoInv

\* A redraw of the reel, turned or not, at a key or for an event.
LEMMA TurnedKeeps ==
  ASSUME TypeOK, PhasesOK, ReelOK, ThreadsOK, StaleOK, mpc \in {"read", "key"},
         NEW o, TorusOf(o, Contexts, Range(order)), Redraws(o, "poll"),
         signaled' \in BOOLEAN,
         UNCHANGED <<list, heap, threads, cancelled, ready, ctx, orphans, quit>>
  PROVE  DemoInv'
<1> USE DEF At, Creating, Killing, threads
<1>1. /\ order' = o /\ todraw' \subseteq Range(o)
      /\ stale' \subseteq stale /\ stale' \subseteq todraw'
      /\ mpc' = "draw" /\ after' = "poll" /\ missed' = FALSE
  BY RedrawFacts
<1>2. o \in Seq(Contexts) /\ IsInjective(o) /\ Range(o) = Range(order)
  BY DEF TorusOf
<1>3. TypeOK'
  BY <1>1, <1>2, RedrawTyped DEF TypeOK
<1>4. PhasesOK'
  BY <1>1 DEF PhasesOK
<1>5. ReelOK'
  BY <1>1, <1>2 DEF ReelOK
<1>6. ThreadsOK'
  BY <1>1 DEF ThreadsOK, Running, Dead
<1>7. StaleOK'
  BY <1>1 DEF StaleOK, Awaited
<1> QED
  BY <1>3, <1>4, <1>5, <1>6, <1>7 DEF DemoInv

\* A key that turns the reel, or redraws it.
LEMMA TravelKeyKeeps == DemoInv /\ TravelKey => DemoInv'
<1> SUFFICES ASSUME TypeOK, PhasesOK, ReelOK, ThreadsOK, StaleOK, TravelKey
             PROVE  DemoInv'
  BY DEF DemoInv
<1>1. PICK o : TorusOf(o, Contexts, Range(order)) /\ Redraws(o, "poll")
  <2>1. order \in Seq(Contexts) /\ IsInjective(order)
    BY DEF TypeOK, ReelOK
  <2>2. TorusOf(order, Contexts, Range(order))
    BY <2>1 DEF TorusOf
  <2>3. CASE Redraws(order, "poll")
    BY <2>2, <2>3
  <2>4. CASE order # <<>> /\ Redraws(Append(Tail(order), Head(order)), "poll")
    BY <2>1, <2>4, TurnTorus
  <2>5. CASE order # <<>> /\ Redraws(<<Last(order)>> \o Front(order), "poll")
    BY <2>1, <2>5, TurnTorus
  <2> QED
    BY <2>3, <2>4, <2>5 DEF TravelKey
<1>2. signaled' \in BOOLEAN
  BY DEF TravelKey, TypeOK
<1> QED
  BY <1>1, <1>2, TurnedKeeps DEF TravelKey

\* handle_input(): the redraw for an event calls back what is stale.
LEMMA ReadKeeps == DemoInv /\ Read => DemoInv'
<1> SUFFICES ASSUME TypeOK, PhasesOK, ReelOK, ThreadsOK, StaleOK, Read
             PROVE  DemoInv'
  BY DEF DemoInv
<1> USE DEF Read, At, Creating, Killing, threads
<1>1. CASE "key" \in ready
  <2> USE <1>1
  <2>1. TypeOK'
    BY DEF TypeOK
  <2>2. PhasesOK'
    BY DEF TypeOK, PhasesOK
  <2>3. ReelOK'
    BY DEF TypeOK, ReelOK, PhasesOK
  <2>4. ThreadsOK'
    BY DEF TypeOK, ThreadsOK, PhasesOK, ReelOK, Running, Dead
  <2>5. StaleOK'
    BY DEF TypeOK, StaleOK, Awaited, PhasesOK
  <2> QED
    BY <2>1, <2>2, <2>3, <2>4, <2>5 DEF DemoInv
<1>2. CASE "key" \notin ready
  <2>1. TorusOf(order, Contexts, Range(order))
    BY DEF TorusOf, TypeOK, ReelOK
  <2>2. Redraws(order, "poll") /\ signaled' \in BOOLEAN
    BY <1>2 DEF TypeOK
  <2> QED
    BY <2>1, <2>2, TurnedKeeps
<1> QED
  BY <1>1, <1>2

\* new_tabletctx() up to panelreel_add().
LEMMA AddKeyKeeps == DemoInv /\ AddKey => DemoInv'
<1> SUFFICES ASSUME TypeOK, PhasesOK, ReelOK, ThreadsOK, StaleOK, AddKey
             PROVE  DemoInv'
  BY DEF DemoInv
<1> USE DEF At, Creating, Killing, threads
<1>1. PICK t \in Contexts \ (heap \cup orphans) :
        heap' = heap \cup {t} /\ ctx' = t /\ Redraws(Append(order, t), "create")
  BY DEF AddKey
<1>2. /\ mpc = "key" /\ t # NULL
      /\ UNCHANGED <<list, threads, cancelled, signaled, ready, orphans, quit>>
  BY DemoAssumption DEF AddKey
<1>3. ctx = NULL /\ ~quit /\ cancelled = {} /\ heap = Range(list)
      /\ Range(order) = heap \cup orphans
  BY <1>2 DEF PhasesOK, ThreadsOK, ReelOK
<1>4. /\ Append(order, t) \in Seq(Contexts) /\ IsInjective(Append(order, t))
      /\ Range(Append(order, t)) = Range(order) \cup {t}
  BY <1>1, <1>3, AppendTorus DEF TorusOf, TypeOK, ReelOK
<1>5. /\ order' = Append(order, t) /\ todraw' \subseteq Range(order')
      /\ stale' \subseteq stale /\ stale' \subseteq todraw'
      /\ mpc' = "draw" /\ after' = "create" /\ missed' = FALSE
  BY <1>1, RedrawFacts
<1>6. TypeOK'
  BY <1>1, <1>2, <1>4, RedrawTyped DEF TypeOK
<1>7. PhasesOK'
  BY <1>1, <1>2, <1>3, <1>5 DEF PhasesOK
<1>8. ReelOK'
  BY <1>1, <1>2, <1>3, <1>4, <1>5 DEF ReelOK
<1>9. ThreadsOK'
  BY <1>1, <1>2, <1>3, <1>5 DEF ThreadsOK, Running, Dead
<1>10. StaleOK'
  BY <1>1, <1>2, <1>5 DEF StaleOK, Awaited
<1> QED
  BY <1>6, <1>7, <1>8, <1>9, <1>10 DEF DemoInv

\* pthread_create(), and new_tabletctx() without it.
LEMMA CreateKeeps == DemoInv /\ Create => DemoInv'
<1> SUFFICES ASSUME TypeOK, PhasesOK, ReelOK, ThreadsOK, StaleOK, Create
             PROVE  DemoInv'
  BY DEF DemoInv
<1> USE DEF At, Creating, Killing, threads
<1>1. /\ mpc = "create" /\ mpc' = "poll" /\ ctx' = NULL
      /\ UNCHANGED <<order, locked, cancelled, stale, signaled, ready, todraw,
                     after, quit, missed>>
  BY DEF Create
<1>2. /\ ctx \in Contexts /\ ~quit /\ cancelled = {} /\ ctx \notin Range(list)
      /\ heap = Range(list) \cup {ctx} /\ Range(order) = heap \cup orphans
      /\ ~Running(ctx)
  BY <1>1, DemoAssumption DEF TypeOK, PhasesOK, ThreadsOK, ReelOK
<1>3. CASE /\ tpc' = [tpc EXCEPT ![ctx] = "asleep"] /\ Listed(ctx)
           /\ UNCHANGED <<heap, orphans>>
  <2>1. list' = <<ctx>> \o list /\ TorusOf(list', Contexts, Range(list) \cup {ctx})
    BY <1>2, <1>3, PrefixTorus DEF Listed, TypeOK, ReelOK
  <2>2. TypeOK'
    BY <1>1, <1>3, <2>1 DEF TypeOK, TorusOf
  <2>3. PhasesOK'
    BY <1>1, <1>2, <1>3 DEF PhasesOK
  <2>4. ReelOK'
    BY <1>1, <1>2, <1>3, <2>1 DEF ReelOK, TorusOf
  <2>5. ThreadsOK'
    BY <1>1, <1>2, <1>3 DEF ThreadsOK, Running, Dead, TypeOK
  <2>6. StaleOK'
    BY <1>1, <1>2, <1>3 DEF StaleOK, Awaited, TypeOK, Running
  <2> QED
    BY <2>2, <2>3, <2>4, <2>5, <2>6 DEF DemoInv
<1>4. CASE /\ CreateFails /\ heap' = heap \ {ctx} /\ orphans' = orphans \cup {ctx}
           /\ UNCHANGED <<tpc, list>>
  <2>1. TypeOK'
    BY <1>1, <1>2, <1>4 DEF TypeOK
  <2>2. PhasesOK'
    BY <1>1, <1>2, <1>4 DEF PhasesOK
  <2>3. ReelOK'
    BY <1>1, <1>2, <1>4 DEF ReelOK
  <2>4. ThreadsOK'
    BY <1>1, <1>2, <1>4 DEF ThreadsOK, Running, Dead
  <2>5. StaleOK'
    BY <1>1, <1>4 DEF StaleOK, Awaited
  <2> QED
    BY <2>1, <2>2, <2>3, <2>4, <2>5 DEF DemoInv
<1> QED
  BY <1>3, <1>4 DEF Create

\* kill_active_tablet() takes the focused tablet's context off the list.
LEMMA DeleteKeyKeeps == DemoInv /\ DeleteKey => DemoInv'
<1> SUFFICES ASSUME TypeOK, PhasesOK, ReelOK, ThreadsOK, StaleOK, DeleteKey
             PROVE  DemoInv'
  BY DEF DemoInv
<1> USE DEF At, Creating, Killing, threads
<1> DEFINE t == Head(order)
<1>1. /\ mpc = "key"
      /\ UNCHANGED <<order, heap, threads, stale, signaled, ready, todraw, after, orphans, quit>>
  BY DEF DeleteKey
<1>2. /\ ctx = NULL /\ ~quit /\ cancelled = {}
      /\ heap = Range(list) /\ Range(order) = heap \cup orphans
  BY <1>1 DEF TypeOK, PhasesOK, ThreadsOK, ReelOK
<1>3. CASE order # <<>> /\ Contains(list, t)
  <2>1. /\ list' = RemoveFirst(list, t) /\ cancelled' = cancelled \cup {t} /\ ctx' = t
        /\ mpc' = "join" /\ UNCHANGED missed
    BY <1>3 DEF DeleteKey
  <2>2. t \in Range(list) /\ t \in Contexts /\ t # NULL
    BY <1>3, TorusFacts, DemoAssumption DEF Contains, TypeOK
  <2>3. TorusOf(list', Contexts, Range(list) \ {t})
    BY <2>1, RemoveFirstTorus DEF TypeOK, ReelOK
  <2> HIDE DEF t
  <2>4. TypeOK'
    BY <1>1, <2>1, <2>2, <2>3 DEF TypeOK, TorusOf
  <2>5. PhasesOK'
    BY <1>1, <1>2, <2>1, <2>2, <2>3 DEF PhasesOK, TorusOf
  <2>6. ReelOK'
    BY <1>1, <1>2, <2>1, <2>2, <2>3 DEF ReelOK, TorusOf
  <2>7. ThreadsOK'
    BY <1>1, <1>2, <2>1, <2>2 DEF ThreadsOK, Running, Dead
  <2>8. StaleOK'
    BY <2>1 DEF StaleOK
  <2> QED
    BY <2>4, <2>5, <2>6, <2>7, <2>8 DEF DemoInv
<1>4. CASE ~(order # <<>> /\ Contains(list, t))
  <2>1. /\ mpc' = "poll" /\ missed' = (missed \/ "event" \in ready)
        /\ UNCHANGED <<list, cancelled, ctx>>
    BY <1>4 DEF DeleteKey
  <2>2. TypeOK'
    BY <1>1, <2>1 DEF TypeOK
  <2>3. PhasesOK'
    BY <1>1, <2>1 DEF PhasesOK
  <2>4. ReelOK'
    BY <1>1, <2>1 DEF ReelOK
  <2>5. ThreadsOK'
    BY <1>1, <2>1 DEF ThreadsOK, Running, Dead
  <2>6. StaleOK'
    BY <1>1, <2>1 DEF StaleOK, Awaited
  <2> QED
    BY <2>2, <2>3, <2>4, <2>5, <2>6 DEF DemoInv
<1> QED
  BY <1>3, <1>4

\* pthread_join() returns and the tablet is out of the reel.
LEMMA JoinKeeps == DemoInv /\ Join => DemoInv'
<1> SUFFICES ASSUME TypeOK, PhasesOK, ReelOK, ThreadsOK, StaleOK, Join
             PROVE  DemoInv'
  BY DEF DemoInv
<1> USE DEF At, Creating, Killing, threads
<1>1. /\ mpc = "join" /\ Dead(ctx) /\ Redraws(RemoveFirst(order, ctx), "free")
      /\ UNCHANGED <<list, heap, threads, cancelled, signaled, ready, ctx, orphans, quit>>
  BY DEF Join, Deleted
<1>2. /\ ctx \in Contexts /\ ctx # NULL /\ cancelled \subseteq {ctx}
      /\ heap = Range(list) \cup {ctx} /\ Range(order) = heap \cup orphans
  BY <1>1 DEF TypeOK, PhasesOK, ThreadsOK, ReelOK
<1>3. /\ RemoveFirst(order, ctx) \in Seq(Contexts) /\ IsInjective(RemoveFirst(order, ctx))
      /\ Range(RemoveFirst(order, ctx)) = Range(order) \ {ctx}
  BY RemoveFirstTorus DEF TorusOf, TypeOK, ReelOK
<1>4. /\ order' = RemoveFirst(order, ctx) /\ todraw' \subseteq Range(order')
      /\ stale' \subseteq stale /\ stale' \subseteq todraw'
      /\ mpc' = "draw" /\ after' = "free" /\ missed' = FALSE
  BY <1>1, RedrawFacts
<1>5. TypeOK'
  BY <1>1, <1>3, RedrawTyped DEF TypeOK
<1>6. PhasesOK'
  BY <1>1, <1>2, <1>4 DEF PhasesOK
<1>7. ReelOK'
  BY <1>1, <1>2, <1>3, <1>4 DEF ReelOK
<1>8. ThreadsOK'
  BY <1>1, <1>2, <1>4 DEF ThreadsOK, Running, Dead
<1>9. StaleOK'
  BY <1>1, <1>4 DEF StaleOK, Awaited
<1> QED
  BY <1>5, <1>6, <1>7, <1>8, <1>9 DEF DemoInv

\* kill_tablet() frees the context.
LEMMA FreeKeeps == DemoInv /\ Free => DemoInv'
<1> SUFFICES ASSUME TypeOK, PhasesOK, ReelOK, ThreadsOK, StaleOK, Free
             PROVE  DemoInv'
  BY DEF DemoInv
<1> USE DEF At, Creating, Killing, threads
<1>1. /\ mpc = "free" /\ heap' = heap \ {ctx} /\ ctx' = NULL
      /\ locked' = locked \ {ctx} /\ cancelled' = cancelled \ {ctx}
      /\ stale' = stale \ {ctx}
      /\ UNCHANGED <<order, tpc, signaled, ready, todraw, after, orphans, quit, missed>>
  BY DEF Free
<1>2. /\ ctx \in Contexts /\ cancelled \subseteq {ctx} /\ Dead(ctx)
      /\ heap = Range(list) \cup {ctx} /\ Range(order) = (heap \cup orphans) \ {ctx}
      /\ ctx \notin orphans
  BY <1>1 DEF TypeOK, PhasesOK, ThreadsOK, ReelOK
<1>3. TorusOf(list', Contexts, Range(list) \ {ctx})
  <2>1. CASE quit
    <3>1. list # <<>> /\ ctx = Head(list) /\ list' = Tail(list)
      BY <1>1, <2>1 DEF PhasesOK, Free
    <3> QED
      BY <3>1, TailTorus DEF TypeOK, ReelOK
  <2>2. CASE ~quit
    <3>1. ctx \notin Range(list) /\ list' = list
      BY <1>1, <2>2 DEF PhasesOK, Free
    <3>2. Range(list) \ {ctx} = Range(list)
      BY <3>1
    <3> QED
      BY <3>1, <3>2 DEF TypeOK, ReelOK, TorusOf
  <2> QED
    BY <2>1, <2>2
<1>4. mpc' = IF quit THEN "quit" ELSE "poll"
  BY DEF Free
<1>5. TypeOK'
  BY <1>1, <1>3, <1>4 DEF TypeOK, TorusOf
<1>6. PhasesOK'
  BY <1>1, <1>4 DEF PhasesOK
<1>7. ReelOK'
  BY <1>1, <1>2, <1>3, <1>4 DEF ReelOK, TorusOf
<1>8. ThreadsOK'
  BY <1>1, <1>2, <1>4 DEF ThreadsOK, Running, Dead
<1>9. StaleOK'
  BY <1>1, <1>4 DEF StaleOK, Awaited
<1> QED
  BY <1>5, <1>6, <1>7, <1>8, <1>9 DEF DemoInv

\* The loop that ends every thread.
LEMMA KillAllKeeps == DemoInv /\ KillAll => DemoInv'
<1> SUFFICES ASSUME TypeOK, PhasesOK, ReelOK, ThreadsOK, StaleOK, KillAll
             PROVE  DemoInv'
  BY DEF DemoInv
<1> USE DEF At, Creating, Killing, threads
<1>1. /\ mpc = "quit"
      /\ UNCHANGED <<order, list, heap, threads, stale, signaled, ready, todraw,
                     after, orphans, quit, missed>>
  BY DEF KillAll
<1>2. ctx = NULL /\ quit /\ cancelled = {}
  BY <1>1 DEF PhasesOK, ThreadsOK
<1>3. CASE AllKilled
  <2>1. mpc' = "close" /\ UNCHANGED <<ctx, cancelled>> /\ list = <<>>
    BY <1>3 DEF KillAll, AllKilled
  <2>2. TypeOK'
    BY <1>1, <2>1 DEF TypeOK
  <2>3. PhasesOK'
    BY <1>1, <2>1 DEF PhasesOK
  <2>4. ReelOK'
    BY <1>1, <2>1 DEF ReelOK
  <2>5. ThreadsOK'
    BY <1>1, <2>1 DEF ThreadsOK, Running, Dead
  <2>6. StaleOK'
    BY <2>1 DEF StaleOK
  <2> QED
    BY <2>2, <2>3, <2>4, <2>5, <2>6 DEF DemoInv
<1>4. CASE ~AllKilled
  <2>1. /\ mpc' = "join" /\ ctx' = Head(list) /\ cancelled' = cancelled \cup {ctx'}
        /\ list # <<>>
    BY <1>4 DEF KillAll, AllKilled
  <2>2. ctx' \in Range(list) /\ ctx' \in Contexts /\ ctx' # NULL
    BY <2>1, EndFacts, DemoAssumption DEF TypeOK
  <2>3. TypeOK'
    BY <1>1, <2>1, <2>2 DEF TypeOK
  <2>4. PhasesOK'
    BY <1>1, <1>2, <2>1, <2>2 DEF PhasesOK
  <2>5. ReelOK'
    BY <1>1, <1>2, <2>1, <2>2 DEF ReelOK
  <2>6. ThreadsOK'
    BY <1>1, <1>2, <2>1, <2>2 DEF ThreadsOK, Running, Dead
  <2>7. StaleOK'
    BY <2>1 DEF StaleOK
  <2> QED
    BY <2>3, <2>4, <2>5, <2>6, <2>7 DEF DemoInv
<1> QED
  BY <1>3, <1>4

----------------------------------------------------------------------------
(* Steps of the threads *)

\* What the steps of a thread leave alone of the invariant.
LEMMA ThreadLeaves == PhasesOK /\ ReelOK /\ UNCHANGED main => PhasesOK' /\ ReelOK'
BY DEF main, PhasesOK, ReelOK, At, Creating, Killing

\* Any step of any thread.
LEMMA ThreadKeeps == DemoInv /\ (\E t \in Contexts : Thread(t)) => DemoInv'
<1> SUFFICES ASSUME TypeOK, PhasesOK, ReelOK, ThreadsOK, StaleOK,
                    NEW t \in Contexts, Thread(t)
             PROVE  DemoInv'
  BY DEF DemoInv
<1>1. PhasesOK' /\ ReelOK'
  BY ThreadLeaves DEF Thread, Wake, Lock, Touch, Unlock, Die
<1>2. TypeOK'
  BY DEF Thread, Wake, Lock, Touch, Unlock, Die, main, TypeOK
<1>3. ThreadsOK'
  <2> USE DEF ThreadsOK, Running, Dead, main, TypeOK, At, Creating, Killing
  <2>1. CASE Wake(t)
    BY <2>1 DEF Wake
  <2>2. CASE Lock(t)
    <3>1. /\ tpc[t] = "awake" /\ locked' = locked \cup {t} /\ UNCHANGED main
          /\ \E p \in {"touch", "unlock"} : tpc' = [tpc EXCEPT ![t] = p]
      BY <2>2 DEF Lock
    <3>2. PICK p \in {"touch", "unlock"} : tpc' = [tpc EXCEPT ![t] = p]
      BY <3>1
    <3>3. /\ Running(t) /\ tpc'[t] = p /\ tpc'[t] # "dead"
          /\ \A c \in Contexts \ {t} : tpc'[c] = tpc[c]
      BY <3>1, <3>2
    <3> QED
      BY <3>1, <3>3
  <2>3. CASE Touch(t)
    BY <2>3 DEF Touch
  <2>4. CASE Unlock(t)
    BY <2>4 DEF Unlock
  <2>5. CASE Die(t)
    BY <2>5 DEF Die
  <2> QED
    BY <2>1, <2>2, <2>3, <2>4, <2>5 DEF Thread
<1>4. StaleOK'
  <2> USE DEF StaleOK, Awaited, main, TypeOK
  <2>1. CASE Wake(t)
    BY <2>1 DEF Wake
  <2>2. CASE Lock(t)
    BY <2>2 DEF Lock
  <2>3. CASE Touch(t)
    BY <2>3 DEF Touch
  <2>4. CASE Unlock(t)
    BY <2>4 DEF Unlock
  <2>5. CASE Die(t)
    <3>1. mpc \in {"join", "crashed"}
      BY <2>5 DEF Die, ThreadsOK, Dead, At, Killing
    <3> QED
      BY <2>5, <3>1 DEF Die
  <2> QED
    BY <2>1, <2>2, <2>3, <2>4, <2>5 DEF Thread
<1> QED
  BY <1>1, <1>2, <1>3, <1>4 DEF DemoInv

----------------------------------------------------------------------------
(* Theorems *)

\* Every step of the application keeps the invariant.
LEMMA NextKeepsDemo == DemoInv /\ [Next]_vars => DemoInv'
<1> SUFFICES ASSUME DemoInv, [Next]_vars PROVE DemoInv'
  OBVIOUS
<1>1. CASE UNCHANGED vars
  BY <1>1 DEF DemoInv, TypeOK, PhasesOK, ReelOK, ThreadsOK, StaleOK, Awaited, At,
              Creating, Killing, Running, Dead, vars, threads
<1>2. CASE Next
  BY <1>2, PollKeeps, ReadKeeps, TravelKeyKeeps, OtherKeyKeeps, AddKeyKeeps, CreateKeeps,
     DeleteKeyKeeps, JoinKeeps, FreeKeeps, QuitKeyKeeps, AbortKeyKeeps, KillAllKeeps,
     CloseKeeps, DrawKeeps, ThreadKeeps DEF Next, Work
<1> QED
  BY <1>1, <1>2

\* Whatever keys are pressed and however the threads are scheduled, the
\* invariant holds: it relates the reel, the list of contexts, the heap and the
\* threads to what the main thread of panelreel_demo() is at.
THEOREM DemoInvariant == Spec => []DemoInv
BY InitiallyDemo, NextKeepsDemo, PTL DEF Spec

\* The demo's variables have their types.
THEOREM DemoTypes == Spec => []TypeOK
BY DemoInvariant, PTL DEF DemoInv

\* handle_input() loses no update of any number of threads: what changed while
\* poll() sleeps with nothing to wake it is about to be signaled, or its event
\* was read along with a key that redraws nothing.
THEOREM NoUpdateLost == Spec => []NoLostUpdate
<1>1. DemoInv => NoLostUpdate
  BY DEF DemoInv, StaleOK, Awaited, NoLostUpdate
<1> QED
  BY <1>1, DemoInvariant, PTL

\* kill_tablet() frees a context only when its thread was joined and its tablet
\* left the reel, whatever the number of tablets: no thread and no redraw uses
\* one that was freed, unless pthread_create() had failed for it.
THEOREM FreedLast == Spec => []OnlyAllocated
<1>1. DemoInv => OnlyAllocated
  BY DEF DemoInv, ReelOK, ThreadsOK, OnlyAllocated
<1> QED
  BY <1>1, DemoInvariant, PTL

\* tabletdraw() never asks for the mutex of a thread that pthread_cancel() ended
\* in write() while it held it: kill_tablet() joins the thread, which may leave
\* its mutex locked, and panelreel_del() redraws only the others.
THEOREM DrawsNoDead == Spec => []NoAbandonedLock
<1>1. DemoInv => NoAbandonedLock
  <2> SUFFICES ASSUME DemoInv, mpc = "draw", NEW t \in todraw \cap locked, tpc[t] = "dead"
               PROVE  FALSE
    BY DEF NoAbandonedLock
  <2> USE DEF At, Creating, Killing
  <2>1. t = ctx /\ Killing
    BY DEF DemoInv, ThreadsOK, Dead
  <2>2. ctx \notin Range(order) /\ t \in Range(order)
    BY <2>1 DEF DemoInv, TypeOK, ReelOK
  <2> QED
    BY <2>1, <2>2
<1> QED
  BY <1>1, DemoInvariant, PTL

\* new_tabletctx(), kill_active_tablet() and kill_tablet() keep the linked list
\* of contexts and the reel the same between two keys, with no context listed
\* twice.
THEOREM ListKept == Spec => []ListMatchesReel
<1>1. DemoInv => ListMatchesReel
  <2> SUFFICES ASSUME DemoInv, mpc = "poll"
               PROVE  Range(list) = Range(order) \ orphans /\ Len(list) = Cardinality(Range(list))
    BY DEF ListMatchesReel
  <2>1. Range(list) = Range(order) \ orphans
    BY DEF DemoInv, PhasesOK, ReelOK, At, Creating, Killing
  <2>2. Len(list) = Cardinality(Range(list))
    BY LengthOfTorus DEF DemoInv, TypeOK, ReelOK
  <2> QED
    BY <2>1, <2>2
<1> QED
  BY <1>1, DemoInvariant, PTL

\* When the main loop was left and panelreel_demo() closes the eventfd and
\* destroys the reel, every thread was joined, every context freed, and every
\* tablet deleted but those whose pthread_create() failed; the process dies on
\* the way only if there was such a tablet.
THEOREM CleanEnd == Spec => []EndsClean
<1>1. DemoInv => EndsClean
  <2> SUFFICES ASSUME DemoInv, mpc \in {"close", "destroy", "done"}
               PROVE  heap = {} /\ (\A t \in Contexts : ~Running(t)) /\ Range(order) \subseteq orphans
    BY DEF EndsClean, DemoInv, ReelOK
  <2>1. list = <<>> /\ ctx = NULL
    BY DEF DemoInv, PhasesOK, At, Creating, Killing
  <2>2. heap = {} /\ Range(order) \subseteq orphans
    BY <2>1, EmptySeq, TorusFacts DEF DemoInv, ReelOK, TypeOK, At
  <2> QED
    BY <2>2 DEF DemoInv, ThreadsOK
<1> QED
  BY <1>1, DemoInvariant, PTL

=============================================================================
