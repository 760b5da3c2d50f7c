---------------------------- MODULE ControlProofs ----------------------------
(***************************************************************************)
(* Proofs about the loops and relays of MCControl, for any values of the   *)
(* constants: the timers of a session, the routing of turns and its books, *)
(* the agentic loop's tree, the files of a solve, the rounds of the mesh   *)
(* controller and the frames of the relay.                                 *)
(***************************************************************************)
EXTENDS MCControl, TransactionProofs, FiniteSetTheorems, SequenceTheorems, TLAPS

------------------------------------------------------------------------------
(* The cache keepalive *)

Places == {"none", "asleep", "woken", "sending", "reached", "answered", "ending", "over"}
TaskStates == [at : Places, left : Int, round : Int, tokens : {0, 1},
               outcome : {"none", "sent", "refused", "network"}, aborted : BOOLEAN]
HandlerStates == [at : {"idle", "asked", "store"}, wait : Int, task : Nat]

\* The part of the type invariant the argument needs: whoever may still use the
\* entry finds one, and tasks not spawned yet do nothing.
Shape ==
  /\ spawned \in Nat /\ crossed \in BOOLEAN
  /\ entry = NoEntry \/ entry \in Entries
  /\ task \in [Tasks -> TaskStates]
  /\ handler \in [Handlers -> HandlerStates]
  /\ \A i \in Tasks : i > spawned => task[i].at = "none"
  /\ \A i \in Tasks : task[i].at # "none" => entry # NoEntry
  /\ \A h \in Handlers : handler[h].at = "store" => entry # NoEntry

\* The timer that goes on is the last one spawned, and until its handle has been
\* stored it is the one the handler is about to store.
TimerHeld ==
  ~crossed =>
    /\ \A g, h \in Handlers : handler[g].at = "store" /\ handler[h].at = "store" => g = h
    /\ \A i, j \in Tasks : Lives(task[i]) /\ Lives(task[j]) => i = j
    /\ \A i \in Tasks, h \in Handlers :
         Lives(task[i]) /\ handler[h].at = "store" => handler[h].task = i
    /\ \A i \in Tasks : Lives(task[i]) /\ (\A h \in Handlers : handler[h].at # "store")
                          => entry.timer = i

HeldInv == Shape /\ TimerHeld

-----------------------------------------------------------------------------
(* The moves of one task *)

\* A new task is a task.
LEMMA NewTaskShape == NewTask \in TaskStates /\ Over \in TaskStates /\ Fresh \in Entries
<1> DEFINE first == IF Planned = 0 THEN "ending" ELSE "asleep"
<1>1. Sleep \in Int
  BY KeepaliveAssumption DEF Sleep
<1>2. first \in Places
  BY DEF Places
<1>3. NoTask \in TaskStates
  BY DEF NoTask, TaskStates, Places
<1>4. NewTask = [NoTask EXCEPT !.at = first, !.left = Sleep]
  BY DEF NewTask
<1> HIDE DEF first
<1>5. NewTask \in TaskStates
  BY <1>1, <1>2, <1>3, <1>4 DEF TaskStates
<1>6. Over \in TaskStates
  BY <1>3 DEF Over, TaskStates, Places
<1>7. Fresh \in Entries
  BY DEF Fresh, Entries
<1> QED BY <1>5, <1>6, <1>7

\* abort() gives a task that does not go on.
LEMMA AbortedShape ==
  ASSUME NEW t \in TaskStates
  PROVE  /\ Aborted(t) \in TaskStates /\ ~Lives(Aborted(t))
         /\ t.at = "none" => Aborted(t).at = "none"
<1>1. CASE Awaits(t) \/ t.at = "over"
  BY <1>1, NewTaskShape DEF Aborted, Lives, Over, NoTask, Awaits
<1>2. CASE ~(Awaits(t) \/ t.at = "over")
  BY <1>2 DEF Aborted, Lives, TaskStates
<1> QED BY <1>1, <1>2

\* A task that moves stays a task, and goes on only if it did before.
LEMMA GoesShape ==
  ASSUME NEW i \in Tasks, NEW u \in TaskStates, task \in [Tasks -> TaskStates],
         Goes(i, u), u.aborted = task[i].aborted, task[i].at \notin {"none", "over"}
  PROVE  /\ task' \in [Tasks -> TaskStates]
         /\ \A j \in Tasks : j # i => task'[j] = task[j]
         /\ \A j \in Tasks : Lives(task'[j]) => Lives(task[j])
<1> DEFINE v == IF u.aborted /\ Awaits(u) THEN Over ELSE u
<1>1. v \in TaskStates
  BY NewTaskShape
<1>2. task' = [task EXCEPT ![i] = v]
  BY DEF Goes
<1>3. task'[i] = v /\ \A j \in Tasks : j # i => task'[j] = task[j]
  BY <1>2
<1>4. Lives(v) => Lives(task[i])
  BY DEF Lives, Over, NoTask, TaskStates
<1> QED BY <1>1, <1>2, <1>3, <1>4

\* A task's next round is a task.
LEMMA NextRoundShape ==
  ASSUME NEW t \in TaskStates
  PROVE  NextRound(t) \in TaskStates /\ NextRound(t).aborted = t.aborted
<1>1. Sleep \in Int
  BY KeepaliveAssumption DEF Sleep
<1> DEFINE next == IF t.round + 1 = Planned THEN "ending" ELSE "asleep"
<1>2. next \in Places
  BY DEF Places
<1>3. NextRound(t) = [t EXCEPT !.round = @ + 1, !.at = next, !.left = Sleep,
                               !.tokens = 0, !.outcome = "none"]
  BY DEF NextRound
<1>4. t.round + 1 \in Int
  BY DEF TaskStates
<1> DEFINE u == [t EXCEPT !.round = t.round + 1, !.at = next, !.left = Sleep]
<1> HIDE DEF next
<1>5. u \in TaskStates /\ u.aborted = t.aborted
  BY <1>1, <1>2, <1>4 DEF TaskStates
<1>6. NextRound(t) = [u EXCEPT !.tokens = 0, !.outcome = "none"]
  BY <1>3
<1> HIDE DEF u
<1> QED BY <1>5, <1>6 DEF TaskStates

\* Every step of a timer is a move of that task alone; it leaves the handlers be,
\* and of the entry the handle.
LEMMA RunShape ==
  ASSUME Shape, NEW i \in Tasks, Run(i)
  PROVE  /\ task' \in [Tasks -> TaskStates]
         /\ task[i].at # "none"
         /\ \A j \in Tasks : j # i => task'[j] = task[j]
         /\ \A j \in Tasks : Lives(task'[j]) => Lives(task[j])
         /\ UNCHANGED <<handler, spawned, crossed>>
         /\ entry' \in Entries /\ entry'.timer = entry.timer
<1> USE DEF Shape
<1>0. task[i] \in TaskStates /\ (task[i].at # "none" => entry \in Entries)
  OBVIOUS
<1>1. CASE Wake(i)
  <2>1. [task[i] EXCEPT !.at = "woken"] \in TaskStates
    BY <1>0 DEF TaskStates, Places
  <2> QED BY <1>0, <1>1, <2>1, GoesShape DEF Wake, world, TaskStates
<1>2. CASE Snapshot(i)
  <2>1. task[i].at = "woken" /\ UNCHANGED <<entry, handler, spawned, crossed>>
    BY <1>2 DEF Snapshot, world
  <2> DEFINE u == [task[i] EXCEPT !.at = "sending", !.left = Latency, !.tokens = entry.tokens]
  <2>2. u \in TaskStates /\ u.aborted = task[i].aborted
    <3>1. entry.tokens \in {0, 1} /\ Latency \in Int /\ "sending" \in Places
      BY <1>0, <2>1, KeepaliveAssumption DEF Entries, Places
    <3>2. task[i] \in TaskStates
      BY <1>0
    <3> QED BY <3>1, <3>2 DEF TaskStates
  <2>3. Goes(i, u) \/ Goes(i, Over)
    BY <1>2 DEF Snapshot
  <2>4. CASE Goes(i, u)
    BY <1>0, <2>1, <2>2, <2>4, GoesShape
  <2>5. CASE Goes(i, Over)
    <3>1. task' = [task EXCEPT ![i] = Over]
      BY <2>5 DEF Goes, Over, NoTask
    <3> QED BY <1>0, <2>1, <3>1, NewTaskShape DEF Lives, Over, NoTask
  <2> QED BY <2>3, <2>4, <2>5
<1>3. CASE Retry(i)
  <2>1. [task[i] EXCEPT !.tokens = 1] \in TaskStates
    BY <1>0 DEF TaskStates
  <2> QED BY <1>0, <1>3, <2>1, GoesShape DEF Retry, world, TaskStates
<1>4. CASE Reach(i)
  <2>1. [task[i] EXCEPT !.at = "reached"] \in TaskStates
    BY <1>0 DEF TaskStates, Places
  <2> QED BY <1>0, <1>4, <2>1, GoesShape DEF Reach, world, TaskStates
<1>5. CASE Answer(i)
  <2>1. PICK o \in {"sent", "network", "refused"} :
          Goes(i, [task[i] EXCEPT !.at = "answered", !.left = 0, !.outcome = o])
    BY <1>5 DEF Answer
  <2>2. [task[i] EXCEPT !.at = "answered", !.left = 0, !.outcome = o] \in TaskStates
    <3> DEFINE u == [task[i] EXCEPT !.at = "answered"]
               v == [u EXCEPT !.left = 0]
    <3>1. u \in TaskStates
      BY <1>0 DEF TaskStates, Places
    <3> HIDE DEF u
    <3>2. v \in TaskStates
      BY <3>1 DEF TaskStates
    <3> HIDE DEF v
    <3>3. [v EXCEPT !.outcome = o] \in TaskStates
      BY <3>2 DEF TaskStates
    <3> QED BY <3>3 DEF u, v
  <2> QED BY <1>0, <1>5, <2>1, <2>2, GoesShape DEF Answer, world, TaskStates
<1>6. CASE Apply(i)
  <2>1. task[i].at = "answered" /\ UNCHANGED <<handler, spawned, crossed>>
    BY <1>6 DEF Apply, world
  <2>0. entry \in Entries
    BY <1>0, <2>1
  <2>6. \/ entry' = [entry EXCEPT !.pings = @ + 1, !.tokens = task[i].tokens] /\ Goes(i, NextRound(task[i]))
        \/ entry' = entry /\ Goes(i, NextRound(task[i]))
        \/ entry' = [entry EXCEPT !.disabled = TRUE] /\ Goes(i, Over)
    BY <1>6 DEF Apply
  <2>2. entry' \in Entries /\ entry'.timer = entry.timer
    <3>1. task[i].tokens \in {0, 1}
      BY <1>0 DEF TaskStates
    <3>2. CASE entry' = [entry EXCEPT !.pings = @ + 1, !.tokens = task[i].tokens]
      <4> DEFINE e == [entry EXCEPT !.pings = @ + 1]
      <4>1. e \in Entries /\ e.timer = entry.timer
        BY <2>0 DEF Entries
      <4>2. entry' = [e EXCEPT !.tokens = task[i].tokens]
        BY <3>2
      <4> HIDE DEF e
      <4> QED BY <3>1, <4>1, <4>2 DEF Entries
    <3>3. CASE entry' = [entry EXCEPT !.disabled = TRUE]
      BY <2>0, <3>3 DEF Entries
    <3> QED BY <2>0, <2>6, <3>2, <3>3
  <2>3. Goes(i, NextRound(task[i])) \/ Goes(i, Over)
    BY <2>6
  <2>4. CASE Goes(i, NextRound(task[i]))
    BY <1>0, <2>1, <2>2, <2>4, NextRoundShape, GoesShape
  <2>5. CASE Goes(i, Over)
    <3>1. task' = [task EXCEPT ![i] = Over]
      BY <2>5 DEF Goes, Over, NoTask
    <3> QED BY <1>0, <2>1, <2>2, <3>1, NewTaskShape DEF Lives, Over, NoTask
  <2> QED BY <2>3, <2>4, <2>5
<1>7. CASE Penalize(i)
  <2>1. task[i].at = "ending" /\ UNCHANGED <<entry, handler, spawned, crossed>>
    BY <1>7 DEF Penalize, world
  <2>2. task' = [task EXCEPT ![i] = Over]
    BY <1>7 DEF Penalize, Goes, Over, NoTask
  <2> QED BY <1>0, <2>1, <2>2, NewTaskShape DEF Lives, Over, NoTask
<1> QED BY <1>1, <1>2, <1>3, <1>4, <1>5, <1>6, <1>7 DEF Run

-----------------------------------------------------------------------------
(* The invariant *)

\* Nothing is running when the manager is made.
LEMMA InitHeld == Init => HeldInv
<1> SUFFICES ASSUME Init PROVE HeldInv
  OBVIOUS
<1>1. \A i \in Tasks : task[i] = NoTask /\ ~Lives(task[i])
  BY DEF Init, Lives, NoTask
<1>2. \A h \in Handlers : handler[h].at = "idle"
  BY DEF Init
<1>3. NoTask \in TaskStates
  BY DEF NoTask, TaskStates, Places
<1>4. Shape
  <2>1. task \in [Tasks -> TaskStates] /\ \A i \in Tasks : task[i].at = "none"
    BY <1>3 DEF Init, NoTask
  <2>2. handler \in [Handlers -> HandlerStates]
    BY DEF Init, HandlerStates
  <2>3. spawned \in Nat /\ crossed \in BOOLEAN /\ entry = NoEntry
    BY DEF Init
  <2> QED BY <1>2, <2>1, <2>2, <2>3 DEF Shape
<1> QED BY <1>1, <1>2, <1>4 DEF HeldInv, TimerHeld

\* A step of a timer makes no task go on that did not, and moves no handle.
LEMMA RunKeepsHeld ==
  ASSUME HeldInv, NEW i \in Tasks, Run(i)
  PROVE  HeldInv'
<1> USE DEF HeldInv
<1>1. /\ task' \in [Tasks -> TaskStates]
      /\ task[i].at # "none"
      /\ \A j \in Tasks : j # i => task'[j] = task[j]
      /\ \A j \in Tasks : Lives(task'[j]) => Lives(task[j])
      /\ UNCHANGED <<handler, spawned, crossed>>
      /\ entry' \in Entries /\ entry'.timer = entry.timer
  BY RunShape
<1>2. Shape'
  BY <1>1, KeepaliveAssumption DEF Shape
<1>3. TimerHeld'
  BY <1>1 DEF TimerHeld
<1> QED BY <1>2, <1>3

\* Recording a request aborts the one timer that went on and spawns the next.
LEMMA InsertKeepsHeld ==
  ASSUME HeldInv, NEW h \in Handlers, Insert(h)
  PROVE  HeldInv'
<1> USE DEF HeldInv
<1> DEFINE timer == IF entry = NoEntry THEN 0 ELSE entry.timer
           n == spawned + 1
<1>1. /\ handler[h].at = "asked" /\ spawned' = n /\ entry' = Fresh
      /\ task' = [j \in Tasks |-> IF j = n THEN NewTask
                                  ELSE IF j = timer THEN Aborted(task[j]) ELSE task[j]]
      /\ handler' = [handler EXCEPT ![h].at = "store", ![h].task = n]
      /\ crossed' = (crossed \/ \E g \in Handlers : handler[g].at = "store")
  BY DEF Insert
<1>2. n \in Nat /\ Shape
  BY DEF Shape
<1>3. /\ handler' \in [Handlers -> HandlerStates]
      /\ handler'[h].at = "store" /\ handler'[h].task = n
      /\ \A g \in Handlers : g # h => handler'[g] = handler[g]
  BY <1>1, <1>2 DEF Shape, HandlerStates
<1>4. \A j \in Tasks : /\ j = n => task'[j] = NewTask
                       /\ j # n /\ j = timer => task'[j] = Aborted(task[j])
                       /\ j # n /\ j # timer => task'[j] = task[j]
  BY <1>1
<1>5. task' \in [Tasks -> TaskStates]
  BY <1>1, <1>2, NewTaskShape, AbortedShape DEF Shape
<1>6. \A j \in Tasks : j > n => task'[j].at = "none"
  BY <1>2, <1>4, AbortedShape DEF Shape, Tasks
<1>7. entry' # NoEntry /\ entry' \in Entries
  BY <1>1, NewTaskShape, KeepaliveAssumption
<1>8. crossed' \in BOOLEAN
  BY <1>1
<1>9. Shape'
  BY <1>1, <1>2, <1>3, <1>5, <1>6, <1>7, <1>8 DEF Shape
<1>10. ASSUME ~crossed' PROVE \A j \in Tasks : Lives(task'[j]) => j = n
  <2>1. ~crossed /\ \A g \in Handlers : handler[g].at # "store"
    BY <1>1, <1>10
  <2>2. \A j \in Tasks : Lives(task[j]) => entry # NoEntry /\ entry.timer = j
    BY <2>1, <1>2 DEF TimerHeld, Shape, Lives
  <2> QED BY <2>2, <1>2, <1>4, AbortedShape DEF Shape
<1>11. ASSUME ~crossed' PROVE \A g \in Handlers : handler'[g].at = "store" => g = h
  BY <1>1, <1>3, <1>11
<1>12. TimerHeld'
  BY <1>3, <1>10, <1>11 DEF TimerHeld
<1> QED BY <1>9, <1>12

\* Storing the handle gives the entry the timer that goes on.
LEMMA StoreKeepsHeld ==
  ASSUME HeldInv, NEW h \in Handlers, Store(h)
  PROVE  HeldInv'
<1> USE DEF HeldInv
<1>1. /\ handler[h].at = "store" /\ entry' = [entry EXCEPT !.timer = handler[h].task]
      /\ handler' = [handler EXCEPT ![h].at = "idle", ![h].task = 0]
      /\ UNCHANGED <<task, spawned, crossed>>
  BY DEF Store
<1>2. entry \in Entries /\ handler[h] \in HandlerStates
  BY <1>1 DEF Shape
<1>3. entry' \in Entries /\ entry'.timer = handler[h].task
  BY <1>1, <1>2 DEF Entries, HandlerStates
<1>4. /\ handler' \in [Handlers -> HandlerStates]
      /\ handler'[h].at = "idle"
      /\ \A g \in Handlers : g # h => handler'[g] = handler[g]
  BY <1>1 DEF Shape, HandlerStates
<1>5. Shape'
  BY <1>1, <1>3, <1>4, KeepaliveAssumption DEF Shape
<1>6. TimerHeld'
  BY <1>1, <1>3, <1>4 DEF TimerHeld
<1> QED BY <1>5, <1>6

\* What leaves entry and tasks alone and stores nothing keeps the invariant.
LEMMA WaitKeepsHeld ==
  ASSUME HeldInv, UNCHANGED <<entry, task, spawned, crossed>>,
         handler' \in [Handlers -> HandlerStates],
         \A h \in Handlers : /\ handler'[h].at = "store" <=> handler[h].at = "store"
                             /\ handler'[h].task = handler[h].task
  PROVE  HeldInv'
<1>1. Shape'
  BY DEF HeldInv, Shape
<1>2. TimerHeld'
  BY DEF HeldInv, TimerHeld
<1> QED BY <1>1, <1>2 DEF HeldInv

\* Time changes no task but what it still has to wait.
LEMMA TickKeepsHeld ==
  ASSUME HeldInv, Tick
  PROVE  HeldInv'
<1> USE DEF HeldInv
<1>1. /\ task' = [i \in Tasks |-> IF Awaits(task[i]) THEN [task[i] EXCEPT !.left = @ - 1] ELSE task[i]]
      /\ handler' = [h \in Handlers |-> IF handler[h].at = "asked" THEN [handler[h] EXCEPT !.wait = @ + 1]
                                        ELSE handler[h]]
      /\ UNCHANGED <<entry, spawned, crossed>>
  BY DEF Tick
<1>2. \A i \in Tasks : /\ task'[i] \in TaskStates /\ task'[i].at = task[i].at
                       /\ task'[i].aborted = task[i].aborted
  BY <1>1 DEF Shape, TaskStates
<1>3. \A h \in Handlers : /\ handler'[h] \in HandlerStates /\ handler'[h].at = handler[h].at
                          /\ handler'[h].task = handler[h].task
  BY <1>1 DEF Shape, HandlerStates
<1>4. \A i \in Tasks : Lives(task'[i]) <=> Lives(task[i])
  BY <1>2 DEF Lives
<1>5. Shape'
  BY <1>1, <1>2, <1>3 DEF Shape
<1>6. TimerHeld'
  BY <1>1, <1>3, <1>4 DEF TimerHeld
<1> QED BY <1>5, <1>6

\* The invariant is inductive.
LEMMA StepKeepsHeld == HeldInv /\ [Next]_vars => HeldInv'
<1> SUFFICES ASSUME HeldInv, [Next]_vars PROVE HeldInv'
  OBVIOUS
<1>0. handler \in [Handlers -> HandlerStates]
  BY DEF HeldInv, Shape
<1>1. CASE Tick
  BY <1>1, TickKeepsHeld
<1>2. ASSUME NEW h \in Handlers, Serve(h) PROVE HeldInv'
  <2>1. CASE Unanswered(h)
    <3>1. handler' = [handler EXCEPT ![h].at = "idle"] /\ handler[h].at = "asked"
      BY <2>1 DEF Unanswered
    <3>2. /\ handler' \in [Handlers -> HandlerStates]
          /\ \A g \in Handlers : /\ handler'[g].at = "store" <=> handler[g].at = "store"
                                 /\ handler'[g].task = handler[g].task
      BY <1>0, <3>1 DEF HandlerStates
    <3> QED BY <2>1, <3>2, WaitKeepsHeld DEF Unanswered
  <2> QED BY <1>2, <2>1, InsertKeepsHeld, StoreKeepsHeld DEF Serve
<1>3. ASSUME NEW i \in Tasks, Run(i) PROVE HeldInv'
  BY <1>3, RunKeepsHeld
<1>4. ASSUME NEW h \in Handlers, Ask(h) PROVE HeldInv'
  <2>1. /\ handler[h].at = "idle"
        /\ handler' = [handler EXCEPT ![h].at = "asked", ![h].wait = 0]
    BY <1>4 DEF Ask
  <2>2. /\ handler' \in [Handlers -> HandlerStates]
        /\ \A g \in Handlers : /\ handler'[g].at = "store" <=> handler[g].at = "store"
                               /\ handler'[g].task = handler[g].task
    <3>1. handler[h] \in HandlerStates
      BY <1>0
    <3>2. \A g \in Handlers : handler'[g] = IF g = h THEN [handler[h] EXCEPT !.at = "asked", !.wait = 0]
                                            ELSE handler[g]
      BY <1>0, <2>1
    <3>3. /\ [handler[h] EXCEPT !.at = "asked", !.wait = 0] \in HandlerStates
          /\ [handler[h] EXCEPT !.at = "asked", !.wait = 0].at = "asked"
          /\ [handler[h] EXCEPT !.at = "asked", !.wait = 0].task = handler[h].task
      <4> DEFINE a == [handler[h] EXCEPT !.at = "asked"]
      <4>1. a \in HandlerStates /\ a.at = "asked" /\ a.task = handler[h].task
        BY <3>1 DEF HandlerStates
      <4> HIDE DEF a
      <4>2. /\ [a EXCEPT !.wait = 0] \in HandlerStates
            /\ [a EXCEPT !.wait = 0].at = "asked" /\ [a EXCEPT !.wait = 0].task = handler[h].task
        BY <4>1 DEF HandlerStates
      <4> QED BY <4>2 DEF a
    <3>4. handler' \in [Handlers -> HandlerStates]
      BY <1>0, <2>1, <3>3, <3>2
    <3> QED BY <2>1, <3>2, <3>3, <3>4
  <2> QED BY <1>4, <2>2, WaitKeepsHeld DEF Ask
<1>5. CASE UNCHANGED vars
  <2>1. UNCHANGED <<entry, task, spawned, crossed, handler>>
    BY <1>5 DEF vars
  <2> QED BY <1>0, <2>1, WaitKeepsHeld
<1> QED BY <1>1, <1>2, <1>3, <1>4, <1>5 DEF Next, Progress

\* For requests that come one at a time, a session never has two timers that go
\* on, and the entry holds the handle of the one it has: record_activity can
\* always stop it.
THEOREM OneTimerCorrect == Spec => []OneTimer
<1>1. HeldInv => OneTimer
  BY DEF HeldInv, TimerHeld, OneTimer
<1> QED BY <1>1, InitHeld, StepKeepsHeld, PTL DEF Spec

------------------------------------------------------------------------------
(* What a silent session costs *)

\* A task that has its turn or comes to it with no time in between, one that has asked for a
\* ping, and one that was aborted at the one place where it can still ask for one.
Asking(t) == t.at \in {"sending", "reached", "answered"}
Ready(t)  == t.at = "woken" \/ Asking(t) \/ (t.at = "asleep" /\ t.left = 0)
Stale(t)  == t.at = "woken" /\ t.aborted
Stray     == \E i \in Tasks : Stale(task[i])
Extra     == IF Stray THEN 1 ELSE 0
Started(t) == t.round + (IF Asking(t) THEN 1 ELSE 0)

\* A task asks in the rounds it has, and one that was aborted does not wait.
Paced(t) ==
  /\ t.at \in {"asleep", "woken"} \/ Asking(t) => 0 <= t.round /\ t.round < Planned
  /\ t.at = "ending" => 0 <= t.round /\ t.round <= Planned
  /\ t.aborted => ~Awaits(t)

\* Since the last record the timer that goes on has started a ping a round, and an aborted one
\* may add one; no entry is pinged for beyond the plan.
Bounded ==
  ~crossed =>
    /\ \A i, j \in Tasks : Ready(task[i]) /\ Ready(task[j]) => i = j
    /\ \A i \in Tasks : Lives(task[i]) => rounds + Extra <= Started(task[i]) + 1
    /\ rounds + Extra <= Planned + 1
    /\ entry # NoEntry =>
         /\ entry.pings <= Planned
         /\ \A i \in Tasks : Asking(task[i]) => entry.pings < Planned

PingInv ==
  /\ HeldInv /\ rounds \in Nat
  /\ \A i \in Tasks : Paced(task[i])
  /\ Bounded

LEMMA PlannedNat == Planned \in Nat /\ Sleep \in Nat
<1>1. Horizon + TTL - 1 \in Nat /\ TTL \in Nat \ {0}
  BY KeepaliveAssumption
<1>2. \A a \in Nat, b \in Nat \ {0} : a \div b \in Nat
  OBVIOUS
<1>3. Planned \in Nat
  BY <1>1, <1>2 DEF Planned
<1> QED BY <1>3, KeepaliveAssumption DEF Sleep

\* What one step of a timer may do to it, to the count and to the entry.
TimerMoves(i) ==
  /\ Ready(task[i]) \/ task[i].at = "ending"
  /\ Ready(task'[i]) => Ready(task[i])
  /\ Paced(task'[i])
  /\ Stale(task'[i]) => Stale(task[i])
  /\ Lives(task'[i]) => Lives(task[i]) /\ rounds' - rounds <= Started(task'[i]) - Started(task[i])
  /\ \/ rounds' = rounds
     \/ rounds' = rounds + 1 /\ ~Stale(task'[i]) /\ (Stale(task[i]) \/ Lives(task'[i]))
  /\ \/ entry'.pings = entry.pings /\ (Asking(task'[i]) => Asking(task[i]) \/ entry.pings < Planned)
     \/ entry'.pings = entry.pings + 1 /\ Asking(task[i]) /\ ~Asking(task'[i])

\* A move to a record that is the task's next.
LEMMA GoesTo ==
  ASSUME NEW i \in Tasks, NEW u \in TaskStates, task \in [Tasks -> TaskStates], Goes(i, u)
  PROVE  /\ task'[i] = u \/ (task'[i] = Over /\ u.aborted /\ Awaits(u))
         /\ u.aborted /\ Awaits(u) => task'[i] = Over
BY DEF Goes

LEMMA OverFacts == Over.at = "over" /\ Over.round = 0 /\ ~Over.aborted /\ Over.left = 0
BY DEF Over, NoTask

\* A task that is over has moved.
LEMMA OverMoves ==
  ASSUME NEW i \in Tasks, task'[i] = Over, Ready(task[i]) \/ task[i].at = "ending",
         \/ rounds' = rounds
         \/ rounds' = rounds + 1 /\ Stale(task[i]),
         entry'.pings = entry.pings
  PROVE  TimerMoves(i)
BY OverFacts DEF TimerMoves, Ready, Asking, Paced, Stale, Lives, Awaits

LEMMA WakeMoves ==
  ASSUME PingInv, NEW i \in Tasks, Wake(i)
  PROVE  TimerMoves(i)
<1>1. PICK t \in TaskStates : t = task[i] /\ Paced(t)
  BY DEF PingInv, HeldInv, Shape
<1>2. t.at = "asleep" /\ t.left = 0 /\ UNCHANGED <<entry, rounds>> /\ rounds \in Nat
  BY <1>1 DEF Wake, PingInv
<1>3. PICK u : u = [t EXCEPT !.at = "woken"]
  OBVIOUS
<1>4. /\ u \in TaskStates /\ u.at = "woken" /\ u.aborted = t.aborted /\ u.round = t.round
  BY <1>3 DEF TaskStates, Places
<1>5. Goes(i, u)
  BY <1>1, <1>3 DEF Wake
<1>6. ~t.aborted
  BY <1>1, <1>2 DEF Paced, Awaits
<1>7. task'[i] = u
  BY <1>4, <1>5, <1>6, GoesTo DEF PingInv, HeldInv, Shape
<1> QED BY <1>1, <1>2, <1>4, <1>6, <1>7
        DEF TimerMoves, Ready, Asking, Paced, Stale, Lives, Awaits, Started, TaskStates

LEMMA SnapshotMoves ==
  ASSUME PingInv, NEW i \in Tasks, Snapshot(i)
  PROVE  TimerMoves(i)
<1>1. PICK t \in TaskStates : t = task[i] /\ Paced(t)
  BY DEF PingInv, HeldInv, Shape
<1>2. t.at = "woken" /\ UNCHANGED entry /\ rounds \in Nat /\ entry \in Entries
  BY <1>1 DEF Snapshot, PingInv, HeldInv, Shape
<1>3. Ready(t) /\ Planned \in Nat
  BY <1>2, PlannedNat DEF Ready
<1>4. CASE ~Gate(entry)
  <2>1. Goes(i, Over) /\ rounds' = rounds
    BY <1>4 DEF Snapshot
  <2>2. task'[i] = Over
    BY <2>1, NewTaskShape, GoesTo DEF PingInv, HeldInv, Shape
  <2> QED BY <1>1, <1>2, <1>3, <2>1, <2>2, OverMoves
<1>5. CASE Gate(entry)
  <2>1. PICK u : u = [t EXCEPT !.at = "sending", !.left = Latency, !.tokens = entry.tokens]
    OBVIOUS
  <2>2. Goes(i, u) /\ (rounds' = rounds \/ rounds' = rounds + 1)
    BY <1>1, <1>5, <2>1 DEF Snapshot
  <2>3. u \in TaskStates /\ u.at = "sending" /\ u.aborted = t.aborted /\ u.round = t.round
    <3>1. entry.tokens \in {0, 1} /\ Latency \in Int /\ "sending" \in Places
      BY <1>2, KeepaliveAssumption DEF Entries, Places
    <3> QED BY <2>1, <3>1 DEF TaskStates
  <2>4. entry.pings < Planned
    BY <1>5 DEF Gate
  <2>5. CASE t.aborted
    <3>1. task'[i] = Over
      BY <2>2, <2>3, <2>5, GoesTo DEF Awaits, PingInv, HeldInv, Shape
    <3>2. Stale(t)
      BY <1>2, <2>5 DEF Stale
    <3> QED BY <1>1, <1>2, <1>3, <2>2, <3>1, <3>2, OverMoves
  <2>6. CASE ~t.aborted
    <3>1. task'[i] = u
      BY <2>2, <2>3, <2>6, GoesTo DEF PingInv, HeldInv, Shape
    <3> QED BY <1>1, <1>2, <1>3, <2>2, <2>3, <2>4, <2>6, <3>1
            DEF TimerMoves, Ready, Asking, Paced, Stale, Lives, Awaits, Started, TaskStates
  <2> QED BY <2>5, <2>6
<1> QED BY <1>4, <1>5

\* A ping on its way stays one, whatever becomes of it.
LEMMA AskingMoves ==
  ASSUME PingInv, NEW i \in Tasks, NEW u \in TaskStates, Asking(task[i]), Asking(u), Goes(i, u),
         u.aborted = task[i].aborted, u.round = task[i].round, UNCHANGED <<entry, rounds>>
  PROVE  TimerMoves(i)
<1>1. PICK t \in TaskStates : t = task[i] /\ Paced(t) /\ rounds \in Nat
  BY DEF PingInv, HeldInv, Shape
<1>2. CASE task'[i] = Over
  BY <1>1, <1>2, OverMoves DEF Ready
<1>3. CASE task'[i] = u /\ ~(u.aborted /\ Awaits(u))
  BY <1>1, <1>3 DEF TimerMoves, Ready, Asking, Paced, Stale, Lives, Started, TaskStates
<1> QED BY <1>2, <1>3, GoesTo DEF PingInv, HeldInv, Shape

LEMMA PingMoves ==
  ASSUME PingInv, NEW i \in Tasks, Retry(i) \/ Reach(i) \/ Answer(i)
  PROVE  TimerMoves(i)
<1>1. PICK t \in TaskStates : t = task[i]
  BY DEF PingInv, HeldInv, Shape
<1>2. Asking(t) /\ UNCHANGED <<entry, rounds>>
  BY <1>1 DEF Retry, Reach, Answer, Asking
<1>3. CASE Retry(i)
  <2>1. PICK u : u = [t EXCEPT !.tokens = 1]
    OBVIOUS
  <2>2. u \in TaskStates /\ u.at = t.at /\ u.aborted = t.aborted /\ u.round = t.round
    BY <2>1 DEF TaskStates
  <2> QED BY <1>1, <1>2, <1>3, <2>1, <2>2, AskingMoves DEF Retry, Asking
<1>4. CASE Reach(i)
  <2>1. PICK u : u = [t EXCEPT !.at = "reached"]
    OBVIOUS
  <2>2. u \in TaskStates /\ u.at = "reached" /\ u.aborted = t.aborted /\ u.round = t.round
    BY <2>1 DEF TaskStates, Places
  <2> QED BY <1>1, <1>2, <1>4, <2>1, <2>2, AskingMoves DEF Reach, Asking
<1>5. CASE Answer(i)
  <2>1. PICK o \in {"sent", "network", "refused"} :
          Goes(i, [t EXCEPT !.at = "answered", !.left = 0, !.outcome = o])
    BY <1>1, <1>5 DEF Answer
  <2>2. PICK u : u = [t EXCEPT !.at = "answered", !.left = 0, !.outcome = o]
    OBVIOUS
  <2>3. u \in TaskStates /\ u.at = "answered" /\ u.aborted = t.aborted /\ u.round = t.round
    <3>1. "answered" \in Places /\ 0 \in Int /\ o \in {"none", "sent", "refused", "network"}
      BY DEF Places
    <3> QED BY <2>2, <3>1 DEF TaskStates
  <2> QED BY <1>1, <1>2, <2>1, <2>2, <2>3, AskingMoves DEF Asking
<1> QED BY <1>3, <1>4, <1>5

\* The next round, or the end.
LEMMA NextRoundMoves ==
  ASSUME PingInv, NEW i \in Tasks, Margin < TTL, task[i].at = "answered", Goes(i, NextRound(task[i])),
         rounds' = rounds, entry'.pings = entry.pings \/ entry'.pings = entry.pings + 1
  PROVE  TimerMoves(i)
<1>1. PICK t \in TaskStates : t = task[i] /\ Paced(t) /\ rounds \in Nat
  BY DEF PingInv, HeldInv, Shape
<1>2. PICK u \in TaskStates : u = NextRound(t) /\ u.aborted = t.aborted
  BY NextRoundShape
<1>3. u.round = t.round + 1 /\ u.left = Sleep /\ u.at = IF t.round + 1 = Planned THEN "ending" ELSE "asleep"
  BY <1>2 DEF NextRound, TaskStates
<1>4. Sleep \in Nat /\ Sleep # 0 /\ Planned \in Nat
  BY PlannedNat, KeepaliveAssumption DEF Sleep
<1>5. t.round \in Int /\ 0 <= t.round /\ t.round < Planned /\ t.at = "answered"
  BY <1>1 DEF Paced, Asking, TaskStates
<1>6. task'[i] = u \/ (task'[i] = Over /\ u.aborted /\ Awaits(u))
  BY <1>1, <1>2, GoesTo DEF PingInv, HeldInv, Shape
<1>7. u.aborted /\ Awaits(u) => task'[i] = Over
  BY <1>1, <1>2, GoesTo DEF PingInv, HeldInv, Shape
<1>8. CASE task'[i] = Over
  BY <1>1, <1>5, <1>8, OverFacts DEF TimerMoves, Ready, Asking, Paced, Stale, Lives, Awaits
<1>9. CASE task'[i] = u /\ ~(u.aborted /\ Awaits(u))
  <2>1. Paced(u) /\ ~Ready(u) /\ ~Asking(u) /\ ~Stale(u)
    BY <1>3, <1>4, <1>5, <1>9 DEF Paced, Ready, Asking, Stale
  <2>2. Started(u) = Started(t)
    BY <1>3, <1>5 DEF Started, Asking
  <2>3. Lives(u) => Lives(t)
    BY <1>2, <1>5 DEF Lives
  <2>4. Ready(t) /\ Asking(t)
    BY <1>5 DEF Ready, Asking
  <2>5. Started(t) \in Int
    BY <1>5 DEF Started
  <2> QED BY <1>1, <1>9, <2>1, <2>2, <2>3, <2>4, <2>5 DEF TimerMoves
<1> QED BY <1>6, <1>7, <1>8, <1>9

LEMMA ApplyMoves ==
  ASSUME PingInv, NEW i \in Tasks, Margin < TTL, Apply(i)
  PROVE  TimerMoves(i)
<1>1. task[i].at = "answered" /\ rounds' = rounds /\ entry \in Entries /\ task[i] \in TaskStates
  BY DEF Apply, PingInv, HeldInv, Shape
<1>2. CASE entry' = [entry EXCEPT !.pings = @ + 1, !.tokens = task[i].tokens] /\ Goes(i, NextRound(task[i]))
  <2>1. entry'.pings = entry.pings + 1
    BY <1>1, <1>2 DEF Entries
  <2> QED BY <1>1, <1>2, <2>1, NextRoundMoves
<1>3. CASE entry' = entry /\ Goes(i, NextRound(task[i]))
  BY <1>1, <1>3, NextRoundMoves
<1>4. CASE entry' = [entry EXCEPT !.disabled = TRUE] /\ Goes(i, Over)
  <2>1. entry'.pings = entry.pings
    BY <1>1, <1>4 DEF Entries
  <2>2. task'[i] = Over
    BY <1>4, NewTaskShape, GoesTo DEF PingInv, HeldInv, Shape
  <2> QED BY <1>1, <2>1, <2>2, OverMoves DEF Ready, Asking
<1> QED BY <1>2, <1>3, <1>4 DEF Apply

LEMMA PenalizeMoves ==
  ASSUME PingInv, NEW i \in Tasks, Penalize(i)
  PROVE  TimerMoves(i)
<1>1. task'[i] = Over
  BY NewTaskShape, GoesTo DEF Penalize, PingInv, HeldInv, Shape
<1> QED BY <1>1, OverMoves DEF Penalize

\* A step of a timer.
LEMMA RunKeepsPings ==
  ASSUME PingInv, NEW i \in Tasks, Margin < TTL, Run(i)
  PROVE  PingInv'
<1>1. TimerMoves(i)
  BY WakeMoves, SnapshotMoves, PingMoves, ApplyMoves, PenalizeMoves DEF Run
<1>2. /\ task \in [Tasks -> TaskStates] /\ task' \in [Tasks -> TaskStates]
      /\ \A j \in Tasks : j # i => task'[j] = task[j]
      /\ UNCHANGED <<handler, spawned, crossed>> /\ entry' \in Entries /\ task[i].at # "none"
  BY RunShape DEF PingInv, HeldInv, Shape
<1>3. HeldInv'
  BY RunKeepsHeld DEF PingInv
<1>4. entry \in Entries /\ entry # NoEntry /\ rounds \in Nat /\ rounds' \in Nat
  BY <1>1, <1>2, KeepaliveAssumption DEF PingInv, HeldInv, Shape, TimerMoves
<1>5. \A j \in Tasks : Paced(task'[j])
  BY <1>1, <1>2 DEF PingInv, TimerMoves
<1>6. ASSUME ~crossed' PROVE
        /\ \A j, k \in Tasks : Ready(task'[j]) /\ Ready(task'[k]) => j = k
        /\ \A j \in Tasks : Lives(task'[j]) => rounds' + Extra' <= Started(task'[j]) + 1
        /\ rounds' + Extra' <= Planned + 1
        /\ entry'.pings <= Planned
        /\ \A j \in Tasks : Asking(task'[j]) => entry'.pings < Planned
  <2>1. /\ \A j, k \in Tasks : Ready(task[j]) /\ Ready(task[k]) => j = k
        /\ \A j \in Tasks : Lives(task[j]) => rounds + Extra <= Started(task[j]) + 1
        /\ rounds + Extra <= Planned + 1
        /\ entry.pings <= Planned
        /\ \A j \in Tasks : Asking(task[j]) => entry.pings < Planned
    BY <1>2, <1>4, <1>6 DEF PingInv, Bounded
  <2>2. \A j, k \in Tasks : Ready(task'[j]) /\ Ready(task'[k]) => j = k
    BY <1>1, <1>2, <2>1 DEF TimerMoves
  <2>3. \A j \in Tasks : Stale(task'[j]) => Stale(task[j])
    BY <1>1, <1>2 DEF TimerMoves
  <2>4. Extra' \in Int /\ Extra \in Int /\ 0 <= Extra' /\ Extra' <= 1 /\ Extra' <= Extra
    <3>1. Stray' => Stray
      BY <2>3 DEF Stray, Stale
    <3> QED BY <3>1 DEF Extra
  <2>5. \A j \in Tasks : Stale(task[j]) => Ready(task[j])
    BY DEF Stale, Ready
  <2>6. Stale(task[i]) /\ ~Stale(task'[i]) => Extra = 1 /\ Extra' = 0
    <3>1. ASSUME Stale(task[i]), ~Stale(task'[i]) PROVE Stray /\ ~Stray'
      <4>1. ASSUME NEW j \in Tasks, Stale(task'[j]) PROVE FALSE
        BY <2>1, <2>3, <2>5, <3>1, <4>1
      <4> QED BY <3>1, <4>1 DEF Stray, Stale
    <3> QED BY <3>1 DEF Extra
  <2>7. \A j \in Tasks : Started(task[j]) \in Int /\ Started(task'[j]) \in Int
    BY <1>2 DEF Started, TaskStates
  <2>8. \A j \in Tasks : Lives(task[j]) /\ Lives(task[i]) => i = j
    BY <1>2, <1>6 DEF PingInv, HeldInv, TimerHeld
  <2>9. Lives(task'[i]) => Started(task'[i]) <= Planned
    <3>1. task'[i].round \in Int /\ task'[i].at \in Places /\ Planned \in Nat
      BY <1>2, PlannedNat DEF TaskStates
    <3> QED BY <1>5, <3>1 DEF Paced, Started, Asking, Lives, Places
  <2>10. Planned \in Nat
    BY PlannedNat
  <2>12. entry'.pings <= Planned /\ \A j \in Tasks : Asking(task'[j]) => entry'.pings < Planned
    <3>1. entry.pings \in Nat
      BY <1>4 DEF Entries
    <3>2. CASE entry'.pings = entry.pings /\ (Asking(task'[i]) => Asking(task[i]) \/ entry.pings < Planned)
      BY <1>2, <2>1, <3>2
    <3>3. CASE entry'.pings = entry.pings + 1 /\ Asking(task[i]) /\ ~Asking(task'[i])
      <4>1. ASSUME NEW j \in Tasks, Asking(task'[j]) PROVE FALSE
        <5>1. j # i /\ Asking(task[j])
          BY <1>2, <3>3, <4>1
        <5> QED BY <2>1, <3>3, <5>1 DEF Ready
      <4> QED BY <2>1, <2>10, <3>1, <3>3, <4>1
    <3> QED BY <1>1, <3>2, <3>3 DEF TimerMoves
  <2>0. PICK e \in Int, f \in Int, p \in Nat, m \in Nat, n \in Nat :
          e = Extra' /\ f = Extra /\ p = Planned /\ m = rounds /\ n = rounds'
    BY <1>4, <2>4, <2>10
  <2>15. 0 <= e /\ e <= 1 /\ e <= f /\ m + f <= p + 1
    BY <2>0, <2>1, <2>4
  <2>16. SUFFICES n + e <= p + 1 /\ \A j \in Tasks : Lives(task'[j]) => n + e <= Started(task'[j]) + 1
    BY <2>0, <2>2, <2>12
  <2>17. \A j \in Tasks : Lives(task[j]) => m + f <= Started(task[j]) + 1
    BY <2>0, <2>1
  <2>11. CASE n = m
    <3>2. ASSUME NEW j \in Tasks, Lives(task'[j]) PROVE n + e <= Started(task'[j]) + 1
      <4>1. Lives(task[j]) /\ Started(task'[j]) >= Started(task[j])
        BY <1>1, <1>2, <2>0, <2>7, <2>11, <3>2 DEF TimerMoves
      <4> QED BY <2>7, <2>11, <2>15, <2>17, <4>1
    <3> QED BY <2>11, <2>15, <3>2
  <2>13. CASE n = m + 1 /\ ~Stale(task'[i]) /\ Stale(task[i])
    <3>1. e = 0 /\ f = 1
      BY <2>0, <2>6, <2>13
    <3>2. ASSUME NEW j \in Tasks, Lives(task'[j]) PROVE n + e <= Started(task'[j]) + 1
      <4>1. j # i
        BY <1>1, <2>13, <3>2 DEF TimerMoves, Stale, Lives
      <4>2. Lives(task[j]) /\ task'[j] = task[j]
        BY <1>2, <3>2, <4>1
      <4> QED BY <2>7, <2>13, <2>17, <3>1, <4>2
    <3> QED BY <2>13, <2>15, <3>1, <3>2
  <2>14. CASE n = m + 1 /\ Lives(task'[i])
    <3>1. Lives(task[i]) /\ Started(task'[i]) >= Started(task[i]) + 1
      BY <1>1, <2>0, <2>7, <2>14 DEF TimerMoves
    <3>2. n + e <= Started(task'[i]) + 1
      BY <2>7, <2>14, <2>15, <2>17, <3>1
    <3>3. ASSUME NEW j \in Tasks, Lives(task'[j]) PROVE n + e <= Started(task'[j]) + 1
      <4>1. j = i
        BY <1>2, <2>8, <3>1, <3>3
      <4> QED BY <3>2, <4>1
    <3>4. Started(task'[i]) <= p
      BY <2>0, <2>9, <2>14
    <3>5. n + e <= p + 1
      BY <2>7, <3>2, <3>4
    <3> QED BY <3>3, <3>5
  <2> QED BY <1>1, <2>0, <2>11, <2>13, <2>14 DEF TimerMoves
<1> QED BY <1>3, <1>4, <1>5, <1>6 DEF PingInv, Bounded

\* A record counts afresh; the timer it stops may have one ping left to start.
LEMMA InsertKeepsPings ==
  ASSUME PingInv, NEW h \in Handlers, Margin < TTL, Insert(h)
  PROVE  PingInv'
<1> DEFINE timer == IF entry = NoEntry THEN 0 ELSE entry.timer
           n == spawned + 1
<1>1. /\ spawned' = n /\ entry' = Fresh /\ rounds' = 0
      /\ task' = [j \in Tasks |-> IF j = n THEN NewTask
                                  ELSE IF j = timer THEN Aborted(task[j]) ELSE task[j]]
      /\ crossed' = (crossed \/ \E g \in Handlers : handler[g].at = "store")
  BY DEF Insert
<1>2. HeldInv' /\ HeldInv
  BY InsertKeepsHeld DEF PingInv
<1>3. \A j \in Tasks : /\ j = n => task'[j] = NewTask
                       /\ j # n => task'[j] \in {task[j], Aborted(task[j])}
  BY <1>1
<1>4. Sleep \in Nat /\ Sleep # 0 /\ Planned \in Nat
  BY PlannedNat, KeepaliveAssumption DEF Sleep
<1>5. /\ Paced(NewTask) /\ ~Ready(NewTask) /\ ~Stale(NewTask) /\ NewTask.round = 0
      /\ Started(NewTask) = 0 /\ ~Asking(NewTask)
  <2>1. /\ NewTask.at = IF Planned = 0 THEN "ending" ELSE "asleep"
        /\ NewTask.left = Sleep /\ NewTask.round = 0 /\ ~NewTask.aborted
    BY DEF NewTask, NoTask
  <2> QED BY <1>4, <2>1 DEF Paced, Ready, Stale, Started, Asking
<1>6. ASSUME NEW t \in TaskStates, Paced(t)
      PROVE  /\ Paced(Aborted(t)) /\ (Ready(Aborted(t)) => Ready(t)) /\ (Asking(Aborted(t)) => Asking(t))
  <2>1. CASE Aborted(t) = Over
    BY <2>1, OverFacts DEF Paced, Ready, Asking, Awaits
  <2>2. CASE ~(Awaits(t) \/ t.at = "over")
    <3>1. PICK u : u = [t EXCEPT !.aborted = TRUE]
      OBVIOUS
    <3>2. Aborted(t) = u /\ u.at = t.at /\ u.left = t.left /\ u.round = t.round
      BY <2>2, <3>1 DEF Aborted, TaskStates
    <3> QED BY <1>6, <2>2, <3>2 DEF Paced, Ready, Asking, Awaits
  <2> QED BY <2>1, <2>2 DEF Aborted
<1>7. \A j \in Tasks : task[j] \in TaskStates /\ Paced(task[j])
  BY <1>2 DEF PingInv, HeldInv, Shape
<1>8. \A j \in Tasks : /\ Paced(task'[j]) /\ (Ready(task'[j]) => Ready(task[j]))
                       /\ (Asking(task'[j]) => Asking(task[j]))
  BY <1>3, <1>5, <1>6, <1>7
<1>9. ASSUME ~crossed' PROVE
        /\ \A i, j \in Tasks : Ready(task'[i]) /\ Ready(task'[j]) => i = j
        /\ \A i \in Tasks : Lives(task'[i]) => rounds' + Extra' <= Started(task'[i]) + 1
        /\ rounds' + Extra' <= Planned + 1
        /\ entry'.pings <= Planned
        /\ \A i \in Tasks : Asking(task'[i]) => entry'.pings < Planned
  <2>1. ~crossed /\ \A g \in Handlers : handler[g].at # "store"
    BY <1>1, <1>9
  <2>2. \A i, j \in Tasks : Ready(task'[i]) /\ Ready(task'[j]) => i = j
    BY <1>8, <2>1 DEF PingInv, Bounded
  <2>3. PICK e \in Int : e = Extra' /\ e <= 1
    BY DEF Extra
  <2>4. \A i \in Tasks : Lives(task'[i]) => i = n
    <3>1. \A j \in Tasks : Lives(task[j]) => entry # NoEntry /\ entry.timer = j
      BY <1>2, <2>1 DEF HeldInv, TimerHeld, Shape, Lives
    <3> QED BY <1>1, <1>7, <3>1, AbortedShape
  <2>5. \A i \in Tasks : Lives(task'[i]) => rounds' + e <= Started(task'[i]) + 1
    BY <1>1, <1>3, <1>5, <2>3, <2>4
  <2>6. rounds' + e <= Planned + 1
    <3>1. PICK p \in Nat : p = Planned
      BY <1>4
    <3>4. \A a \in Int, q \in Nat : a <= 1 => 0 + a <= q + 1
      OBVIOUS
    <3>2. 0 + e <= p + 1
      BY <2>3, <3>4
    <3>3. rounds' = 0
      BY <1>1
    <3> QED BY <3>1, <3>2, <3>3
  <2>7. entry'.pings = 0
    BY <1>1 DEF Fresh
  <2>8. ASSUME NEW i \in Tasks, Asking(task'[i]) PROVE 0 < Planned
    <3>1. task[i].round \in Int /\ 0 <= task[i].round /\ task[i].round < Planned
      BY <1>7, <1>8, <2>8 DEF Paced, TaskStates
    <3> QED BY <1>4, <3>1
  <2> QED BY <1>4, <2>2, <2>3, <2>5, <2>6, <2>7, <2>8
<1>10. rounds' \in Nat
  BY <1>1
<1> QED BY <1>2, <1>8, <1>9, <1>10 DEF PingInv, Bounded

\* Steps of the handlers that leave tasks, counts and pings alone.
LEMMA OthersKeepPings ==
  ASSUME PingInv, HeldInv', UNCHANGED <<task, rounds, crossed>>,
         entry' = NoEntry <=> entry = NoEntry, entry # NoEntry => entry'.pings = entry.pings
  PROVE  PingInv'
<1>1. Extra' = Extra
  BY DEF Extra, Stray
<1>2. Bounded'
  BY <1>1 DEF PingInv, Bounded
<1> QED BY <1>2 DEF PingInv

\* Time passes only when nobody is ready, and only the timer that goes on waits.
LEMMA TickKeepsPings ==
  ASSUME PingInv, Tick
  PROVE  PingInv'
<1>1. /\ \A i \in Tasks : Waits(task[i])
      /\ task' = [i \in Tasks |-> IF Awaits(task[i]) THEN [task[i] EXCEPT !.left = @ - 1] ELSE task[i]]
      /\ UNCHANGED <<entry, rounds, crossed>>
  BY DEF Tick
<1>2. HeldInv' /\ HeldInv
  BY TickKeepsHeld DEF PingInv
<1>3. \A i \in Tasks : /\ task[i] \in TaskStates /\ Paced(task[i])
                       /\ task[i].at \in {"none", "over", "asleep", "sending", "reached"}
  BY <1>1, <1>2 DEF PingInv, HeldInv, Shape, Waits, Awaits
<1>4. \A i \in Tasks : /\ task'[i].at = task[i].at /\ task'[i].round = task[i].round
                       /\ task'[i].aborted = task[i].aborted
  BY <1>1, <1>3 DEF TaskStates
<1>5. \A i \in Tasks : Paced(task'[i])
  BY <1>3, <1>4 DEF Paced, Asking, Awaits
<1>6. \A i \in Tasks : Ready(task'[i]) => Lives(task[i])
  BY <1>3, <1>4 DEF Ready, Asking, Paced, Awaits, Lives
<1>7. Extra' = Extra
  BY <1>3, <1>4 DEF Extra, Stray, Stale
<1>8. \A i \in Tasks : Started(task'[i]) = Started(task[i]) /\ (Lives(task'[i]) <=> Lives(task[i]))
                       /\ (Asking(task'[i]) <=> Asking(task[i]))
  BY <1>4 DEF Started, Asking, Lives
<1>9. ASSUME ~crossed' PROVE \A i, j \in Tasks : Ready(task'[i]) /\ Ready(task'[j]) => i = j
  BY <1>1, <1>2, <1>6, <1>9 DEF HeldInv, TimerHeld
<1>10. Bounded'
  BY <1>1, <1>7, <1>8, <1>9 DEF PingInv, Bounded
<1> QED BY <1>1, <1>2, <1>5, <1>10 DEF PingInv

LEMMA PingStep ==
  ASSUME PingInv, Margin < TTL, [Next]_vars
  PROVE  PingInv'
<1>1. HeldInv'
  BY StepKeepsHeld DEF PingInv
<1>2. ASSUME NEW h \in Handlers, Unanswered(h) \/ Ask(h) PROVE PingInv'
  BY <1>1, <1>2, OthersKeepPings DEF Unanswered, Ask
<1>3. ASSUME NEW h \in Handlers, Store(h) PROVE PingInv'
  <2>1. entry \in Entries /\ entry' = [entry EXCEPT !.timer = handler[h].task]
    BY <1>3 DEF Store, PingInv, HeldInv, Shape
  <2>2. entry'.pings = entry.pings /\ entry # NoEntry
    BY <2>1, KeepaliveAssumption DEF Entries
  <2>3. entry' # NoEntry
    <3>1. handler[h].task \in Nat
      BY DEF PingInv, HeldInv, Shape, HandlerStates
    <3>2. entry' \in Entries
      BY <2>1, <3>1 DEF Entries
    <3> QED BY <3>2, KeepaliveAssumption
  <2>4. UNCHANGED <<task, rounds, crossed>>
    BY <1>3 DEF Store
  <2> QED BY <1>1, <2>2, <2>3, <2>4, OthersKeepPings
<1>4. CASE UNCHANGED vars
  BY <1>1, <1>4, OthersKeepPings DEF vars
<1> QED BY <1>2, <1>3, <1>4, InsertKeepsPings, RunKeepsPings, TickKeepsPings DEF Next, Progress, Serve

LEMMA PingStart == Init => PingInv
<1> SUFFICES ASSUME Init PROVE PingInv
  OBVIOUS
<1>1. \A i \in Tasks : task[i].at = "none" /\ ~task[i].aborted
  BY DEF Init, NoTask
<1>2. \A i \in Tasks : Paced(task[i]) /\ ~Ready(task[i]) /\ ~Lives(task[i]) /\ ~Asking(task[i]) /\ ~Stale(task[i])
  BY <1>1 DEF Paced, Ready, Lives, Asking, Stale, Awaits
<1>3. Extra = 0 /\ rounds = 0 /\ entry = NoEntry
  BY <1>2 DEF Extra, Stray, Init
<1>4. Bounded
  BY <1>2, <1>3, PlannedNat DEF Bounded
<1> QED BY <1>2, <1>3, <1>4, InitHeld DEF PingInv

\* What a silent session costs, for any handlers, requests, horizon and latency, when a
\* timer waits at all before it wakes (the TTL is longer than the margin): the planned
\* pings, and at most one more by the timer that the last request could no longer stop.
THEOREM PingsBoundedCorrect == ASSUME Margin < TTL PROVE Spec => []PingsBounded
<1>1. Init => PingInv
  BY PingStart
<1>2. PingInv /\ [Next]_vars => PingInv'
  BY PingStep
<1>3. PingInv => PingsBounded
  <2> SUFFICES ASSUME PingInv, ~crossed PROVE rounds <= Planned + 1 /\ (entry # NoEntry => entry.pings <= Planned)
    BY DEF PingsBounded
  <2>1. PICK e \in Int : e = Extra /\ 0 <= e
    BY DEF Extra
  <2>2. rounds + e <= Planned + 1 /\ rounds \in Nat /\ Planned \in Nat
    BY <2>1, PlannedNat DEF PingInv, Bounded
  <2>3. rounds <= Planned + 1
    BY <2>1, <2>2
  <2> QED BY <2>3 DEF PingInv, Bounded
<1> QED BY <1>1, <1>2, <1>3, PTL DEF Spec

------------------------------------------------------------------------------
(* The counters of the keepalive *)

TimedTasks == [at : Places, left : 0 .. Sleep + Latency, round : 0 .. Planned, tokens : {0, 1},
               outcome : {"none", "sent", "refused", "network"}, aborted : BOOLEAN]
TimedHandlers == [at : {"idle", "asked", "store"}, wait : 0 .. Latency, task : Nat]
InRound(t) == t.at \in {"asleep", "woken", "sending", "reached", "answered"} => t.round < Planned

Unserved == {h \in Handlers : handler[h].at = "asked"}
Ended == {i \in Tasks : task[i].at = "over"}

TimerShape ==
  /\ entry # NoEntry => entry.timer <= spawned
  /\ task \in [Tasks -> TimedTasks] /\ \A i \in Tasks : InRound(task[i])
  /\ handler \in [Handlers -> TimedHandlers] /\ \A h \in Handlers : handler[h].task <= spawned
  /\ sinceTouch \in 0 .. TTL + 1 /\ lost \in BOOLEAN /\ rounds \in 0 .. Planned + 2

\* Every timer was spawned by a request that was asked, and costs its session one failure.
TimerCounts ==
  /\ calls \in 0 .. MaxCalls /\ spawned \in Nat
  /\ IsFiniteSet(Unserved) /\ spawned + Cardinality(Unserved) <= calls
  /\ belief \in [won : Nat, lost : Nat]
  /\ 1 <= belief.won /\ belief.won <= spawned + 1
  /\ 1 <= belief.lost /\ belief.lost <= Cardinality(Ended) + 1

TimerInv == HeldInv /\ TimerShape /\ TimerCounts

LEMMA TimerNumbers ==
  /\ Planned \in Nat /\ Sleep \in Nat /\ Latency \in Nat /\ TTL \in Nat /\ MaxCalls \in Nat
  /\ Sleep \in 0 .. Sleep + Latency /\ Latency \in 0 .. Sleep + Latency /\ 0 \in 0 .. Sleep + Latency
  /\ 0 \in 0 .. Planned
BY PlannedNat, KeepaliveAssumption

LEMMA TimerRecords ==
  /\ Over \in TimedTasks /\ InRound(Over) /\ NewTask \in TimedTasks /\ InRound(NewTask)
  /\ NoTask \in TimedTasks /\ InRound(NoTask)
<1>1. PICK lefts : lefts = 0 .. Sleep + Latency
  OBVIOUS
<1>2. PICK nth : nth = 0 .. Planned
  OBVIOUS
<1>3. Sleep \in lefts /\ 0 \in lefts /\ 0 \in nth
  BY <1>1, <1>2, TimerNumbers
<1>4. NoTask \in TimedTasks /\ InRound(NoTask)
  BY <1>1, <1>2, <1>3 DEF NoTask, TimedTasks, Places, InRound
<1>5. Over \in TimedTasks /\ InRound(Over)
  BY <1>1, <1>2, <1>3 DEF Over, NoTask, TimedTasks, Places, InRound
<1>6. PICK first : first = IF Planned = 0 THEN "ending" ELSE "asleep"
  OBVIOUS
<1>7. NewTask = [NoTask EXCEPT !.at = first, !.left = Sleep]
  BY <1>6 DEF NewTask
<1>8. first \in Places
  BY <1>6 DEF Places
<1>9. NewTask \in TimedTasks
  BY <1>1, <1>2, <1>3, <1>4, <1>7, <1>8 DEF TimedTasks
<1>10. NewTask.at = first /\ NewTask.round = 0
  BY <1>7 DEF NoTask
<1>11. InRound(NewTask)
  BY <1>6, <1>10, TimerNumbers DEF InRound
<1> QED BY <1>4, <1>5, <1>9, <1>11

\* How many timers have ended, and that none comes back.
LEMMA Endings ==
  ASSUME NEW n \in Nat, NEW f, NEW T, T = {i \in Tasks : f[i].at = "over"},
         \A i \in Tasks : i > n => f[i].at = "none"
  PROVE  IsFiniteSet(T) /\ Cardinality(T) \in Nat /\ Cardinality(T) <= n
<1>1. T \subseteq 1 .. n
  BY DEF Tasks
<1>2. IsFiniteSet(1 .. n) /\ Cardinality(1 .. n) = n
  BY FS_Interval
<1> QED BY <1>1, <1>2, FS_Subset, FS_CardinalityType

LEMMA EndingsGrow ==
  ASSUME HeldInv, HeldInv', Ended \subseteq Ended'
  PROVE  /\ Cardinality(Ended) \in Nat /\ Cardinality(Ended') \in Nat /\ IsFiniteSet(Ended)
         /\ Cardinality(Ended) <= Cardinality(Ended')
<1>1. spawned \in Nat /\ \A i \in Tasks : i > spawned => task[i].at = "none"
  BY DEF HeldInv, Shape
<1>2. spawned' \in Nat /\ \A i \in Tasks : i > spawned' => task'[i].at = "none"
  BY DEF HeldInv, Shape
<1>3. PICK S : S = Ended
  OBVIOUS
<1>4. PICK T : T = Ended'
  OBVIOUS
<1>5. S = {i \in Tasks : task[i].at = "over"} /\ T = {i \in Tasks : task'[i].at = "over"}
  BY <1>3, <1>4 DEF Ended
<1>6. IsFiniteSet(S) /\ Cardinality(S) \in Nat
  BY <1>1, <1>5, Endings
<1>7. IsFiniteSet(T) /\ Cardinality(T) \in Nat
  BY <1>2, <1>5, Endings
<1>8. S \in SUBSET T
  BY <1>3, <1>4
<1>9. Cardinality(S) <= Cardinality(T)
  BY <1>7, <1>8, FS_Subset
<1>10. Cardinality(Ended) = Cardinality(S) /\ Cardinality(Ended') = Cardinality(T)
  BY <1>3, <1>4
<1> QED BY <1>3, <1>6, <1>7, <1>9, <1>10

\* A task that goes on as u.
LEMMA GoesTimed ==
  ASSUME NEW i \in Tasks, NEW u \in TimedTasks, InRound(u), Goes(i, u), TimerShape
  PROVE  task' \in [Tasks -> TimedTasks] /\ \A j \in Tasks : InRound(task'[j])
<1>1. PICK v : v = IF u.aborted /\ Awaits(u) THEN Over ELSE u
  OBVIOUS
<1>2. v \in TimedTasks /\ InRound(v) /\ task' = [task EXCEPT ![i] = v]
  BY <1>1, TimerRecords DEF Goes
<1> QED BY <1>2 DEF TimerShape

LEMMA RunTimed ==
  ASSUME TimerInv, NEW i \in Tasks, Run(i)
  PROVE  task' \in [Tasks -> TimedTasks] /\ \A j \in Tasks : InRound(task'[j])
<1>1. PICK t \in TimedTasks : t = task[i] /\ InRound(t)
  BY DEF TimerInv, TimerShape
<1>2. PICK lefts : lefts = 0 .. Sleep + Latency
  OBVIOUS
<1>3. PICK nth : nth = 0 .. Planned
  OBVIOUS
<1>4. Sleep \in lefts /\ 0 \in lefts /\ Latency \in lefts
  BY <1>2, TimerNumbers
<1>5. CASE Wake(i)
  <2>1. PICK u : u = [t EXCEPT !.at = "woken"]
    OBVIOUS
  <2>2. u \in TimedTasks /\ u.round = t.round
    BY <2>1 DEF TimedTasks, Places
  <2>3. InRound(u)
    BY <1>1, <1>5, <2>2 DEF InRound, Wake
  <2> QED BY <1>1, <1>5, <2>1, <2>2, <2>3, GoesTimed DEF Wake, TimerInv
<1>6. CASE Snapshot(i)
  <2>1. PICK u : u = [t EXCEPT !.at = "sending", !.left = Latency, !.tokens = entry.tokens]
    OBVIOUS
  <2>2. entry.tokens \in {0, 1} /\ "sending" \in Places
    BY <1>6 DEF Snapshot, TimerInv, HeldInv, Shape, Entries, Places
  <2>3. u \in TimedTasks /\ u.round = t.round
    BY <1>2, <1>4, <2>1, <2>2 DEF TimedTasks
  <2>4. InRound(u)
    BY <1>1, <1>6, <2>3 DEF InRound, Snapshot
  <2>5. Goes(i, u) \/ Goes(i, Over)
    BY <1>1, <1>6, <2>1 DEF Snapshot
  <2> QED BY <2>3, <2>4, <2>5, GoesTimed, TimerRecords DEF TimerInv
<1>7. CASE Retry(i)
  <2>1. PICK u : u = [t EXCEPT !.tokens = 1]
    OBVIOUS
  <2>2. u \in TimedTasks /\ u.round = t.round /\ u.at = t.at
    BY <2>1 DEF TimedTasks
  <2> QED BY <1>1, <1>7, <2>1, <2>2, GoesTimed DEF Retry, InRound, TimerInv
<1>8. CASE Reach(i)
  <2>1. PICK u : u = [t EXCEPT !.at = "reached"]
    OBVIOUS
  <2>2. u \in TimedTasks /\ u.round = t.round
    BY <2>1 DEF TimedTasks, Places
  <2>3. InRound(u)
    BY <1>1, <1>8, <2>2 DEF InRound, Reach
  <2> QED BY <1>1, <1>8, <2>1, <2>2, <2>3, GoesTimed DEF Reach, TimerInv
<1>9. CASE Answer(i)
  <2>1. PICK o \in {"sent", "network", "refused"} :
          Goes(i, [t EXCEPT !.at = "answered", !.left = 0, !.outcome = o])
    BY <1>1, <1>9 DEF Answer
  <2>2. PICK u : u = [t EXCEPT !.at = "answered", !.left = 0, !.outcome = o]
    OBVIOUS
  <2>3. u \in TimedTasks /\ u.round = t.round
    BY <1>2, <1>4, <2>2 DEF TimedTasks, Places
  <2>4. InRound(u)
    BY <1>1, <1>9, <2>3 DEF InRound, Answer
  <2> QED BY <2>1, <2>2, <2>3, <2>4, GoesTimed DEF TimerInv
<1>10. CASE Apply(i)
  <2>1. PICK u : u = NextRound(t)
    OBVIOUS
  <2>2. PICK place \in Places : place = IF t.round + 1 = Planned THEN "ending" ELSE "asleep"
    BY DEF Places
  <2>3. t.at = "answered" /\ (Goes(i, u) \/ Goes(i, Over))
    BY <1>1, <1>10, <2>1 DEF Apply
  <2>4. t.round + 1 \in 0 .. Planned
    BY <1>1, <2>3, TimerNumbers DEF InRound, TimedTasks
  <2>5. u = [t EXCEPT !.round = t.round + 1, !.at = place, !.left = Sleep, !.tokens = 0, !.outcome = "none"]
    BY <2>1, <2>2 DEF NextRound, TimedTasks
  <2>6. u \in TimedTasks /\ u.round = t.round + 1 /\ u.at = place
    BY <1>2, <1>3, <1>4, <2>4, <2>5 DEF TimedTasks
  <2>7. InRound(u)
    BY <2>2, <2>4, <2>6, TimerNumbers DEF InRound
  <2> QED BY <2>3, <2>6, <2>7, GoesTimed, TimerRecords DEF TimerInv
<1>11. CASE Penalize(i)
  BY <1>11, GoesTimed, TimerRecords DEF Penalize, TimerInv
<1> QED BY <1>5, <1>6, <1>7, <1>8, <1>9, <1>10, <1>11 DEF Run

\* The requests that have been asked, when nobody asks or is answered.
LEMMA AskedStays ==
  ASSUME \A h \in Handlers : handler'[h].at = "asked" <=> handler[h].at = "asked"
  PROVE  Unserved' = Unserved
BY DEF Unserved

\* Steps that change no belief.
LEMMA BeliefStays ==
  ASSUME TimerInv, HeldInv', UNCHANGED <<belief, spawned, calls>>, Unserved' = Unserved, Ended \subseteq Ended'
  PROVE  TimerCounts'
<1>1. PICK m \in Nat, n \in Nat : m = Cardinality(Ended) /\ n = Cardinality(Ended') /\ m <= n
  BY EndingsGrow DEF TimerInv
<1>2. belief.lost \in Nat /\ belief.lost <= m + 1
  BY <1>1 DEF TimerInv, TimerCounts
<1>3. belief.lost <= n + 1
  BY <1>1, <1>2
<1> QED BY <1>1, <1>3 DEF TimerInv, TimerCounts

LEMMA RunCounts ==
  ASSUME TimerInv, NEW i \in Tasks, Run(i)
  PROVE  TimerInv'
<1>1. HeldInv' /\ HeldInv
  BY RunKeepsHeld DEF TimerInv
<1>2. /\ \A j \in Tasks : j # i => task'[j] = task[j]
      /\ UNCHANGED <<handler, spawned, crossed>>
      /\ entry' \in Entries /\ entry'.timer = entry.timer /\ task[i].at # "none"
  BY RunShape DEF TimerInv, HeldInv
<1>3. task[i].at # "over" /\ UNCHANGED calls
  BY DEF Run, Wake, Snapshot, Retry, Reach, Answer, Apply, Penalize, world
<1>4. Unserved' = Unserved
  BY <1>2, AskedStays
<1>5. Ended \subseteq Ended'
  BY <1>2, <1>3 DEF Ended
<1>6. TimerCounts'
  <2>1. CASE UNCHANGED belief
    BY <1>1, <1>2, <1>3, <1>4, <1>5, <2>1, BeliefStays
  <2>2. CASE Penalize(i)
    <3>1. belief' = [belief EXCEPT !.lost = @ + 1] /\ task'[i] = Over
      BY <2>2, NewTaskShape, GoesTo DEF Penalize, TimerInv, HeldInv, Shape
    <3>2. Ended' = Ended \cup {i} /\ i \notin Ended
      BY <1>2, <1>3, <3>1, OverFacts DEF Ended
    <3>3. PICK m \in Nat : m = Cardinality(Ended) /\ Cardinality(Ended') = m + 1
      BY <1>1, <1>5, <3>2, EndingsGrow, FS_AddElement
    <3>4. /\ belief \in [won : Nat, lost : Nat] /\ 1 <= belief.lost /\ belief.lost <= m + 1
          /\ 1 <= belief.won /\ belief.won <= spawned + 1
      BY <3>3 DEF TimerInv, TimerCounts
    <3>5. PICK k \in Nat : k = belief.lost /\ 1 <= k /\ k <= m + 1
      BY <3>4
    <3>6. belief' \in [won : Nat, lost : Nat] /\ belief'.lost = k + 1 /\ belief'.won = belief.won
      BY <3>1, <3>4, <3>5
    <3>7. 1 <= k + 1 /\ k + 1 <= (m + 1) + 1
      BY <3>5
    <3>8. 1 <= belief'.lost /\ belief'.lost <= Cardinality(Ended') + 1
      BY <3>3, <3>6, <3>7
    <3>9. calls' \in 0 .. MaxCalls /\ spawned' \in Nat /\ IsFiniteSet(Unserved')
          /\ spawned' + Cardinality(Unserved') <= calls'
      BY <1>2, <1>3, <1>4 DEF TimerInv, TimerCounts
    <3>10. 1 <= belief'.won /\ belief'.won <= spawned' + 1
      BY <1>2, <3>4, <3>6
    <3> QED BY <3>6, <3>8, <3>9, <3>10 DEF TimerCounts
  <2> QED BY <2>1, <2>2 DEF Run, Wake, Snapshot, Retry, Reach, Answer, Apply
<1>7. sinceTouch' \in 0 .. TTL + 1 /\ lost' \in BOOLEAN /\ rounds' \in 0 .. Planned + 2
  <2>1. /\ sinceTouch \in 0 .. TTL + 1 /\ lost \in BOOLEAN /\ rounds \in 0 .. Planned + 2
        /\ 0 \in 0 .. TTL + 1
    BY TimerNumbers DEF TimerInv, TimerShape
  <2>2. sinceTouch' = sinceTouch \/ sinceTouch' = 0
    BY DEF Run, Wake, Snapshot, Retry, Reach, Answer, Apply, Penalize
  <2>3. lost' = lost \/ \E o \in {"sent", "network", "refused"} : lost' = (lost \/ o # "sent")
    BY DEF Run, Wake, Snapshot, Retry, Reach, Answer, Apply, Penalize
  <2>4. rounds' = rounds \/ (rounds < Planned + 2 /\ rounds' = rounds + 1)
    BY DEF Run, Wake, Snapshot, Retry, Reach, Answer, Apply, Penalize
  <2>5. rounds' \in 0 .. Planned + 2
    BY <2>1, <2>4, TimerNumbers
  <2>6. lost' \in BOOLEAN
    BY <2>1, <2>3
  <2> QED BY <2>1, <2>2, <2>5, <2>6
<1>8. entry # NoEntry /\ entry.timer <= spawned
  BY <1>2 DEF TimerInv, TimerShape, HeldInv, Shape
<1>9. TimerShape'
  BY <1>2, <1>7, <1>8, RunTimed DEF TimerInv, TimerShape
<1> QED BY <1>1, <1>6, <1>9 DEF TimerInv

\* A record: one more timer, one request fewer that waits for its answer.
LEMMA InsertCounts ==
  ASSUME TimerInv, NEW h \in Handlers, Insert(h)
  PROVE  TimerInv'
<1> DEFINE timer == IF entry = NoEntry THEN 0 ELSE entry.timer
           n == spawned + 1
<1>1. /\ handler[h].at = "asked" /\ spawned' = n /\ entry' = Fresh
      /\ task' = [j \in Tasks |-> IF j = n THEN NewTask
                                  ELSE IF j = timer THEN Aborted(task[j]) ELSE task[j]]
      /\ belief' = (IF Bridged(entry) THEN [belief EXCEPT !.won = @ + 1] ELSE belief)
      /\ handler' = [handler EXCEPT ![h].at = "store", ![h].task = n]
      /\ lost' = FALSE /\ rounds' = 0 /\ UNCHANGED <<calls, sinceTouch>>
  BY DEF Insert
<1>2. HeldInv' /\ HeldInv
  BY InsertKeepsHeld DEF TimerInv
<1>3. \A j \in Tasks : /\ j = n => task'[j] = NewTask
                       /\ j # n => task'[j] \in {task[j], Aborted(task[j])}
  BY <1>1
<1>4. spawned \in Nat /\ handler \in [Handlers -> TimedHandlers]
      /\ \A g \in Handlers : handler[g].task <= spawned
  BY DEF TimerInv, TimerShape, TimerCounts
<1>5. /\ handler'[h].at = "store" /\ handler'[h].task = n /\ handler' \in [Handlers -> TimedHandlers]
      /\ \A g \in Handlers : g # h => handler'[g] = handler[g]
  <2>1. PICK t \in TimedHandlers : t = handler[h]
    BY <1>4
  <2>2. PICK lates : lates = 0 .. Latency
    OBVIOUS
  <2>3. PICK k \in Nat : k = n
    BY <1>4
  <2>4. PICK u : u = [t EXCEPT !.at = "store", !.task = k]
    OBVIOUS
  <2>5. u \in TimedHandlers /\ u.at = "store" /\ u.task = k
    BY <2>2, <2>4 DEF TimedHandlers
  <2>6. handler' = [handler EXCEPT ![h] = u]
    BY <1>1, <1>4, <2>1, <2>3, <2>4
  <2> QED BY <1>4, <2>3, <2>5, <2>6
<1>6. ASSUME NEW t \in TimedTasks, InRound(t) PROVE Aborted(t) \in TimedTasks /\ InRound(Aborted(t))
  <2>1. CASE Aborted(t) = Over
    BY <2>1, TimerRecords
  <2>2. CASE ~(Awaits(t) \/ t.at = "over")
    <3>1. PICK u : u = [t EXCEPT !.aborted = TRUE]
      OBVIOUS
    <3>2. u \in TimedTasks /\ u.at = t.at /\ u.round = t.round /\ Aborted(t) = u
      BY <2>2, <3>1 DEF TimedTasks, Aborted
    <3> QED BY <1>6, <3>2 DEF InRound
  <2> QED BY <2>1, <2>2 DEF Aborted
<1>7. task' \in [Tasks -> TimedTasks] /\ \A j \in Tasks : InRound(task'[j])
  <2>1. \A j \in Tasks : task'[j] \in TimedTasks /\ InRound(task'[j])
    BY <1>3, <1>6, TimerRecords DEF TimerInv, TimerShape
  <2> QED BY <1>1, <2>1
<1>8. TimerShape'
  <2>1. entry'.timer = 0
    BY <1>1 DEF Fresh
  <2>2. \A g \in Handlers : handler'[g].task <= n
    <3>1. \A g \in Handlers : handler[g].task \in Nat /\ handler'[g].task \in Nat
      BY <1>4, <1>5 DEF TimedHandlers
    <3> QED BY <1>4, <1>5, <3>1
  <2>3. sinceTouch' \in 0 .. TTL + 1 /\ lost' \in BOOLEAN /\ rounds' \in 0 .. Planned + 2
    <3>1. sinceTouch' \in 0 .. TTL + 1 /\ lost' = FALSE
      BY <1>1 DEF TimerInv, TimerShape
    <3>2. rounds' \in 0 .. Planned + 2
      BY <1>1, TimerNumbers
    <3> QED BY <3>1, <3>2
  <2>4. entry'.timer <= spawned'
    BY <1>1, <1>4, <2>1
  <2> QED BY <1>1, <1>5, <1>7, <2>2, <2>3, <2>4 DEF TimerShape
<1>9. TimerCounts'
  <2>1. Unserved' = Unserved \ {h} /\ h \in Unserved
    BY <1>1, <1>5 DEF Unserved
  <2>2. IsFiniteSet(Unserved) /\ spawned + Cardinality(Unserved) <= calls /\ calls \in 0 .. MaxCalls
    BY DEF TimerInv, TimerCounts
  <2>3. PICK a \in Nat : a = Cardinality(Unserved)
    BY <2>2, FS_CardinalityType
  <2>4. IsFiniteSet(Unserved') /\ Cardinality(Unserved') = a - 1
    BY <2>1, <2>2, <2>3, FS_RemoveElement
  <2>5. PICK c \in Nat : c = calls /\ spawned + a <= c
    BY <2>2, <2>3, TimerNumbers
  <2>6. n + (a - 1) <= c /\ n \in Nat
    BY <1>4, <2>5
  <2>7. Ended \subseteq Ended'
    <3>1. n \notin Ended
      BY <1>2 DEF HeldInv, Shape, Ended
    <3>2. \A j \in Tasks : task[j].at = "over" => Aborted(task[j]) = Over
      BY DEF Aborted
    <3> QED BY <1>3, <3>1, <3>2, OverFacts DEF Ended
  <2>8. PICK p \in Nat, q \in Nat : p = Cardinality(Ended) /\ q = Cardinality(Ended') /\ p <= q
    BY <1>2, <2>7, EndingsGrow
  <2>9. /\ belief \in [won : Nat, lost : Nat] /\ 1 <= belief.lost /\ belief.lost <= p + 1
        /\ 1 <= belief.won /\ belief.won <= spawned + 1
    BY <2>8 DEF TimerInv, TimerCounts
  <2>10. PICK v \in Nat, w \in Nat : v = belief.lost /\ w = belief.won
    BY <2>9
  <2>11. belief' \in [won : Nat, lost : Nat] /\ belief'.lost = v /\ belief'.won \in {w, w + 1}
    BY <1>1, <2>9, <2>10
  <2>12. 1 <= w /\ w <= spawned + 1 /\ 1 <= v /\ v <= p + 1
    BY <2>9, <2>10
  <2>13. 1 <= belief'.won /\ belief'.won <= n + 1
    BY <1>4, <2>11, <2>12
  <2>14. 1 <= belief'.lost /\ belief'.lost <= q + 1
    BY <2>8, <2>11, <2>12
  <2>15. spawned' + Cardinality(Unserved') <= calls' /\ calls' \in 0 .. MaxCalls /\ spawned' \in Nat
    BY <1>1, <2>2, <2>4, <2>5, <2>6
  <2> QED BY <1>1, <2>4, <2>8, <2>11, <2>13, <2>14, <2>15 DEF TimerCounts
<1> QED BY <1>2, <1>8, <1>9 DEF TimerInv

\* The other steps of the handlers.
LEMMA ServeCounts ==
  ASSUME TimerInv, NEW h \in Handlers, Ask(h) \/ Unanswered(h) \/ Store(h)
  PROVE  TimerInv'
<1>1. HeldInv' /\ HeldInv
  BY StepKeepsHeld DEF TimerInv, Next, Progress, Serve
<1>2. PICK t \in TimedHandlers : t = handler[h] /\ t.task <= spawned
  BY DEF TimerInv, TimerShape
<1>3. PICK lates : lates = 0 .. Latency /\ 0 \in lates
  BY TimerNumbers
<1>4. spawned \in Nat /\ UNCHANGED <<task, belief, spawned, lost, rounds>>
  BY DEF Ask, Unanswered, Store, TimerInv, TimerCounts
<1>5. PICK u \in TimedHandlers : /\ handler' = [handler EXCEPT ![h] = u] /\ u.task <= spawned
                                 /\ u.at = (IF Ask(h) THEN "asked" ELSE "idle")
  <2>1. CASE Ask(h)
    <3>1. PICK u : u = [t EXCEPT !.at = "asked", !.wait = 0]
      OBVIOUS
    <3>2. u \in TimedHandlers /\ u.at = "asked" /\ u.task = t.task
      BY <1>3, <3>1 DEF TimedHandlers
    <3>3. handler' = [handler EXCEPT ![h] = u]
      BY <1>2, <2>1, <3>1 DEF Ask, TimerInv, TimerShape
    <3> QED BY <1>2, <2>1, <3>2, <3>3
  <2>2. CASE Unanswered(h)
    <3>1. PICK u : u = [t EXCEPT !.at = "idle"]
      OBVIOUS
    <3>2. u \in TimedHandlers /\ u.at = "idle" /\ u.task = t.task
      BY <1>3, <3>1 DEF TimedHandlers
    <3>3. handler' = [handler EXCEPT ![h] = u] /\ ~Ask(h)
      BY <1>2, <2>2, <3>1 DEF Ask, Unanswered, TimerInv, TimerShape
    <3> QED BY <1>2, <3>2, <3>3
  <2>3. CASE Store(h)
    <3>1. PICK u : u = [t EXCEPT !.at = "idle", !.task = 0]
      OBVIOUS
    <3>2. u \in TimedHandlers /\ u.at = "idle" /\ u.task = 0
      BY <1>3, <3>1 DEF TimedHandlers
    <3>3. handler' = [handler EXCEPT ![h] = u] /\ ~Ask(h)
      BY <1>2, <2>3, <3>1 DEF Ask, Store, TimerInv, TimerShape
    <3>4. u.task <= spawned
      BY <1>4, <3>2
    <3> QED BY <3>2, <3>3, <3>4
  <2> QED BY <2>1, <2>2, <2>3
<1>6. /\ handler' \in [Handlers -> TimedHandlers] /\ handler'[h] = u
      /\ \A g \in Handlers : g # h => handler'[g] = handler[g]
  BY <1>5 DEF TimerInv, TimerShape
<1>7. entry' # NoEntry => entry'.timer <= spawned
  <2>1. CASE UNCHANGED entry
    BY <2>1 DEF TimerInv, TimerShape
  <2>2. CASE Store(h)
    <3>1. entry \in Entries /\ entry' = [entry EXCEPT !.timer = handler[h].task]
      BY <2>2 DEF Store, TimerInv, HeldInv, Shape
    <3>2. entry'.timer = handler[h].task
      BY <3>1 DEF Entries
    <3> QED BY <1>2, <3>2
  <2> QED BY <2>1, <2>2 DEF Ask, Unanswered
<1>8. sinceTouch' \in 0 .. TTL + 1
  <2>1. sinceTouch' = sinceTouch \/ sinceTouch' = 0
    BY DEF Ask, Unanswered, Store
  <2> QED BY <2>1, TimerNumbers DEF TimerInv, TimerShape
<1>9. TimerShape'
  BY <1>2, <1>4, <1>5, <1>6, <1>7, <1>8 DEF TimerInv, TimerShape
<1>10. Ended' = Ended
  BY <1>4 DEF Ended
<1>11. TimerCounts'
  <2>1. IsFiniteSet(Unserved) /\ spawned + Cardinality(Unserved) <= calls /\ calls \in 0 .. MaxCalls
    BY DEF TimerInv, TimerCounts
  <2>2. PICK a \in Nat, c \in Nat : a = Cardinality(Unserved) /\ c = calls /\ spawned + a <= c
    BY <2>1, FS_CardinalityType, TimerNumbers
  <2>3. CASE Ask(h)
    <3>1. Unserved' = Unserved \cup {h} /\ h \notin Unserved
      BY <1>5, <1>6, <2>3 DEF Unserved, Ask
    <3>2. IsFiniteSet(Unserved') /\ Cardinality(Unserved') = a + 1
      BY <2>1, <2>2, <3>1, FS_AddElement
    <3>3. calls' = c + 1 /\ c + 1 \in 0 .. MaxCalls
      BY <2>2, <2>3, TimerNumbers DEF Ask
    <3>4. spawned + (a + 1) <= c + 1
      BY <1>4, <2>2
    <3> QED BY <1>4, <1>10, <3>2, <3>3, <3>4 DEF TimerInv, TimerCounts
  <2>4. CASE Unanswered(h)
    <3>1. Unserved' = Unserved \ {h} /\ h \in Unserved
      BY <1>5, <1>6, <2>4 DEF Unserved, Unanswered, Ask
    <3>2. IsFiniteSet(Unserved') /\ Cardinality(Unserved') = a - 1
      BY <2>1, <2>2, <3>1, FS_RemoveElement
    <3>3. calls' = c
      BY <2>2, <2>4 DEF Unanswered
    <3>4. spawned + (a - 1) <= c
      BY <1>4, <2>2
    <3> QED BY <1>4, <1>10, <2>1, <2>2, <3>2, <3>3, <3>4 DEF TimerInv, TimerCounts
  <2>5. CASE Store(h)
    <3>1. Unserved' = Unserved
      BY <1>5, <1>6, <2>5 DEF Unserved, Store, Ask
    <3> QED BY <1>1, <1>4, <1>10, <2>5, <3>1, BeliefStays DEF Store
  <2> QED BY <2>3, <2>4, <2>5
<1> QED BY <1>1, <1>9, <1>11 DEF TimerInv

\* Time.
LEMMA TickCounts ==
  ASSUME TimerInv, Tick
  PROVE  TimerInv'
<1>1. HeldInv' /\ HeldInv
  BY TickKeepsHeld DEF TimerInv
<1>2. /\ \A i \in Tasks : Waits(task[i])
      /\ \A h \in Handlers : handler[h].at = "idle" \/ (handler[h].at = "asked" /\ handler[h].wait < Latency)
      /\ task' = [i \in Tasks |-> IF Awaits(task[i]) THEN [task[i] EXCEPT !.left = @ - 1] ELSE task[i]]
      /\ handler' = [h \in Handlers |-> IF handler[h].at = "asked" THEN [handler[h] EXCEPT !.wait = @ + 1]
                                        ELSE handler[h]]
      /\ sinceTouch' = (IF sinceTouch > TTL THEN sinceTouch ELSE sinceTouch + 1)
      /\ UNCHANGED <<entry, belief, calls, spawned, lost, rounds, crossed>>
  BY DEF Tick
<1>3. ASSUME NEW i \in Tasks
      PROVE task'[i] \in TimedTasks /\ task'[i].at = task[i].at /\ task'[i].round = task[i].round
  <2>1. PICK t \in TimedTasks : t = task[i]
    BY DEF TimerInv, TimerShape
  <2>2. CASE Awaits(t)
    <3>1. PICK lefts : lefts = 0 .. Sleep + Latency
      OBVIOUS
    <3>2. t.left > 0 /\ t.left \in 0 .. Sleep + Latency
      BY <1>2, <2>1, <2>2 DEF Waits, TimedTasks, Awaits
    <3>3. PICK k \in lefts : k = t.left - 1
      BY <3>1, <3>2, TimerNumbers
    <3>4. PICK u : u = [t EXCEPT !.left = k]
      OBVIOUS
    <3>5. u \in TimedTasks /\ u.at = t.at /\ u.round = t.round
      BY <3>1, <3>4 DEF TimedTasks
    <3> QED BY <1>2, <2>1, <2>2, <3>3, <3>4, <3>5
  <2> QED BY <1>2, <2>1, <2>2
<1>4. ASSUME NEW h \in Handlers
      PROVE handler'[h] \in TimedHandlers /\ handler'[h].at = handler[h].at /\ handler'[h].task = handler[h].task
  <2>1. PICK t \in TimedHandlers : t = handler[h]
    BY DEF TimerInv, TimerShape
  <2>2. CASE t.at = "asked"
    <3>1. PICK lates : lates = 0 .. Latency
      OBVIOUS
    <3>2. t.wait < Latency /\ t.wait \in 0 .. Latency
      BY <1>2, <2>1, <2>2 DEF TimedHandlers
    <3>3. PICK k \in lates : k = t.wait + 1
      BY <3>1, <3>2, TimerNumbers
    <3>4. PICK u : u = [t EXCEPT !.wait = k]
      OBVIOUS
    <3>5. u \in TimedHandlers /\ u.at = t.at /\ u.task = t.task
      BY <3>1, <3>4 DEF TimedHandlers
    <3> QED BY <1>2, <2>1, <2>2, <3>3, <3>4, <3>5
  <2> QED BY <1>2, <2>1, <2>2
<1>5. sinceTouch' \in 0 .. TTL + 1
  BY <1>2, TimerNumbers DEF TimerInv, TimerShape
<1>6. task' \in [Tasks -> TimedTasks] /\ handler' \in [Handlers -> TimedHandlers]
  BY <1>2, <1>3, <1>4
<1>7. TimerShape'
  BY <1>2, <1>3, <1>4, <1>5, <1>6 DEF TimerInv, TimerShape, InRound
<1>8. Unserved' = Unserved /\ Ended' = Ended
  BY <1>3, <1>4 DEF Unserved, Ended
<1> QED BY <1>1, <1>2, <1>7, <1>8, BeliefStays DEF TimerInv

LEMMA TimerStart == Init => TimerInv
<1> SUFFICES ASSUME Init PROVE TimerInv
  OBVIOUS
<1>1. entry = NoEntry /\ task \in [Tasks -> TimedTasks] /\ \A i \in Tasks : InRound(task[i])
  BY TimerRecords DEF Init
<1>2. handler \in [Handlers -> TimedHandlers] /\ \A h \in Handlers : handler[h].task = 0
  BY TimerNumbers DEF Init, TimedHandlers
<1>3. Unserved = {} /\ Ended = {}
  BY DEF Init, Unserved, Ended, NoTask
<1>4. IsFiniteSet(Unserved) /\ Cardinality(Unserved) = 0 /\ Cardinality(Ended) = 0
  BY <1>3, FS_EmptySet
<1>5. calls = 0 /\ spawned = 0 /\ lost = FALSE /\ rounds = 0 /\ sinceTouch = TTL + 1
  BY DEF Init
<1>6. TimerShape
  <2>1. rounds \in 0 .. Planned + 2 /\ sinceTouch \in 0 .. TTL + 1
    BY <1>5, TimerNumbers
  <2>2. \A h \in Handlers : handler[h].task <= spawned
    BY <1>2, <1>5
  <2> QED BY <1>1, <1>2, <1>5, <2>1, <2>2 DEF TimerShape
<1>7. TimerCounts
  BY <1>4, <1>5, TimerNumbers DEF TimerCounts, Init
<1> QED BY <1>6, <1>7, InitHeld DEF TimerInv

LEMMA TimerStep == TimerInv /\ [Next]_vars => TimerInv'
<1> SUFFICES ASSUME TimerInv, [Next]_vars PROVE TimerInv'
  OBVIOUS
<1>1. CASE UNCHANGED vars
  <2>1. HeldInv'
    BY StepKeepsHeld DEF TimerInv
  <2>2. TimerShape' /\ TimerCounts'
    BY <1>1 DEF vars, TimerInv, TimerShape, TimerCounts, Unserved, Ended
  <2> QED BY <2>1, <2>2 DEF TimerInv
<1> QED BY <1>1, RunCounts, InsertCounts, ServeCounts, TickCounts DEF Next, Progress, Serve

LEMMA TimerTypes == TimerInv => TypeOK
<1> SUFFICES ASSUME TimerInv PROVE TypeOK
  OBVIOUS
<1>1. PICK a \in Nat, c \in Nat : a = Cardinality(Unserved) /\ c = calls /\ spawned + a <= c
  BY FS_CardinalityType, TimerNumbers DEF TimerInv, TimerCounts
<1>2. spawned \in Nat /\ spawned \in 0 .. c
  BY <1>1 DEF TimerInv, TimerCounts
<1>3. PICK e \in Nat : e = Cardinality(Ended) /\ e <= spawned
  BY <1>2, Endings DEF TimerInv, HeldInv, Shape, Ended
<1>4. belief \in [won : Nat, lost : Nat] /\ 1 <= belief.won /\ belief.won <= spawned + 1
      /\ 1 <= belief.lost /\ belief.lost <= e + 1
  BY <1>3 DEF TimerInv, TimerCounts
<1>5. belief.won \in 1 .. c + 1 /\ belief.lost \in 1 .. spawned + 1
  BY <1>1, <1>2, <1>3, <1>4
<1>6. belief \in [won : 1 .. calls + 1, lost : 1 .. spawned + 1]
  BY <1>1, <1>4, <1>5
<1>7. handler \in [Handlers -> [at : {"idle", "asked", "store"}, wait : 0 .. Latency, task : 0 .. spawned]]
  <2>1. PICK those : those = 0 .. spawned
    OBVIOUS
  <2>2. \A h \in Handlers : handler[h] \in TimedHandlers /\ handler[h].task \in those
    BY <1>2, <2>1 DEF TimerInv, TimerShape, TimedHandlers
  <2>3. handler \in [Handlers -> [at : {"idle", "asked", "store"}, wait : 0 .. Latency, task : those]]
    BY <2>2 DEF TimerInv, TimerShape, TimedHandlers
  <2> QED BY <2>1, <2>3
<1>8. entry = NoEntry \/ (entry \in Entries /\ entry.timer <= spawned)
  BY DEF TimerInv, TimerShape, HeldInv, Shape
<1>9. task \in [Tasks -> TimedTasks] /\ sinceTouch \in 0 .. TTL + 1 /\ lost \in BOOLEAN
      /\ rounds \in 0 .. Planned + 2 /\ crossed \in BOOLEAN /\ calls \in 0 .. MaxCalls
  BY DEF TimerInv, TimerShape, TimerCounts, HeldInv, Shape
<1> QED BY <1>1, <1>2, <1>6, <1>7, <1>8, <1>9 DEF TypeOK, TimedTasks, Places

\* The type of the keepalive's state, which bounds its counters: no more timers than answered
\* requests, no more successes than timers, and no more failures than timers that have ended,
\* so a session's belief cannot be charged twice for one timer.
THEOREM TimerTypeCorrect == Spec => []TypeOK
BY TimerTypes, TimerStart, TimerStep, PTL DEF Spec

------------------------------------------------------------------------------
(* A session that is never pinged again *)

\* One more failure does not open a gate that was closed.
LEMMA FailureCloses ==
  ASSUME NEW b \in [won : Nat, lost : Nat], ~ShouldPing(b, Planned)
  PROVE  ~ShouldPing([b EXCEPT !.lost = @ + 1], Planned)
<1>1. PICK w \in Nat, l \in Nat, p \in Nat : w = b.won /\ l = b.lost /\ p = Planned
  BY PlannedNat
<1>2. PICK r \in Nat : r = 2 * p
  BY <1>1
<1>3. 25 * w <= r * (w + l)
  BY <1>1, <1>2 DEF ShouldPing
<1>4. r * (w + (l + 1)) = r * (w + l) + r /\ r * (w + l) \in Nat /\ 25 * w \in Nat
  BY <1>2
<1>5. ~(25 * w > r * (w + (l + 1)))
  BY <1>3, <1>4, <1>2
<1>6. [b EXCEPT !.lost = @ + 1].won = w /\ [b EXCEPT !.lost = @ + 1].lost = l + 1
  BY <1>1
<1> QED BY <1>1, <1>2, <1>5, <1>6 DEF ShouldPing

\* A step of one task that does not ask, for a session whose gate is closed.
LEMMA QuietMove ==
  ASSUME TimerInv, Quiet, NEW i \in Tasks, Run(i)
  PROVE  Quiet'
<1>1. /\ entry \in Entries /\ entry # NoEntry /\ entry.pings = 0 /\ ~ShouldPing(belief, Planned)
      /\ \A j \in Tasks : ~Asking(task[j])
  BY DEF Quiet, Asking, TimerInv, HeldInv, Shape
<1>2. /\ \A j \in Tasks : j # i => task'[j] = task[j]
      /\ task \in [Tasks -> TaskStates]
  BY RunShape DEF TimerInv, HeldInv, Shape
<1>3. CASE Wake(i)
  <2>1. PICK t \in TaskStates : t = task[i]
    BY <1>2
  <2>2. PICK u : u = [t EXCEPT !.at = "woken"]
    OBVIOUS
  <2>3. u \in TaskStates /\ u.at = "woken" /\ Goes(i, u)
    BY <1>3, <2>1, <2>2 DEF Wake, TaskStates, Places
  <2>4. task'[i].at \in {"woken", "over"} /\ UNCHANGED <<entry, belief>>
    BY <1>2, <1>3, <2>3, GoesTo, OverFacts DEF Wake
  <2> QED BY <1>1, <1>2, <2>4 DEF Quiet, Asking
<1>4. CASE Snapshot(i)
  <2>1. ~Gate(entry)
    <3>1. Planned - entry.pings = Planned
      BY <1>1, PlannedNat
    <3> QED BY <1>1, <3>1 DEF Gate
  <2>2. Goes(i, Over) /\ UNCHANGED <<entry, belief>>
    BY <1>4, <2>1 DEF Snapshot
  <2>3. task'[i] = Over
    BY <1>2, <2>2, NewTaskShape, GoesTo
  <2> QED BY <1>1, <1>2, <2>2, <2>3, OverFacts DEF Quiet, Asking
<1>5. CASE Penalize(i)
  <2>1. task'[i] = Over /\ UNCHANGED entry /\ belief' = [belief EXCEPT !.lost = @ + 1]
    BY <1>2, <1>5, NewTaskShape, GoesTo DEF Penalize
  <2>2. ~ShouldPing(belief', Planned)
    BY <1>1, <2>1, FailureCloses DEF TimerInv, TimerCounts
  <2> QED BY <1>1, <1>2, <2>1, <2>2, OverFacts DEF Quiet, Asking
<1>6. ~(Retry(i) \/ Reach(i) \/ Answer(i) \/ Apply(i))
  BY <1>1 DEF Retry, Reach, Answer, Apply, Asking
<1> QED BY <1>3, <1>4, <1>5, <1>6 DEF Run

LEMMA SilenceKept ==
  ASSUME TimerInv, Quiet, [Next]_vars
  PROVE  Quiet'
<1>1. /\ entry \in Entries /\ entry # NoEntry /\ entry.pings = 0 /\ ~ShouldPing(belief, Planned)
      /\ \A j \in Tasks : ~Asking(task[j])
  BY DEF Quiet, Asking, TimerInv, HeldInv, Shape
<1>2. task \in [Tasks -> TaskStates]
  BY DEF TimerInv, HeldInv, Shape
<1>3. ASSUME NEW h \in Handlers, Ask(h) \/ Unanswered(h) PROVE Quiet'
  BY <1>3 DEF Ask, Unanswered, Quiet
<1>4. ASSUME NEW h \in Handlers, Store(h) PROVE Quiet'
  <2>1. entry' = [entry EXCEPT !.timer = handler[h].task] /\ UNCHANGED <<belief, task>>
    BY <1>4 DEF Store
  <2>2. entry'.pings = 0
    BY <1>1, <2>1 DEF Entries
  <2>3. entry' \in Entries
    <3>1. handler[h].task \in Nat
      BY DEF TimerInv, HeldInv, Shape, HandlerStates
    <3> QED BY <1>1, <2>1, <3>1 DEF Entries
  <2> QED BY <1>1, <2>1, <2>2, <2>3, KeepaliveAssumption DEF Quiet
<1>5. ASSUME NEW h \in Handlers, Insert(h) PROVE Quiet'
  <2>1. ~Bridged(entry)
    BY <1>1 DEF Bridged
  <2>2. belief' = belief /\ entry' = Fresh
    BY <1>5, <2>1 DEF Insert
  <2>3. \A j \in Tasks : task'[j] \in {NewTask, Aborted(task[j]), task[j]}
    BY <1>5 DEF Insert
  <2>4. ~Asking(NewTask)
    BY DEF NewTask, NoTask, Asking
  <2>5. ASSUME NEW j \in Tasks PROVE ~Asking(Aborted(task[j]))
    <3>1. PICK t \in TaskStates : t = task[j] /\ ~Asking(t)
      BY <1>1, <1>2
    <3>2. Aborted(t) = Over \/ Aborted(t) = [t EXCEPT !.aborted = TRUE]
      BY DEF Aborted
    <3>3. [t EXCEPT !.aborted = TRUE].at = t.at
      BY DEF TaskStates
    <3> QED BY <3>1, <3>2, <3>3, OverFacts DEF Asking
  <2>6. \A j \in Tasks : ~Asking(task'[j])
    BY <1>1, <2>3, <2>4, <2>5
  <2>7. Fresh # NoEntry /\ Fresh.pings = 0
    BY NewTaskShape, KeepaliveAssumption DEF Fresh
  <2> QED BY <1>1, <2>2, <2>6, <2>7 DEF Quiet, Asking
<1>6. CASE Tick
  <2>1. \A j \in Tasks : task'[j].at = task[j].at
    BY <1>2, <1>6 DEF Tick, TaskStates
  <2> QED BY <1>1, <1>6, <2>1 DEF Tick, Quiet, Asking
<1>7. CASE UNCHANGED vars
  BY <1>7 DEF vars, Quiet
<1> QED BY <1>3, <1>4, <1>5, <1>6, <1>7, QuietMove DEF Next, Progress, Serve

\* Once its gate has closed before a ping got through, a session is never pinged again: no
\* failure counts towards a success, whatever requests come and however many timers run.
THEOREM StaysQuietCorrect == Spec => StaysQuiet
<1> DEFINE Silent == Quiet => Quiet'
<1>1. TimerInv /\ [Next]_vars => TimerInv' /\ [Silent]_vars
  BY TimerStep, SilenceKept
<1>2. StaysQuiet <=> [][Silent]_vars
  BY PTL DEF StaysQuiet
<1> QED BY <1>1, <1>2, TimerStart, PTL DEF Spec

------------------------------------------------------------------------------
(* That the cache does not expire *)

\* How long ago the API last read or wrote the cache, by what a timer is doing: a timer that
\* waits makes up for the time it has still to wait, and nothing else takes time.
Age(t) ==
  /\ t.at = "asleep" => sinceTouch + t.left <= Sleep + Latency
  /\ t.at = "woken" => sinceTouch <= Sleep + Latency
  /\ t.at = "sending" => sinceTouch + t.left <= Sleep + 2 * Latency
  /\ t.at \in {"answered", "ending"} => sinceTouch <= Latency

\* The same of a ping that has touched the cache, and how long each wait is.
Touched(t) ==
  /\ t.at = "asleep" => t.left <= Sleep
  /\ t.at \in {"sending", "reached"} => t.left <= Latency
  /\ t.at = "reached" => sinceTouch + t.left <= Latency

AgeInv ==
  /\ TimerInv
  /\ \A h \in Handlers : handler[h].at = "asked" => sinceTouch <= handler[h].wait
  /\ \A i \in Tasks : Touched(task[i]) /\ (~lost => Age(task[i]))

LEMMA AgeNumbers ==
  ASSUME TimerInv
  PROVE  /\ Sleep \in Nat /\ Latency \in Nat /\ TTL \in Nat /\ sinceTouch \in Nat
         /\ \A i \in Tasks : task[i].left \in Nat /\ task[i].left <= Sleep + Latency
         /\ task \in [Tasks -> TaskStates]
<1>1. \A i \in Tasks : task[i].left \in 0 .. Sleep + Latency
  BY DEF TimerInv, TimerShape, TimedTasks
<1>2. \A i \in Tasks : task[i].left \in Nat /\ task[i].left <= Sleep + Latency
  BY <1>1, TimerNumbers
<1>3. sinceTouch \in Nat
  BY TimerNumbers DEF TimerInv, TimerShape
<1> QED BY <1>2, <1>3, TimerNumbers DEF TimerInv, HeldInv, Shape

\* A task that is over has no age.
LEMMA OverAge == Age(Over) /\ Touched(Over)
BY OverFacts DEF Age, Touched

\* A timer's step that does not touch the cache.
LEMMA MoveAges ==
  ASSUME AgeInv, NEW i \in Tasks, Run(i), NEW u \in TaskStates, Goes(i, u),
         UNCHANGED sinceTouch, lost => lost', Touched(u), ~lost' => Age(u)
  PROVE  AgeInv'
<1>1. /\ \A j \in Tasks : j # i => task'[j] = task[j]
      /\ UNCHANGED handler
  BY RunShape DEF AgeInv, TimerInv, HeldInv
<1>2. TimerInv'
  BY RunCounts DEF AgeInv
<1>3. task'[i] = u \/ task'[i] = Over
  BY GoesTo, AgeNumbers DEF AgeInv
<1>4. Touched(task'[i]) /\ (~lost' => Age(task'[i]))
  BY <1>3, OverAge
<1>5. \A j \in Tasks : Touched(task'[j]) /\ (~lost' => Age(task'[j]))
  BY <1>1, <1>4 DEF AgeInv
<1>6. \A j \in Tasks : (Touched(task[j]) /\ (~lost => Age(task[j])))'
  BY <1>5 DEF Touched, Age
<1> QED BY <1>1, <1>2, <1>6 DEF AgeInv

LEMMA RunAges ==
  ASSUME AgeInv, NEW i \in Tasks, Run(i)
  PROVE  AgeInv'
<1>1. /\ \A j \in Tasks : j # i => task'[j] = task[j]
      /\ UNCHANGED handler
  BY RunShape DEF AgeInv, TimerInv, HeldInv
<1>2. TimerInv' /\ TimerInv
  BY RunCounts DEF AgeInv
<1>3. PICK t \in TaskStates : t = task[i]
  BY <1>2, AgeNumbers
<1>4. PICK z \in Nat, l \in Nat, d \in Nat, n \in Nat :
        z = Sleep /\ l = Latency /\ d = sinceTouch /\ n = t.left /\ n <= z + l
  BY <1>2, <1>3, AgeNumbers
<1>5. Touched(t) /\ (~lost => Age(t))
  BY <1>3 DEF AgeInv
<1>6. Over \in TaskStates
  BY NewTaskShape
<1>7. CASE Reach(i)
  <2>1. PICK u : u = [t EXCEPT !.at = "reached"]
    OBVIOUS
  <2>2. u \in TaskStates /\ u.at = "reached" /\ u.left = n
    BY <1>4, <2>1 DEF TaskStates, Places
  <2>3. Goes(i, u) /\ sinceTouch' = 0 /\ lost' = lost /\ t.at = "sending"
    BY <1>3, <1>7, <2>1 DEF Reach
  <2>4. task'[i] = u \/ task'[i] = Over
    BY <1>2, <2>2, <2>3, GoesTo, AgeNumbers
  <2>5. n <= l
    BY <1>4, <1>5, <2>3 DEF Touched
  <2>6. \A j \in Tasks : j # i => (Touched(task[j]) /\ (~lost => Age(task[j])))'
    <3>1. ASSUME NEW j \in Tasks, j # i PROVE (Touched(task[j]) /\ (~lost => Age(task[j])))'
      <4>1. PICK m \in Nat : m = task[j].left /\ m <= z + l
        BY <1>2, <1>4, AgeNumbers
      <4>6. task[j].at = "asleep" => m <= z
        BY <1>4, <4>1 DEF AgeInv, Touched
      <4>2. task[j].at \in {"sending", "reached"} => m <= l
        BY <1>4, <4>1 DEF AgeInv, Touched
      <4>3. task'[j] = task[j] /\ 0 + m <= z + l /\ 0 <= z + l /\ 0 <= l
        BY <1>1, <3>1, <4>1
      <4>4. task[j].at = "sending" => 0 + m <= z + 2 * l
        BY <4>2
      <4>5. task[j].at = "reached" => 0 + m <= l
        BY <4>2
      <4> QED BY <1>4, <2>3, <4>1, <4>2, <4>3, <4>4, <4>5, <4>6 DEF Touched, Age
    <3> QED BY <3>1
  <2>7. (Touched(task[i]) /\ (~lost => Age(task[i])))'
    <3>1. CASE task'[i] = Over
      BY <3>1, OverFacts DEF Touched, Age
    <3>2. CASE task'[i] = u
      <4>1. 0 + n <= l
        BY <2>5
      <4> QED BY <1>4, <2>2, <2>3, <2>5, <3>2, <4>1 DEF Touched, Age
    <3> QED BY <2>4, <3>1, <3>2
  <2>8. \A h \in Handlers : handler[h].at = "asked" => sinceTouch' <= handler[h].wait
    <3>1. \A h \in Handlers : handler[h].wait \in 0 .. Latency
      BY <1>2 DEF TimerInv, TimerShape, TimedHandlers
    <3>2. \A h \in Handlers : 0 <= handler[h].wait
      BY <1>2, <3>1, TimerNumbers
    <3> QED BY <2>3, <3>2
  <2> QED BY <1>1, <1>2, <2>6, <2>7, <2>8 DEF AgeInv
<1>8. CASE Wake(i)
  <2>1. PICK u : u = [t EXCEPT !.at = "woken"]
    OBVIOUS
  <2>2. u \in TaskStates /\ u.at = "woken" /\ u.left = n
    BY <1>4, <2>1 DEF TaskStates, Places
  <2>3. Goes(i, u) /\ UNCHANGED <<sinceTouch, lost>> /\ t.at = "asleep" /\ n = 0
    BY <1>3, <1>4, <1>8, <2>1 DEF Wake
  <2>4. ~lost => d <= z + l
    BY <1>4, <1>5, <2>3 DEF Age
  <2>5. Touched(u) /\ (~lost' => Age(u))
    BY <1>4, <2>2, <2>3, <2>4 DEF Touched, Age
  <2> QED BY <2>2, <2>3, <2>5, MoveAges
<1>9. CASE Snapshot(i)
  <2>1. PICK u : u = [t EXCEPT !.at = "sending", !.left = Latency, !.tokens = entry.tokens]
    OBVIOUS
  <2>2. (Goes(i, u) \/ Goes(i, Over)) /\ UNCHANGED <<sinceTouch, lost>> /\ t.at = "woken"
    BY <1>3, <1>9, <2>1 DEF Snapshot
  <2>3. u \in TaskStates /\ u.at = "sending" /\ u.left = l
    <3>1. entry.tokens \in {0, 1} /\ Latency \in Int /\ "sending" \in Places
      BY <1>2, <1>3, <1>4, <2>2 DEF Entries, Places, TimerInv, HeldInv, Shape
    <3> QED BY <1>4, <2>1, <3>1 DEF TaskStates
  <2>4. ~lost => d + l <= z + 2 * l
    <3>1. ~lost => d <= z + l
      BY <1>4, <1>5, <2>2 DEF Age
    <3> QED BY <3>1
  <2>5. Touched(u) /\ (~lost' => Age(u))
    BY <1>4, <2>2, <2>3, <2>4 DEF Touched, Age
  <2> QED BY <1>6, <2>2, <2>3, <2>5, OverAge, MoveAges
<1>10. CASE Retry(i)
  <2>1. PICK u : u = [t EXCEPT !.tokens = 1]
    OBVIOUS
  <2>2. u \in TaskStates /\ u.at = t.at /\ u.left = t.left
    BY <2>1 DEF TaskStates
  <2>3. Goes(i, u) /\ UNCHANGED <<sinceTouch, lost>>
    BY <1>3, <1>10, <2>1 DEF Retry
  <2>4. Touched(u) /\ (~lost' => Age(u))
    BY <1>5, <2>2, <2>3 DEF Touched, Age
  <2> QED BY <2>2, <2>3, <2>4, MoveAges
<1>11. CASE Answer(i)
  <2>1. PICK o \in {"sent", "network", "refused"} :
          /\ Goes(i, [t EXCEPT !.at = "answered", !.left = 0, !.outcome = o])
          /\ lost' = (lost \/ o # "sent")
          /\ o = "sent" => t.at = "reached"
    BY <1>3, <1>11 DEF Answer
  <2>2. PICK u : u = [t EXCEPT !.at = "answered", !.left = 0, !.outcome = o]
    OBVIOUS
  <2>3. u \in TaskStates /\ u.at = "answered"
    <3>1. "answered" \in Places /\ 0 \in Int /\ o \in {"none", "sent", "refused", "network"}
      BY DEF Places
    <3> QED BY <2>2, <3>1 DEF TaskStates
  <2>4. o = "sent" => d <= l
    BY <1>4, <1>5, <2>1 DEF Touched
  <2>5. Touched(u) /\ (~lost' => Age(u))
    BY <1>4, <2>1, <2>3, <2>4 DEF Touched, Age
  <2>6. UNCHANGED sinceTouch /\ (lost => lost') /\ Goes(i, u)
    BY <1>11, <2>1, <2>2 DEF Answer
  <2> QED BY <2>3, <2>5, <2>6, MoveAges
<1>12. CASE Apply(i)
  <2>1. PICK u \in TaskStates : u = NextRound(t)
    BY NextRoundShape
  <2>2. u.left = Sleep /\ u.at \in {"ending", "asleep"}
    BY <2>1 DEF NextRound, TaskStates
  <2>3. t.at = "answered" /\ (Goes(i, u) \/ Goes(i, Over)) /\ UNCHANGED <<sinceTouch, lost>>
    BY <1>3, <1>12, <2>1 DEF Apply
  <2>4. ~lost => d <= l
    BY <1>4, <1>5, <2>3 DEF Age
  <2>5. ~lost => d + z <= z + l
    BY <2>4
  <2>6. Touched(u) /\ (~lost' => Age(u))
    BY <1>4, <2>2, <2>3, <2>4, <2>5 DEF Touched, Age
  <2> QED BY <1>6, <2>3, <2>6, OverAge, MoveAges
<1>13. CASE Penalize(i)
  BY <1>6, <1>13, OverAge, MoveAges DEF Penalize
<1> QED BY <1>7, <1>8, <1>9, <1>10, <1>11, <1>12, <1>13 DEF Run

\* A request has just touched the cache when it is recorded, whatever other timers are doing.
LEMMA InsertAges ==
  ASSUME AgeInv, NEW h \in Handlers, Insert(h)
  PROVE  AgeInv'
<1>1. TimerInv' /\ TimerInv
  BY InsertCounts DEF AgeInv
<1>2. PICK z \in Nat, l \in Nat, d \in Nat : z = Sleep /\ l = Latency /\ d = sinceTouch
  BY <1>1, AgeNumbers
<1>3. handler[h].at = "asked" /\ UNCHANGED sinceTouch /\ lost' = FALSE
  BY DEF Insert
<1>4. d <= l
  <2>1. sinceTouch <= handler[h].wait /\ handler[h].wait \in 0 .. Latency
    BY <1>1, <1>3 DEF AgeInv, TimerInv, TimerShape, TimedHandlers
  <2> QED BY <1>2, <2>1
<1>5. \A j \in Tasks : task'[j] \in {NewTask, Aborted(task[j]), task[j]}
  BY DEF Insert
<1>6. ASSUME NEW t \in TaskStates, t.left \in Nat, t.left <= Sleep + Latency, Touched(t)
      PROVE  Age(t)
  <2>1. PICK n \in Nat : n = t.left /\ n <= z + l
    BY <1>2, <1>6
  <2>2. t.at = "asleep" => d + n <= z + l
    BY <1>2, <1>4, <1>6, <2>1 DEF Touched
  <2>3. t.at = "sending" => d + n <= z + 2 * l
    BY <1>2, <1>4, <1>6, <2>1 DEF Touched
  <2>4. d <= z + l
    BY <1>4
  <2> QED BY <1>2, <1>4, <2>1, <2>2, <2>3, <2>4 DEF Age
<1>7. ASSUME NEW t \in TaskStates, t.left \in Nat, t.left <= Sleep + Latency, Touched(t)
      PROVE  Touched(Aborted(t)) /\ Age(Aborted(t))
  <2>1. CASE Aborted(t) = Over
    BY <2>1, OverAge
  <2>2. CASE ~(Awaits(t) \/ t.at = "over")
    <3>1. PICK u : u = [t EXCEPT !.aborted = TRUE]
      OBVIOUS
    <3>2. Aborted(t) = u /\ u \in TaskStates /\ u.at = t.at /\ u.left = t.left
      BY <2>2, <3>1 DEF Aborted, TaskStates
    <3>3. Touched(u)
      BY <1>7, <3>2 DEF Touched
    <3> QED BY <1>6, <1>7, <3>2, <3>3
  <2> QED BY <2>1, <2>2 DEF Aborted
<1>8. Touched(NewTask) /\ Age(NewTask)
  <2>1. /\ NewTask.at = IF Planned = 0 THEN "ending" ELSE "asleep"
        /\ NewTask.left = Sleep
    BY DEF NewTask, NoTask
  <2>2. Touched(NewTask)
    BY <1>2, <2>1 DEF Touched
  <2>3. Sleep <= Sleep + Latency /\ Sleep \in Nat
    BY <1>2
  <2> QED BY <1>6, <2>1, <2>2, <2>3, NewTaskShape
<1>9. ASSUME NEW j \in Tasks PROVE Touched(task'[j]) /\ Age(task'[j])
  <2>1. task[j] \in TaskStates /\ task[j].left \in Nat /\ task[j].left <= Sleep + Latency /\ Touched(task[j])
    BY <1>1, AgeNumbers DEF AgeInv
  <2> QED BY <1>5, <1>6, <1>7, <1>8, <2>1
<1>10. \A j \in Tasks : (Touched(task[j]) /\ (~lost => Age(task[j])))'
  BY <1>3, <1>9 DEF Touched, Age
<1>11. \A g \in Handlers : handler'[g].at = "asked" => handler'[g] = handler[g]
  <2>1. handler \in [Handlers -> HandlerStates] /\ handler' = [handler EXCEPT ![h].at = "store", ![h].task = spawned + 1]
    BY <1>1 DEF Insert, TimerInv, HeldInv, Shape
  <2>2. handler'[h].at = "store"
    BY <2>1 DEF HandlerStates
  <2> QED BY <2>1, <2>2
<1> QED BY <1>1, <1>3, <1>10, <1>11 DEF AgeInv

\* Time makes the cache as much older as everyone has less to wait.
LEMMA TickAges ==
  ASSUME AgeInv, Tick
  PROVE  AgeInv'
<1>1. TimerInv' /\ TimerInv
  BY TickCounts DEF AgeInv
<1>2. /\ \A i \in Tasks : Waits(task[i])
      /\ task' = [i \in Tasks |-> IF Awaits(task[i]) THEN [task[i] EXCEPT !.left = @ - 1] ELSE task[i]]
      /\ handler' = [h \in Handlers |-> IF handler[h].at = "asked" THEN [handler[h] EXCEPT !.wait = @ + 1]
                                        ELSE handler[h]]
      /\ sinceTouch' = (IF sinceTouch > TTL THEN sinceTouch ELSE sinceTouch + 1)
      /\ lost' = lost
  BY DEF Tick
<1>3. PICK z \in Nat, l \in Nat, d \in Nat, e \in Nat :
        z = Sleep /\ l = Latency /\ d = sinceTouch /\ e = sinceTouch' /\ e <= d + 1
  BY <1>1, <1>2, AgeNumbers
<1>6. \A m \in Nat, k \in Nat : (m <= k => m - 1 <= k) /\ (d + m <= k => e + (m - 1) <= k)
  <2>1. e <= d + 1
    BY <1>3
  <2> QED BY <2>1
<1>7. z + l \in Nat /\ z + 2 * l \in Nat
  OBVIOUS
<1>4. ASSUME NEW i \in Tasks PROVE (Touched(task[i]) /\ (~lost => Age(task[i])))'
  <2>1. PICK t \in TaskStates : t = task[i] /\ Touched(t) /\ (~lost => Age(t)) /\ Waits(t)
    BY <1>1, <1>2, AgeNumbers DEF AgeInv
  <2>2. CASE Awaits(t)
    <3>1. PICK n \in Nat : n = t.left /\ n > 0
      BY <1>1, <2>1, <2>2, AgeNumbers DEF Waits, Awaits
    <3>2. task'[i].at = t.at /\ task'[i].left = n - 1
      BY <1>2, <2>1, <2>2, <3>1 DEF TaskStates
    <3>3. t.at \in {"asleep", "sending", "reached"}
      BY <2>2 DEF Awaits
    <3>4. CASE t.at = "asleep"
      <4>1. n <= z /\ (~lost => d + n <= z + l)
        BY <1>3, <2>1, <3>1, <3>4 DEF Touched, Age
      <4>2. n - 1 <= z /\ (~lost => e + (n - 1) <= z + l)
        BY <1>6, <1>7, <4>1
      <4> QED BY <1>2, <1>3, <3>2, <3>4, <4>2 DEF Touched, Age
    <3>5. CASE t.at = "sending"
      <4>1. n <= l /\ (~lost => d + n <= z + 2 * l)
        BY <1>3, <2>1, <3>1, <3>5 DEF Touched, Age
      <4>2. n - 1 <= l /\ (~lost => e + (n - 1) <= z + 2 * l)
        BY <1>6, <1>7, <4>1
      <4> QED BY <1>2, <1>3, <3>2, <3>5, <4>2 DEF Touched, Age
    <3>6. CASE t.at = "reached"
      <4>1. n <= l /\ d + n <= l
        BY <1>3, <2>1, <3>1, <3>6 DEF Touched, Age
      <4>2. n - 1 <= l /\ e + (n - 1) <= l
        BY <1>6, <1>7, <4>1
      <4> QED BY <1>2, <1>3, <3>2, <3>6, <4>2 DEF Touched, Age
    <3> QED BY <3>3, <3>4, <3>5, <3>6
  <2>3. CASE ~Awaits(t)
    <3>1. task'[i] = t /\ t.at \in {"none", "over"}
      BY <1>2, <2>1, <2>3 DEF Waits
    <3> QED BY <3>1 DEF Touched, Age
  <2> QED BY <2>2, <2>3
<1>5. ASSUME NEW h \in Handlers, handler'[h].at = "asked" PROVE sinceTouch' <= handler'[h].wait
  <2>1. PICK g \in HandlerStates : g = handler[h]
    BY <1>1 DEF TimerInv, HeldInv, Shape
  <2>2. g.at = "asked" /\ handler'[h].wait = g.wait + 1
    BY <1>2, <1>5, <2>1 DEF HandlerStates
  <2>3. PICK k \in Int : k = g.wait /\ d <= k
    BY <1>3, <2>1, <2>2 DEF AgeInv, HandlerStates
  <2> QED BY <1>3, <2>2, <2>3
<1> QED BY <1>1, <1>4, <1>5 DEF AgeInv

LEMMA AgeStep ==
  ASSUME AgeInv, [Next]_vars
  PROVE  AgeInv'
<1>1. TimerInv' /\ TimerInv
  BY TimerStep DEF AgeInv
<1>2. handler \in [Handlers -> HandlerStates] /\ \A h \in Handlers : 0 <= handler[h].wait
  <2>1. \A h \in Handlers : handler[h].wait \in 0 .. Latency
    BY <1>1 DEF TimerInv, TimerShape, TimedHandlers
  <2> QED BY <1>1, <2>1, TimerNumbers DEF TimerInv, HeldInv, Shape
<1>3. ASSUME NEW h \in Handlers, Ask(h) PROVE AgeInv'
  <2>1. sinceTouch' = 0 /\ UNCHANGED <<task, lost>> /\ handler' = [handler EXCEPT ![h].at = "asked", ![h].wait = 0]
    BY <1>3 DEF Ask
  <2>2. handler'[h].wait = 0 /\ \A g \in Handlers : g # h => handler'[g] = handler[g]
    BY <1>2, <2>1 DEF HandlerStates
  <2>3. \A g \in Handlers : handler'[g].at = "asked" => sinceTouch' <= handler'[g].wait
    BY <1>2, <2>1, <2>2
  <2>4. PICK z \in Nat, l \in Nat, d \in Nat : z = Sleep /\ l = Latency /\ d = sinceTouch
    BY <1>1, AgeNumbers
  <2>5. ASSUME NEW j \in Tasks PROVE (Touched(task[j]) /\ (~lost => Age(task[j])))'
    <3>1. PICK m \in Nat : m = task[j].left /\ m <= z + l
      BY <1>1, <2>4, AgeNumbers
    <3>2. /\ task[j].at = "asleep" => m <= z
          /\ task[j].at \in {"sending", "reached"} => m <= l
      BY <2>4, <3>1 DEF AgeInv, Touched
    <3>3. 0 + m <= z + l /\ 0 <= z + l /\ 0 <= l
      BY <3>1
    <3>4. task[j].at = "sending" => 0 + m <= z + 2 * l
      BY <3>2
    <3>5. task[j].at = "reached" => 0 + m <= l
      BY <3>2
    <3> QED BY <2>1, <2>4, <3>1, <3>2, <3>3, <3>4, <3>5 DEF Touched, Age
  <2> QED BY <1>1, <2>3, <2>5 DEF AgeInv
<1>4. ASSUME NEW h \in Handlers, Unanswered(h) \/ Store(h) PROVE AgeInv'
  <2>1. /\ UNCHANGED <<task, lost, sinceTouch>> /\ \A g \in Handlers : g # h => handler'[g] = handler[g]
        /\ handler'[h].at = "idle"
    BY <1>2, <1>4 DEF Unanswered, Store, HandlerStates
  <2> QED BY <1>1, <2>1 DEF AgeInv, Touched, Age
<1>5. CASE UNCHANGED vars
  BY <1>1, <1>5 DEF vars, AgeInv, Touched, Age
<1> QED BY <1>3, <1>4, <1>5, InsertAges, RunAges, TickAges DEF Next, Progress, Serve

\* The purpose of the keepalive: while a timer goes on and every ping has reached the API,
\* the cache does not expire, for any requests and however many timers run, when a timer
\* wakes early enough for an answer to take its time twice.
THEOREM WarmCorrect == ASSUME Sleep + 2 * Latency <= TTL PROVE Spec => []Warm
<1>1. Init => AgeInv
  <2> SUFFICES ASSUME Init PROVE AgeInv
    OBVIOUS
  <2>1. \A i \in Tasks : task[i].at = "none"
    BY DEF Init, NoTask
  <2>2. \A h \in Handlers : handler[h].at = "idle"
    BY DEF Init
  <2> QED BY <2>1, <2>2, TimerStart DEF AgeInv, Touched, Age
<1>2. AgeInv /\ [Next]_vars => AgeInv'
  BY AgeStep
<1>3. AgeInv => Warm
  <2> SUFFICES ASSUME AgeInv, NEW i \in Tasks, Lives(task[i]), ~lost PROVE sinceTouch <= TTL
    BY DEF Warm
  <2>1. TimerInv
    BY DEF AgeInv
  <2>2. PICK z \in Nat, l \in Nat, d \in Nat, n \in Nat, ttl \in Nat :
          z = Sleep /\ l = Latency /\ d = sinceTouch /\ n = task[i].left /\ ttl = TTL /\ z + 2 * l <= ttl
    BY <2>1, AgeNumbers
  <2>3. d <= z + 2 * l
    <3>1. task[i].at \in {"asleep", "woken", "sending", "reached", "answered", "ending"}
      BY <2>1, AgeNumbers DEF Lives, TaskStates, Places
    <3>2. Touched(task[i]) /\ Age(task[i])
      BY DEF AgeInv
    <3>3. d + n <= z + l \/ d <= z + l \/ d + n <= z + 2 * l \/ d <= l \/ d + n <= l
      BY <2>2, <3>1, <3>2 DEF Touched, Age
    <3> QED BY <3>3
  <2> QED BY <2>2, <2>3
<1> QED BY <1>1, <1>2, <1>3, PTL DEF Spec

------------------------------------------------------------------------------
(* The frozen prefix *)

\* What an old message looks like on the sent while nothing has been lost.
LastForm(t) == [id |-> t.id, form |-> IF t.kind = "prose" THEN "stub" ELSE "plain"]

PrefixShape ==
  /\ transcript \in [Convs -> Seq(Message)] /\ cached \in [Convs -> Seq(Wire)]
  /\ written \in 0 .. MaxMessages /\ pages \subseteq 1 .. MaxMessages
  /\ note = NoNote \/ note \in Seq(Wire)
  /\ broke \subseteq Convs /\ calm \in BOOLEAN /\ rebasing \in BOOLEAN

\* Every heavy message has its page, also before it is stubbed for the first time.
Paged == \A c \in Convs : \A i \in 1 .. Len(transcript[c]) :
           WsHeavy(transcript[c][i].kind) => transcript[c][i].id \in pages

\* What upstream has cached of a conversation is its first messages, each in the one form it
\* keeps from then on.
CachedSettled ==
  \A c \in Convs \ broke :
    /\ Len(cached[c]) <= Len(transcript[c])
    /\ \A i \in 1 .. Len(cached[c]) : cached[c][i] = LastForm(transcript[c][i])

\* The two token estimates of the code, and the texts they lead to, agree on every message.
Agree == Kinds \subseteq {"light", "prose"}

PrefixInv == PrefixShape /\ (Agree /\ calm => Paged /\ CachedSettled)

LEMMA Sequence ==
  ASSUME NEW S, NEW n \in Nat, NEW f \in [1 .. n -> S]
  PROVE  f \in Seq(S) /\ Len(f) = n
<1>1. f = [i \in 1 .. n |-> f[i]]
  OBVIOUS
<1>2. \A i \in 1 .. n : f[i] \in S
  OBVIOUS
<1>3. f \in Seq(S)
  BY <1>1, <1>2
<1>4. DOMAIN f = 1 .. n /\ DOMAIN f = 1 .. Len(f) /\ Len(f) \in Nat
  BY <1>3, LenProperties
<1>5. \A k \in Nat : 1 .. k = 1 .. n => k = n
  <2> SUFFICES ASSUME NEW k \in Nat, 1 .. k = 1 .. n PROVE k = n
    OBVIOUS
  <2>1. (k \in 1 .. k \/ k = 0) /\ (n \in 1 .. n \/ n = 0)
    OBVIOUS
  <2>2. (k \in 1 .. n \/ k = 0) /\ (n \in 1 .. k \/ n = 0)
    BY <2>1
  <2> QED BY <2>2
<1> QED BY <1>3, <1>4, <1>5

\* The first m elements.
LEMMA FirstPart ==
  ASSUME NEW S, NEW f \in Seq(S), NEW m \in 0 .. Len(f)
  PROVE  /\ SubSeq(f, 1, m) \in Seq(S) /\ Len(SubSeq(f, 1, m)) = m
         /\ \A i \in 1 .. m : SubSeq(f, 1, m)[i] = f[i]
<1>1. Len(f) \in Nat /\ m \in Nat
  BY LenProperties
<1>2. \A i \in 1 .. m : f[i] \in S
  BY <1>1, ElementOfSeq
<1>3. /\ SubSeq(f, 1, m) \in Seq(S) /\ Len(SubSeq(f, 1, m)) = IF 1 <= m THEN m - 1 + 1 ELSE 0
      /\ \A i \in 1 .. m - 1 + 1 : SubSeq(f, 1, m)[i] = f[1 + i - 1]
  BY <1>1, <1>2, SubSeqProperties
<1>4. m - 1 + 1 = m /\ \A i \in 1 .. m : 1 + i - 1 = i
  BY <1>1
<1> QED BY <1>1, <1>3, <1>4

LEMMA MessageNumbers == ASSUME NEW T \in Seq(Message) PROVE
  /\ Len(T) \in Nat
  /\ \A i \in 1 .. Len(T) : T[i] \in Message /\ T[i].id \in 1 .. MaxMessages /\ T[i].kind \in Kinds
<1>1. Len(T) \in Nat /\ \A i \in 1 .. Len(T) : T[i] \in Message
  BY LenProperties, ElementOfSeq
<1> QED BY <1>1 DEF Message

LEMMA WireRecord ==
  ASSUME NEW i \in 1 .. MaxMessages, NEW f \in {"plain", "stub", "digest", "absorbed"}
  PROVE  [id |-> i, form |-> f] \in Wire
BY DEF Wire

\* The transcript as it is forwarded up to and after the breakpoint.
LEMMA WholeShape ==
  ASSUME NEW T \in Seq(Message), NEW m \in 0 .. Len(T), NEW whole,
         whole = Reapplied(T, m) \o SubSeq(Raw(T), m + 1, Len(T))
  PROVE  /\ Reapplied(T, m) \in Seq(Wire)
         /\ whole \in Seq(Wire) /\ Len(whole) = Len(T)
         /\ \A i \in 1 .. Len(T) : whole[i].id = T[i].id
         /\ \A i \in 1 .. m : whole[i].form = IF WsHeavy(T[i].kind) /\ T[i].id \in pages /\ i # Len(T)
                                              THEN "stub" ELSE "plain"
<1>1. Len(T) \in Nat /\ m \in Nat /\ m <= Len(T)
  BY MessageNumbers
<1>2. PICK n \in Nat : n = Len(T) /\ m <= n
  BY <1>1
<1>3. PICK s : s = Reapplied(T, m)
  OBVIOUS
<1>4. PICK r : r = Raw(T)
  OBVIOUS
<1>5. /\ s \in [1 .. m -> Wire]
      /\ \A i \in 1 .. m : s[i] = [id |-> T[i].id, form |-> IF WsHeavy(T[i].kind) /\ T[i].id \in pages /\ i # n
                                              THEN "stub" ELSE "plain"]
  <2>1. \A i \in 1 .. m : T[i].id \in 1 .. MaxMessages
    BY <1>2, MessageNumbers
  <2> QED BY <1>2, <1>3, <2>1, WireRecord DEF Reapplied
<1>6. r \in [1 .. n -> Wire] /\ \A i \in 1 .. n : r[i] = [id |-> T[i].id, form |-> "plain"]
  BY <1>2, <1>4, MessageNumbers, WireRecord DEF Raw
<1>7. s \in Seq(Wire) /\ Len(s) = m /\ r \in Seq(Wire) /\ Len(r) = n
  BY <1>1, <1>2, <1>5, <1>6, Sequence
<1>8. PICK q : q = SubSeq(r, m + 1, n)
  OBVIOUS
<1>9. /\ q \in Seq(Wire) /\ Len(q) = n - m
      /\ \A i \in 1 .. n - m : q[i] = r[m + i]
  <2>0. \A i \in m + 1 .. n : i \in 1 .. n
    BY <1>1, <1>2
  <2>1. \A i \in m + 1 .. n : r[i] \in Wire
    BY <1>6, <2>0
  <2>2. /\ q \in Seq(Wire) /\ Len(q) = IF m + 1 <= n THEN n - (m + 1) + 1 ELSE 0
        /\ \A i \in 1 .. n - (m + 1) + 1 : q[i] = r[m + 1 + i - 1]
    BY <1>1, <1>2, <1>8, <2>1, SubSeqProperties
  <2>3. n - (m + 1) + 1 = n - m /\ (m + 1 <= n \/ n - m = 0)
    BY <1>1, <1>2
  <2>4. \A i \in Int : m + 1 + i - 1 = m + i
    BY <1>1
  <2>5. Len(q) = n - m
    BY <1>1, <1>2, <2>2, <2>3
  <2>6. ASSUME NEW i \in 1 .. n - m PROVE q[i] = r[m + i]
    <3>1. i \in 1 .. n - (m + 1) + 1 /\ i \in Int
      BY <2>3, <2>6
    <3>2. q[i] = r[m + 1 + i - 1]
      BY <2>2, <3>1
    <3> QED BY <2>4, <3>1, <3>2
  <2> QED BY <2>2, <2>5, <2>6
<1>10. /\ whole \in Seq(Wire) /\ Len(whole) = m + (n - m)
       /\ \A i \in 1 .. m + (n - m) : whole[i] = IF i <= m THEN s[i] ELSE q[i - m]
  <2>1. whole = s \o q
    BY <1>2, <1>3, <1>4, <1>8
  <2>2. PICK a \in Seq(Wire), b \in Seq(Wire) : a = s /\ b = q
    BY <1>7, <1>9
  <2>3. /\ a \o b \in Seq(Wire) /\ Len(a \o b) = Len(a) + Len(b)
        /\ \A i \in 1 .. Len(a) + Len(b) : (a \o b)[i] = IF i <= Len(a) THEN a[i] ELSE b[i - Len(a)]
    BY ConcatProperties
  <2> QED BY <1>7, <1>9, <2>1, <2>2, <2>3
<1>11. m + (n - m) = n
  BY <1>1, <1>2
<1>12. ASSUME NEW i \in 1 .. n PROVE whole[i].id = T[i].id
  <2>1. CASE i <= m
    BY <1>1, <1>5, <1>10, <1>11, <1>12, <2>1
  <2>2. CASE ~(i <= m)
    <3>1. PICK k \in 1 .. n - m : k = i - m /\ m + k = i
      BY <1>1, <1>2, <1>12, <2>2
    <3>2. whole[i] = q[k]
      BY <1>10, <1>11, <1>12, <2>2, <3>1
    <3>3. q[k] = r[i]
      BY <1>9, <3>1
    <3>4. r[i].id = T[i].id
      BY <1>6, <1>12
    <3> QED BY <3>2, <3>3, <3>4
  <2> QED BY <2>1, <2>2
<1>13. ASSUME NEW i \in 1 .. m PROVE whole[i] = s[i]
  <2>1. i \in 1 .. n /\ i <= m
    BY <1>1, <1>2
  <2> QED BY <1>10, <1>11, <2>1
<1>14. whole \in Seq(Wire) /\ Len(whole) = n
  BY <1>10, <1>11
<1>15. \A i \in 1 .. m : whole[i].form = IF WsHeavy(T[i].kind) /\ T[i].id \in pages /\ i # n
                                         THEN "stub" ELSE "plain"
  <2>1. \A i \in 1 .. m : s[i].form = IF WsHeavy(T[i].kind) /\ T[i].id \in pages /\ i # n
                                       THEN "stub" ELSE "plain"
    BY <1>5
  <2> QED BY <1>13, <2>1
<1> QED BY <1>2, <1>3, <1>7, <1>12, <1>14, <1>15

OnWire(T, body, admitted) == IF admitted = {} THEN body ELSE Digested(T, body)

\* What is forwarded of a transcript, whatever the store refuses.
LEMMA WireShape ==
  ASSUME NEW T \in Seq(Message), NEW m \in 0 .. Len(T), NEW whole \in Seq(Wire), Len(whole) = Len(T),
         \A i \in 1 .. Len(T) : whole[i].id = T[i].id,
         NEW kept \in SUBSET Pageable(T), NEW admitted, NEW reb, NEW body, NEW sent,
         reb = Rebased(T, whole, kept), body = Absorbed(T, reb, m),
         sent = OnWire(T, body, admitted)
  PROVE  /\ reb \in Seq(Wire) /\ Len(reb) = Len(T)
         /\ sent \in Seq(Wire) /\ Len(sent) = Len(T)
         /\ \A i \in 1 .. m :
              sent[i] = [id |-> T[i].id,
                         form |-> IF i \in kept THEN "stub"
                                  ELSE IF admitted # {} /\ i = Len(T) /\ whole[i].form = "plain"
                                  THEN AdmissionForm(T[i].kind) ELSE whole[i].form]
<1>1. PICK n \in Nat : n = Len(T)
  BY MessageNumbers
<1>2. m \in Nat /\ m <= n
  BY <1>1
<1>3. \A i \in 1 .. n : /\ T[i].id \in 1 .. MaxMessages /\ whole[i] \in Wire
                        /\ whole[i].form \in {"plain", "stub", "digest", "absorbed"}
  <2>1. \A i \in 1 .. n : T[i].id \in 1 .. MaxMessages /\ whole[i] \in Wire
    BY <1>1, MessageNumbers, ElementOfSeq
  <2> QED BY <2>1 DEF Wire
<1>4. kept \subseteq 1 .. n - 1
  BY <1>1 DEF Pageable
<1>5. /\ reb \in [1 .. n -> Wire]
      /\ \A i \in 1 .. n : reb[i] = IF i \in kept THEN [id |-> T[i].id, form |-> "stub"] ELSE whole[i]
  BY <1>1, <1>3, WireRecord DEF Rebased
<1>6. \A i \in 1 .. n : reb[i].id = T[i].id /\ reb[i].form \in {"plain", "stub", "digest", "absorbed"}
  BY <1>1, <1>3, <1>5
<1>7. /\ body \in [1 .. n -> Wire]
      /\ \A i \in 1 .. m : body[i] = [id |-> T[i].id, form |-> reb[i].form]
      /\ \A i \in 1 .. n : body[i].form \in {"plain", "stub", "digest", "absorbed"}
  <2>1. \A i \in 1 .. n : body[i] = [id |-> T[i].id,
          form |-> IF i > m /\ i \in Pageable(T) /\ reb[i].form = "plain" THEN "absorbed" ELSE reb[i].form]
    BY <1>1 DEF Absorbed
  <2>2. ASSUME NEW i \in 1 .. n
        PROVE body[i] \in Wire /\ body[i].form \in {"plain", "stub", "digest", "absorbed"}
    <3>1. PICK f \in {"plain", "stub", "digest", "absorbed"} : body[i] = [id |-> T[i].id, form |-> f]
      BY <1>6, <2>1, <2>2
    <3>2. PICK id \in 1 .. MaxMessages : id = T[i].id
      BY <1>3
    <3>3. [id |-> id, form |-> f] \in Wire
      BY WireRecord
    <3> QED BY <3>1, <3>2, <3>3
  <2>3. body = [i \in 1 .. n |-> body[i]]
    BY <1>1 DEF Absorbed
  <2> QED BY <1>2, <2>1, <2>2, <2>3
<1>8. /\ Digested(T, body) \in [1 .. n -> Wire]
      /\ \A i \in 1 .. n : Digested(T, body)[i] =
           [id |-> T[i].id, form |-> IF i = n /\ body[i].form = "plain" THEN AdmissionForm(T[i].kind)
                                     ELSE body[i].form]
  <2>1. \A i \in 1 .. n : Digested(T, body)[i] =
           [id |-> T[i].id, form |-> IF i = n /\ body[i].form = "plain" THEN AdmissionForm(T[i].kind)
                                     ELSE body[i].form]
    BY <1>1 DEF Digested
  <2>2. \A i \in 1 .. n : Digested(T, body)[i] \in Wire
    BY <1>3, <1>7, <2>1, WireRecord DEF AdmissionForm
  <2>3. Digested(T, body) = [i \in 1 .. n |-> Digested(T, body)[i]]
    BY <1>1 DEF Digested
  <2> QED BY <2>1, <2>2, <2>3
<1>9. sent \in [1 .. n -> Wire]
  BY <1>7, <1>8 DEF OnWire
<1>10. reb \in Seq(Wire) /\ Len(reb) = n /\ sent \in Seq(Wire) /\ Len(sent) = n
  <2>1. reb \in [1 .. n -> Wire] /\ sent \in [1 .. n -> Wire]
    BY <1>5, <1>9
  <2>2. reb \in Seq(Wire) /\ Len(reb) = n
    BY <2>1, Sequence
  <2>0. PICK u \in [1 .. n -> Wire] : u = sent
    BY <2>1
  <2>3. u \in Seq(Wire) /\ Len(u) = n
    BY Sequence
  <2> QED BY <2>0, <2>2, <2>3
<1>11. ASSUME NEW i \in 1 .. m
       PROVE sent[i] = [id |-> T[i].id,
                        form |-> IF i \in kept THEN "stub"
                                 ELSE IF admitted # {} /\ i = n /\ whole[i].form = "plain"
                                 THEN AdmissionForm(T[i].kind) ELSE whole[i].form]
  <2>1. i \in 1 .. n
    BY <1>2
  <2>2. body[i] = [id |-> T[i].id, form |-> IF i \in kept THEN "stub" ELSE whole[i].form]
    BY <1>5, <1>7, <2>1
  <2>3. i \in kept => i # n
    BY <1>1, <1>4
  <2> QED BY <1>8, <2>1, <2>2, <2>3 DEF OnWire
<1> QED BY <1>1, <1>10, <1>11

\* A request is forwarded: of the conversation's transcript the part up to the breakpoint is
\* cached, and nothing else about another conversation changes.
LEMMA Forwards ==
  ASSUME PrefixShape, NEW c \in Convs, NEW T \in Seq(Message), T # <<>>, NEW m \in Nat, m <= Len(T),
         NEW expand \in BOOLEAN, Forward(c, T, m, expand)
  PROVE  /\ pages \subseteq pages' /\ pages' \subseteq 1 .. MaxMessages
         /\ note' \in Seq(Wire) /\ calm' \in BOOLEAN /\ rebasing' \in BOOLEAN
         /\ broke' = broke \ {c} /\ (calm' => calm)
         /\ calm' /\ WsHeavy(T[Len(T)].kind) => T[Len(T)].id \in pages'
         /\ \E w \in Seq(Wire) :
              /\ cached' = [cached EXCEPT ![c] = w] /\ Len(w) = m
              /\ Agree /\ calm' /\ (\A i \in 1 .. Len(T) - 1 : WsHeavy(T[i].kind) => T[i].id \in pages)
                   => \A i \in 1 .. m : w[i] = LastForm(T[i])
<1>1. PICK n \in Nat : n = Len(T) /\ n > 0 /\ m <= n
  BY MessageNumbers, EmptySeq
<1>2. PICK frozen : frozen = Reapplied(T, m)
  OBVIOUS
<1>3. PICK whole : whole = frozen \o SubSeq(Raw(T), m + 1, Len(T))
  OBVIOUS
<1>4. PICK breaks \in BOOLEAN : breaks = (IsBreak(frozen) /\ Len(T) > 1 /\ expand)
  OBVIOUS
<1>5. PICK old : old = IF breaks THEN Pageable(T) ELSE {}
  OBVIOUS
<1>6. PICK newest : newest = IF expand /\ Admitted(T[Len(T)].kind) THEN {Len(T)} ELSE {}
  OBVIOUS
<1>7. PICK kept \in Puts(T, old), admitted \in Puts(T, newest) :
        LET body == Absorbed(T, Rebased(T, whole, kept), m)
            sent == IF admitted = {} THEN body ELSE Digested(T, body)
        IN /\ pages' = pages \union {T[i].id : i \in kept \union admitted}
           /\ note' = IF breaks THEN SubSeq(Rebased(T, whole, kept), 1, m) ELSE frozen
           /\ cached' = [cached EXCEPT ![c] = SubSeq(sent, 1, m)]
           /\ calm' = (calm /\ expand /\ kept = old /\ admitted = newest)
           /\ rebasing' = (breaks /\ c \notin broke)
           /\ broke' = broke \ {c}
  BY <1>2, <1>3, <1>4, <1>5, <1>6 DEF Forward
<1>8. PICK reb : reb = Rebased(T, whole, kept)
  OBVIOUS
<1>9. PICK body : body = Absorbed(T, reb, m)
  OBVIOUS
<1>10. PICK sent : sent = OnWire(T, body, admitted)
  OBVIOUS
<1>11. /\ pages' = pages \union {T[i].id : i \in kept \union admitted}
       /\ note' = (IF breaks THEN SubSeq(reb, 1, m) ELSE frozen)
       /\ cached' = [cached EXCEPT ![c] = SubSeq(sent, 1, m)]
       /\ calm' = (calm /\ expand /\ kept = old /\ admitted = newest)
       /\ rebasing' = (breaks /\ c \notin broke)
       /\ broke' = broke \ {c}
  BY <1>7, <1>8, <1>9, <1>10 DEF OnWire
<1>12. kept \in SUBSET Pageable(T) /\ admitted \subseteq {n}
  BY <1>1, <1>5, <1>6, <1>7 DEF Puts
<1>13. m \in 0 .. Len(T)
  BY <1>1
<1>14. /\ frozen \in Seq(Wire) /\ whole \in Seq(Wire) /\ Len(whole) = Len(T)
       /\ \A i \in 1 .. Len(T) : whole[i].id = T[i].id
       /\ \A i \in 1 .. m : whole[i].form = IF WsHeavy(T[i].kind) /\ T[i].id \in pages /\ i # Len(T)
                                            THEN "stub" ELSE "plain"
  BY <1>2, <1>3, <1>13, WholeShape
<1>15. /\ reb \in Seq(Wire) /\ Len(reb) = Len(T)
       /\ sent \in Seq(Wire) /\ Len(sent) = Len(T)
       /\ \A i \in 1 .. m :
            sent[i] = [id |-> T[i].id,
                       form |-> IF i \in kept THEN "stub"
                                ELSE IF admitted # {} /\ i = Len(T) /\ whole[i].form = "plain"
                                THEN AdmissionForm(T[i].kind) ELSE whole[i].form]
  <2>1. \A i \in 1 .. Len(T) : whole[i].id = T[i].id
    BY <1>14
  <2>2. Len(whole) = Len(T) /\ whole \in Seq(Wire)
    BY <1>14
  <2> QED BY ONLY <1>8, <1>9, <1>10, <1>12, <1>13, <2>1, <2>2, T \in Seq(Message), WireShape
<1>16. /\ SubSeq(sent, 1, m) \in Seq(Wire) /\ Len(SubSeq(sent, 1, m)) = m
       /\ \A i \in 1 .. m : SubSeq(sent, 1, m)[i] = sent[i]
  BY <1>13, <1>15, FirstPart
<1>17. note' \in Seq(Wire)
  BY <1>11, <1>13, <1>14, <1>15, FirstPart
<1>18. pages \subseteq pages' /\ pages' \subseteq 1 .. MaxMessages
  <2>1. kept \union admitted \subseteq 1 .. n
    BY <1>1, <1>12 DEF Pageable
  <2>2. \A i \in 1 .. n : T[i].id \in 1 .. MaxMessages
    BY <1>1, MessageNumbers
  <2> QED BY <1>11, <2>1, <2>2 DEF PrefixShape
<1>19. ASSUME calm', WsHeavy(T[Len(T)].kind) PROVE T[Len(T)].id \in pages'
  <2>1. admitted = {Len(T)}
    BY <1>6, <1>11, <1>19 DEF WsHeavy, Admitted
  <2> QED BY <1>11, <2>1
<1>20. ASSUME Agree, calm', \A i \in 1 .. Len(T) - 1 : WsHeavy(T[i].kind) => T[i].id \in pages, NEW i \in 1 .. m
       PROVE sent[i] = LastForm(T[i])
  <2>1. i \in 1 .. n /\ T[i].kind \in Kinds
    BY <1>1, MessageNumbers
  <2>2. T[i].kind \in {"light", "prose"}
    BY <1>20, <2>1 DEF Agree
  <2>3. i \in kept => T[i].kind = "prose"
    BY <1>12, <2>2 DEF Pageable, WsHeavy
  <2>4. CASE i = n
    <3>1. i \notin kept
      BY <1>1, <1>12, <2>4 DEF Pageable
    <3>2. whole[i].form = "plain"
      BY <1>1, <1>14, <2>4
    <3>3. admitted # {} <=> T[i].kind = "prose"
      BY <1>1, <1>6, <1>11, <1>20, <2>2, <2>4 DEF Admitted
    <3> QED BY <1>1, <1>15, <2>2, <2>4, <3>1, <3>2, <3>3 DEF LastForm, AdmissionForm
  <2>5. CASE i # n
    <3>1. i \in 1 .. Len(T) - 1
      BY <1>1, <2>1, <2>5
    <3>2. whole[i].form = IF T[i].kind = "prose" THEN "stub" ELSE "plain"
      BY <1>1, <1>14, <1>20, <2>2, <2>5, <3>1 DEF WsHeavy
    <3> QED BY <1>1, <1>15, <2>3, <2>5, <3>2 DEF LastForm
  <2> QED BY <2>4, <2>5
<1>21. calm' \in BOOLEAN /\ rebasing' \in BOOLEAN /\ (calm' => calm)
  BY <1>11 DEF PrefixShape
<1>22. \E w \in Seq(Wire) :
         /\ cached' = [cached EXCEPT ![c] = w] /\ Len(w) = m
         /\ Agree /\ calm' /\ (\A i \in 1 .. Len(T) - 1 : WsHeavy(T[i].kind) => T[i].id \in pages)
              => \A i \in 1 .. m : w[i] = LastForm(T[i])
  BY <1>11, <1>16, <1>20
<1> QED BY <1>11, <1>17, <1>18, <1>19, <1>21, <1>22

\* A message the client writes.
LEMMA NewShape ==
  ASSUME PrefixShape, NEW k \in Kinds, written < MaxMessages
  PROVE  NewMessage(k) \in Message /\ NewMessage(k).kind = k /\ written + 1 \in 0 .. MaxMessages
<1>1. written \in Nat /\ written + 1 \in 1 .. MaxMessages /\ written + 1 \in 0 .. MaxMessages
  BY PrefixAssumption DEF PrefixShape
<1> QED BY <1>1 DEF NewMessage, Message

LEMMA Appended ==
  ASSUME NEW s \in Seq(Message), NEW e \in Message, NEW T, T = Append(s, e)
  PROVE  /\ T \in Seq(Message) /\ T # <<>> /\ Len(T) = Len(s) + 1 /\ Len(s) \in Nat
         /\ \A i \in 1 .. Len(s) : T[i] = s[i]
         /\ T[Len(T)] = e
BY AppendProperties, LenProperties

\* A turn: the transcript the request carries is kept, and forwarded.
LEMMA TurnKeeps ==
  ASSUME PrefixInv, NEW c \in Convs, NEW T \in Seq(Message), T # <<>>, NEW m \in Nat, m <= Len(T),
         NEW expand \in BOOLEAN, Forward(c, T, m, expand), transcript' = [transcript EXCEPT ![c] = T],
         Len(transcript[c]) <= Len(T), Len(transcript[c]) >= Len(T) - 1,
         \A i \in 1 .. Len(transcript[c]) : T[i] = transcript[c][i],
         written' \in 0 .. MaxMessages
  PROVE  /\ PrefixInv'
         /\ Agree /\ calm' => \A d \in Convs \ broke : \A i \in 1 .. Len(cached[d]) :
                       i <= Len(cached'[d]) => cached'[d][i] = cached[d][i]
<1>1. PrefixShape
  BY DEF PrefixInv
<1>2. /\ pages \subseteq pages' /\ pages' \subseteq 1 .. MaxMessages
      /\ note' \in Seq(Wire) /\ calm' \in BOOLEAN /\ rebasing' \in BOOLEAN
      /\ broke' = broke \ {c} /\ (calm' => calm)
      /\ calm' /\ WsHeavy(T[Len(T)].kind) => T[Len(T)].id \in pages'
  BY <1>1, Forwards
<1>3. PICK w \in Seq(Wire) :
        /\ cached' = [cached EXCEPT ![c] = w] /\ Len(w) = m
        /\ Agree /\ calm' /\ (\A i \in 1 .. Len(T) - 1 : WsHeavy(T[i].kind) => T[i].id \in pages)
             => \A i \in 1 .. m : w[i] = LastForm(T[i])
  BY <1>1, Forwards
<1>4. /\ cached' \in [Convs -> Seq(Wire)] /\ cached'[c] = w /\ \A d \in Convs \ {c} : cached'[d] = cached[d]
      /\ transcript' \in [Convs -> Seq(Message)] /\ transcript'[c] = T
      /\ \A d \in Convs \ {c} : transcript'[d] = transcript[d]
  BY <1>1, <1>3 DEF PrefixShape
<1>5. PrefixShape'
  BY <1>1, <1>2, <1>4 DEF PrefixShape
<1>6. PICK n \in Nat, t \in Nat : n = Len(T) /\ t = Len(transcript[c]) /\ t <= n /\ t >= n - 1 /\ n > 0
  BY <1>1, MessageNumbers, EmptySeq DEF PrefixShape
<1>7. ASSUME Agree, calm' PROVE
        /\ Paged' /\ CachedSettled'
        /\ \A d \in Convs \ broke : \A i \in 1 .. Len(cached[d]) :
             i <= Len(cached'[d]) => cached'[d][i] = cached[d][i]
  <2>1. Paged /\ CachedSettled
    BY <1>2, <1>7 DEF PrefixInv
  <2>2. \A i \in 1 .. n - 1 : WsHeavy(T[i].kind) => T[i].id \in pages
    <3>1. \A i \in 1 .. n - 1 : i \in 1 .. t
      BY <1>6
    <3> QED BY <1>6, <2>1, <3>1 DEF Paged
  <2>3. \A i \in 1 .. m : w[i] = LastForm(T[i])
    BY <1>3, <1>6, <1>7, <2>2
  <2>4. Paged'
    <3>1. ASSUME NEW d \in Convs, NEW i \in 1 .. Len(transcript'[d]), WsHeavy(transcript'[d][i].kind)
          PROVE transcript'[d][i].id \in pages'
      <4>1. CASE d # c
        BY <1>2, <1>4, <2>1, <3>1, <4>1 DEF Paged
      <4>2. CASE d = c /\ i # n
        <5>1. i \in 1 .. n - 1
          BY <1>4, <1>6, <3>1, <4>2
        <5> QED BY <1>2, <1>4, <2>2, <3>1, <4>2, <5>1
      <4>3. CASE d = c /\ i = n
        BY <1>2, <1>4, <1>6, <1>7, <3>1, <4>3
      <4> QED BY <4>1, <4>2, <4>3
    <3> QED BY <3>1 DEF Paged
  <2>5. CachedSettled'
    <3>1. ASSUME NEW d \in Convs \ broke'
          PROVE /\ Len(cached'[d]) <= Len(transcript'[d])
                /\ \A i \in 1 .. Len(cached'[d]) : cached'[d][i] = LastForm(transcript'[d][i])
      <4>1. CASE d # c
        BY <1>2, <1>4, <2>1, <3>1, <4>1 DEF CachedSettled
      <4>2. CASE d = c
        BY <1>3, <1>4, <2>3, <4>2
      <4> QED BY <4>1, <4>2
    <3> QED BY <3>1 DEF CachedSettled
  <2>6. ASSUME NEW d \in Convs \ broke, NEW i \in 1 .. Len(cached[d]), i <= Len(cached'[d])
        PROVE cached'[d][i] = cached[d][i]
    <3>1. CASE d # c
      BY <1>4, <3>1
    <3>2. CASE d = c
      <4>1. Len(cached[c]) \in Nat /\ Len(cached[c]) <= t /\ cached[c][i] = LastForm(transcript[c][i])
        BY <1>1, <1>6, <2>1, <2>6, <3>2, LenProperties DEF CachedSettled, PrefixShape
      <4>2. i \in 1 .. t /\ i \in 1 .. m
        BY <1>3, <1>4, <1>6, <2>6, <3>2, <4>1
      <4> QED BY <1>4, <1>6, <2>3, <3>2, <4>1, <4>2
    <3> QED BY <3>1, <3>2
  <2> QED BY <2>4, <2>5, <2>6
<1> QED BY <1>5, <1>7 DEF PrefixInv

Unbroken ==
  Agree /\ calm' => \A d \in Convs \ broke : \A i \in 1 .. Len(cached[d]) :
             i <= Len(cached'[d]) => cached'[d][i] = cached[d][i]

LEMMA AskKeeps ==
  ASSUME PrefixInv, NEW c \in Convs, NEW k \in Kinds, NEW m \in Nat, NEW expand \in BOOLEAN,
         AskModel(c, k, m, expand)
  PROVE  PrefixInv' /\ Unbroken
<1>1. PICK T : T = Append(transcript[c], NewMessage(k))
  OBVIOUS
<1>2. /\ written < MaxMessages /\ m <= Len(T) /\ Forward(c, T, m, expand)
      /\ transcript' = [transcript EXCEPT ![c] = T] /\ written' = written + 1
  BY <1>1 DEF AskModel
<1>3. /\ T \in Seq(Message) /\ T # <<>> /\ Len(T) = Len(transcript[c]) + 1 /\ Len(transcript[c]) \in Nat
      /\ \A i \in 1 .. Len(transcript[c]) : T[i] = transcript[c][i]
      /\ written + 1 \in 0 .. MaxMessages
  <2>1. PICK s \in Seq(Message) : s = transcript[c]
    BY DEF PrefixInv, PrefixShape
  <2>2. PICK e \in Message : e = NewMessage(k) /\ written + 1 \in 0 .. MaxMessages
    BY <1>2, NewShape DEF PrefixInv
  <2>3. T = Append(s, e)
    BY <1>1, <2>1, <2>2
  <2>4. /\ T \in Seq(Message) /\ T # <<>> /\ Len(T) = Len(s) + 1 /\ Len(s) \in Nat
        /\ \A i \in 1 .. Len(s) : T[i] = s[i]
    BY <2>3, Appended
  <2> QED BY <2>1, <2>2, <2>4
<1>4. Len(transcript[c]) <= Len(T) /\ Len(transcript[c]) >= Len(T) - 1
  BY <1>3
<1> QED BY <1>2, <1>3, <1>4, TurnKeeps DEF Unbroken

LEMMA AgainKeeps ==
  ASSUME PrefixInv, NEW c \in Convs, NEW m \in Nat, NEW expand \in BOOLEAN, Again(c, m, expand)
  PROVE  PrefixInv' /\ Unbroken
<1>1. PICK T \in Seq(Message) : T = transcript[c]
  BY DEF PrefixInv, PrefixShape
<1>2. T # <<>> /\ m <= Len(T) /\ Forward(c, T, m, expand) /\ UNCHANGED <<transcript, written>>
  BY <1>1 DEF Again
<1>3. transcript' = [transcript EXCEPT ![c] = T]
  BY <1>1, <1>2 DEF PrefixInv, PrefixShape
<1>4. /\ Len(transcript[c]) <= Len(T) /\ Len(transcript[c]) >= Len(T) - 1
      /\ \A i \in 1 .. Len(transcript[c]) : T[i] = transcript[c][i]
  BY <1>1, MessageNumbers
<1>5. written' \in 0 .. MaxMessages
  BY <1>2 DEF PrefixInv, PrefixShape
<1> QED BY <1>2, <1>3, <1>4, <1>5, TurnKeeps DEF Unbroken

\* A tool result answered locally is one more message that is not heavy.
LEMMA LocallyKeeps ==
  ASSUME PrefixInv, NEW c \in Convs, AnswerLocally(c)
  PROVE  PrefixInv' /\ Unbroken
<1>1. PICK T : T = Append(transcript[c], NewMessage("light"))
  OBVIOUS
<1>2. /\ written < MaxMessages /\ transcript' = [transcript EXCEPT ![c] = T] /\ written' = written + 1
      /\ rebasing' = FALSE /\ UNCHANGED <<pages, note, cached, broke, calm>>
  BY <1>1 DEF AnswerLocally
<1>3. /\ T \in Seq(Message) /\ Len(T) = Len(transcript[c]) + 1 /\ Len(transcript[c]) \in Nat
      /\ \A i \in 1 .. Len(transcript[c]) : T[i] = transcript[c][i]
      /\ T[Len(T)].kind = "light" /\ written + 1 \in 0 .. MaxMessages
  <2>1. PICK s \in Seq(Message) : s = transcript[c]
    BY DEF PrefixInv, PrefixShape
  <2>2. PICK e \in Message : e = NewMessage("light") /\ e.kind = "light" /\ written + 1 \in 0 .. MaxMessages
    BY <1>2, NewShape, PrefixAssumption DEF PrefixInv
  <2>3. T = Append(s, e)
    BY <1>1, <2>1, <2>2
  <2>4. /\ T \in Seq(Message) /\ Len(T) = Len(s) + 1 /\ Len(s) \in Nat
        /\ (\A i \in 1 .. Len(s) : T[i] = s[i]) /\ T[Len(T)] = e
    BY <2>3, Appended
  <2> QED BY <2>1, <2>2, <2>4
<1>4. /\ transcript' \in [Convs -> Seq(Message)] /\ transcript'[c] = T
      /\ \A d \in Convs \ {c} : transcript'[d] = transcript[d]
  BY <1>2, <1>3 DEF PrefixInv, PrefixShape
<1>5. PrefixShape'
  BY <1>2, <1>3, <1>4 DEF PrefixInv, PrefixShape
<1>6. PICK t \in Nat : t = Len(transcript[c]) /\ Len(T) = t + 1
  BY <1>3
<1>7. ASSUME Agree, calm' PROVE Paged' /\ CachedSettled'
  <2>1. Paged /\ CachedSettled
    BY <1>2, <1>7 DEF PrefixInv
  <2>2. Paged'
    <3>1. ASSUME NEW d \in Convs, NEW i \in 1 .. Len(transcript'[d]), WsHeavy(transcript'[d][i].kind)
          PROVE transcript'[d][i].id \in pages
      <4>1. CASE d # c
        BY <1>4, <2>1, <3>1, <4>1 DEF Paged
      <4>2. CASE d = c
        <5>1. i # t + 1
          BY <1>3, <1>4, <1>6, <3>1, <4>2 DEF WsHeavy
        <5>2. i \in 1 .. t
          BY <1>4, <1>6, <3>1, <4>2, <5>1
        <5> QED BY <1>3, <1>4, <1>6, <2>1, <3>1, <4>2, <5>2 DEF Paged
      <4> QED BY <4>1, <4>2
    <3> QED BY <1>2, <3>1 DEF Paged
  <2>3. CachedSettled'
    <3>1. ASSUME NEW d \in Convs \ broke
          PROVE /\ Len(cached[d]) <= Len(transcript'[d])
                /\ \A i \in 1 .. Len(cached[d]) : cached[d][i] = LastForm(transcript'[d][i])
      <4>1. CASE d # c
        BY <1>4, <2>1, <3>1, <4>1 DEF CachedSettled
      <4>2. CASE d = c
        <5>1. PICK l \in Nat : l = Len(cached[c]) /\ l <= t
          BY <1>6, <2>1, <3>1, <4>2, LenProperties DEF CachedSettled, PrefixInv, PrefixShape
        <5>2. l <= t + 1 /\ \A i \in 1 .. l : i \in 1 .. t
          BY <5>1
        <5> QED BY <1>3, <1>4, <1>6, <2>1, <3>1, <4>2, <5>1, <5>2 DEF CachedSettled
      <4> QED BY <4>1, <4>2
    <3> QED BY <1>2, <3>1 DEF CachedSettled
  <2> QED BY <2>2, <2>3
<1> QED BY <1>2, <1>5, <1>7 DEF PrefixInv, Unbroken

\* A summary takes the place of the transcript, and what was cached of it is of no use.
LEMMA CompactKeeps ==
  ASSUME PrefixInv, NEW c \in Convs, Compact(c)
  PROVE  PrefixInv' /\ Unbroken
<1>1. PICK T : T = <<NewMessage("light")>>
  OBVIOUS
<1>2. /\ written < MaxMessages /\ transcript' = [transcript EXCEPT ![c] = T] /\ written' = written + 1
      /\ broke' = broke \union {c} /\ rebasing' = FALSE /\ UNCHANGED <<pages, note, cached, calm>>
  BY <1>1 DEF Compact
<1>3. NewMessage("light") \in Message /\ written + 1 \in 0 .. MaxMessages
  BY <1>2, NewShape, PrefixAssumption DEF PrefixInv
<1>4. T \in Seq(Message) /\ Len(T) = 1 /\ T[1].kind = "light"
  BY <1>1, <1>3 DEF NewMessage
<1>5. /\ transcript' \in [Convs -> Seq(Message)] /\ transcript'[c] = T
      /\ \A d \in Convs \ {c} : transcript'[d] = transcript[d]
  BY <1>2, <1>4 DEF PrefixInv, PrefixShape
<1>6. PrefixShape'
  BY <1>2, <1>3, <1>5 DEF PrefixInv, PrefixShape
<1>7. ASSUME Agree, calm' PROVE Paged' /\ CachedSettled'
  <2>1. Paged /\ CachedSettled
    BY <1>2, <1>7 DEF PrefixInv
  <2>2. ASSUME NEW d \in Convs, NEW i \in 1 .. Len(transcript'[d]), WsHeavy(transcript'[d][i].kind)
        PROVE transcript'[d][i].id \in pages
    <3>1. CASE d # c
      BY <1>5, <2>1, <2>2, <3>1 DEF Paged
    <3>2. CASE d = c
      <4>1. i = 1
        <5>1. Len(transcript'[d]) = 1
          BY <1>4, <1>5, <3>2
        <5> QED BY <2>2, <5>1
      <4> QED BY <1>4, <1>5, <2>2, <3>2, <4>1 DEF WsHeavy
    <3> QED BY <3>1, <3>2
  <2>3. Paged'
    BY <1>2, <2>2 DEF Paged
  <2>4. CachedSettled'
    <3>1. \A d \in Convs \ broke' : d # c /\ d \in Convs \ broke
      BY <1>2
    <3> QED BY <1>2, <1>5, <2>1, <3>1 DEF CachedSettled
  <2> QED BY <2>3, <2>4
<1> QED BY <1>2, <1>6, <1>7 DEF PrefixInv, Unbroken

LEMMA PrefixStep ==
  ASSUME PrefixInv, [PrefixNext]_prefixVars
  PROVE  PrefixInv' /\ Unbroken
<1>1. CASE UNCHANGED <<transcript, written, cached, broke>> /\ (calm' => calm) /\ calm' \in BOOLEAN /\ rebasing' \in BOOLEAN
           /\ pages' \subseteq pages /\ (calm' => pages' = pages) /\ note' \in {note, NoNote}
  <2>1. PrefixShape'
    BY <1>1 DEF PrefixInv, PrefixShape
  <2>2. Agree /\ calm' => Paged' /\ CachedSettled'
    BY <1>1 DEF PrefixInv, Paged, CachedSettled
  <2>3. Unbroken
    BY <1>1 DEF Unbroken
  <2> QED BY <2>1, <2>2, <2>3 DEF PrefixInv
<1>2. CASE UNCHANGED prefixVars
  BY <1>1, <1>2 DEF prefixVars, PrefixInv, PrefixShape
<1>3. ASSUME NEW c \in Convs, AnswerAgain(c) PROVE PrefixInv' /\ Unbroken
  BY <1>1, <1>3 DEF AnswerAgain, PrefixInv, PrefixShape
<1>4. CASE Forget
  BY <1>1, <1>4 DEF Forget, PrefixInv, PrefixShape
<1>5. CASE EvictPage
  <2>1. pages' \subseteq pages
    BY <1>5 DEF EvictPage
  <2> QED BY <1>1, <1>5, <2>1 DEF EvictPage, PrefixInv, PrefixShape
<1>6. ASSUME NEW c \in Convs, NEW expand \in BOOLEAN, NEW m \in 0 .. MaxMessages,
             (\E k \in Kinds : AskModel(c, k, m, expand)) \/ Again(c, m, expand)
      PROVE PrefixInv' /\ Unbroken
  <2>1. m \in Nat
    BY <1>6
  <2> QED BY <1>6, <2>1, AskKeeps, AgainKeeps
<1> QED BY <1>2, <1>3, <1>4, <1>5, <1>6, LocallyKeeps, CompactKeeps DEF PrefixNext

LEMMA PrefixStart == PrefixInit => PrefixInv
<1> SUFFICES ASSUME PrefixInit PROVE PrefixInv
  OBVIOUS
<1>1. <<>> \in Seq(Message) /\ <<>> \in Seq(Wire) /\ Len(<<>>) = 0
  BY EmptySeq
<1>2. PrefixShape
  <2>1. 0 \in 0 .. MaxMessages /\ written = 0
    BY PrefixAssumption DEF PrefixInit
  <2>2. transcript \in [Convs -> Seq(Message)] /\ cached \in [Convs -> Seq(Wire)]
    BY <1>1 DEF PrefixInit
  <2> QED BY <2>1, <2>2 DEF PrefixInit, PrefixShape
<1>3. \A c \in Convs : transcript[c] = <<>> /\ cached[c] = <<>>
  BY DEF PrefixInit
<1>4. Paged /\ CachedSettled
  BY <1>1, <1>3 DEF Paged, CachedSettled
<1> QED BY <1>2, <1>4 DEF PrefixInv

\* While a client only appends, and no page is lost, the prefix upstream has cached is
\* forwarded in the same bytes again (reapply_stubs, rebase_transcript, admission): for any
\* number of conversations that share a session id, of messages and of breakpoints, where
\* the two token estimates of the code agree on every message.
THEOREM PrefixStableCorrect == ASSUME Agree PROVE PrefixSpec => PrefixStable
<1> DEFINE Same == calm' => \A c \in Convs \ broke : \A i \in 1 .. Len(cached[c]) :
                     i <= Len(cached'[c]) => cached'[c][i] = cached[c][i]
<1>1. PrefixInit => PrefixInv
  BY PrefixStart
<1>2. PrefixInv /\ [PrefixNext]_prefixVars => PrefixInv' /\ [Same]_prefixVars
  BY PrefixStep DEF Unbroken
<1>3. PrefixStable <=> [][Same]_prefixVars
  BY PTL DEF PrefixStable
<1> QED BY <1>1, <1>2, <1>3, PTL DEF PrefixSpec

\* The types of the forwarded prefix.
THEOREM PrefixTypeCorrect == PrefixSpec => []PrefixTypeOK
<1>1. PrefixInv => PrefixTypeOK
  BY DEF PrefixInv, PrefixShape, PrefixTypeOK
<1> QED BY <1>1, PrefixStart, PrefixStep, PTL DEF PrefixSpec

------------------------------------------------------------------------------
(* The choice of a model for a turn *)

(* A turn under way.  One the proxy routed to save goes to the cheap model,  *)
(* away from the one asked for; once the client's own body is sent instead,  *)
(* it is routed no longer.                                                   *)
UnderWay(r) ==
  /\ turn[r].routedFrom # NoModel => turn[r].sent = "haiku" /\ turn[r].asked # "haiku"
  /\ at[r] \in {"idle", "retry"} => turn[r].routedFrom = NoModel

\* Turns that have started and have no reply yet.
InFlight == {r \in Turns : at[r] # "idle"}

(* What a turn may still do is paid for by its start; and the turns since an *)
(* error signature and those the cooldown still counts cover the three.      *)
RouteInv ==
  /\ RouteTypeOK
  /\ \A r \in Turns : UnderWay(r)
  /\ IsFiniteSet(InFlight) /\ cheap + Cardinality(InFlight) <= started
  /\ credited <= cheap
  /\ mode # "off" => cooldown + sinceError >= 3

LEMMA TurnFields ==
  ASSUME NEW t \in Turn
  PROVE  /\ t.asked \in Models /\ t.sent \in Models /\ t.stream \in BOOLEAN
         /\ t.routedFrom \in Models \union {NoModel}
         /\ t.rewrittenFrom \in Models \union {NoModel} /\ t.compressed \in BOOLEAN
BY DEF Turn

\* The routing decision stays within the models.
LEMMA SelectedModel ==
  ASSUME NEW model \in Models, NEW cap \in Capabilities, NEW mechanical, NEW left
  PROVE  Selected(model, cap, mechanical, left) \in Models
<1>1. cap # "none" => Tier(cap) \in Models
  BY DEF Tier, Capabilities, Models
<1>2. "haiku" \in Models
  BY DEF Models
<1> QED BY <1>1, <1>2 DEF Selected

LEMMA CooldownRange ==
  ASSUME cooldown \in 0 .. 3, NEW hadError \in BOOLEAN
  PROVE  /\ Cooldown(hadError) \in 0 .. 3
         /\ hadError => Cooldown(hadError) = 3
         /\ ~hadError => Cooldown(hadError) + 1 >= cooldown
BY DEF Cooldown

\* A turn that starts adds one to those in flight, one that ends takes one away.
LEMMA InFlightChanges ==
  ASSUME RouteTypeOK, IsFiniteSet(InFlight), NEW r \in Turns,
         NEW s \in {"idle", "local", "send", "retry"}, at' = [at EXCEPT ![r] = s]
  PROVE  /\ IsFiniteSet(InFlight') /\ Cardinality(InFlight) \in Nat /\ Cardinality(InFlight') \in Nat
         /\ at[r] = "idle" => Cardinality(InFlight') <= Cardinality(InFlight) + 1
         /\ at[r] # "idle" /\ s = "idle" => Cardinality(InFlight') = Cardinality(InFlight) - 1
         /\ at[r] # "idle" /\ s # "idle" => InFlight' = InFlight
<1>1. \A q \in Turns : at'[q] = IF q = r THEN s ELSE at[q]
  BY DEF RouteTypeOK
<1>2. Cardinality(InFlight) \in Nat
  BY FS_CardinalityType
<1>3. CASE at[r] = "idle" /\ s # "idle"
  <2>1. InFlight' = InFlight \union {r}
    BY <1>1, <1>3 DEF InFlight
  <2>2. r \notin InFlight
    BY <1>3 DEF InFlight
  <2>3. IsFiniteSet(InFlight') /\ Cardinality(InFlight') = Cardinality(InFlight) + 1
    BY <2>1, <2>2, FS_AddElement
  <2> QED BY <1>2, <1>3, <2>3
<1>4. CASE at[r] # "idle" /\ s = "idle"
  <2>1. InFlight' = InFlight \ {r} /\ r \in InFlight
    BY <1>1, <1>4 DEF InFlight
  <2>2. IsFiniteSet(InFlight') /\ Cardinality(InFlight') = Cardinality(InFlight) - 1
    BY <2>1, FS_RemoveElement
  <2>3. Cardinality(InFlight') \in Nat
    BY <2>2, FS_CardinalityType
  <2> QED BY <1>2, <1>4, <2>2, <2>3
<1>5. CASE (at[r] = "idle") = (s = "idle")
  <2>1. InFlight' = InFlight
    BY <1>1, <1>5 DEF InFlight
  <2> QED BY <1>2, <1>5, <2>1
<1> QED BY <1>3, <1>4, <1>5

-----------------------------------------------------------------------------
LEMMA RouteInitInv == RouteInit => RouteInv
<1> SUFFICES ASSUME RouteInit PROVE RouteInv
  OBVIOUS
<1>1. NewTurn \in Turn
  BY DEF NewTurn, Turn, Models
<1>2. InFlight = {}
  BY DEF RouteInit, InFlight
<1>3. IsFiniteSet(InFlight) /\ Cardinality(InFlight) = 0
  BY <1>2, FS_EmptySet
<1>4. RouteTypeOK
  BY <1>1, RouteAssumption DEF RouteInit, RouteTypeOK
<1>5. \A r \in Turns : UnderWay(r)
  BY DEF RouteInit, UnderWay, NewTurn
<1> QED BY <1>3, <1>4, <1>5 DEF RouteInv, RouteInit

LEMMA DecideKeeps ==
  ASSUME RouteInv, NEW r \in Turns, Decide(r)
  PROVE  /\ RouteInv'
         /\ turn'[r].routedFrom # NoModel => sinceError' >= 3
         /\ \A q \in Turns \ {r} : turn'[q] = turn[q]
<1>1. PICK model \in Asked, cap \in Capabilities, results \in BOOLEAN, hadError \in BOOLEAN,
           heavy \in BOOLEAN, stream \in BOOLEAN :
        LET left == IF mode = "off" THEN cooldown ELSE Cooldown(hadError)
            sel  == Selected(model, cap, results /\ ~hadError, left)
            econ == Downgrades(model, cap, results /\ ~hadError, left)
        IN /\ at[r] = "idle" /\ started < MaxTurns
           /\ started' = started + 1
           /\ cooldown' = left
           /\ sinceError' = IF hadError THEN 0 ELSE IF sinceError < 3 THEN sinceError + 1 ELSE 3
           /\ turn' = [turn EXCEPT ![r] =
                [asked |-> model, sent |-> sel, routedFrom |-> IF econ THEN model ELSE NoModel,
                 rewrittenFrom |-> IF sel # model THEN model ELSE NoModel,
                 compressed |-> heavy, stream |-> stream]]
           /\ at' = [at EXCEPT ![r] = IF swarm THEN "local" ELSE "send"]
           /\ UNCHANGED <<mode, swarm, cloud, held, credited, cheap>>
  BY DEF Decide
<1> DEFINE left == IF mode = "off" THEN cooldown ELSE Cooldown(hadError)
           sel  == Selected(model, cap, results /\ ~hadError, left)
           econ == Downgrades(model, cap, results /\ ~hadError, left)
           new  == [asked |-> model, sent |-> sel, routedFrom |-> IF econ THEN model ELSE NoModel,
                    rewrittenFrom |-> IF sel # model THEN model ELSE NoModel,
                    compressed |-> heavy, stream |-> stream]
           where == IF swarm THEN "local" ELSE "send"
<1>2. /\ at[r] = "idle" /\ started < MaxTurns /\ started' = started + 1
      /\ cooldown' = left
      /\ sinceError' = IF hadError THEN 0 ELSE IF sinceError < 3 THEN sinceError + 1 ELSE 3
      /\ turn' = [turn EXCEPT ![r] = new] /\ at' = [at EXCEPT ![r] = where]
      /\ mode' = mode /\ credited' = credited /\ cheap' = cheap
  BY <1>1, Zenon
<1>3. model \in Models
  BY RouteAssumption DEF Models
<1>4. econ => sel = "haiku" /\ model # "haiku" /\ left = 0 /\ mode # "off"
  BY DEF Selected, Downgrades
<1>5. sel \in Models
  BY <1>3, SelectedModel
<1>6. /\ left \in 0 .. 3
      /\ mode # "off" => (hadError => left = 3) /\ (~hadError => left + 1 >= cooldown)
  BY CooldownRange DEF RouteInv, RouteTypeOK
<1> HIDE DEF left, sel, econ
<1>7. /\ new \in Turn
      /\ new.routedFrom # NoModel => econ /\ new.sent = "haiku" /\ new.asked # "haiku"
  BY <1>3, <1>4, <1>5 DEF Turn
<1> HIDE DEF new
<1>8. where \in {"local", "send"}
  OBVIOUS
<1> HIDE DEF where
<1>9. \A q \in Turns : /\ turn'[q] = IF q = r THEN new ELSE turn[q]
                       /\ at'[q] = IF q = r THEN where ELSE at[q]
  BY <1>2 DEF RouteInv, RouteTypeOK
<1>10. sinceError' \in 0 .. 3 /\ (mode' # "off" => cooldown' + sinceError' >= 3)
  BY <1>2, <1>6 DEF RouteInv, RouteTypeOK
<1>11. started' \in 0 .. MaxTurns
  BY <1>2, RouteAssumption DEF RouteInv, RouteTypeOK
<1>12. RouteTypeOK'
  BY <1>2, <1>6, <1>7, <1>8, <1>10, <1>11 DEF RouteInv, RouteTypeOK
<1>13. \A q \in Turns : UnderWay(q)'
  BY <1>7, <1>8, <1>9 DEF RouteInv, UnderWay
<1>14. IsFiniteSet(InFlight') /\ cheap' + Cardinality(InFlight') <= started'
  <2>1. /\ IsFiniteSet(InFlight') /\ Cardinality(InFlight) \in Nat /\ Cardinality(InFlight') \in Nat
        /\ Cardinality(InFlight') <= Cardinality(InFlight) + 1
    BY <1>2, <1>8, InFlightChanges DEF RouteInv
  <2> QED BY <1>2, <2>1 DEF RouteInv, RouteTypeOK
<1>15. new.routedFrom # NoModel => sinceError' >= 3
  BY <1>2, <1>4, <1>7, <1>10
<1> QED BY <1>2, <1>9, <1>10, <1>12, <1>13, <1>14, <1>15 DEF RouteInv

\* A turn that ends: counters move together, and it no longer counts as in flight.
LEMMA ReplyKeeps ==
  ASSUME RouteInv, NEW r \in Turns, at[r] # "idle", Replies(r),
         UNCHANGED <<mode, cooldown, started, sinceError>>,
         \/ UNCHANGED <<credited, cheap>>
         \/ /\ cheap' = cheap + 1 /\ credited' \in {credited, credited + 1}
         \/ /\ cheap' = cheap /\ credited' = credited
  PROVE  /\ RouteInv' /\ turn'[r].routedFrom = NoModel
         /\ \A q \in Turns \ {r} : turn'[q] = turn[q]
<1>1. NewTurn \in Turn /\ NewTurn.routedFrom = NoModel
  BY DEF NewTurn, Turn, Models
<1>2. at' = [at EXCEPT ![r] = "idle"] /\ turn' = [turn EXCEPT ![r] = NewTurn]
  BY DEF Replies
<1>3. \A q \in Turns : /\ turn'[q] = IF q = r THEN NewTurn ELSE turn[q]
                       /\ at'[q] = IF q = r THEN "idle" ELSE at[q]
  BY <1>2 DEF RouteInv, RouteTypeOK
<1>4. /\ IsFiniteSet(InFlight') /\ Cardinality(InFlight) \in Nat /\ Cardinality(InFlight') \in Nat
      /\ Cardinality(InFlight') = Cardinality(InFlight) - 1
  BY <1>2, InFlightChanges DEF RouteInv
<1>5. cheap' \in Nat /\ credited' \in Nat /\ credited' <= cheap' /\ cheap' <= cheap + 1
  BY DEF RouteInv, RouteTypeOK
<1>6. cheap' + Cardinality(InFlight') <= started' /\ started' <= MaxTurns /\ MaxTurns \in Nat
  BY <1>4, <1>5, RouteAssumption DEF RouteInv, RouteTypeOK
<1>7. cheap' \in 0 .. MaxTurns /\ credited' \in 0 .. MaxTurns
  BY <1>4, <1>5, <1>6 DEF RouteInv, RouteTypeOK
<1>8. RouteTypeOK'
  BY <1>1, <1>2, <1>7 DEF RouteInv, RouteTypeOK
<1>9. \A q \in Turns : UnderWay(q)'
  BY <1>1, <1>3 DEF RouteInv, UnderWay
<1> QED BY <1>1, <1>3, <1>4, <1>5, <1>6, <1>8, <1>9 DEF RouteInv

\* A turn that goes on to another attempt.
LEMMA MoveKeeps ==
  ASSUME RouteInv, NEW r \in Turns, at[r] # "idle",
         NEW s \in {"send", "retry"}, at' = [at EXCEPT ![r] = s],
         NEW t \in Turn, turn' = [turn EXCEPT ![r] = t],
         t.routedFrom # NoModel => s = "send" /\ t.sent = "haiku" /\ t.asked # "haiku",
         UNCHANGED <<mode, cooldown, started, sinceError, credited, cheap>>
  PROVE  /\ RouteInv'
         /\ \A q \in Turns \ {r} : turn'[q] = turn[q]
<1>1. \A q \in Turns : /\ turn'[q] = IF q = r THEN t ELSE turn[q]
                       /\ at'[q] = IF q = r THEN s ELSE at[q]
  BY DEF RouteInv, RouteTypeOK
<1>2. InFlight' = InFlight
  BY InFlightChanges DEF RouteInv
<1>3. RouteTypeOK'
  BY DEF RouteInv, RouteTypeOK
<1>4. \A q \in Turns : UnderWay(q)'
  BY <1>1 DEF RouteInv, UnderWay
<1> QED BY <1>1, <1>2, <1>3, <1>4 DEF RouteInv

LEMMA AnswerKeeps ==
  ASSUME RouteInv, NEW r \in Turns, NEW a \in Answers,
         Send(r, a) \/ Resend(r, a) \/ AskSwarm(r)
  PROVE  /\ RouteInv'
         /\ turn'[r].routedFrom # NoModel => turn[r].routedFrom # NoModel
         /\ \A q \in Turns \ {r} : turn'[q] = turn[q]
<1> DEFINE t == turn[r]
<1>1. /\ t \in Turn
      /\ t.routedFrom # NoModel => t.sent = "haiku" /\ t.asked # "haiku"
      /\ at[r] = "retry" => t.routedFrom = NoModel
  BY DEF RouteInv, RouteTypeOK, UnderWay
<1>2. UNCHANGED <<mode, cooldown, started, sinceError>>
  BY DEF Send, Resend, AskSwarm
<1>3. CASE AskSwarm(r)
  <2>1. at[r] = "local" /\ UNCHANGED <<credited, cheap>>
    BY <1>3 DEF AskSwarm
  <2>2. CASE Replies(r)
    BY <1>2, <2>1, <2>2, ReplyKeeps
  <2>3. CASE at' = [at EXCEPT ![r] = "send"] /\ UNCHANGED turn
    <3>1. turn' = [turn EXCEPT ![r] = t]
      BY <2>3 DEF RouteInv, RouteTypeOK
    <3> QED BY <1>1, <1>2, <2>1, <2>3, <3>1, MoveKeeps
  <2> QED BY <1>3, <2>2, <2>3 DEF AskSwarm
<1>4. ASSUME Send(r, a), a = "ok", Succeed(r, t, "ours")
      PROVE  /\ RouteInv' /\ turn'[r].routedFrom = NoModel
             /\ \A q \in Turns \ {r} : turn'[q] = turn[q]
  <2>1. /\ credited' = IF t.routedFrom # NoModel THEN credited + 1 ELSE credited
        /\ cheap' = IF t.sent = "haiku" /\ t.asked # "haiku" THEN cheap + 1 ELSE cheap
        /\ Replies(r) /\ at[r] # "idle"
    BY <1>4 DEF Succeed, Credit, Send
  <2> QED BY <1>1, <1>2, <2>1, ReplyKeeps
<1>5. ASSUME Resend(r, a), Succeed(r, t, "clients")
      PROVE  /\ RouteInv' /\ turn'[r].routedFrom = NoModel
             /\ \A q \in Turns \ {r} : turn'[q] = turn[q]
  <2>1. /\ credited' = IF t.routedFrom # NoModel THEN credited + 1 ELSE credited
        /\ cheap' = cheap /\ Replies(r) /\ at[r] = "retry"
    BY <1>5 DEF Succeed, Credit, Resend
  <2> QED BY <1>1, <1>2, <2>1, ReplyKeeps
<1>6. ASSUME Send(r, a) \/ Resend(r, a), Fail(r)
      PROVE  /\ RouteInv' /\ turn'[r].routedFrom = NoModel
             /\ \A q \in Turns \ {r} : turn'[q] = turn[q]
  <2>1. at[r] # "idle" /\ Replies(r) /\ UNCHANGED <<credited, cheap>>
    BY <1>6 DEF Fail, Send, Resend
  <2> QED BY <1>2, <2>1, ReplyKeeps
<1>7. ASSUME Send(r, a), turn' = [turn EXCEPT ![r] = Reverted(t)], at' = [at EXCEPT ![r] = "retry"],
             UNCHANGED <<held, credited, cheap>>
      PROVE  /\ RouteInv' /\ turn'[r].routedFrom = NoModel
             /\ \A q \in Turns \ {r} : turn'[q] = turn[q]
  <2>1. Reverted(t) \in Turn /\ Reverted(t).routedFrom = NoModel
    BY <1>1 DEF Reverted, Turn
  <2>2. at[r] # "idle"
    BY <1>7 DEF Send
  <2>3. turn'[r] = Reverted(t)
    BY <1>7 DEF RouteInv, RouteTypeOK
  <2> HIDE DEF t
  <2> QED BY <1>2, <1>7, <2>1, <2>2, <2>3, MoveKeeps
<1>8. CASE Send(r, a)
  <2>1. \/ a = "ok" /\ Succeed(r, t, "ours")
        \/ /\ turn' = [turn EXCEPT ![r] = Reverted(t)] /\ at' = [at EXCEPT ![r] = "retry"]
           /\ UNCHANGED <<held, credited, cheap>>
        \/ Fail(r)
    BY <1>8 DEF Send
  <2> QED BY <1>4, <1>6, <1>7, <1>8, <2>1
<1>9. CASE Resend(r, a)
  <2>1. Succeed(r, t, "clients") \/ Fail(r)
    BY <1>9 DEF Resend
  <2> QED BY <1>5, <1>6, <1>9, <2>1
<1> QED BY <1>3, <1>8, <1>9

LEMMA RouteStep ==
  ASSUME RouteInv, [RouteNext]_routeVars
  PROVE  /\ RouteInv'
         /\ \A r \in Turns : turn[r].routedFrom = NoModel /\ turn'[r].routedFrom # NoModel
                               => sinceError' >= 3
<1> DEFINE TurnKept ==
      /\ RouteInv'
      /\ \A r \in Turns : turn[r].routedFrom = NoModel /\ turn'[r].routedFrom # NoModel
                            => sinceError' >= 3
<1>1. ASSUME UNCHANGED routeVars PROVE TurnKept
  BY <1>1 DEF routeVars, RouteInv, RouteTypeOK, UnderWay, InFlight
<1>2. ASSUME NEW r \in Turns, Decide(r) PROVE TurnKept
  BY <1>2, DecideKeeps
<1>3. ASSUME NEW r \in Turns, NEW a \in Answers, AskSwarm(r) \/ Send(r, a) \/ Resend(r, a)
      PROVE  TurnKept
  BY <1>3, AnswerKeeps
<1>4. "ok" \in Answers
  BY DEF Answers
<1> HIDE DEF TurnKept
<1>5. ASSUME RouteNext PROVE TurnKept
  <2>1. PICK r \in Turns : Decide(r) \/ AskSwarm(r) \/ \E a \in Answers : Send(r, a) \/ Resend(r, a)
    BY <1>5 DEF RouteNext
  <2> QED BY <1>2, <1>3, <1>4, <2>1
<1>6. TurnKept
  BY <1>1, <1>5
<1> QED BY <1>6 DEF TurnKept

LEMMA RouteInvAlways == RouteSpec => []RouteInv
BY RouteInitInv, RouteStep, PTL DEF RouteSpec

\* Savings are credited only for turns the cheap model answered, whatever turns overlap
\* and however often they fall back to the client's body (routes_messages.rs).
THEOREM SavingsEarnedCorrect == RouteSpec => []SavingsEarned
<1>1. RouteInv => SavingsEarned
  BY DEF RouteInv, SavingsEarned
<1> QED BY <1>1, RouteInvAlways, PTL

\* A turn is routed to the cheap model only when it and the two turns decided before it
\* carried no error, for any number of turns under way at a time (prelude_state.rs).
THEOREM DebugStaysStrongCorrect == RouteSpec => DebugStaysStrong
<1> DEFINE Stays == \A r \in Turns : turn[r].routedFrom = NoModel /\ turn'[r].routedFrom # NoModel
                      => sinceError' >= 3
<1>1. ASSUME RouteInv, [RouteNext]_routeVars PROVE [Stays]_routeVars
  BY <1>1, RouteStep
<1>2. DebugStaysStrong <=> [][Stays]_routeVars
  BY PTL DEF DebugStaysStrong
<1> HIDE DEF Stays
<1> QED BY <1>1, <1>2, RouteInvAlways, PTL DEF RouteSpec

------------------------------------------------------------------------------
(* The agentic loop *)

LoopShape ==
  /\ phase \in {"propose", "apply", "returned"} /\ solved \in BOOLEAN
  /\ attempt \in 1 .. MaxAttempts + 1 /\ rejected \in 0 .. attempt - 1
  /\ phase # "returned" => attempt <= MaxAttempts
  /\ phase = "apply" <=> edits # <<>>
  /\ solved => phase = "returned" /\ Accepts(files)

LoopInv == TxShape /\ LoopShape

\* The way back, when only writes fail: between two attempts the tree is the
\* one the loop was given, and an open transaction knows it.
LoopWaysBack ==
  IF phase = "apply" THEN before = given /\ Recalls ELSE solved \/ files = given

LEMMA LoopInitInv == LoopInit => LoopInv /\ LoopWaysBack
<1> SUFFICES ASSUME LoopInit PROVE LoopInv /\ LoopWaysBack
  OBVIOUS
<1>1. files \in Trees /\ before \in Trees
  BY DEF LoopInit, TxInit, Trees, Held
<1>2. NoSnapshot \in SnapTables /\ \A p \in Paths : NoSnapshot[p] = NotTaken
  BY DEF NoSnapshot, SnapTables, Snapped
<1>3. <<>> \in Seq(FileEdits) /\ 0 \in 0 .. Len(<<>>)
  OBVIOUS
<1>4. TxShape
  BY <1>1, <1>2, <1>3 DEF LoopInit, TxInit, TxShape
<1>5. LoopShape
  <2>1. 1 \in 1 .. MaxAttempts + 1 /\ 0 \in 0 .. 1 - 1 /\ 1 <= MaxAttempts
    BY LoopAssumption
  <2>2. phase = "propose" /\ attempt = 1 /\ rejected = 0 /\ solved = FALSE /\ edits = <<>>
    BY DEF LoopInit, TxInit
  <2> QED BY <2>1, <2>2, Zenon DEF LoopShape
<1> QED BY <1>4, <1>5 DEF LoopInit, LoopInv, LoopWaysBack

\* Counting an attempt, with or without a rejection.
LEMMA NextAttemptShape ==
  ASSUME LoopShape, phase # "returned", NextAttempt, solved' = solved, edits' = <<>>,
         rejected' \in {rejected, rejected + 1}
  PROVE  LoopShape' /\ phase' # "apply"
BY LoopAssumption DEF LoopShape, NextAttempt

LEMMA LoopStep ==
  ASSUME LoopInv, [LoopNext]_loopAllVars
  PROVE  /\ LoopInv'
         /\ Faults \subseteq {"write"} /\ LoopWaysBack => LoopWaysBack'
<1> DEFINE Sound == LoopInv' /\ (Faults \subseteq {"write"} /\ LoopWaysBack => LoopWaysBack')
<1>1. ASSUME UNCHANGED loopAllVars PROVE Sound
  BY <1>1 DEF loopAllVars, txVars, loopVars, LoopInv, TxShape, LoopShape, LoopWaysBack, Recalls, Accepts
<1>2. ASSUME Skip PROVE Sound
  <2>1. /\ UNCHANGED <<files, edits, done, snap, before, rejected, solved, given>>
        /\ phase = "propose" /\ NextAttempt
    BY <1>2 DEF Skip, txVars
  <2>2. TxShape' /\ edits' = <<>>
    BY <2>1 DEF LoopInv, TxShape, LoopShape
  <2>3. LoopShape' /\ phase' # "apply"
    BY <2>1, <2>2, NextAttemptShape DEF LoopInv
  <2> QED BY <2>1, <2>2, <2>3 DEF LoopInv, LoopWaysBack
<1>3. ASSUME NEW E \in EditSets, Propose(E) PROVE Sound
  <2>1. /\ edits' = E /\ done' = 0 /\ snap' = NoSnapshot /\ before' = files /\ files' = files
        /\ phase = "propose" /\ E # <<>> /\ phase' = "apply"
        /\ UNCHANGED <<attempt, memory, rejected, solved, given>>
    BY <1>3 DEF Propose, Begin
  <2>2. NoSnapshot \in SnapTables /\ \A p \in Paths : NoSnapshot[p] = NotTaken
    BY DEF NoSnapshot, SnapTables, Snapped
  <2>3. E \in Seq(FileEdits) /\ 0 \in 0 .. Len(E)
    BY HeldKinds
  <2>4. TxShape'
    BY <2>1, <2>2, <2>3 DEF LoopInv, TxShape
  <2>5. LoopShape'
    BY <2>1 DEF LoopInv, LoopShape
  <2>6. LoopWaysBack => LoopWaysBack'
    BY <2>1, <2>2 DEF LoopInv, LoopShape, LoopWaysBack, Recalls
  <2> QED BY <2>4, <2>5, <2>6 DEF LoopInv
<1>4. ASSUME WriteCandidate PROVE Sound
  <2>1. /\ TxShape /\ WriteEdit /\ edits' = edits /\ before' = before /\ phase = "apply"
        /\ UNCHANGED <<phase, attempt, memory, rejected, solved, given>>
    BY <1>4 DEF WriteCandidate, WriteEdit, loopVars, LoopInv
  <2>2. TxShape'
    BY <2>1, WriteRespects
  <2>3. LoopShape'
    BY <2>1 DEF LoopInv, LoopShape
  <2>4. ASSUME "read" \notin Faults, Recalls
        PROVE  Recalls'
    <3>1. \A p \in Paths : \/ snap'[p] = snap[p] /\ (snap[p] = NotTaken => files'[p] = files[p])
                           \/ snap[p] = NotTaken /\ snap'[p] = files[p] /\ snap'[p] # NotTaken
      BY <2>1, <2>4, WriteRespects
    <3> QED BY <2>1, <2>4, <3>1 DEF Recalls
  <2>5. Faults \subseteq {"write"} /\ LoopWaysBack => LoopWaysBack'
    BY <2>1, <2>4 DEF LoopWaysBack
  <2> QED BY <2>2, <2>3, <2>5 DEF LoopInv
<1>5. ASSUME ApplyFails PROVE Sound
  <2>1. /\ TxShape /\ (WriteFails \/ MkdirFails)
        /\ edits' = <<>> /\ phase = "apply" /\ NextAttempt /\ rejected' = rejected + 1
        /\ solved' = solved /\ given' = given
    BY <1>5 DEF ApplyFails, Rejects, WriteFails, MkdirFails, End, LoopInv
  <2>2. TxShape'
    BY <2>1, WriteFailsRespects, MkdirFailsRespects
  <2>3. LoopShape' /\ phase' # "apply"
    BY <2>1, NextAttemptShape DEF LoopInv
  <2>4. ASSUME Faults \subseteq {"write"}, LoopWaysBack
        PROVE  LoopWaysBack'
    <3>1. Recalls /\ before = given /\ "mkdir" \notin Faults
          /\ {"read", "restore"} \intersect Faults = {}
      BY <2>1, <2>4 DEF LoopWaysBack
    <3>2. files' = before
      BY <2>1, <3>1, WriteFailsRespects DEF MkdirFails
    <3> QED BY <2>1, <2>3, <3>1, <3>2 DEF LoopWaysBack
  <2> QED BY <2>2, <2>3, <2>4 DEF LoopInv
<1>6. ASSUME Accept PROVE Sound
  <2>1. /\ End /\ files' = files /\ before' = before /\ Accepts(files)
        /\ solved' = TRUE /\ phase' = "returned" /\ phase = "apply"
        /\ UNCHANGED <<attempt, memory, rejected, given>>
    BY <1>6 DEF Accept
  <2>2. TxShape'
    BY <2>1, EndShape DEF LoopInv, TxShape
  <2>3. LoopShape'
    <3>1. edits' = <<>>
      BY <2>1 DEF End
    <3>2. Accepts(files)'
      BY <2>1 DEF Accepts
    <3>3. /\ attempt' = attempt /\ rejected' = rejected /\ phase' = "returned" /\ solved'
          /\ phase' # "apply" /\ ~(phase' # "returned")
      BY <2>1
    <3>4. phase' \in {"propose", "apply", "returned"} /\ (phase' = "apply" <=> edits' # <<>>)
          /\ attempt' \in 1 .. MaxAttempts + 1 /\ rejected' \in 0 .. attempt' - 1
      BY <3>1, <3>3 DEF LoopInv, LoopShape
    <3>5. solved' \in BOOLEAN
      BY <2>1
    <3> QED BY <3>2, <3>3, <3>4, <3>5, Zenon DEF LoopShape
  <2> QED BY <2>1, <2>2, <2>3 DEF LoopInv, LoopWaysBack
<1>7. ASSUME Reject PROVE Sound
  <2>1. /\ TxShape /\ Undo(files, snap) /\ End /\ UNCHANGED before
        /\ edits' = <<>> /\ phase = "apply" /\ NextAttempt /\ rejected' = rejected + 1
        /\ solved' = solved /\ given' = given
    BY <1>7 DEF Reject, Rejects, End, LoopInv
  <2>2. TxShape'
    BY <2>1, UndoRespects
  <2>3. LoopShape' /\ phase' # "apply"
    BY <2>1, NextAttemptShape DEF LoopInv
  <2>4. ASSUME Faults \subseteq {"write"}, LoopWaysBack
        PROVE  LoopWaysBack'
    <3>1. Recalls /\ before = given /\ "restore" \notin Faults
      BY <2>1, <2>4 DEF LoopWaysBack
    <3>2. files' = before
      BY <2>1, <3>1, UndoRespects
    <3> QED BY <2>1, <2>3, <3>1, <3>2 DEF LoopWaysBack
  <2> QED BY <2>2, <2>3, <2>4 DEF LoopInv
<1> HIDE DEF Sound
<1>8. Sound
  BY <1>1, <1>2, <1>3, <1>4, <1>5, <1>6, <1>7 DEF LoopNext
<1> QED BY <1>8 DEF Sound

LEMMA LoopInvAlways == LoopSpec => []LoopInv
BY LoopInitInv, LoopStep, PTL DEF LoopSpec

\* The state of the loop is well formed, and it stops at its limit.
THEOREM LoopTypeCorrect == LoopSpec => []LoopTypeOK
<1>1. LoopInv => LoopTypeOK
  BY LoopAssumption DEF LoopInv, TxShape, LoopShape, LoopTypeOK, Trees, SnapTables, Snapped
<1> QED BY <1>1, LoopInvAlways, PTL

\* Whatever fails, a loop that reports success has left a tree that passes both suites.
THEOREM SolvedPassesCorrect == LoopSpec => [](solved => files \in Train \intersect Holdout)
<1>1. LoopInv => (solved => files \in Train \intersect Holdout)
  BY DEF LoopInv, LoopShape, Accepts
<1> QED BY <1>1, LoopInvAlways, PTL

\* When only writes can fail, the loop leaves the tree as it found it or one that both
\* suites pass (agentic_loop.rs), for any suites, proposals and number of attempts.
THEOREM SolvedOrUntouchedCorrect ==
  ASSUME Faults \subseteq {"write"}
  PROVE  LoopSpec => []SolvedOrUntouched
<1>1. LoopInv /\ LoopWaysBack /\ [LoopNext]_loopAllVars => LoopWaysBack'
  BY LoopStep
<1>2. LoopInv /\ LoopWaysBack => SolvedOrUntouched
  BY DEF LoopInv, LoopShape, LoopWaysBack, SolvedOrUntouched, Accepts
<1> QED BY <1>1, <1>2, LoopInitInv, LoopInvAlways, PTL DEF LoopSpec

------------------------------------------------------------------------------
(* The solve loop *)

Phases == Ends \union {"supervise", "run", "blame", "next", "poly"} \union Repairs

Steps == [phase : Phases, round : Nat, attempt : Nat, waits : Nat, healed : BOOLEAN,
          made : BOOLEAN, bit : BOOLEAN, copy : BOOLEAN, left : SUBSET Sources,
          file : Sources \union {"none"}, first : Text, known : BOOLEAN, tries : Nat]

SolveShape ==
  /\ text \in [Sources -> Text] /\ unsafe \subseteq Sources
  /\ step \in Steps /\ learned \in BOOLEAN
  /\ step.phase \in Repairs \union {"poly"} => step.file \in Sources

\* A file whose backup and undoing the system did not refuse differs from what
\* was found only while it is under repair: while Poly-JIT, which has read it,
\* tries its patches, or once the command has passed with it.
Intact(f) == f \in unsafe \/ text[f] = Original
Found ==
  /\ \A f \in Sources : f # step.file => Intact(f)
  /\ step.phase \in Repairs \union {"poly"} /\ step.known =>
       step.file \in unsafe \/ step.first = Original
  /\ step.phase \in Repairs => Intact(step.file)
  /\ step.phase = "poly" /\ ~step.known => Intact(step.file)
  /\ step.phase \notin Repairs \union {"poly", "solved"} => Differs = {}
  /\ step.phase = "solved" => passed = text

SolveInv == SolveShape /\ Found

LEMMA Names ==
  /\ Repairs = {"mutate", "fleet", "prompt"} /\ Ends = {"solved", "unsolved", "error"}
  /\ \A repair \in Repairs : NextPhase[repair] \in {"fleet", "prompt", "next"}
BY DEF Repairs, NextPhase, Ends

LEMMA Texts ==
  /\ Original \in Text /\ Torn \in Text
  /\ \A e \in Edits, c \in BOOLEAN : [edit |-> e, cut |-> c] \in Text
  /\ \A t \in Text : t.cut \in BOOLEAN
BY DEF Original, Torn, Text

\* What a step of the loop that changes no file keeps.
LEMMA EnterStep ==
  ASSUME step \in Steps, NEW repair \in Phases, Enter(repair)
  PROVE  /\ step' \in Steps /\ step'.phase = repair /\ step'.known = FALSE
         /\ step'.file = step.file
BY Texts DEF Steps, Enter

\* A restart of the supervised run, and of the round, stays among the steps.
LEMMA RunStep ==
  ASSUME step \in Steps, step' = [step EXCEPT !.attempt = @ + 1, !.healed = TRUE, !.bit = TRUE]
  PROVE  step' \in Steps /\ step'.phase = step.phase
<1>1. step.attempt + 1 \in Nat
  BY DEF Steps
<1> QED BY <1>1 DEF Steps

LEMMA RestartStep ==
  ASSUME step \in Steps, NEW waits \in Nat, NEW made \in BOOLEAN, NEW bit \in BOOLEAN,
         step' = [step EXCEPT !.attempt = @ + 1, !.healed = TRUE, !.waits = waits,
                              !.made = made, !.bit = bit]
  PROVE  step' \in Steps /\ step'.phase = step.phase
<1>1. step.attempt + 1 \in Nat
  BY DEF Steps
<1> QED BY <1>1 DEF Steps

LEMMA RoundStep ==
  ASSUME step \in Steps, "supervise" \in Phases,
         step' = [step EXCEPT !.phase = "supervise", !.round = @ + 1, !.file = "none"]
  PROVE  step' \in Steps /\ step'.phase = "supervise"
<1>1. step.round + 1 \in Nat
  BY DEF Steps
<1> QED BY <1>1 DEF Steps

LEMMA NothingDiffers ==
  (\A f \in Sources : Intact(f)) <=> Differs = {}
BY DEF Intact, Differs

\* Outside the repairs, a step that leaves the files alone.
LEMMA QuietStep ==
  ASSUME SolveInv, UNCHANGED <<text, unsafe>>, learned' \in BOOLEAN, step' \in Steps,
         step.phase \notin Repairs \union {"poly", "solved"},
         step'.phase \notin Repairs \union {"poly", "solved"}
  PROVE  SolveInv'
<1>1. \A f \in Sources : Intact(f)
  BY NothingDiffers DEF SolveInv, Found
<1>2. (\A f \in Sources : Intact(f)') /\ Differs' = {}
  BY <1>1, NothingDiffers DEF Intact, Differs
<1> QED BY <1>2 DEF SolveInv, SolveShape, Found

LEMMA SupervisorKeeps ==
  ASSUME SolveInv, \/ Immunize \/ Unlaunched \/ RunFails \/ EndRound
                   \/ \E suspects \in SUBSET Sources : Localize(suspects)
  PROVE  SolveInv'
<1>1. step \in Steps /\ learned \in BOOLEAN /\ Original \in Text
  BY Texts DEF SolveInv, SolveShape
<1>2. {"supervise", "run", "blame", "next", "unsolved", "error"} \subseteq Phases \ (Repairs \union {"poly", "solved"})
  BY Names DEF Phases
<1>3. CASE Immunize
  <2>1. PICK d \in BOOLEAN : step' = [step EXCEPT !.phase = "run", !.attempt = 1, !.waits = 0, !.healed = d,
                            !.made = d, !.bit = FALSE, !.copy = learned]
    BY <1>3 DEF Immunize
  <2>2. step' \in Steps /\ step'.phase = "run"
    BY <1>1, <1>2, <2>1 DEF Steps
  <2>3. step.phase = "supervise" /\ UNCHANGED <<text, unsafe, learned>>
    BY <1>3 DEF Immunize, diskVars, fileVars
  <2> QED BY <1>1, <1>2, <2>2, <2>3, QuietStep
<1>4. CASE Unlaunched
  <2>1. step.phase = "run" /\ UNCHANGED <<text, unsafe, learned>>
    BY <1>4 DEF Unlaunched, diskVars, fileVars
  <2>2. step' \in Steps /\ step'.phase \in {"run", "error"}
    <3>1. CASE Enter("error")
      BY <1>1, <1>2, <3>1, EnterStep
    <3>2. CASE step' = [step EXCEPT !.attempt = @ + 1, !.healed = TRUE, !.bit = TRUE]
      BY <1>1, <1>2, <2>1, <3>2, RunStep
    <3> QED BY <1>4, <3>1, <3>2 DEF Unlaunched
  <2> QED BY <1>1, <1>2, <2>1, <2>2, QuietStep
<1>5. CASE RunFails
  <2>1. step.phase = "run" /\ UNCHANGED <<text, unsafe>> /\ learned' \in BOOLEAN
    BY <1>1, <1>5 DEF RunFails, diskVars, Steps
  <2>2. step' \in Steps /\ step'.phase \in {"run", "blame"}
    <3>1. PICK heal \in {"none", "made", "bit", "waited"} :
            LET again == heal # "none" /\ step.attempt <= Restarts IN
            step' = IF again
                  THEN [step EXCEPT !.attempt = @ + 1, !.healed = TRUE,
                                    !.waits = IF heal = "waited" THEN @ + 1 ELSE @,
                                    !.made = @ \/ heal = "made", !.bit = @ \/ heal = "bit"]
                  ELSE [step EXCEPT !.phase = "blame", !.healed = @ \/ heal # "none",
                                    !.attempt = 1, !.waits = 0, !.made = FALSE,
                                    !.bit = FALSE, !.copy = FALSE]
      BY <1>5 DEF RunFails
    <3>2. CASE step' = [step EXCEPT !.attempt = @ + 1, !.healed = TRUE,
                                    !.waits = IF heal = "waited" THEN @ + 1 ELSE @,
                                    !.made = @ \/ heal = "made", !.bit = @ \/ heal = "bit"]
      <4> DEFINE waits == IF heal = "waited" THEN step.waits + 1 ELSE step.waits
                 made == step.made \/ heal = "made"
                 bit == step.bit \/ heal = "bit"
      <4>1. waits \in Nat
        BY <1>1 DEF Steps
      <4>2. made \in BOOLEAN
        OBVIOUS
      <4>3. bit \in BOOLEAN
        OBVIOUS
      <4>4. step' = [step EXCEPT !.attempt = @ + 1, !.healed = TRUE, !.waits = waits,
                                 !.made = made, !.bit = bit]
        BY <3>2
      <4> HIDE DEF waits, made, bit
      <4> QED BY <1>1, <2>1, <4>1, <4>2, <4>3, <4>4, RestartStep
    <3>3. CASE step' = [step EXCEPT !.phase = "blame", !.healed = @ \/ heal # "none",
                                    !.attempt = 1, !.waits = 0, !.made = FALSE,
                                    !.bit = FALSE, !.copy = FALSE]
      BY <1>1, <1>2, <3>3 DEF Steps
    <3> QED BY <3>1, <3>2, <3>3
  <2> QED BY <1>2, <2>1, <2>2, QuietStep
<1>6. CASE EndRound
  <2>1. step.phase = "next" /\ UNCHANGED <<text, unsafe, learned>>
    BY <1>6 DEF EndRound, diskVars, fileVars
  <2>2. step' \in Steps /\ step'.phase \in {"supervise", "unsolved"}
    <3>1. CASE Enter("unsolved")
      BY <1>1, <1>2, <3>1, EnterStep
    <3>2. CASE step' = [step EXCEPT !.phase = "supervise", !.round = @ + 1, !.file = "none"]
      BY <1>1, <1>2, <3>2, RoundStep
    <3> QED BY <1>6, <3>1, <3>2 DEF EndRound
  <2> QED BY <1>1, <1>2, <2>1, <2>2, QuietStep
<1>7. CASE \E suspects \in SUBSET Sources : Localize(suspects)
  <2>1. PICK suspects \in SUBSET Sources : Localize(suspects)
    BY <1>7
  <2>2. /\ step.phase = "blame" /\ UNCHANGED <<text, unsafe, learned>>
        /\ step' = [step EXCEPT !.phase = "next", !.left = suspects]
    BY <2>1 DEF Localize, diskVars, fileVars
  <2>3. step' \in Steps /\ step'.phase = "next"
    BY <1>1, <1>2, <2>2 DEF Steps
  <2> QED BY <1>1, <1>2, <2>2, <2>3, QuietStep
<1> QED BY <1>3, <1>4, <1>5, <1>6, <1>7

\* The command passes with what is on disk, and nothing is written.
LEMMA PassesAsIs ==
  ASSUME SolveInv, UNCHANGED <<text, unsafe>>, learned' \in BOOLEAN, Passes(text)
  PROVE  SolveInv'
<1>1. "solved" \in Phases /\ "solved" \notin Repairs \union {"poly"}
  BY Names DEF Phases
<1>2. /\ step' \in Steps /\ step'.phase = "solved" /\ step'.file = step.file
      /\ passed' = text
  BY <1>1, EnterStep DEF SolveInv, SolveShape, Passes
<1> QED BY <1>1, <1>2 DEF SolveInv, SolveShape, Found, Intact

LEMMA TakeFileKeeps ==
  ASSUME SolveInv, NEW f \in Sources, TakeFile(f)
  PROVE  SolveInv'
<1>1. /\ step.phase = "next" /\ UNCHANGED <<text, unsafe, learned>>
      /\ step' = [step EXCEPT !.phase = "poly", !.left = @ \ {f}, !.file = f, !.known = FALSE,
                              !.tries = 0]
  BY DEF TakeFile, diskVars, fileVars
<1>2. "poly" \in Phases /\ "poly" \notin Repairs /\ "next" \notin Repairs \union {"poly", "solved"}
  BY Names DEF Phases
<1>3. step' \in Steps /\ step'.phase = "poly" /\ step'.file = f /\ step'.known = FALSE
  BY <1>1, <1>2 DEF SolveInv, SolveShape, Steps
<1>4. \A g \in Sources : Intact(g)'
  BY <1>1, <1>2, NothingDiffers DEF SolveInv, Found, Intact
<1> QED BY <1>1, <1>2, <1>3, <1>4 DEF SolveInv, SolveShape, Found

\* A phase of repairs that reads the file.
LEMMA ReadsKeeps ==
  ASSUME SolveInv, NEW repair \in Repairs \union {"poly"}, Reads(repair)
  PROVE  SolveInv'
<1>1. /\ step.phase = repair /\ ~step.known /\ UNCHANGED <<text, unsafe, learned>>
      /\ step' = [step EXCEPT !.known = TRUE, !.first = text[step.file]]
  BY DEF Reads, diskVars, fileVars, f0
<1>2. step.file \in Sources /\ text[step.file] \in Text /\ repair \notin {"solved"}
  BY <1>1, Names DEF SolveInv, SolveShape
<1>3. /\ step' \in Steps /\ step'.phase = repair /\ step'.file = step.file
      /\ step'.known = TRUE /\ step'.first = text[step.file]
  BY <1>1, <1>2 DEF SolveInv, SolveShape, Steps
<1>4. Intact(step.file)
  BY <1>1 DEF SolveInv, Found
<1> QED BY <1>1, <1>2, <1>3, <1>4 DEF SolveInv, SolveShape, Found, Intact

\* Undoing brings the file back, or the system has refused to.
LEMMA PutBackIntact ==
  ASSUME SolveInv, step.phase \in Repairs \union {"poly"}, step.known, PutBack
  PROVE  /\ text' \in [Sources -> Text] /\ unsafe' \subseteq Sources
         /\ \A f \in Sources : f \in unsafe' \/ text'[f] = Original
         /\ unsafe \subseteq unsafe'
<1>1. step.file \in Sources /\ step.first \in Text /\ Torn \in Text /\ text \in [Sources -> Text]
  BY Texts DEF SolveInv, SolveShape, Steps
<1>2. \/ text' = [text EXCEPT ![step.file] = step.first] /\ unsafe' = unsafe
      \/ text' = [text EXCEPT ![step.file] = Torn] /\ unsafe' = unsafe \union {step.file}
  BY DEF PutBack, Put, Now, f0
<1>3. step.file \in unsafe \/ step.first = Original
  BY DEF SolveInv, Found
<1>4. text' \in [Sources -> Text] /\ unsafe' \subseteq Sources /\ unsafe \subseteq unsafe'
  BY <1>1, <1>2 DEF SolveInv, SolveShape
<1>5. text'[step.file] = Original \/ step.file \in unsafe'
  BY <1>1, <1>2, <1>3
<1>6. \A f \in Sources : f # step.file => f \in unsafe \/ text'[f] = Original
  BY <1>1, <1>2 DEF SolveInv, Found, Intact
<1> QED BY <1>4, <1>5, <1>6

\* Once it is undone, the next candidate or the next phase may follow.
LEMMA UndoneKeeps ==
  ASSUME SolveInv, step.phase \in Repairs \union {"poly"},
         text' \in [Sources -> Text], unsafe' \subseteq Sources, unsafe \subseteq unsafe',
         \A f \in Sources : f \in unsafe' \/ text'[f] = Original,
         \/ step' = [step EXCEPT !.tries = @ + 1]
         \/ \E next \in {"mutate", "fleet", "prompt", "next"} : Enter(next),
         learned' = learned
  PROVE  SolveInv'
<1>1. (\A f \in Sources : Intact(f)') /\ Differs' = {}
  BY DEF Intact, Differs
<1>2. {"mutate", "fleet", "prompt", "next"} \subseteq Phases \ {"solved", "poly"}
  BY Names DEF Phases
<1>3. step \in Steps /\ step.phase # "solved" /\ step.file \in Sources
  BY Names DEF SolveInv, SolveShape
<1>4. CASE step' = [step EXCEPT !.tries = @ + 1]
  <2>1. /\ step' \in Steps /\ step'.phase = step.phase /\ step'.file = step.file
        /\ step'.known = step.known /\ step'.first = step.first
    BY <1>3, <1>4 DEF Steps
  <2> QED BY <1>1, <1>3, <2>1 DEF SolveInv, SolveShape, Found
<1>5. ASSUME NEW next \in {"mutate", "fleet", "prompt", "next"}, Enter(next)
      PROVE  SolveInv'
  <2>1. /\ step' \in Steps /\ step'.phase = next /\ step'.file = step.file
        /\ step'.known = FALSE
    BY <1>2, <1>3, <1>5, EnterStep
  <2> QED BY <1>1, <1>2, <1>3, <2>1 DEF SolveInv, SolveShape, Found
<1> QED BY <1>4, <1>5

LEMMA PolyKeeps ==
  ASSUME SolveInv, PolyUnread \/ PolyPasses \/ PolyGivesUp \/ \E e \in Edits : PolyPatches(e)
  PROVE  SolveInv'
<1>1. /\ step.phase = "poly" /\ step.file \in Sources /\ step \in Steps
      /\ "poly" \notin Repairs /\ text \in [Sources -> Text] /\ learned \in BOOLEAN
  BY Names DEF SolveInv, SolveShape, PolyUnread, PolyPasses, PolyGivesUp, PolyPatches, AtPoly
<1>2. CASE PolyUnread
  <2>1. /\ unsafe' = unsafe \union {step.file} /\ UNCHANGED <<text, step, learned, passed>>
    BY <1>2 DEF PolyUnread, f0, fileVars
  <2> QED BY <1>1, <2>1 DEF SolveInv, SolveShape, Found, Intact
<1>3. CASE PolyPasses
  BY <1>1, <1>3, PassesAsIs DEF PolyPasses, diskVars, fileVars
<1>4. CASE PolyGivesUp
  <2>1. learned' = learned /\ Enter("mutate")
    BY <1>4 DEF PolyGivesUp, fileVars
  <2>2. CASE step.known
    <3>1. PutBack
      BY <1>4, <2>2 DEF PolyGivesUp
    <3> QED BY <1>1, <2>1, <2>2, <3>1, PutBackIntact, UndoneKeeps
  <2>3. CASE ~step.known
    <3>1. step.file \in unsafe
      BY <1>4, <2>3 DEF PolyGivesUp, AtPoly, f0
    <3>2. unsafe' = unsafe /\ (text' = text \/ text' = [text EXCEPT ![step.file] = Torn])
      BY <1>4, <2>3 DEF PolyGivesUp, Put, Now, f0
    <3>3. text' \in [Sources -> Text] /\ \A f \in Sources : f # step.file => text'[f] = text[f]
      BY <1>1, <3>2, Texts
    <3>4. \A f \in Sources : f \in unsafe' \/ text'[f] = Original
      BY <3>1, <3>2, <3>3 DEF SolveInv, Found, Intact
    <3> QED BY <1>1, <2>1, <3>2, <3>3, <3>4, UndoneKeeps DEF SolveInv, SolveShape
  <2> QED BY <2>2, <2>3
<1>5. ASSUME NEW e \in Edits, PolyPatches(e)
      PROVE  SolveInv'
  <2>1. /\ text' = [text EXCEPT ![step.file] = Excerpt(e)] /\ step' = [step EXCEPT !.tries = @ + 1]
        /\ step.known \/ step.file \in unsafe
        /\ UNCHANGED <<unsafe, learned, passed>>
    BY <1>5 DEF PolyPatches, AtPoly, Put, Now, Tried, f0, fileVars
  <2>2. Excerpt(e) \in Text
    BY Texts DEF Excerpt
  <2>3. text' \in [Sources -> Text] /\ \A f \in Sources : f # step.file => text'[f] = text[f]
    BY <1>1, <2>1, <2>2
  <2>4. /\ step' \in Steps /\ step'.phase = "poly" /\ step'.file = step.file
        /\ step'.known = step.known /\ step'.first = step.first
    BY <1>1, <2>1 DEF Steps
  <2> QED BY <1>1, <2>1, <2>3, <2>4, Names DEF SolveInv, SolveShape, Found, Intact
<1> QED BY <1>2, <1>3, <1>4, <1>5

LEMMA RepairKeeps ==
  ASSUME SolveInv, NEW repair \in Repairs,
         \/ Discards(repair) \/ CannotWrite(repair) \/ Skips(repair)
         \/ \E t \in Text, recorded \in BOOLEAN : Adopts(repair, t, recorded)
  PROVE  SolveInv'
<1>1. /\ step.phase = repair /\ step.file \in Sources /\ step \in Steps
      /\ text \in [Sources -> Text] /\ unsafe \subseteq Sources
      /\ NextPhase[repair] \in {"mutate", "fleet", "prompt", "next"}
  BY Names DEF SolveInv, SolveShape, Discards, CannotWrite, Skips, Adopts, Trying
<1>2. CASE Discards(repair)
  <2>1. step.known /\ PutBack /\ step' = [step EXCEPT !.tries = @ + 1] /\ learned' = learned
    BY <1>2 DEF Discards, Trying, Rejected, Tried, fileVars
  <2> QED BY <1>1, <2>1, PutBackIntact, UndoneKeeps
<1>3. CASE CannotWrite(repair)
  <2>1. /\ step.known /\ PutBack /\ learned' = learned
        /\ step' = [step EXCEPT !.tries = @ + 1] \/ Enter(NextPhase[repair])
    BY <1>3 DEF CannotWrite, Trying, TornWrite, Tried, fileVars
  <2> QED BY <1>1, <2>1, PutBackIntact, UndoneKeeps
<1>4. CASE Skips(repair)
  <2>1. UNCHANGED <<text, unsafe, learned>> /\ Enter(NextPhase[repair])
    BY <1>4 DEF Skips, GoesOn, diskVars, fileVars
  <2>2. \A f \in Sources : f \in unsafe' \/ text'[f] = Original
    BY <1>1, <2>1 DEF SolveInv, Found, Intact
  <2> QED BY <1>1, <2>1, <2>2, UndoneKeeps
<1>5. ASSUME NEW t \in Text, NEW recorded \in BOOLEAN, Adopts(repair, t, recorded)
      PROVE  SolveInv'
  <2>1. /\ text' = [text EXCEPT ![step.file] = t] /\ passed' = [text EXCEPT ![step.file] = t]
        /\ Enter("solved") /\ UNCHANGED <<learned, unsafe>>
    BY <1>5 DEF Adopts, Kept, Put, Now, Passes, f0
  <2>2. "solved" \in Phases /\ "solved" \notin Repairs \union {"poly"}
    BY Names DEF Phases
  <2>3. /\ step' \in Steps /\ step'.phase = "solved" /\ step'.file = step.file
    BY <1>1, <2>1, <2>2, EnterStep
  <2>4. text' \in [Sources -> Text] /\ \A f \in Sources : f # step.file => text'[f] = text[f]
    BY <1>1, <2>1
  <2> QED BY <2>1, <2>2, <2>3, <2>4 DEF SolveInv, SolveShape, Found, Intact
<1> QED BY <1>2, <1>3, <1>4, <1>5

LEMMA SolveInitInv == SolveInit => SolveInv
<1> SUFFICES ASSUME SolveInit PROVE SolveInv
  OBVIOUS
<1>1. "supervise" \in Phases /\ "supervise" \notin Repairs \union {"poly", "solved"}
  BY Names DEF Phases
<1>2. text \in [Sources -> Text] /\ \A f \in Sources : text[f] = Original
  BY Texts DEF SolveInit
<1>3. step \in Steps /\ step.phase = "supervise"
  BY <1>1, Texts DEF SolveInit, Steps
<1>4. Differs = {}
  BY <1>2 DEF Differs
<1> QED BY <1>1, <1>2, <1>3, <1>4 DEF SolveInit, SolveInv, SolveShape, Found, Intact

LEMMA SolveStep == SolveInv /\ [SolveNext]_solveVars => SolveInv'
<1> SUFFICES ASSUME SolveInv, [SolveNext]_solveVars PROVE SolveInv'
  OBVIOUS
<1>1. CASE UNCHANGED solveVars
  BY <1>1 DEF solveVars, SolveInv, SolveShape, Found, Intact, Differs
<1>2. CASE \/ Immunize \/ Unlaunched \/ RunFails \/ EndRound
           \/ \E suspects \in SUBSET Sources : Localize(suspects)
  BY <1>2, SupervisorKeeps
<1>3. CASE RunPasses
  <2>1. Passes(text) /\ UNCHANGED <<text, unsafe>> /\ learned' \in BOOLEAN
    BY <1>3 DEF RunPasses, diskVars, SolveInv, SolveShape, Steps
  <2> QED BY <2>1, PassesAsIs
<1>4. CASE PeerMerge
  <2>1. UNCHANGED <<text, unsafe, step, passed>> /\ learned' = TRUE
    BY <1>4 DEF PeerMerge, diskVars
  <2> QED BY <2>1 DEF SolveInv, SolveShape, Found, Intact, Differs
<1>5. CASE \E f \in Sources : TakeFile(f)
  BY <1>5, TakeFileKeeps
<1>6. CASE Reads("poly") \/ \E repair \in Repairs : Reads(repair)
  BY <1>6, ReadsKeeps
<1>7. CASE PolyUnread \/ PolyPasses \/ PolyGivesUp \/ \E e \in Edits : PolyPatches(e)
  BY <1>7, PolyKeeps
<1>8. CASE \E repair \in Repairs :
             \/ Discards(repair) \/ CannotWrite(repair) \/ Skips(repair)
             \/ \E t \in Text, recorded \in BOOLEAN : Adopts(repair, t, recorded)
  BY <1>8, RepairKeeps
<1> QED BY <1>1, <1>2, <1>3, <1>4, <1>5, <1>6, <1>7, <1>8 DEF SolveNext

\* A solve that gives up leaves every file as it found it, one that succeeds changes at
\* most one, and what is on disk is what the command passed with (solve.rs): files whose
\* backup or undoing the system refused aside, for any files, edits, rounds and budgets.
THEOREM OnlyFixChangesCorrect == SolveSpec => []OnlyFixChanges
<1>1. SolveInv => OnlyFixChanges
  <2> SUFFICES ASSUME SolveInv PROVE OnlyFixChanges
    OBVIOUS
  <2>1. step.phase \in (Ends \ {"solved"}) \union {"supervise", "run", "blame", "next"}
          => Differs = {}
    BY Names DEF SolveInv, Found
  <2>2. Differs \subseteq {step.file}
    BY DEF SolveInv, Found, Intact, Differs
  <2>3. IsFiniteSet({step.file}) /\ Cardinality({step.file}) = 1
    BY FS_Singleton
  <2>4. Cardinality(Differs) <= 1
    BY <2>2, <2>3, FS_Subset
  <2> QED BY <2>1, <2>4 DEF SolveInv, Found, OnlyFixChanges
<1> QED BY <1>1, SolveInitInv, SolveStep, PTL DEF SolveSpec

------------------------------------------------------------------------------
(* The mesh controller *)

Calls == [node : Nodes, id : Nat, at : {"queued", "sent"}]
Results == [node : Nodes, id : Nat, answer : Nat]

\* The controller has one command to execute, or waits for calls it has
\* dispatched, or has its end; calls are out only while it waits.
NothingDue == running = {} /\ mailbox = <<>>
RoundsOpen ==
  \/ control = At("idle") /\ commands = <<>> /\ NothingDue
  \/ control = At("sensing") /\ commands = <<Command("fuse")>> /\ NothingDue
  \/ control = At("routing") /\ commands = <<Command("route")>> /\ NothingDue
  \/ \E where \in {"converged", "halted"} :
       control = At(where) /\ commands = <<Command("announce")>> /\ NothingDue
  \/ \E S \in (SUBSET Nodes) \ {{}} :
       control = Awaiting(Cardinality(S)) /\ commands = <<DispatchTo(S)>> /\ NothingDue
  \/ /\ control = Awaiting(Cardinality(running) + Len(mailbox)) /\ commands = <<>>
     /\ Cardinality(running) + Len(mailbox) > 0

MeshShape ==
  /\ members \subseteq Nodes /\ issued \in [Nodes -> Nat]
  /\ running \subseteq Calls /\ IsFiniteSet(running) /\ mailbox \in Seq(Results)

MeshInv == MeshShape /\ RoundsOpen /\ AnswersAreOwn

LEMMA MeshInitInv == MeshInit => MeshInv
BY FS_EmptySet DEF MeshInit, MeshInv, MeshShape, RoundsOpen, NothingDue, AnswersAreOwn, At

\* While a call is out the controller waits, and for nothing else.
LEMMA Waiting ==
  ASSUME MeshInv, running # {} \/ mailbox # <<>>
  PROVE  /\ control = Awaiting(Cardinality(running) + Len(mailbox)) /\ commands = <<>>
         /\ Cardinality(running) + Len(mailbox) > 0
BY DEF MeshInv, RoundsOpen, NothingDue

LEMMA TheCommand ==
  ASSUME NEW op, NEW S, commands = <<[op |-> op, nodes |-> S]>>
  PROVE  Popped = [op |-> op, nodes |-> S] /\ Rest = <<>>
BY DEF Popped, Rest

LEMMA ResolveKeeps ==
  ASSUME MeshInv, NEW c \in running, NEW a \in {0, c.id}, Resolve(c, a)
  PROVE  MeshInv'
<1>1. /\ control = Awaiting(Cardinality(running) + Len(mailbox)) /\ commands = <<>>
      /\ Cardinality(running) + Len(mailbox) > 0
  BY Waiting
<1>2. c \in Calls /\ IsFiniteSet(running) /\ mailbox \in Seq(Results)
  BY DEF MeshInv, MeshShape
<1>3. IsFiniteSet(running') /\ Cardinality(running') = Cardinality(running) - 1
  BY <1>2, FS_RemoveElement DEF Resolve
<1>4. [node |-> c.node, id |-> c.id, answer |-> a] \in Results
  BY <1>2 DEF Calls, Results
<1>5. /\ mailbox' \in Seq(Results) /\ Len(mailbox') = Len(mailbox) + 1
      /\ AnswersAreOwn'
  BY <1>2, <1>4 DEF Resolve, AnswersAreOwn, MeshInv
<1>6. Cardinality(running) \in Nat /\ Len(mailbox) \in Nat /\ Cardinality(running') \in Nat
  BY <1>2, <1>3, FS_CardinalityType
<1>7. Cardinality(running') + Len(mailbox') = Cardinality(running) + Len(mailbox)
  BY <1>3, <1>5, <1>6
<1>8. UNCHANGED <<control, commands, members, issued>> /\ running' \subseteq running
  BY DEF Resolve, healthVars
<1> QED BY <1>1, <1>3, <1>5, <1>7, <1>8 DEF MeshInv, MeshShape, RoundsOpen

LEMMA WriteLineKeeps ==
  ASSUME MeshInv, NEW c \in running, WriteLine(c)
  PROVE  MeshInv'
<1> DEFINE d == [c EXCEPT !.at = "sent"]
<1>1. c \in Calls /\ IsFiniteSet(running) /\ Cardinality(running) \in Nat
  BY FS_CardinalityType DEF MeshInv, MeshShape
<1>2. d \in Calls /\ d.at = "sent" /\ d.node = c.node
  BY <1>1 DEF Calls
<1>3. d \notin running
  BY <1>2 DEF WriteLine
<1>4. IsFiniteSet(running \ {c}) /\ Cardinality(running \ {c}) = Cardinality(running) - 1
  BY <1>1, FS_RemoveElement
<1>5. IsFiniteSet(running') /\ Cardinality(running') = Cardinality(running)
  <2>1. running' = (running \ {c}) \union {d} /\ d \notin running \ {c}
    BY <1>3 DEF WriteLine
  <2> HIDE DEF d
  <2>2. IsFiniteSet(running') /\ Cardinality(running') = Cardinality(running \ {c}) + 1
    BY <1>4, <2>1, FS_AddElement
  <2> QED BY <1>1, <1>4, <2>2
<1>6. UNCHANGED <<control, commands, members, issued, mailbox>> /\ running' \subseteq Calls
  BY <1>2 DEF WriteLine, healthVars, MeshInv, MeshShape
<1>7. /\ control = Awaiting(Cardinality(running) + Len(mailbox)) /\ commands = <<>>
      /\ Cardinality(running) + Len(mailbox) > 0
  BY Waiting
<1> QED BY <1>5, <1>6, <1>7 DEF MeshInv, MeshShape, RoundsOpen, AnswersAreOwn

LEMMA TaskKeeps ==
  ASSUME MeshInv, NEW c \in running, Task(c)
  PROVE  MeshInv'
<1>1. CASE WriteLine(c)
  BY <1>1, WriteLineKeeps
<1>2. CASE Refused(c) \/ Closed(c) \/ Timeout(c)
  BY <1>2, ResolveKeeps DEF Refused, Closed, Timeout
<1>3. CASE ReadReply(c)
  <2>1. CASE Resolve(c, c.id)
    BY <2>1, ResolveKeeps
  <2>2. CASE UNCHANGED <<control, commands, healthVars, running, mailbox, issued, alive>>
    BY <2>2 DEF healthVars, MeshInv, MeshShape, RoundsOpen, NothingDue, AnswersAreOwn
  <2> QED BY <1>3, <2>1, <2>2 DEF ReadReply
<1> QED BY <1>1, <1>2, <1>3 DEF Task

LEMMA DispatchKeeps ==
  ASSUME MeshInv, Dispatch
  PROVE  MeshInv'
<1>1. PICK S \in (SUBSET Nodes) \ {{}} :
        control = Awaiting(Cardinality(S)) /\ commands = <<DispatchTo(S)>> /\ NothingDue
  <2>1. commands # <<>> /\ Popped.op = "dispatch"
    BY DEF Dispatch, Executes
  <2>2. \A op : commands # <<Command(op)>> \/ op = "dispatch"
    BY <2>1, TheCommand DEF Command
  <2> QED BY <2>1, <2>2 DEF MeshInv, RoundsOpen
<1>2. Popped.nodes = S /\ Rest = <<>>
  BY <1>1, TheCommand DEF DispatchTo
<1> DEFINE call(n) == [node |-> n, id |-> issued[n] + 1, at |-> "queued"]
<1>3. running' = {call(n) : n \in S} /\ mailbox' = <<>> /\ commands' = <<>> /\ control' = control
  BY <1>1, <1>2 DEF Dispatch, NothingDue
<1>4. issued' \in [Nodes -> Nat] /\ members' \subseteq Nodes /\ running' \subseteq Calls
  BY <1>2, <1>3 DEF Dispatch, MeshInv, MeshShape, Calls
<1>5. IsFiniteSet(S)
  BY <1>1, MeshAssumption, FS_Subset
<1>6. [n \in S |-> call(n)] \in Bijection(S, running')
  <2> DEFINE f == [n \in S |-> call(n)]
  <2>1. f \in [S -> running'] /\ \A t \in running' : \E n \in S : f[n] = t
    BY <1>3
  <2>2. IsInjective(f)
    BY DEF IsInjective
  <2> HIDE DEF f
  <2>3. f \in Bijection(S, running')
    BY <2>1, <2>2 DEF Bijection, Injection, Surjection
  <2> QED BY <2>3 DEF f
<1>7. IsFiniteSet(running') /\ Cardinality(running') = Cardinality(S)
  BY <1>5, <1>6, FS_Bijection DEF ExistsBijection
<1>8. Cardinality(S) \in Nat /\ Cardinality(S) # 0
  BY <1>1, <1>5, FS_CardinalityType, FS_EmptySet
<1>9. Cardinality(running') + Len(mailbox') = Cardinality(S) /\ Cardinality(S) > 0
  BY <1>3, <1>7, <1>8
<1> QED BY <1>1, <1>3, <1>4, <1>7, <1>9 DEF MeshInv, MeshShape, RoundsOpen, AnswersAreOwn

LEMMA RoutesKeeps ==
  ASSUME MeshInv, Start \/ FuseSensors \/ RouteResidual
  PROVE  MeshInv'
<1>1. UNCHANGED <<members, issued, running, mailbox>>
  BY DEF Start, FuseSensors, RouteResidual, healthVars, wireVars
<1>2. MeshShape' /\ AnswersAreOwn'
  BY <1>1 DEF MeshInv, MeshShape, AnswersAreOwn
<1>3. CASE Start
  <2>1. control.at = "idle" /\ control' = At("sensing") /\ commands' = Append(commands, Command("fuse"))
    BY <1>3 DEF Start, GoalLoaded, Moves
  <2>2. commands = <<>> /\ NothingDue
    BY <2>1 DEF MeshInv, RoundsOpen, At, Awaiting
  <2>3. commands' = <<Command("fuse")>> /\ NothingDue'
    BY <1>1, <2>1, <2>2 DEF NothingDue
  <2> QED BY <1>2, <2>1, <2>3 DEF MeshInv, RoundsOpen
<1>4. ASSUME NEW op \in {"fuse", "route"}, Executes(op)
      PROVE  commands = <<Command(op)>> /\ Rest = <<>> /\ NothingDue
  <2>1. commands # <<>> /\ Popped.op = op
    BY <1>4 DEF Executes
  <2>2. \A o : commands = <<Command(o)>> => o = op /\ Rest = <<>>
    BY <2>1, TheCommand DEF Command
  <2>3. \A S : commands # <<DispatchTo(S)>>
    BY <1>4, <2>1, TheCommand DEF DispatchTo
  <2> QED BY <2>1, <2>2, <2>3 DEF MeshInv, RoundsOpen
<1>5. CASE FuseSensors
  <2>1. Rest = <<>> /\ NothingDue
    BY <1>4, <1>5 DEF FuseSensors
  <2> QED BY <1>1, <1>2, <1>5, <2>1 DEF FuseSensors, Sensed, Moves, MeshInv, RoundsOpen, NothingDue
<1>6. CASE RouteResidual
  <2>1. Rest = <<>> /\ NothingDue
    BY <1>4, <1>6 DEF RouteResidual
  <2>2. CASE Fault(Rest)
    BY <1>1, <1>2, <2>1, <2>2 DEF Fault, Moves, MeshInv, RoundsOpen, NothingDue
  <2>3. ASSUME NEW S \in SUBSET members, members # {}, Cardinality(S) = Slots(members),
               Routed(S, Rest)
        PROVE  MeshInv'
    <3>1. S \subseteq Nodes /\ IsFiniteSet(members) /\ Cardinality(members) \in Nat
      BY MeshAssumption, FS_Subset, FS_CardinalityType DEF MeshInv, MeshShape
    <3>2. Cardinality(members) # 0
      BY <2>3, <3>1, FS_EmptySet
    <3>3. Cardinality(S) # 0
      BY <2>3, <3>1, <3>2, MeshAssumption DEF Slots
    <3>4. S # {}
      BY <3>3, FS_EmptySet
    <3> QED BY <1>1, <1>2, <2>1, <2>3, <3>1, <3>4 DEF Routed, Moves, MeshInv, RoundsOpen, NothingDue
  <2> QED BY <1>6, <2>2, <2>3 DEF RouteResidual
<1> QED BY <1>3, <1>5, <1>6

LEMMA ReceiveKeeps ==
  ASSUME MeshInv, Receive
  PROVE  MeshInv'
<1>1. /\ mailbox # <<>> /\ mailbox' = Tail(mailbox)
      /\ UNCHANGED <<running, issued>> /\ WorkerDone(<<>>)
  BY DEF Receive, wireVars
<1> DEFINE n == Cardinality(running)
<1>2. mailbox \in Seq(Results) /\ n \in Nat /\ Len(mailbox) \in Nat
  BY FS_CardinalityType DEF MeshInv, MeshShape
<1>3. control = Awaiting(n + Len(mailbox))
  BY <1>1, Waiting
<1>4. mailbox' \in Seq(Results) /\ Len(mailbox') = Len(mailbox) - 1 /\ AnswersAreOwn'
  BY <1>1, <1>2 DEF AnswersAreOwn, MeshInv
<1>5. members' \subseteq Nodes
  BY DEF Receive, Succeeds, Fails, MeshInv, MeshShape
<1>6. MeshShape'
  BY <1>1, <1>4, <1>5 DEF MeshInv, MeshShape
<1>7. RoundsOpen'
  <2>1. Len(mailbox) # 0
    BY <1>1, <1>2
  <2>2. n' = n /\ control.pending = n + Len(mailbox) /\ control.at = "awaiting"
    BY <1>1, <1>3 DEF Awaiting
  <2>3. CASE control.pending <= 1
    <3>1. n = 0 /\ Len(mailbox') = 0
      BY <1>2, <1>4, <2>1, <2>2, <2>3
    <3>2. NothingDue'
      BY <1>1, <1>4, <1>6, <3>1, FS_EmptySet DEF MeshShape, NothingDue
    <3>3. control' = At("sensing") /\ commands' = <<Command("fuse")>>
      BY <1>1, <2>2, <2>3 DEF WorkerDone, Moves
    <3> QED BY <3>2, <3>3 DEF RoundsOpen
  <2>4. CASE ~(control.pending <= 1)
    <3>1. control' = Awaiting(control.pending - 1) /\ commands' = <<>>
      BY <1>1, <2>2, <2>4 DEF WorkerDone
    <3>2. control.pending - 1 = n' + Len(mailbox') /\ n' + Len(mailbox') > 0
      BY <1>2, <1>4, <2>2, <2>4
    <3> QED BY <3>1, <3>2 DEF RoundsOpen
  <2> QED BY <2>3, <2>4
<1> QED BY <1>4, <1>6, <1>7 DEF MeshInv

LEMMA MeshStep == MeshInv /\ [MeshNext]_meshVars => MeshInv'
<1> SUFFICES ASSUME MeshInv, [MeshNext]_meshVars
             PROVE  MeshInv'
  OBVIOUS
<1>1. CASE UNCHANGED meshVars
  BY <1>1 DEF meshVars, MeshInv, MeshShape, RoundsOpen, NothingDue, AnswersAreOwn
<1>2. CASE Runner
  BY <1>2, RoutesKeeps, DispatchKeeps, ReceiveKeeps DEF Runner
<1>3. CASE \E c \in running : Task(c)
  BY <1>3, TaskKeeps
<1>4. CASE \E n \in Nodes : Worker(n)
  BY <1>4 DEF Worker, Reply, Exit, healthVars, MeshInv, MeshShape, RoundsOpen, NothingDue, AnswersAreOwn
<1> QED BY <1>1, <1>2, <1>3, <1>4 DEF MeshNext

\* The controller waits for exactly the calls of its round that it has not heard of, and
\* what a call reports is the answer to it (fsm.rs, the orchestrator), for any nodes and
\* number of rounds, though workers hang, answer late or leave.
THEOREM CompletionsSoundCorrect == MeshSpec => []CompletionsSound
<1>1. MeshInv => CompletionsSound
  <2> SUFFICES ASSUME MeshInv PROVE PendingExact
    BY DEF MeshInv, CompletionsSound
  <2>1. CASE commands = <<>>
    <3>1. Requested = {}
      BY <2>1 DEF Requested
    <3>2. Cardinality(Requested) = 0 /\ Cardinality(running) \in Nat /\ Len(mailbox) \in Nat
      BY <3>1, FS_EmptySet, FS_CardinalityType DEF MeshInv, MeshShape
    <3>3. CASE control = At("idle") /\ NothingDue
      BY <3>2, <3>3, FS_EmptySet DEF NothingDue, PendingExact, At
    <3>4. CASE /\ control = Awaiting(Cardinality(running) + Len(mailbox))
               /\ Cardinality(running) + Len(mailbox) > 0
      BY <3>2, <3>4 DEF PendingExact, Awaiting
    <3> QED BY <2>1, <3>3, <3>4 DEF MeshInv, RoundsOpen
  <2>2. ASSUME NEW op, commands = <<Command(op)>>, NEW where \in {"sensing", "routing", "converged", "halted"},
               control = At(where), NothingDue
        PROVE  PendingExact
    <3>1. Requested = {}
      BY <2>2 DEF Requested, Command
    <3> QED BY <2>2, <3>1, FS_EmptySet DEF NothingDue, PendingExact, At
  <2>3. ASSUME NEW S \in (SUBSET Nodes) \ {{}}, control = Awaiting(Cardinality(S)),
               commands = <<DispatchTo(S)>>, NothingDue
        PROVE  PendingExact
    <3>1. Requested = S
      BY <2>3 DEF Requested, DispatchTo
    <3>2. IsFiniteSet(S) /\ Cardinality(S) \in Nat /\ Cardinality(S) # 0
      BY <2>3, MeshAssumption, FS_Subset, FS_CardinalityType, FS_EmptySet
    <3> QED BY <2>3, <3>1, <3>2, FS_EmptySet DEF NothingDue, PendingExact, Awaiting
  <2> QED BY <2>1, <2>2, <2>3 DEF MeshInv, RoundsOpen
<1> QED BY <1>1, MeshInitInv, MeshStep, PTL DEF MeshSpec

------------------------------------------------------------------------------
(* The WebSocket relay *)

\* After n frames a hand h and a wire w hold those that follow, in order; Close
\* comes last, from a side s that sends no more.
Numbered(n, h, w, s) ==
  /\ h # <<>> => h = <<n + 1>>
  /\ \A i \in 1 .. Len(w) : \/ w[i] = n + Len(h) + i
                            \/ (w[i] = Close /\ i = Len(w) /\ s # "here")

\* What has arrived is numbered without gaps.
Counted(g) == \A k \in 1 .. Len(g) : g[k] = k

\* A pump that ends has passed on all there was, unless a side went away.
WayInv(d) ==
  /\ Len(hand[d]) <= 1 /\ (hand[d] # <<>> <=> pump[d] = "sending")
  /\ Counted(got[d])
  /\ side[Sink[d]] # "gone" => Numbered(Len(got[d]), hand[d], wire[d], side[Source[d]])
  /\ pump[d] = "closing" =>
       \/ side[Sink[d]] = "gone" \/ side[Source[d]] = "gone"
       \/ side[Source[d]] = "closed" /\ wire[d] = <<>>
  /\ relay = "over" /\ side[Source[d]] = "closed" /\ side[Sink[d]] = "here" =>
       wire[d] = <<>> /\ hand[d] = <<>> /\ Sink[d] \in told

RelayShape ==
  /\ relay \in {"connecting", "open", "over"}
  /\ side \in [Sides -> {"here", "closed", "gone"}]
  /\ pump \in [Ways -> {"reading", "sending", "closing"}]
  /\ wire \in [Ways -> Seq(Nat)] /\ hand \in [Ways -> Seq(Nat)] /\ got \in [Ways -> Seq(Nat)]
  /\ relay = "connecting" => \A s \in Sides : side[s] = "here"

RelayInv == RelayShape /\ \A d \in Ways : WayInv(d)

-----------------------------------------------------------------------------
(* What is under way *)

LEMMA SendNumbered ==
  ASSUME NEW n \in Nat, NEW h \in Seq(Nat), NEW w \in Seq(Nat), NEW f,
         f = Len(w) + Len(h) + n + 1
  PROVE  /\ Append(w, f) \in Seq(Nat)
         /\ Numbered(n, h, w, "here") => Numbered(n, h, Append(w, f), "here")
<1> DEFINE v == Append(w, f)
<1>1. Len(w) \in Nat /\ Len(h) \in Nat /\ f \in Nat
  BY LenProperties
<1>2. /\ v \in Seq(Nat) /\ Len(v) = Len(w) + 1 /\ v[Len(w) + 1] = f
      /\ \A i \in 1 .. Len(w) : v[i] = w[i]
  BY <1>1, AppendProperties
<1> HIDE DEF v
<1>3. ASSUME Numbered(n, h, w, "here"), NEW i \in 1 .. Len(v)
      PROVE  v[i] = n + Len(h) + i
  <2>1. CASE i = Len(w) + 1
    BY <1>1, <1>2, <2>1
  <2>2. CASE i \in 1 .. Len(w)
    BY <1>2, <1>3, <2>2 DEF Numbered
  <2> QED BY <1>1, <1>2, <2>1, <2>2
<1>4. Numbered(n, h, w, "here") => Numbered(n, h, v, "here")
  BY <1>3 DEF Numbered
<1> QED BY <1>2, <1>4 DEF v

LEMMA CloseNumbered ==
  ASSUME NEW n \in Nat, NEW h \in Seq(Nat), NEW w \in Seq(Nat)
  PROVE  /\ Append(w, Close) \in Seq(Nat)
         /\ Numbered(n, h, w, "here") => Numbered(n, h, Append(w, Close), "closed")
<1> DEFINE v == Append(w, Close)
<1>1. Len(w) \in Nat /\ Close \in Nat
  BY LenProperties DEF Close
<1>2. /\ v \in Seq(Nat) /\ Len(v) = Len(w) + 1 /\ v[Len(w) + 1] = Close
      /\ \A i \in 1 .. Len(w) : v[i] = w[i]
  BY <1>1, AppendProperties
<1> HIDE DEF v
<1>3. ASSUME Numbered(n, h, w, "here"), NEW i \in 1 .. Len(v)
      PROVE  v[i] = n + Len(h) + i \/ (v[i] = Close /\ i = Len(v))
  <2>1. CASE i = Len(w) + 1
    <3>1. v[i] = v[Len(w) + 1] /\ i = Len(v)
      BY <1>2, <2>1
    <3> QED BY <1>2, <3>1
  <2>2. CASE i \in 1 .. Len(w)
    BY <1>2, <1>3, <2>2 DEF Numbered
  <2> QED BY <1>1, <1>2, <2>1, <2>2
<1>4. Numbered(n, h, w, "here") => Numbered(n, h, v, "closed")
  BY <1>3 DEF Numbered
<1> QED BY <1>2, <1>4 DEF v

LEMMA CutNumbered ==
  ASSUME NEW n \in Nat, NEW h \in Seq(Nat), NEW w \in Seq(Nat), NEW k \in 0 .. Len(w), NEW s
  PROVE  /\ SubSeq(w, 1, k) \in Seq(Nat)
         /\ Numbered(n, h, w, s) => Numbered(n, h, SubSeq(w, 1, k), "gone")
<1> DEFINE v == SubSeq(w, 1, k)
<1>1. Len(w) \in Nat /\ k \in Nat /\ k <= Len(w) /\ \A i \in 1 .. k : w[i] \in Nat
  BY LenProperties
<1>2. /\ v \in Seq(Nat) /\ Len(v) = (IF 1 <= k THEN k - 1 + 1 ELSE 0)
      /\ \A i \in 1 .. k - 1 + 1 : v[i] = w[1 + i - 1]
  BY <1>1, SubSeqProperties
<1> HIDE DEF v
<1>3. Len(v) = k
  BY <1>1, <1>2
<1>5. ASSUME NEW i \in 1 .. k
      PROVE  v[i] = w[i]
  <2>1. i \in 1 .. k - 1 + 1 /\ 1 + i - 1 = i
    BY <1>1
  <2> QED BY <1>2, <2>1
<1>4. ASSUME Numbered(n, h, w, s)
      PROVE  Numbered(n, h, v, "gone")
  <2>1. ASSUME NEW i \in 1 .. Len(v)
        PROVE  v[i] = n + Len(h) + i \/ (v[i] = Close /\ i = Len(v))
    <3>1. i \in 1 .. k /\ i \in 1 .. Len(w) /\ k = Len(v) /\ v[i] = w[i]
      BY <1>1, <1>3, <1>5
    <3>2. w[i] = n + Len(h) + i \/ (w[i] = Close /\ i = Len(w))
      BY <1>4, <3>1 DEF Numbered
    <3>3. i = Len(w) => i = Len(v)
      BY <1>1, <3>1
    <3> QED BY <3>1, <3>2, <3>3
  <2>2. h # <<>> => h = <<n + 1>>
    BY <1>4 DEF Numbered
  <2> QED BY <2>1, <2>2 DEF Numbered
<1> QED BY <1>2, <1>4 DEF v

LEMMA TakeNumbered ==
  ASSUME NEW n \in Nat, NEW w \in Seq(Nat), w # <<>>, NEW s
  PROVE  /\ Tail(w) \in Seq(Nat) /\ <<Head(w)>> \in Seq(Nat)
         /\ <<Head(w)>> # <<>> /\ Len(<<Head(w)>>) = 1
         /\ Numbered(n, <<>>, w, s) =>
              IF Head(w) = Close THEN Tail(w) = <<>> /\ s # "here"
              ELSE Numbered(n, <<Head(w)>>, Tail(w), s)
<1> DEFINE v == Tail(w)
<1>1. /\ Head(w) \in Nat /\ v \in Seq(Nat) /\ Len(v) = Len(w) - 1
      /\ \A i \in 1 .. Len(v) : v[i] = w[i + 1]
  BY HeadTailProperties
<1> HIDE DEF v
<1>2. Len(w) \in Nat /\ Len(v) \in Nat /\ Head(w) = w[1] /\ Len(<<>>) = 0
  BY <1>1, LenProperties
<1>3. 1 \in 1 .. Len(w)
  BY <1>1, <1>2
<1>4. <<Head(w)>> \in Seq(Nat) /\ <<Head(w)>> # <<>> /\ Len(<<Head(w)>>) = 1
  BY <1>1
<1>5. ASSUME Numbered(n, <<>>, w, s), Head(w) = Close
      PROVE  v = <<>> /\ s # "here"
  <2>1. w[1] = n + 0 + 1 \/ (w[1] = Close /\ 1 = Len(w) /\ s # "here")
    BY <1>2, <1>3, <1>5 DEF Numbered
  <2>2. 1 = Len(w) /\ s # "here"
    BY <1>2, <1>5, <2>1 DEF Close
  <2>3. Len(v) = 0
    BY <1>1, <2>2
  <2> QED BY <1>1, <2>2, <2>3, EmptySeq
<1>6. ASSUME Numbered(n, <<>>, w, s), Head(w) # Close
      PROVE  Numbered(n, <<Head(w)>>, v, s)
  <2>1. Head(w) = n + 1
    BY <1>2, <1>3, <1>6 DEF Numbered
  <2>2. ASSUME NEW i \in 1 .. Len(v)
        PROVE  v[i] = n + 1 + i \/ (v[i] = Close /\ i = Len(v) /\ s # "here")
    <3>1. i + 1 \in 1 .. Len(w) /\ v[i] = w[i + 1] /\ i \in Nat
      BY <1>1, <1>2
    <3>2. w[i + 1] = n + 0 + (i + 1) \/ (w[i + 1] = Close /\ i + 1 = Len(w) /\ s # "here")
      BY <1>2, <1>6, <3>1 DEF Numbered
    <3>3. n + 0 + (i + 1) = n + 1 + i /\ (i + 1 = Len(w) => i = Len(v))
      BY <1>1, <1>2, <3>1
    <3> QED BY <3>1, <3>2, <3>3
  <2> QED BY <1>4, <2>1, <2>2 DEF Numbered
<1> QED BY <1>1, <1>4, <1>5, <1>6 DEF v

LEMMA PassNumbered ==
  ASSUME NEW g \in Seq(Nat), NEW h \in Seq(Nat), h # <<>>, NEW w \in Seq(Nat), NEW s,
         Counted(g), Numbered(Len(g), h, w, s)
  PROVE  /\ g \o h \in Seq(Nat) /\ Counted(g \o h)
         /\ Numbered(Len(g \o h), <<>>, w, s)
<1> DEFINE v == g \o h
<1>1. Len(g) \in Nat /\ h = <<Len(g) + 1>> /\ Len(w) \in Nat
  BY LenProperties DEF Numbered
<1>2. Len(h) = 1 /\ h[1] = Len(g) + 1 /\ Len(<<>>) = 0
  BY <1>1
<1>3. /\ v \in Seq(Nat) /\ Len(v) = Len(g) + Len(h)
      /\ \A i \in 1 .. Len(g) + Len(h) : v[i] = IF i <= Len(g) THEN g[i] ELSE h[i - Len(g)]
  BY ConcatProperties
<1> HIDE DEF v
<1>4. Len(v) = Len(g) + 1
  BY <1>1, <1>2, <1>3
<1>5. ASSUME NEW k \in 1 .. Len(v)
      PROVE  v[k] = k
  <2>1. CASE k <= Len(g)
    <3>1. k \in 1 .. Len(g) /\ k \in 1 .. Len(g) + Len(h)
      BY <1>1, <1>2, <2>1
    <3>2. v[k] = g[k]
      BY <1>3, <2>1, <3>1
    <3> QED BY <3>1, <3>2 DEF Counted
  <2>2. CASE k = Len(g) + 1
    <3>1. k - Len(g) = 1 /\ ~(k <= Len(g)) /\ k \in 1 .. Len(g) + Len(h)
      BY <1>1, <1>2, <2>2
    <3> QED BY <1>2, <1>3, <2>2, <3>1
  <2> QED BY <1>1, <1>4, <2>1, <2>2
<1>6. Numbered(Len(v), <<>>, w, s)
  <2>1. ASSUME NEW i \in 1 .. Len(w)
        PROVE  w[i] = Len(v) + 0 + i \/ (w[i] = Close /\ i = Len(w) /\ s # "here")
    <3>1. w[i] = Len(g) + 1 + i \/ (w[i] = Close /\ i = Len(w) /\ s # "here")
      BY <1>2 DEF Numbered
    <3>2. Len(g) + 1 + i = Len(v) + 0 + i
      BY <1>1, <1>4
    <3> QED BY <3>1, <3>2
  <2> QED BY <1>2, <2>1 DEF Numbered
<1> QED BY <1>3, <1>5, <1>6 DEF v, Counted

LEMMA TwoWays ==
  /\ \A d \in Ways : Source[d] \in Sides /\ Sink[d] \in Sides /\ Source[d] # Sink[d]
  /\ \A d, e \in Ways : d # e => Source[e] = Sink[d] /\ Sink[e] = Source[d]
BY DEF Ways, Sides, Source, Sink

LEMMA Flows ==
  ASSUME RelayShape, NEW d \in Ways
  PROVE  /\ wire[d] \in Seq(Nat) /\ hand[d] \in Seq(Nat) /\ got[d] \in Seq(Nat)
         /\ Len(wire[d]) \in Nat /\ Len(hand[d]) \in Nat /\ Len(got[d]) \in Nat
<1>1. wire[d] \in Seq(Nat) /\ hand[d] \in Seq(Nat) /\ got[d] \in Seq(Nat)
  BY DEF RelayShape
<1> QED BY <1>1, LenProperties

\* Replacing one value of a function.
LEMMA PutOne ==
  ASSUME NEW S, NEW D, NEW f \in [D -> S], NEW d \in D, NEW v \in S
  PROVE  /\ [f EXCEPT ![d] = v] \in [D -> S] /\ [f EXCEPT ![d] = v][d] = v
         /\ \A e \in D \ {d} : [f EXCEPT ![d] = v][e] = f[e]
OBVIOUS

-----------------------------------------------------------------------------
(* The steps *)

LEMMA RelayInitInv == FrameInit => RelayInv
<1> SUFFICES ASSUME FrameInit PROVE RelayInv
  OBVIOUS
<1>1. RelayShape
  BY DEF FrameInit, RelayShape
<1>2. \A s \in Sides : side[s] = "here"
  BY DEF FrameInit
<1>3. \A d \in Ways : wire[d] = <<>> /\ hand[d] = <<>> /\ got[d] = <<>> /\ pump[d] = "reading"
  BY DEF FrameInit
<1>4. <<>> \in Seq(Nat) /\ Len(<<>>) = 0
  OBVIOUS
<1>5. Counted(<<>>) /\ \A s : Numbered(0, <<>>, <<>>, s)
  BY <1>4 DEF Counted, Numbered
<1>6. \A d \in Ways : WayInv(d)
  BY <1>2, <1>3, <1>4, <1>5, TwoWays DEF FrameInit, WayInv
<1> QED BY <1>1, <1>6 DEF RelayInv

\* A side does not come back.
OneWay == \A s \in Sides : \/ side'[s] = side[s]
                           \/ side[s] = "here" /\ side'[s] \in {"closed", "gone"}
                           \/ side[s] = "closed" /\ side'[s] = "gone"

\* A way no step of which is taken, while the relay is not over.
LEMMA OtherWayStays ==
  ASSUME RelayShape, NEW d \in Ways, WayInv(d), relay' # "over", OneWay,
         wire'[d] = wire[d], hand'[d] = hand[d], got'[d] = got[d], pump'[d] = pump[d]
  PROVE  WayInv(d)'
<1>1. Source[d] \in Sides /\ Sink[d] \in Sides
  BY TwoWays
<1>2. side'[Sink[d]] # "gone" => side[Sink[d]] # "gone"
  BY <1>1 DEF OneWay
<1>3. side[Sink[d]] = "gone" => side'[Sink[d]] = "gone"
  BY <1>1 DEF OneWay
<1>4. side[Source[d]] # "here" => side'[Source[d]] # "here"
  BY <1>1 DEF OneWay
<1>5. side[Source[d]] = "gone" => side'[Source[d]] = "gone"
  BY <1>1 DEF OneWay
<1>6. side[Source[d]] = "closed" => side'[Source[d]] \in {"closed", "gone"}
  BY <1>1 DEF OneWay
<1>7. Numbered(Len(got[d]), hand[d], wire[d], side[Source[d]])
        => Numbered(Len(got[d]), hand[d], wire[d], side'[Source[d]])
  BY <1>4 DEF Numbered
<1> QED BY <1>2, <1>3, <1>5, <1>6, <1>7 DEF WayInv

LEMMA SideSendsKeeps ==
  ASSUME RelayInv, NEW d \in Ways, SideSends(d)
  PROVE  RelayInv'
<1> DEFINE w == Append(wire[d], SentBy(d) + 1)
<1>1. /\ relay = "open" /\ side[Source[d]] = "here"
      /\ wire' = [wire EXCEPT ![d] = w]
      /\ UNCHANGED <<relay, side, pump, hand, got, told>>
  BY DEF SideSends
<1>2. /\ wire[d] \in Seq(Nat) /\ hand[d] \in Seq(Nat) /\ Len(got[d]) \in Nat
      /\ SentBy(d) + 1 = Len(wire[d]) + Len(hand[d]) + Len(got[d]) + 1
  BY Flows DEF RelayInv, SentBy
<1>3. /\ w \in Seq(Nat)
      /\ Numbered(Len(got[d]), hand[d], wire[d], "here") => Numbered(Len(got[d]), hand[d], w, "here")
  BY <1>2, SendNumbered
<1> HIDE DEF w
<1>4. /\ wire' \in [Ways -> Seq(Nat)] /\ wire'[d] = w
      /\ \A e \in Ways \ {d} : wire'[e] = wire[e]
  BY <1>1, <1>3, PutOne DEF RelayInv, RelayShape
<1>5. RelayShape'
  BY <1>1, <1>4 DEF RelayInv, RelayShape
<1>6. WayInv(d)'
  BY <1>1, <1>3, <1>4 DEF RelayInv, WayInv
<1>7. \A e \in Ways \ {d} : WayInv(e)'
  BY <1>1, <1>4, OtherWayStays DEF RelayInv, RelayShape, OneWay
<1> QED BY <1>5, <1>6, <1>7 DEF RelayInv

LEMMA SideClosesKeeps ==
  ASSUME RelayInv, NEW d \in Ways, SideCloses(d)
  PROVE  RelayInv'
<1> DEFINE w == Append(wire[d], Close)
<1>1. /\ relay = "open" /\ side[Source[d]] = "here"
      /\ side' = [side EXCEPT ![Source[d]] = "closed"] /\ wire' = [wire EXCEPT ![d] = w]
      /\ UNCHANGED <<relay, pump, hand, got, told>>
  BY DEF SideCloses
<1>2. /\ wire[d] \in Seq(Nat) /\ hand[d] \in Seq(Nat) /\ Len(got[d]) \in Nat
      /\ Source[d] \in Sides /\ Sink[d] \in Sides /\ Source[d] # Sink[d]
  BY Flows, TwoWays DEF RelayInv
<1>3. /\ w \in Seq(Nat)
      /\ Numbered(Len(got[d]), hand[d], wire[d], "here") => Numbered(Len(got[d]), hand[d], w, "closed")
  BY <1>2, CloseNumbered
<1> HIDE DEF w
<1>4. /\ wire' \in [Ways -> Seq(Nat)] /\ wire'[d] = w
      /\ \A e \in Ways \ {d} : wire'[e] = wire[e]
  BY <1>1, <1>3, PutOne DEF RelayInv, RelayShape
<1>5. /\ side' \in [Sides -> {"here", "closed", "gone"}]
      /\ side'[Source[d]] = "closed" /\ side'[Sink[d]] = side[Sink[d]]
      /\ \A s \in Sides \ {Source[d]} : side'[s] = side[s]
  BY <1>1, <1>2 DEF RelayInv, RelayShape
<1>6. RelayShape' /\ OneWay
  BY <1>1, <1>2, <1>4, <1>5 DEF RelayInv, RelayShape, OneWay
<1>7. pump[d] = "closing" => side[Sink[d]] = "gone"
  BY <1>1 DEF RelayInv, WayInv
<1>8. WayInv(d)'
  BY <1>1, <1>3, <1>4, <1>5, <1>7 DEF RelayInv, WayInv
<1>9. \A e \in Ways \ {d} : WayInv(e)'
  BY <1>1, <1>4, <1>6, OtherWayStays DEF RelayInv
<1> QED BY <1>6, <1>8, <1>9 DEF RelayInv

LEMMA SideGoesKeeps ==
  ASSUME RelayInv, NEW d \in Ways, SideGoes(d)
  PROVE  RelayInv'
<1>1. PICK k \in 0 .. Len(wire[d]) : wire' = [wire EXCEPT ![d] = SubSeq(@, 1, k)]
  BY DEF SideGoes
<1> DEFINE w == SubSeq(wire[d], 1, k)
<1>2. /\ relay = "open" /\ side' = [side EXCEPT ![Source[d]] = "gone"]
      /\ wire' = [wire EXCEPT ![d] = w]
      /\ UNCHANGED <<relay, pump, hand, got, told>>
  BY <1>1 DEF SideGoes
<1>3. /\ wire[d] \in Seq(Nat) /\ hand[d] \in Seq(Nat) /\ Len(got[d]) \in Nat
      /\ Source[d] \in Sides /\ Sink[d] \in Sides /\ Source[d] # Sink[d]
  BY Flows, TwoWays DEF RelayInv
<1>4. /\ w \in Seq(Nat)
      /\ Numbered(Len(got[d]), hand[d], wire[d], side[Source[d]])
           => Numbered(Len(got[d]), hand[d], w, "gone")
  BY <1>3, CutNumbered
<1> HIDE DEF w
<1>5. /\ wire' \in [Ways -> Seq(Nat)] /\ wire'[d] = w
      /\ \A e \in Ways \ {d} : wire'[e] = wire[e]
  BY <1>2, <1>4, PutOne DEF RelayInv, RelayShape
<1>6. /\ side' \in [Sides -> {"here", "closed", "gone"}]
      /\ side'[Source[d]] = "gone" /\ side'[Sink[d]] = side[Sink[d]]
      /\ \A s \in Sides \ {Source[d]} : side'[s] = side[s]
  BY <1>2, <1>3 DEF RelayInv, RelayShape
<1>7. RelayShape'
  BY <1>2, <1>5, <1>6 DEF RelayInv, RelayShape
<1>8. OneWay
  BY <1>3, <1>6 DEF RelayInv, RelayShape, OneWay
<1>9. WayInv(d)'
  BY <1>2, <1>4, <1>5, <1>6 DEF RelayInv, WayInv
<1>10. \A e \in Ways \ {d} : WayInv(e)'
  BY <1>2, <1>5, <1>8, OtherWayStays DEF RelayInv
<1> QED BY <1>7, <1>9, <1>10 DEF RelayInv

LEMMA TakeKeeps ==
  ASSUME RelayInv, NEW d \in Ways, Take(d)
  PROVE  RelayInv'
<1>1. relay = "open" /\ pump[d] = "reading" /\ UNCHANGED <<relay, side, got, told>>
  BY DEF Take
<1>2. /\ wire[d] \in Seq(Nat) /\ hand[d] = <<>> /\ Len(got[d]) \in Nat
      /\ Source[d] \in Sides /\ Sink[d] \in Sides /\ side[Source[d]] \in {"here", "closed", "gone"}
  BY <1>1, Flows, TwoWays DEF RelayInv, RelayShape, WayInv
<1>3. OneWay
  BY <1>1 DEF OneWay
<1>4. CASE /\ wire[d] = <<>> /\ side[Source[d]] = "gone"
           /\ pump' = [pump EXCEPT ![d] = "closing"] /\ UNCHANGED <<wire, hand>>
  <2>1. /\ pump' \in [Ways -> {"reading", "sending", "closing"}]
        /\ pump'[d] = "closing" /\ \A e \in Ways \ {d} : pump'[e] = pump[e]
    BY <1>4 DEF RelayInv, RelayShape
  <2>2. RelayShape'
    BY <1>1, <1>4, <2>1 DEF RelayInv, RelayShape
  <2>3. WayInv(d)'
    BY <1>1, <1>2, <1>4, <2>1 DEF RelayInv, WayInv
  <2>4. \A e \in Ways \ {d} : WayInv(e)'
    BY <1>1, <1>3, <1>4, <2>1, OtherWayStays DEF RelayInv
  <2> QED BY <2>2, <2>3, <2>4 DEF RelayInv
<1>5. CASE wire[d] # <<>> /\ wire' = [wire EXCEPT ![d] = Tail(@)]
  <2> DEFINE w == Tail(wire[d])
             h == <<Head(wire[d])>>
  <2>1. /\ w \in Seq(Nat) /\ h \in Seq(Nat) /\ h # <<>> /\ Len(h) = 1
        /\ Numbered(Len(got[d]), <<>>, wire[d], side[Source[d]]) =>
              IF Head(wire[d]) = Close THEN w = <<>> /\ side[Source[d]] # "here"
              ELSE Numbered(Len(got[d]), h, w, side[Source[d]])
    BY <1>2, <1>5, TakeNumbered
  <2>2. wire' = [wire EXCEPT ![d] = w]
    BY <1>5
  <2>3. CASE Head(wire[d]) = Close
    <3>1. pump' = [pump EXCEPT ![d] = "closing"] /\ UNCHANGED hand
      BY <1>1, <1>5, <2>3 DEF Take
    <3> HIDE DEF w, h
    <3>2. /\ wire' \in [Ways -> Seq(Nat)] /\ wire'[d] = w
          /\ \A e \in Ways \ {d} : wire'[e] = wire[e]
      BY <2>1, <2>2, PutOne DEF RelayInv, RelayShape
    <3>3. /\ pump' \in [Ways -> {"reading", "sending", "closing"}]
          /\ pump'[d] = "closing" /\ \A e \in Ways \ {d} : pump'[e] = pump[e]
      BY <3>1 DEF RelayInv, RelayShape
    <3>4. RelayShape'
      BY <1>1, <3>1, <3>2, <3>3 DEF RelayInv, RelayShape
    <3>5. side[Sink[d]] # "gone" => w = <<>> /\ side[Source[d]] # "here"
      BY <1>2, <2>1, <2>3 DEF RelayInv, WayInv
    <3>6. Numbered(Len(got[d]), <<>>, <<>>, side[Source[d]])
      BY DEF Numbered
    <3>7. WayInv(d)'
      BY <1>1, <1>2, <3>1, <3>2, <3>3, <3>5, <3>6 DEF RelayInv, WayInv
    <3>8. \A e \in Ways \ {d} : WayInv(e)'
      BY <1>1, <1>3, <3>1, <3>2, <3>3, OtherWayStays DEF RelayInv
    <3> QED BY <3>4, <3>7, <3>8 DEF RelayInv
  <2>4. CASE Head(wire[d]) # Close
    <3>1. hand' = [hand EXCEPT ![d] = h] /\ pump' = [pump EXCEPT ![d] = "sending"]
      BY <1>1, <1>5, <2>4 DEF Take
    <3> HIDE DEF w, h
    <3>2. /\ wire' \in [Ways -> Seq(Nat)] /\ wire'[d] = w
          /\ \A e \in Ways \ {d} : wire'[e] = wire[e]
      BY <2>1, <2>2, PutOne DEF RelayInv, RelayShape
    <3>3. /\ hand' \in [Ways -> Seq(Nat)] /\ hand'[d] = h
          /\ \A e \in Ways \ {d} : hand'[e] = hand[e]
      BY <2>1, <3>1, PutOne DEF RelayInv, RelayShape
    <3>4. /\ pump' \in [Ways -> {"reading", "sending", "closing"}]
          /\ pump'[d] = "sending" /\ \A e \in Ways \ {d} : pump'[e] = pump[e]
      BY <3>1 DEF RelayInv, RelayShape
    <3>5. RelayShape'
      BY <1>1, <3>2, <3>3, <3>4 DEF RelayInv, RelayShape
    <3>6. side[Sink[d]] # "gone" => Numbered(Len(got[d]), h, w, side[Source[d]])
      BY <1>2, <2>1, <2>4 DEF RelayInv, WayInv
    <3>7. WayInv(d)'
      <4>1. Len(hand'[d]) <= 1 /\ hand'[d] # <<>> /\ pump'[d] = "sending"
        <5>1. hand'[d] = h /\ h # <<>> /\ Len(h) = 1 /\ pump'[d] = "sending"
          BY <2>1, <3>3, <3>4
        <5>2. Len(h) <= 1
          BY <5>1
        <5> QED BY <5>1, <5>2, Zenon
      <4>2. Counted(got[d])
        BY DEF RelayInv, WayInv
      <4> QED BY <1>1, <3>2, <3>3, <3>6, <4>1, <4>2 DEF WayInv
    <3>8. \A e \in Ways \ {d} : WayInv(e)'
      BY <1>1, <1>3, <3>2, <3>3, <3>4, OtherWayStays DEF RelayInv
    <3> QED BY <3>5, <3>7, <3>8 DEF RelayInv
  <2> QED BY <2>3, <2>4
<1> QED BY <1>4, <1>5 DEF Take

LEMMA PassKeeps ==
  ASSUME RelayInv, NEW d \in Ways, Pass(d)
  PROVE  RelayInv'
<1>1. /\ relay = "open" /\ pump[d] = "sending" /\ UNCHANGED <<relay, side, wire, told>>
      /\ hand' = [hand EXCEPT ![d] = <<>>]
  BY DEF Pass
<1>2. /\ got[d] \in Seq(Nat) /\ hand[d] \in Seq(Nat) /\ wire[d] \in Seq(Nat) /\ hand[d] # <<>>
      /\ Counted(got[d]) /\ <<>> \in Seq(Nat) /\ Len(<<>>) = 0
  BY <1>1, Flows DEF RelayInv, WayInv
<1>3. /\ hand' \in [Ways -> Seq(Nat)] /\ hand'[d] = <<>>
      /\ \A e \in Ways \ {d} : hand'[e] = hand[e]
  BY <1>1, <1>2, PutOne DEF RelayInv, RelayShape
<1>4. OneWay
  BY <1>1 DEF OneWay
<1>5. CASE /\ side[Sink[d]] # "gone"
           /\ got' = [got EXCEPT ![d] = @ \o hand[d]] /\ pump' = [pump EXCEPT ![d] = "reading"]
  <2> DEFINE g == got[d] \o hand[d]
  <2>1. Numbered(Len(got[d]), hand[d], wire[d], side[Source[d]])
    BY <1>5 DEF RelayInv, WayInv
  <2>2. /\ g \in Seq(Nat) /\ Counted(g) /\ Numbered(Len(g), <<>>, wire[d], side[Source[d]])
    BY <1>2, <2>1, PassNumbered
  <2>3. got' = [got EXCEPT ![d] = g]
    BY <1>5
  <2> HIDE DEF g
  <2>4. /\ got' \in [Ways -> Seq(Nat)] /\ got'[d] = g
        /\ \A e \in Ways \ {d} : got'[e] = got[e]
    BY <2>2, <2>3, PutOne DEF RelayInv, RelayShape
  <2>5. /\ pump' \in [Ways -> {"reading", "sending", "closing"}]
        /\ pump'[d] = "reading" /\ \A e \in Ways \ {d} : pump'[e] = pump[e]
    BY <1>5 DEF RelayInv, RelayShape
  <2>6. RelayShape'
    BY <1>1, <1>3, <2>4, <2>5 DEF RelayInv, RelayShape
  <2>7. WayInv(d)'
    BY <1>1, <1>2, <1>3, <2>2, <2>4, <2>5 DEF WayInv
  <2>8. \A e \in Ways \ {d} : WayInv(e)'
    BY <1>1, <1>3, <1>4, <2>4, <2>5, OtherWayStays DEF RelayInv
  <2> QED BY <2>6, <2>7, <2>8 DEF RelayInv
<1>6. CASE /\ side[Sink[d]] = "gone" /\ got' = got
           /\ \E next \in {"reading", "closing"} : pump' = [pump EXCEPT ![d] = next]
  <2>1. /\ pump' \in [Ways -> {"reading", "sending", "closing"}]
        /\ pump'[d] \in {"reading", "closing"} /\ \A e \in Ways \ {d} : pump'[e] = pump[e]
    BY <1>6 DEF RelayInv, RelayShape
  <2>2. RelayShape'
    BY <1>1, <1>3, <1>6, <2>1 DEF RelayInv, RelayShape
  <2>3. WayInv(d)'
    BY <1>1, <1>2, <1>3, <1>6, <2>1 DEF WayInv
  <2>4. \A e \in Ways \ {d} : WayInv(e)'
    BY <1>1, <1>3, <1>4, <1>6, <2>1, OtherWayStays DEF RelayInv
  <2> QED BY <2>2, <2>3, <2>4 DEF RelayInv
<1> QED BY <1>5, <1>6 DEF Pass

LEMMA FinishKeeps ==
  ASSUME RelayInv, NEW d \in Ways, Finish(d)
  PROVE  RelayInv'
<1>1. /\ relay = "open" /\ pump[d] = "closing" /\ relay' = "over" /\ told' = told \union {Sink[d]}
      /\ UNCHANGED <<side, wire, pump, hand, got>>
  BY DEF Finish, Finished
<1>2. RelayShape'
  BY <1>1 DEF RelayInv, RelayShape
<1>3. ASSUME NEW e \in Ways, side[Source[e]] = "closed", side[Sink[e]] = "here"
      PROVE  wire[e] = <<>> /\ hand[e] = <<>> /\ Sink[e] \in told'
  <2>1. \/ side[Sink[d]] = "gone" \/ side[Source[d]] = "gone"
        \/ side[Source[d]] = "closed" /\ wire[d] = <<>>
    BY <1>1 DEF RelayInv, WayInv
  <2>2. e = d
    BY <1>3, <2>1, TwoWays
  <2> QED BY <1>1, <1>3, <2>1, <2>2 DEF RelayInv, WayInv
<1>4. ASSUME NEW e \in Ways PROVE WayInv(e)'
  BY <1>1, <1>3 DEF RelayInv, WayInv
<1> QED BY <1>2, <1>4 DEF RelayInv

LEMMA RelayStep == RelayInv /\ [FrameNext]_relayVars => RelayInv'
<1> SUFFICES ASSUME RelayInv, [FrameNext]_relayVars PROVE RelayInv'
  OBVIOUS
<1>1. CASE UNCHANGED relayVars
  BY <1>1 DEF relayVars, RelayInv, RelayShape, WayInv
<1>2. CASE Connect
  <2>1. \A s \in Sides : side[s] = "here"
    BY <1>2 DEF Connect, RelayInv, RelayShape
  <2>2. UNCHANGED <<side, wire, pump, hand, got>> /\ relay' \in {"open", "over"}
    BY <1>2 DEF Connect
  <2>3. RelayShape'
    BY <2>2 DEF RelayInv, RelayShape
  <2>4. ASSUME NEW d \in Ways PROVE WayInv(d)'
    <3>1. side[Source[d]] = "here" /\ side[Sink[d]] = "here"
      BY <2>1, TwoWays
    <3> QED BY <2>2, <3>1 DEF RelayInv, WayInv
  <2> QED BY <2>3, <2>4 DEF RelayInv
<1>3. CASE \E d \in Ways : SideSends(d) \/ SideCloses(d) \/ SideGoes(d)
  BY <1>3, SideSendsKeeps, SideClosesKeeps, SideGoesKeeps
<1>4. CASE \E d \in Ways : Take(d) \/ Pass(d) \/ Finish(d)
  BY <1>4, TakeKeeps, PassKeeps, FinishKeeps
<1> QED BY <1>1, <1>2, <1>3, <1>4 DEF FrameNext

\* Wherever both connections hold, frames arrive in order and without gaps, and a side
\* that closed has said all it had to say when the relay is over (responses_websocket),
\* for any number of frames.
THEOREM FramesSoundCorrect == FrameSpec => []FramesSound
<1>1. RelayInv => FramesSound
  <2> SUFFICES ASSUME RelayInv PROVE FramesSound
    OBVIOUS
  <2>1. ASSUME NEW d \in Ways PROVE got[d] = [k \in DOMAIN got[d] |-> k]
    <3>1. got[d] \in Seq(Nat) /\ \A k \in 1 .. Len(got[d]) : got[d][k] = k
      BY DEF RelayInv, RelayShape, WayInv, Counted
    <3>2. got[d] \in [1 .. Len(got[d]) -> Nat] /\ DOMAIN got[d] = 1 .. Len(got[d])
      BY <3>1, LenProperties
    <3> QED BY <3>1, <3>2
  <2>2. LastWordsArrive
    BY DEF RelayInv, WayInv, LastWordsArrive
  <2> QED BY <2>1, <2>2 DEF FramesSound, InOrder
<1>2. RelayInv /\ [FrameNext]_relayVars => RelayInv'
  BY RelayStep
<1> QED BY <1>1, <1>2, RelayInitInv, PTL DEF FrameSpec

------------------------------------------------------------------------------
(* The parts as one run checks them *)

\* A step of one part leaves the others as they are.
LEMMA ControlStep ==
  ASSUME TimerInv, PrefixInv, RouteInv, LoopInv,
         [ControlNext]_<<part, vars, prefixVars, routeVars, loopAllVars, solveVars, meshVars,
                         relayVars>>
  PROVE  TimerInv' /\ PrefixInv' /\ RouteInv' /\ LoopInv'
<1>1. [Next]_vars /\ [PrefixNext]_prefixVars /\ [RouteNext]_routeVars /\ [LoopNext]_loopAllVars
  BY DEF ControlNext
<1> QED BY <1>1, TimerStep, PrefixStep, RouteStep, LoopStep

\* The types of four of the parts, side by side as one run checks them.
THEOREM ControlTypesCorrect == ControlSpec => []ControlTypesOK
<1>1. ControlInit => TimerInv /\ PrefixInv /\ RouteInv /\ LoopInv
  BY TimerStart, PrefixStart, RouteInitInv, LoopInitInv DEF ControlInit
<1>2. TimerInv /\ PrefixInv /\ RouteInv /\ LoopInv
        /\ [ControlNext]_<<part, vars, prefixVars, routeVars, loopAllVars, solveVars, meshVars,
                            relayVars>>
      => TimerInv' /\ PrefixInv' /\ RouteInv' /\ LoopInv'
  BY ControlStep
<1>3. TimerInv /\ PrefixInv /\ RouteInv /\ LoopInv => ControlTypesOK
  <2>1. LoopInv => LoopTypeOK
    BY LoopAssumption DEF LoopInv, TxShape, LoopShape, LoopTypeOK, Trees, SnapTables, Snapped
  <2>2. PrefixInv => PrefixTypeOK
    BY DEF PrefixInv, PrefixShape, PrefixTypeOK
  <2>3. RouteInv => RouteTypeOK
    BY DEF RouteInv
  <2> QED BY <2>1, <2>2, <2>3, TimerTypes DEF ControlTypesOK
<1>4. ControlSpec => /\ ControlInit
                     /\ [][ControlNext]_<<part, vars, prefixVars, routeVars, loopAllVars, solveVars,
                                          meshVars, relayVars>>
  BY PTL DEF ControlSpec
<1> QED BY <1>1, <1>2, <1>3, <1>4, PTL

==============================================================================
