----------------------------- MODULE Keepalive ------------------------------
(***************************************************************************)
(* The cache keepalive of one session (axiom_engine_rs/src/keepalive.rs):  *)
(* each real request that the API answered replaces the session's entry    *)
(* and spawns a timer task, which sleeps a little less than the cache TTL  *)
(* and pings the API until its rounds are over.                            *)
(*                                                                         *)
(* Handlers are threads serving real requests; tasks run on other threads. *)
(* Every section under the sessions mutex is one step.  A task is dropped  *)
(* by abort() only where it awaits: asleep, or with a ping in flight.  A   *)
(* task that has been woken but not yet taken the lock goes on, on the     *)
(* entry that has replaced its own.                                        *)
(*                                                                         *)
(* Time is counted in ticks.  A tick passes only when nobody has work to   *)
(* do at once, and no answer takes longer than Latency (the ping client    *)
(* has a total timeout).  Sessions share nothing but the mutex, so one is  *)
(* enough.  Headers, payloads and the cost ledger are left out; the belief *)
(* is its two counts, and its f32 arithmetic is exact where the gate looks.*)
(***************************************************************************)
EXTENDS Integers, FiniteSets

CONSTANTS
  Handlers,   \* request threads of the session
  TTL,        \* CACHE_TTL_SECONDS
  Margin,     \* the 30 s a timer wakes before the TTL
  Horizon,    \* horizon_seconds
  Latency,    \* bound on the time an answer of the API takes
  MaxCalls,   \* bound of the model: real requests
  NoEntry     \* the session is not in the map

Entries == [pings : Nat, tokens : {0, 1}, disabled : BOOLEAN, timer : Nat]

ASSUME KeepaliveAssumption ==
  /\ TTL \in Nat \ {0} /\ Margin \in Nat /\ Horizon \in Nat
  /\ Latency \in Nat /\ MaxCalls \in Nat
  /\ NoEntry \notin Entries

VARIABLES
  entry,      \* SessionKeepalive of the session, without its belief
  belief,     \* its belief: counts of successes and failures
  task,       \* the timer tasks, numbered as they are spawned
  handler,    \* what each request thread is doing
  calls,      \* real requests so far
  spawned,    \* timer tasks so far
  sinceTouch, \* ticks since the API last read or wrote the cache
  lost,       \* history: a ping did not reach the cache since the last record
  rounds,     \* history: pings started since the last record, Planned + 2 for more
  crossed     \* history: two requests have been in record_activity at once

vars == <<entry, belief, task, handler, calls, spawned, sinceTouch, lost, rounds, crossed>>
world == <<handler, calls, spawned, crossed>>

Tasks == 1 .. MaxCalls

\* pings_planned rounds the quotient up; each wait is a margin shorter than the TTL.
Planned == (Horizon + TTL - 1) \div TTL
WholeTTL == TTL                           \* mutant: no margin
Sleep   == IF TTL > Margin THEN TTL - Margin ELSE 0

\* mean * 1.25 > 0.1 * remaining
ShouldPing(b, remaining) == 25 * b.won > 2 * remaining * (b.won + b.lost)

NoTask == [at |-> "none", left |-> 0, round |-> 0, tokens |-> 0,
           outcome |-> "none", aborted |-> FALSE]
NewTask == [NoTask EXCEPT !.at = IF Planned = 0 THEN "ending" ELSE "asleep", !.left = Sleep]
Over   == [NoTask EXCEPT !.at = "over"]
Fresh  == [pings |-> 0, tokens |-> 0, disabled |-> FALSE, timer |-> 0]

Awaits(t) == t.at \in {"asleep", "sending", "reached"}
Lives(t)  == t.at \notin {"none", "over"} /\ ~t.aborted

Init ==
  /\ entry = NoEntry /\ belief = [won |-> 1, lost |-> 1]
  /\ task = [i \in Tasks |-> NoTask]
  /\ handler = [h \in Handlers |-> [at |-> "idle", wait |-> 0, task |-> 0]]
  /\ calls = 0 /\ spawned = 0
  /\ sinceTouch = TTL + 1 /\ lost = FALSE /\ rounds = 0 /\ crossed = FALSE

(***************************************************************************)
(* A real request: the API reads or writes the cache, then answers; the    *)
(* route records the request only when the answer is a success.            *)
(***************************************************************************)
Ask(h) ==
  /\ handler[h].at = "idle" /\ calls < MaxCalls
  /\ calls' = calls + 1
  /\ handler' = [handler EXCEPT ![h].at = "asked", ![h].wait = 0]
  /\ sinceTouch' = 0
  /\ UNCHANGED <<entry, belief, task, spawned, lost, rounds, crossed>>

Unanswered(h) ==
  /\ handler[h].at = "asked"
  /\ handler' = [handler EXCEPT ![h].at = "idle"]
  /\ UNCHANGED <<entry, belief, task, calls, spawned, sinceTouch, lost, rounds, crossed>>

\* record_activity: the prior entry goes, its timer is aborted; the entry's
\* belief is kept, and reinforced if the prior entry had been pinged for.
Bridged(e) == e # NoEntry /\ e.pings > 0
Leaves(t)  == t                           \* mutant: the old timer is left alone
Aborted(t) == IF Awaits(t) \/ t.at = "over" THEN Over ELSE [t EXCEPT !.aborted = TRUE]

Insert(h) ==
  LET i == spawned + 1
      timer == IF entry = NoEntry THEN 0 ELSE entry.timer
  IN /\ handler[h].at = "asked"
     /\ spawned' = i
     /\ task' = [j \in Tasks |-> IF j = i THEN NewTask
                                 ELSE IF j = timer THEN Aborted(task[j]) ELSE task[j]]
     /\ belief' = IF Bridged(entry) THEN [belief EXCEPT !.won = @ + 1] ELSE belief
     /\ entry' = Fresh
     /\ handler' = [handler EXCEPT ![h].at = "store", ![h].task = i]
     /\ crossed' = (crossed \/ \E g \in Handlers : handler[g].at = "store")
     /\ lost' = FALSE /\ rounds' = 0
     /\ UNCHANGED <<calls, sinceTouch>>

\* The end of spawn_timer: the handle goes to whatever entry there is now.
Store(h) ==
  /\ handler[h].at = "store"
  /\ entry' = [entry EXCEPT !.timer = handler[h].task]
  /\ handler' = [handler EXCEPT ![h].at = "idle", ![h].task = 0]
  /\ UNCHANGED <<belief, task, calls, spawned, sinceTouch, lost, rounds, crossed>>

(***************************************************************************)
(* The timer task.  Goes(i, t): task i goes on as t; an aborted task ends  *)
(* as soon as it awaits.                                                   *)
(***************************************************************************)
Goes(i, t) ==
  task' = [task EXCEPT ![i] = IF t.aborted /\ Awaits(t) THEN Over ELSE t]

Wake(i) ==
  /\ task[i].at = "asleep" /\ task[i].left = 0
  /\ Goes(i, [task[i] EXCEPT !.at = "woken"])
  /\ UNCHANGED <<entry, belief, world, sinceTouch, lost, rounds>>

\* The snapshot under the lock, and the gate.
AnyBelief(e) == ~e.disabled /\ e.pings < Planned       \* mutant: the belief is not asked
Gate(e) == ~e.disabled /\ e.pings < Planned /\ ShouldPing(belief, Planned - e.pings)

Snapshot(i) ==
  LET pings == Gate(entry)
  IN /\ task[i].at = "woken"
     /\ IF pings THEN Goes(i, [task[i] EXCEPT !.at = "sending", !.left = Latency, !.tokens = entry.tokens])
                 ELSE Goes(i, Over)
     /\ rounds' = IF pings /\ rounds < Planned + 2 THEN rounds + 1 ELSE rounds
     /\ UNCHANGED <<entry, belief, world, sinceTouch, lost>>

(***************************************************************************)
(* send_ping: a refusal that is about max_tokens = 0 is tried once more    *)
(* with 1; 401 and the other statuses end in "refused"; what is not an     *)
(* answer of the API ends in "network", whether it had been reached or not.*)
(***************************************************************************)
Retry(i) ==
  /\ task[i].at = "sending" /\ task[i].tokens = 0
  /\ Goes(i, [task[i] EXCEPT !.tokens = 1])
  /\ UNCHANGED <<entry, belief, world, sinceTouch, lost, rounds>>

Reach(i) ==
  /\ task[i].at = "sending"
  /\ Goes(i, [task[i] EXCEPT !.at = "reached"])
  /\ sinceTouch' = 0
  /\ UNCHANGED <<entry, belief, world, lost, rounds>>

Answer(i) ==
  /\ task[i].at \in {"sending", "reached"}
  /\ \E o \in IF task[i].at = "reached" THEN {"sent", "network"} ELSE {"refused", "network"} :
       /\ Goes(i, [task[i] EXCEPT !.at = "answered", !.left = 0, !.outcome = o])
       /\ lost' = (lost \/ o # "sent")
  /\ UNCHANGED <<entry, belief, world, sinceTouch, rounds>>

\* The outcome is applied to the entry the map holds now, whoever asked.
RoundAgain(t) ==                          \* mutant: a network error costs no round
  LET r == IF t.outcome = "network" THEN t.round ELSE t.round + 1
  IN [t EXCEPT !.round = r, !.at = IF r = Planned THEN "ending" ELSE "asleep", !.left = Sleep]
NextRound(t) ==
  [t EXCEPT !.round = @ + 1, !.at = IF t.round + 1 = Planned THEN "ending" ELSE "asleep",
            !.left = Sleep, !.tokens = 0, !.outcome = "none"]

Apply(i) ==
  /\ task[i].at = "answered"
  /\ \/ /\ task[i].outcome = "sent"
        /\ entry' = [entry EXCEPT !.pings = @ + 1, !.tokens = task[i].tokens]
        /\ Goes(i, NextRound(task[i]))
     \/ /\ task[i].outcome = "network"
        /\ Goes(i, NextRound(task[i])) /\ UNCHANGED entry
     \/ /\ task[i].outcome = "refused"
        /\ entry' = [entry EXCEPT !.disabled = TRUE]
        /\ Goes(i, Over)
  /\ UNCHANGED <<belief, world, sinceTouch, lost, rounds>>

Penalize(i) ==
  /\ task[i].at = "ending"
  /\ belief' = [belief EXCEPT !.lost = @ + 1]
  /\ Goes(i, Over)
  /\ UNCHANGED <<entry, world, sinceTouch, lost, rounds>>

(***************************************************************************)
(* Time passes when every task and handler waits, and none past its time.  *)
(***************************************************************************)
Waits(t) == t.at \in {"none", "over"} \/ (Awaits(t) /\ t.left > 0)

Tick ==
  /\ \A i \in Tasks : Waits(task[i])
  /\ \A h \in Handlers : handler[h].at = "idle" \/ (handler[h].at = "asked" /\ handler[h].wait < Latency)
  /\ task' = [i \in Tasks |-> IF Awaits(task[i]) THEN [task[i] EXCEPT !.left = @ - 1] ELSE task[i]]
  /\ handler' = [h \in Handlers |-> IF handler[h].at = "asked" THEN [handler[h] EXCEPT !.wait = @ + 1]
                                    ELSE handler[h]]
  /\ sinceTouch' = IF sinceTouch > TTL THEN sinceTouch ELSE sinceTouch + 1
  /\ UNCHANGED <<entry, belief, calls, spawned, lost, rounds, crossed>>

Serve(h) == Unanswered(h) \/ Insert(h) \/ Store(h)
Run(i) == \/ Wake(i) \/ Snapshot(i) \/ Retry(i) \/ Reach(i) \/ Answer(i)
          \/ Apply(i) \/ Penalize(i)

Progress == Tick \/ (\E h \in Handlers : Serve(h)) \/ (\E i \in Tasks : Run(i))

Next == Progress \/ \E h \in Handlers : Ask(h)

\* Time passes, the runtime polls what is ready, and the client's timeout answers
\* where the API does not.  Nothing obliges the user to ask again, and no task is
\* promised its turn: it is enough that the process never stops altogether.
Spec == Init /\ [][Next]_vars /\ WF_vars(Progress)

-----------------------------------------------------------------------------
(* Properties *)

\* Shape of the state.
TypeOK ==
  /\ entry = NoEntry \/ (entry \in Entries /\ entry.timer <= spawned)
  /\ belief \in [won : 1 .. calls + 1, lost : 1 .. spawned + 1]
  /\ task \in [Tasks -> [at : {"none", "asleep", "woken", "sending", "reached", "answered", "ending", "over"},
                         left : 0 .. Sleep + Latency, round : 0 .. Planned, tokens : {0, 1},
                         outcome : {"none", "sent", "refused", "network"}, aborted : BOOLEAN]]
  /\ handler \in [Handlers -> [at : {"idle", "asked", "store"}, wait : 0 .. Latency, task : 0 .. spawned]]
  /\ calls \in 0 .. MaxCalls /\ spawned \in 0 .. calls
  /\ sinceTouch \in 0 .. TTL + 1 /\ lost \in BOOLEAN /\ rounds \in 0 .. Planned + 2 /\ crossed \in BOOLEAN

\* One request at a time: a session has one timer that goes on, and the entry
\* holds its handle, so the next request can abort it.
OneTimer ==
  ~crossed => \A i \in Tasks : Lives(task[i]) =>
    /\ \A j \in Tasks : Lives(task[j]) => j = i
    /\ (\A h \in Handlers : handler[h].at # "store") => entry.timer = i

\* The purpose: while a timer goes on and every ping has reached the API, the
\* cache does not expire (with Sleep + 2 * Latency <= TTL).
Warm == (\E i \in Tasks : Lives(task[i])) /\ ~lost => sinceTouch <= TTL

\* What a silent session costs: the planned pings, failed ones included, and at
\* most one more by the timer that the last request could no longer stop; never
\* more than planned that succeed.
PingsBounded ==
  ~crossed => rounds <= Planned + 1 /\ (entry # NoEntry => entry.pings <= Planned)

\* A session whose gate has closed before any ping of its entry got through is
\* never pinged again: nothing but a ping that got through lets a later request
\* count as a success.
Quiet ==
  /\ entry # NoEntry /\ entry.pings = 0 /\ ~ShouldPing(belief, Planned)
  /\ \A i \in Tasks : task[i].at \notin {"sending", "reached", "answered"}
StaysQuiet == [][Quiet => Quiet']_vars

\* Every timer ends, also when the API never answers.
TimersEnd == \A i \in Tasks : task[i].at # "none" ~> task[i].at = "over"
=============================================================================
