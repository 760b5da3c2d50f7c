--------------------------- MODULE ServerSessions ---------------------------
(***************************************************************************)
(* The /v1/sessions table of the server (server/routes_sessions.rs,        *)
(* server/prelude_state.rs): handlers that create, use, replace and delete *)
(* sessions, the peers' deltas (/v1/cluster/sync and the DWE consumer),    *)
(* and the offload tasks that park the least recently used session while   *)
(* more than Budget sessions hold tensors.                                 *)
(*                                                                         *)
(* A step is one section under the table's lock.  What a session has       *)
(* learned is a set of turns: every update adds a number of its own, and a *)
(* PUT replaces the set.  Parking and unparking a session keeps the set    *)
(* (NF4 rounds the numbers, it drops no layer).  last_used is in whole     *)
(* seconds: two stamps may be equal.  A session has one layer.  Metrics    *)
(* are left out.                                                           *)
(***************************************************************************)
EXTENDS Integers, FiniteSets

CONSTANTS
  Sessions,   \* session ids
  Clients,    \* request threads that adapt or generate
  Offloads,   \* offload tasks that may run at a time
  Beneath,    \* Beneath[s]: the ids whose guard keys start with "s:"
  Budget,     \* MAX_ACTIVE_VRAM_SESSIONS
  MaxSessions,\* AXIOM_MAX_SESSIONS
  Versions,   \* sequence versions a peer may send
  MaxCalls,   \* bound of the model: requests and deltas
  MaxClock,   \* bound of the model: the last second of the clock
  None        \* no session, no pending work

ASSUME SessionsAssumption ==
  /\ Beneath \in [Sessions -> SUBSET Sessions]
  /\ \A s \in Sessions : s \in Beneath[s]
  /\ Budget \in Nat /\ MaxSessions \in Nat \ {0} /\ MaxCalls \in Nat /\ MaxClock \in Nat
  /\ Versions \subseteq Nat \ {0} /\ None \notin Sessions

VARIABLES
  table,      \* sessions: residency, what was learned, last_used
  guard,      \* sequence_versions under "{session}:{layer}", 0 when absent
  dwe,        \* sequence_versions under "dwe:{session}", 0 when absent
  fragment,   \* the DWE fragment the consumer has admitted and not yet merged
  client,     \* what each request thread is doing
  forget,     \* per id, deletes that still have the guards to drop
  offload,    \* the offload tasks
  clock,      \* wall clock, in seconds
  calls,      \* requests so far; a turn is the number of its request
  applied,    \* history: newest delta merged into this session, 0 for none
  wiped,      \* history: the guard went while the session was there
  overlooked, \* history: offload tasks whose session has been written since they copied
              \* it, in the very second they compare with
  broken      \* history: an offload task ended with an error

sessVars == <<table, guard, dwe, fragment, client, forget, offload, clock, calls,
              applied, wiped, overlooked, broken>>
history == <<applied, wiped>>

Turns == 1 .. MaxCalls
Residency == {"absent", "active", "parked"}
NoSession == [res |-> "absent", got |-> {}, last |-> 0]
Idle == [pc |-> "idle", on |-> None, got |-> {}, turn |-> 0]
Resting == [pc |-> "idle", on |-> None, last |-> 0, got |-> {}]

Live(s) == table[s].res # "absent"
ActiveOnes == {s \in Sessions : table[s].res = "active"}
OverBudget == Cardinality(ActiveOnes) > Budget

\* unix_now(), in a step that stores it: whole seconds
Stamps == {clock, clock + 1} \cap 0 .. MaxClock
\* put_checkpoint reads the clock before it waits for the lock
EarlyStamps == (0 .. clock) \cup Stamps

Call == calls < MaxCalls /\ calls' = calls + 1

SessTypeOK ==
  /\ table \in [Sessions -> [res : Residency, got : SUBSET Turns, last : 0 .. MaxClock]]
  /\ guard \in [Sessions -> Versions \cup {0}]
  /\ dwe \in [Sessions -> Versions \cup {0}]
  /\ fragment \in [on : Sessions \cup {None}, turn : 0 .. MaxCalls]
  /\ client \in [Clients -> [pc : {"idle", "work"}, on : Sessions \cup {None},
                             got : SUBSET Turns, turn : 0 .. MaxCalls]]
  /\ forget \in [Sessions -> 0 .. MaxCalls]
  /\ offload \in [Offloads -> [pc : {"idle", "pick", "copy", "install"},
                               on : Sessions \cup {None}, last : 0 .. MaxClock, got : SUBSET Turns]]
  /\ clock \in 0 .. MaxClock /\ calls \in 0 .. MaxCalls
  /\ applied \in [Sessions -> Versions \cup {0}]
  /\ wiped \in [Sessions -> BOOLEAN]
  /\ overlooked \subseteq Offloads
  /\ broken \in BOOLEAN

SessInit ==
  /\ table = [s \in Sessions |-> NoSession]
  /\ guard = [s \in Sessions |-> 0]
  /\ dwe = [s \in Sessions |-> 0]
  /\ fragment = [on |-> None, turn |-> 0]
  /\ client = [c \in Clients |-> Idle]
  /\ forget = [s \in Sessions |-> 0]
  /\ offload = [o \in Offloads |-> Resting]
  /\ clock = 0 /\ calls = 0
  /\ applied = [s \in Sessions |-> 0]
  /\ wiped = [s \in Sessions |-> FALSE]
  /\ overlooked = {}
  /\ broken = FALSE

\* trigger_lru_vram_budget spawns a task.  When every slot of the model is taken, one of
\* those tasks still looks at the whole table before it ends.
Trigger ==
  LET free == {o \in Offloads : offload[o].pc = "idle"}
  IN  IF free = {} THEN UNCHANGED offload
      ELSE \E o \in free : offload' = [offload EXCEPT ![o] = [Resting EXCEPT !.pc = "pick"]]

Store(s, turns, stamp) == table' = [table EXCEPT ![s] = [res |-> "active", got |-> turns, last |-> stamp]]

\* ensure_active: a parked session becomes active and keeps what it learned
Wakened(s) == [table EXCEPT ![s].res = "active"]

\* A new UUID: nothing anywhere knows it, and it extends no other id.
Unused(s) ==
  /\ ~Live(s) /\ guard[s] = 0 /\ dwe[s] = 0 /\ fragment.on # s /\ forget[s] = 0
  /\ \A c \in Clients : client[c].on # s
  /\ \A o \in Offloads : offload[o].on # s
  /\ \A t \in Sessions \ {s} : s \notin Beneath[t]

\* A session that was not there: no delta merged, no guard lost
Fresh(s) ==
  /\ applied' = [applied EXCEPT ![s] = 0]
  /\ wiped' = [wiped EXCEPT ![s] = FALSE]

----------------------------------------------------------------------------
\* Create, delete, checkpoints

\* create_session: the only insertion that looks at the cap.
Create(s) ==
  /\ Call /\ Unused(s)
  /\ Cardinality({t \in Sessions : Live(t)}) < MaxSessions
  /\ \E now \in Stamps : Store(s, {}, now) /\ clock' = now
  /\ Fresh(s) /\ Trigger
  /\ UNCHANGED <<guard, dwe, fragment, client, forget, broken>>

\* delete_session: the session under its lock ...
Delete(s) ==
  /\ Call /\ Live(s)
  /\ table' = [table EXCEPT ![s] = NoSession]
  /\ forget' = [forget EXCEPT ![s] = @ + 1]
  /\ UNCHANGED <<guard, dwe, fragment, client, offload, clock, applied, wiped, broken>>

\* ... and then every guard whose key starts with its id, under another.
ForgetGuards(s) ==
  /\ forget[s] > 0
  /\ forget' = [forget EXCEPT ![s] = @ - 1]
  /\ guard' = [t \in Sessions |-> IF t \in Beneath[s] THEN 0 ELSE guard[t]]
  /\ wiped' = [t \in Sessions |-> wiped[t] \/ (t \in Beneath[s] /\ Live(t))]
  /\ UNCHANGED <<table, dwe, fragment, client, offload, clock, calls, applied, broken>>

\* get_checkpoint makes the session active and neither touches last_used nor triggers.
Export(s) ==
  /\ Call /\ Live(s)
  /\ table' = Wakened(s)
  /\ UNCHANGED <<guard, dwe, fragment, client, forget, offload, clock, broken, history>>

\* put_checkpoint: no cap, and it may bring back the id of a deleted session.
Restore(s) ==
  /\ Call
  /\ \E now \in EarlyStamps :
       /\ Store(s, {calls + 1}, now)
       /\ clock' = IF now > clock THEN now ELSE clock
  /\ IF Live(s) THEN UNCHANGED <<applied, wiped>>
     ELSE /\ applied' = [applied EXCEPT ![s] = 0]
          /\ wiped' = [wiped EXCEPT ![s] = FALSE]
  /\ Trigger
  /\ UNCHANGED <<guard, dwe, fragment, client, forget, broken>>

----------------------------------------------------------------------------
\* Requests that load a session, work without the lock, and write back

Load(c, s) ==
  /\ client' = [client EXCEPT ![c] = [pc |-> "work", on |-> s, got |-> table'[s].got, turn |-> calls + 1]]
  /\ UNCHANGED <<guard, dwe, fragment, forget, offload, broken>>

\* resolve_or_create_session without an id (adapt): a new session, no cap, no trigger yet.
LoadNew(c, s) ==
  /\ Call /\ client[c].pc = "idle" /\ Unused(s)
  /\ \E now \in Stamps : Store(s, {}, now) /\ clock' = now
  /\ Fresh(s)
  /\ Load(c, s)

\* With an id: unpark it, stamp it, copy what it learned.
LoadOld(c, s) ==
  /\ Call /\ client[c].pc = "idle" /\ Live(s)
  /\ \E now \in Stamps :
       /\ table' = [Wakened(s) EXCEPT ![s].last = now]
       /\ clock' = now
  /\ Load(c, s)
  /\ UNCHANGED history

Resolve(c, s) == LoadOld(c, s)            \* resolve_or_create_session, for adapt
Generate(c, s) == LoadOld(c, s)           \* the first half of run_generation

\* The states are replaced if the session is still there, whatever happened to it since.
WriteBack(c) ==
  LET s == client[c].on
      turns == client[c].got \cup {client[c].turn}
  IN  /\ client[c].pc # "idle"
      /\ IF Live(s)
         THEN \E now \in Stamps : Store(s, turns, now) /\ clock' = now
         ELSE UNCHANGED <<table, clock>>
      /\ client' = [client EXCEPT ![c] = Idle]
      /\ Trigger
      /\ UNCHANGED <<guard, dwe, fragment, forget, calls, applied, wiped, broken>>

Adapted(c) == WriteBack(c)                \* the end of adapt
Generated(c) == WriteBack(c)              \* the end of run_generation and its callers

\* The pipeline fails before the write back.  adapt and completions return early ...
GivesUp(c) ==
  /\ client[c].pc # "idle"
  /\ client' = [client EXCEPT ![c] = Idle]
  /\ UNCHANGED <<table, guard, dwe, fragment, forget, clock, calls, broken, history>>

CompletionFails(c) == GivesUp(c) /\ UNCHANGED offload
\* ... and a chat triggers all the same.
ChatFails(c) == GivesUp(c) /\ Trigger

----------------------------------------------------------------------------
\* Deltas of other nodes

\* cluster_sync holds both locks: newer than the guard, then merged.
Another(s, v) == v # guard[s]             \* mutant: only a replay is refused
Newer(s, v) == v > guard[s]

Sync(s, v) ==
  /\ Call /\ Live(s) /\ Newer(s, v)
  /\ \E now \in Stamps : Store(s, table[s].got \cup {calls + 1}, now) /\ clock' = now
  /\ guard' = [guard EXCEPT ![s] = v]
  /\ applied' = [applied EXCEPT ![s] = v]
  /\ Trigger
  /\ UNCHANGED <<dwe, fragment, client, forget, wiped, broken>>

\* merge_delta unparks the session before it finds the layer missing or a sum not finite.
SyncFails(s, v) ==
  /\ Call /\ Live(s) /\ Newer(s, v)
  /\ table' = Wakened(s)
  /\ UNCHANGED <<guard, dwe, fragment, client, forget, offload, clock, broken, history>>

\* start_dwe_apply_loop: the sequence is used up before the session is looked for ...
DweAdmit(s, v) ==
  /\ Call /\ fragment.on = None /\ v > dwe[s]
  /\ dwe' = [dwe EXCEPT ![s] = v]
  /\ fragment' = [on |-> s, turn |-> calls + 1]
  /\ UNCHANGED <<table, guard, client, forget, offload, clock, broken, history>>

\* ... and its layers are merged under the other lock, with no trigger after it.
DweMerge ==
  LET s == fragment.on
  IN  /\ s # None
      /\ \/ UNCHANGED <<table, clock>>                  \* unknown session, or shapes differ
         \/ Live(s) /\ \E now \in Stamps : Store(s, table[s].got \cup {fragment.turn}, now) /\ clock' = now
         \/ Live(s) /\ table' = Wakened(s) /\ UNCHANGED clock          \* the merge failed
      /\ fragment' = [on |-> None, turn |-> 0]
      /\ UNCHANGED <<guard, dwe, client, forget, offload, calls, broken, history>>

----------------------------------------------------------------------------
\* enforce_lru_vram_budget_async

\* Under a read lock: nothing to do, or the least recently used of the active sessions.
Done(o) == ~OverBudget /\ offload' = [offload EXCEPT ![o] = Resting]
Choose(o) ==
  \E s \in ActiveOnes :
    /\ OverBudget
    /\ \A t \in ActiveOnes : table[s].last <= table[t].last
    /\ offload' = [offload EXCEPT ![o] = [Resting EXCEPT !.pc = "copy", !.on = s, !.last = table[s].last]]

Pick(o) ==
  /\ offload[o].pc = "pick"
  /\ Done(o) \/ Choose(o)
  /\ UNCHANGED <<table, guard, dwe, fragment, client, forget, clock, calls, broken, history>>

\* Under a read lock of its own: the session may be gone, or parked by another task.
Copy(o) ==
  LET s == offload[o].on
  IN  /\ offload[o].pc = "copy"
      /\ offload' = [offload EXCEPT ![o] =
           IF table[s].res = "active" THEN [@ EXCEPT !.pc = "install", !.got = table[s].got]
           ELSE [Resting EXCEPT !.pc = "pick"]]
      /\ UNCHANGED <<table, guard, dwe, fragment, client, forget, clock, calls, broken, history>>

\* Quantised with no lock held; installed under a write lock if still active with the same
\* last_used, and then once more from the top.
StillActive(o) == table[offload[o].on].res = "active"      \* mutant: the clock not compared
Unchanged(o) == StillActive(o) /\ table[offload[o].on].last = offload[o].last

TriesOnce(o) ==                           \* mutant: what came meanwhile is left to others
  /\ offload[o].pc = "install"
  /\ table' = IF Unchanged(o)
              THEN [table EXCEPT ![offload[o].on].res = "parked", ![offload[o].on].got = offload[o].got]
              ELSE table
  /\ offload' = [offload EXCEPT ![o] = Resting]
  /\ UNCHANGED <<guard, dwe, fragment, client, forget, clock, calls, broken, history>>

Install(o) ==
  /\ offload[o].pc = "install"
  /\ table' = IF Unchanged(o)
              THEN [table EXCEPT ![offload[o].on].res = "parked", ![offload[o].on].got = offload[o].got]
              ELSE table
  /\ offload' = [offload EXCEPT ![o] = [Resting EXCEPT !.pc = "pick"]]
  /\ UNCHANGED <<guard, dwe, fragment, client, forget, clock, calls, broken, history>>

\* Staging, quantising or joining fails: the task ends, the budget unmet.
OffloadFails(o) ==
  /\ offload[o].pc \in {"copy", "install"}
  /\ offload' = [offload EXCEPT ![o] = Resting]
  /\ broken' = TRUE
  /\ UNCHANGED <<table, guard, dwe, fragment, client, forget, clock, calls, history>>

OffloadStep(o) == Pick(o) \/ Copy(o) \/ Install(o)

----------------------------------------------------------------------------

SessStep ==
  \/ \E s \in Sessions :
       \/ Create(s) \/ Delete(s) \/ ForgetGuards(s) \/ Export(s) \/ Restore(s)
       \/ \E v \in Versions : Sync(s, v) \/ SyncFails(s, v) \/ DweAdmit(s, v)
       \/ \E c \in Clients : LoadNew(c, s) \/ Resolve(c, s) \/ Generate(c, s)
  \/ DweMerge
  \/ \E c \in Clients : Adapted(c) \/ Generated(c) \/ CompletionFails(c) \/ ChatFails(c)
  \/ \E o \in Offloads : OffloadStep(o) \/ OffloadFails(o)

\* The step leaves the session that o has copied in the second o compares with, and
\* either what it has learned or its stamp is new.
SameSecond(o) ==
  LET s == offload[o].on
  IN  /\ table'[s].last = offload[o].last
      /\ table'[s].got # table[s].got \/ table'[s].last # table[s].last

Overlooks ==
  overlooked' = {o \in Offloads : /\ offload[o].pc = "install" /\ offload'[o].pc = "install"
                                  /\ o \in overlooked \/ SameSecond(o)}

SessNext == SessStep /\ Overlooks

SessSpec == SessInit /\ [][SessNext]_sessVars

\* The runtime polls every spawned task: each offload task takes its next step.
SessFairSpec == SessSpec /\ \A o \in Offloads : WF_offload(OffloadStep(o))

----------------------------------------------------------------------------
(* Properties *)

\* What a session has learned goes away only with the session, with a PUT, or when a
\* request writes back over what came after its load: parking a session, done from a
\* copy taken earlier with no lock held, loses nothing.
Overlap(s, t) ==
  \/ Restore(s)
  \/ \E c \in Clients : WriteBack(c) /\ client[c].on = s /\ t \notin client[c].got
LossOnlyByOverlap ==
  [][\A s \in Sessions : \A t \in table[s].got :
       (Live(s)' /\ t \notin table'[s].got) => Overlap(s, t)]_sessVars

\* The clock of whole seconds is the only gap: an offload task undoes an update only when
\* that, or a stamp after it, fell into the very second the task noted at its pick (or was
\* a PUT that had read its clock so early).
LossExplained ==
  [][\A s \in Sessions : \A t \in table[s].got :
       (Live(s)' /\ t \notin table'[s].got) =>
         \/ Overlap(s, t)
         \/ \E o \in overlooked : Install(o) /\ offload[o].on = s]_sessVars

\* No delta of /v1/cluster/sync is merged twice or after a newer one, unless the second
\* half of a delete (of this id, or of one this id extends) has dropped the guard of a
\* session that is there.
SyncInOrder ==
  [][\A s \in Sessions, v \in Versions : Sync(s, v) => v > applied[s] \/ wiped[s]]_sessVars

\* Once requests and deltas stop coming, an offload task at work brings the sessions back
\* within the budget, unless it fails.  (While they come, a task that finds its session used
\* since it was copied starts again, so sessions used in turn can keep it from parking any.)
BudgetRestored ==
  \/ []<><<TRUE>>_calls
  \/ (\E o \in Offloads : offload[o].pc # "idle") ~> (~OverBudget \/ broken)

=============================================================================
