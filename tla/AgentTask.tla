----------------------------- MODULE AgentTask ------------------------------
(***************************************************************************)
(* Verifier-gated agent tasks (axiom_engine_rs/src/agent_task.rs and the   *)
(* server bin/agent_task_mcp.rs): task_start snapshots the files a task    *)
(* may edit, task_propose applies an edit set and keeps it only if the     *)
(* verifier passes, task_finish keeps the result or restores the snapshot. *)
(* The server serves one request at a time; tasks interleave between       *)
(* requests.                                                               *)
(*                                                                         *)
(* Abstractions.  The verifier is an external command: it passes or fails. *)
(* The history returned to the agent is left out (its length is attempt),  *)
(* and so is the mutation gate, which may only refuse a start.  Each task  *)
(* has its own goal.                                                       *)
(***************************************************************************)
EXTENDS Transaction

CONSTANTS Tasks, MaxAttempts, NoTask

ASSUME AgentTaskAssumption == MaxAttempts \in Nat /\ NoTask \notin Tasks

VARIABLES
  live,        \* tasks in the registry
  allow,       \* AgentTask::files
  originals,   \* AgentTask::originals
  attempt,     \* AgentTask::attempt
  rejected,    \* AttemptMemory: effects rejected for the goal of the task
  cur,         \* task whose proposal is being tried, or NoTask
  outcome,     \* history: how the last proposal ended
  refused,     \* history: effects the verifier has refused, per task
  started      \* history: files when each task was started

taskVars == <<live, allow, originals, attempt, rejected, cur, outcome, refused, started>>
vars == <<txVars, taskVars>>

Nothing == [p \in Paths |-> NotTaken]

Init ==
  /\ TxInit
  /\ live = {} /\ cur = NoTask /\ outcome = "none"
  /\ allow = [t \in Tasks |-> {}] /\ originals = [t \in Tasks |-> Nothing]
  /\ attempt = [t \in Tasks |-> 0] /\ rejected = [t \in Tasks |-> {}]
  /\ refused = [t \in Tasks |-> {}] /\ started = [t \in Tasks |-> Nothing]

\* A file that exists but cannot be read refuses the start; a directory counts
\* as missing.
Start(t, A) ==
  /\ cur = NoTask /\ started[t] = Nothing /\ A # {}
  /\ live' = live \union {t}
  /\ allow' = [allow EXCEPT ![t] = A]
  /\ originals' = [originals EXCEPT ![t] =
       [p \in Paths |-> IF p \notin A THEN NotTaken
                        ELSE IF files[p] = Dir THEN Absent ELSE files[p]]]
  /\ started' = [started EXCEPT ![t] = files]
  /\ UNCHANGED <<txVars, attempt, rejected, cur, outcome, refused>>

(***************************************************************************)
(* task_propose.  A proposal beyond the last attempt changes nothing.      *)
(***************************************************************************)
Allows(t, E) == \A i \in DOMAIN E : E[i].path \in allow[t]

KnownInOrder(t, E) == E \in rejected[t]   \* mutant: the edits, not their effect
Known(t, E) == Effect(E) \in rejected[t]

Counts(t) ==
  /\ cur = NoTask /\ t \in live /\ attempt[t] < MaxAttempts
  /\ attempt' = [attempt EXCEPT ![t] = @ + 1]

TurnDown(t, E) ==
  /\ Counts(t)
  /\ ~Allows(t, E) \/ E = <<>> \/ Known(t, E)
  /\ UNCHANGED <<txVars, live, allow, originals, rejected, cur, outcome, refused, started>>

Propose(t, E) ==
  /\ Counts(t)
  /\ Allows(t, E) /\ E # <<>> /\ ~Known(t, E)
  /\ Begin(E)
  /\ cur' = t /\ outcome' = "none"
  /\ UNCHANGED <<live, allow, originals, rejected, refused, started>>

Write ==
  /\ cur # NoTask
  /\ WriteEdit
  /\ UNCHANGED taskVars

ApplyFails ==
  /\ cur # NoTask
  /\ WriteFails \/ MkdirFails
  /\ cur' = NoTask /\ outcome' = "rejected"
  /\ UNCHANGED <<live, allow, originals, attempt, rejected, refused, started>>

PassesAnew ==                             \* mutant: the snapshot follows the commit
  /\ cur # NoTask /\ Applied
  /\ End /\ UNCHANGED <<files, before>>
  /\ originals' = [originals EXCEPT ![cur] = [p \in Paths |-> IF p \in allow[cur] THEN files[p] ELSE NotTaken]]
  /\ cur' = NoTask /\ outcome' = "passed"
  /\ UNCHANGED <<live, allow, attempt, rejected, refused, started>>
Passes ==
  /\ cur # NoTask /\ Applied
  /\ End /\ UNCHANGED <<files, before>>
  /\ cur' = NoTask /\ outcome' = "passed"
  /\ UNCHANGED <<live, allow, originals, attempt, rejected, refused, started>>

Fails ==
  /\ cur # NoTask /\ Applied
  /\ Undo(files, snap)
  /\ End /\ UNCHANGED before
  /\ rejected' = [rejected EXCEPT ![cur] = @ \union {Effect(edits)}]
  /\ refused' = [refused EXCEPT ![cur] = @ \union {Effect(edits)}]
  /\ cur' = NoTask /\ outcome' = "rejected"
  /\ UNCHANGED <<live, allow, originals, attempt, started>>

(***************************************************************************)
(* task_finish.  A restore that fails at one file returns an error after   *)
(* having restored some of the others; the task stays for a retry.         *)
(***************************************************************************)
FinishKeep(t) ==
  /\ cur = NoTask /\ t \in live
  /\ live' = live \ {t}
  /\ UNCHANGED <<txVars, allow, originals, attempt, rejected, cur, outcome, refused, started>>

Restored(t, S) ==
  [p \in Paths |-> IF p \notin S THEN files[p]
                   ELSE IF originals[t][p] = Absent THEN IF files[p] = Dir THEN Dir ELSE Absent
                   ELSE originals[t][p]]

FinishAbort(t) ==
  /\ cur = NoTask /\ t \in live
  /\ files' = Restored(t, allow[t])
  /\ live' = live \ {t} /\ outcome' = "none"
  /\ UNCHANGED <<edits, done, snap, before, allow, originals, attempt, rejected, cur, refused, started>>

AbortFails(t) ==
  /\ "restore" \in Faults
  /\ cur = NoTask /\ t \in live
  /\ \E S \in SUBSET allow[t], p \in allow[t], left \in {"kept", "partial"} :
       /\ p \notin S
       /\ files' = [Restored(t, S) EXCEPT ![p] =
                      IF left = "partial" /\ originals[t][p] # Absent THEN Partial ELSE @]
  /\ outcome' = "none"
  /\ UNCHANGED <<edits, done, snap, before, live, allow, originals, attempt, rejected, cur, refused, started>>

Next ==
  \/ \E t \in Tasks : \/ \E A \in SUBSET Paths : Start(t, A)
                      \/ \E E \in EditSets : TurnDown(t, E) \/ Propose(t, E)
                      \/ FinishKeep(t) \/ FinishAbort(t) \/ AbortFails(t)
  \/ Write \/ ApplyFails \/ Passes \/ Fails

Spec == Init /\ [][Next]_vars

-----------------------------------------------------------------------------
(* Properties *)

\* Shape of the state: no snapshot ever holds a directory, and the attempt
\* counter stays within its limit.
TypeOK ==
  /\ files \in [Paths -> Held] /\ before \in [Paths -> Held]
  /\ edits \in EditSets \union {<<>>} /\ done \in 0 .. Len(edits)
  /\ snap \in [Paths -> (Held \ {Dir}) \union {NotTaken}]
  /\ live \subseteq Tasks /\ cur \in live \union {NoTask}
  /\ allow \in [Tasks -> SUBSET Paths]
  /\ originals \in [Tasks -> [Paths -> (Held \ {Dir}) \union {NotTaken}]]
  /\ attempt \in [Tasks -> 0 .. MaxAttempts]

\* A proposal that is not accepted leaves every file as it was, byte for byte:
\* "a rejected multi-file change never half-applies".
AllOrNothing == outcome = "rejected" => files = before

\* A change with the effect of one the verifier refused is not tried again.
NeverReapplied ==
  [][ \A t \in Tasks : cur = NoTask /\ cur' = t => Effect(edits') \notin refused[t] ]_vars

\* A proposal, whatever becomes of it, changes only files its task declared.
Confined ==
  [][ cur # NoTask => \A p \in Paths \ allow[cur] : files'[p] = files[p] ]_vars

\* An abort that reports success has restored what the task found, whatever was
\* accepted or half restored before.
AbortRestores ==
  [][ \A t \in Tasks : FinishAbort(t) => \A p \in allow[t] : files'[p] = started[t][p] ]_vars

\* The tree changes only by accepted edit sets and by aborts.
Settled == [p \in Paths |-> IF cur # NoTask /\ snap[p] # NotTaken THEN before[p] ELSE files[p]]
Gate    == INSTANCE GatedTree WITH tree <- Settled, found <- started, verdict <- outcome
GateSpec == Gate!Spec
=============================================================================
