---------------------------- MODULE AgenticLoop -----------------------------
(***************************************************************************)
(* The verifier-gated repair loop (run_agentic in                          *)
(* axiom_engine_rs/src/agentic.rs, behind agentic_loop and                 *)
(* agentic_loop_with_holdout): up to MaxAttempts times a proposer names an *)
(* edit set, which is applied as a transaction and kept if the verifier    *)
(* passes; the loop ends at the first that does.                           *)
(*                                                                         *)
(* Abstractions.  The proposer is an external model: it gives up or names  *)
(* any edit set.  The train and the held-out suite are external commands,  *)
(* deterministic in the tree they see (Train and Holdout); agentic_loop is *)
(* the case in which Holdout holds every tree.  The captured feedback text *)
(* is left out, since the proposer is arbitrary anyway.                    *)
(***************************************************************************)
EXTENDS Transaction

CONSTANTS
  MaxAttempts,   \* max_attempts.max(1)
  Train, Holdout \* trees that pass the train and the held-out suite

ASSUME LoopAssumption == MaxAttempts \in Nat \ {0}

VARIABLES
  phase,      \* "propose", "apply" or "returned"
  attempt,    \* the loop variable
  memory,     \* AttemptMemory: rejected effects
  rejected,   \* the counter of the outcome
  solved,     \* AgenticOutcome::solved
  given       \* history: the tree the loop was given

loopVars == <<phase, attempt, memory, rejected, solved, given>>
loopAllVars == <<txVars, loopVars>>

LoopInit ==
  /\ TxInit
  /\ phase = "propose" /\ attempt = 1
  /\ memory = {} /\ rejected = 0 /\ solved = FALSE
  /\ given = files

OneTooMany ==                                \* mutant: 0 ..= max
  /\ attempt' = attempt + 1
  /\ phase' = IF attempt > MaxAttempts THEN "returned" ELSE "propose"
NextAttempt ==
  /\ attempt' = attempt + 1
  /\ phase' = IF attempt = MaxAttempts THEN "returned" ELSE "propose"

\* The proposer gives up, or names nothing, or something rejected before.
Skip ==
  /\ phase = "propose"
  /\ NextAttempt
  /\ UNCHANGED <<txVars, memory, rejected, solved, given>>

Propose(E) ==
  /\ phase = "propose"
  /\ E # <<>> /\ Effect(E) \notin memory
  /\ Begin(E)
  /\ phase' = "apply"
  /\ UNCHANGED <<attempt, memory, rejected, solved, given>>

WriteCandidate == phase = "apply" /\ WriteEdit /\ UNCHANGED loopVars

Rejects ==
  /\ memory' = memory \union {Effect(edits)}
  /\ rejected' = rejected + 1
  /\ NextAttempt

ApplyFails ==
  /\ phase = "apply"
  /\ WriteFails \/ MkdirFails
  /\ Rejects
  /\ UNCHANGED <<solved, given>>

\* The held-out suite runs only after the train suite has passed.
TrainOnly(F) == F \in Train               \* mutant: the held-out suite is skipped
Accepts(F) == F \in Train /\ F \in Holdout

Accept ==
  /\ phase = "apply" /\ Applied /\ Accepts(files)
  /\ End /\ UNCHANGED <<files, before>>
  /\ solved' = TRUE /\ phase' = "returned"
  /\ UNCHANGED <<attempt, memory, rejected, given>>

Reject ==
  /\ phase = "apply" /\ Applied /\ ~Accepts(files)
  /\ Undo(files, snap)
  /\ End /\ UNCHANGED before
  /\ Rejects
  /\ UNCHANGED <<solved, given>>

LoopNext == Skip \/ (\E E \in EditSets : Propose(E)) \/ WriteCandidate \/ ApplyFails \/ Accept \/ Reject

LoopSpec == LoopInit /\ [][LoopNext]_loopAllVars

-----------------------------------------------------------------------------
(* Properties *)

\* Shape of the state.
LoopTypeOK ==
  /\ files \in [Paths -> Held] /\ snap \in [Paths -> (Held \ {Dir}) \union {NotTaken}]
  /\ edits \in EditSets \union {<<>>} /\ done \in 0 .. Len(edits)
  /\ phase \in {"propose", "apply", "returned"} /\ solved \in BOOLEAN
  /\ attempt \in 1 .. MaxAttempts + 1 /\ rejected \in 0 .. MaxAttempts

\* The loop returns either a tree that passes both suites, or the tree it was
\* given, byte for byte.
SolvedOrUntouched ==
  phase = "returned" => IF solved THEN files \in Train \intersect Holdout ELSE files = given
=============================================================================
