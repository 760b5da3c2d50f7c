----------------------------- MODULE SolveLoop ------------------------------
(***************************************************************************)
(* axiom solve: make a failing command pass (solve.rs).  Each round runs   *)
(* the command under the supervisor that heals its environment             *)
(* (self_heal.rs), and if it still fails tries to repair, one after the    *)
(* other, the files its output blames: Poly-JIT patches (poly_jit.rs),     *)
(* mutations (mutation_repair.rs), patches of the fleet (patch_memory.rs), *)
(* proposals of a language model.  Every phase is to undo what it tried    *)
(* unless the command passes.  The heal memory is read when the supervisor *)
(* starts and written back when it ends, while the node's server merges    *)
(* peers' exports into the same file (routes_fleet.rs).                    *)
(*                                                                         *)
(* Abstractions.  A text is the edit it carries and whether it is cut off. *)
(* A run of the command may pass or fail whatever is on disk; what was on  *)
(* disk when it last passed is recorded.  The directories are one: learned *)
(* or not.  Tension, absorption into the weights, advisories, recall       *)
(* records and the ranking of candidates are left out.                     *)
(***************************************************************************)
EXTENDS Naturals, FiniteSets

CONSTANTS
  Sources,      \* files the output may blame
  Lengthy,      \* those longer than the excerpt Poly-JIT reads
  Tests,        \* those fault_locate takes for tests
  Edits,        \* edits that may be tried
  Rounds,       \* max_rounds
  Restarts,     \* max_restarts
  WaitsAllowed,      \* MAX_TRANSIENT_RETRIES
  PolySteps,    \* MAX_POLY_JIT_STEPS
  Tries,        \* candidates of a mutation plan, and llm_repair_attempts
  SolveFaults   \* of "read", "write", "exec"

ASSUME SolveAssumption ==
  /\ IsFiniteSet(Sources)
  /\ {Rounds, PolySteps, Tries} \subseteq Nat \ {0} /\ {Restarts, WaitsAllowed} \subseteq Nat
  /\ {"none", "torn"} \cap Edits = {}

VARIABLES
  text,      \* the files
  step,      \* where the loop is, with its local variables
  learned,   \* the heal memory's file: are the directories in it
  patches,   \* the patch memory's file: pairs <<file, text>> for this command
  unsafe,    \* history: files of which a backup failed, or whose restoring did
  passed     \* history: what was on disk when the command last passed

solveVars == <<text, step, learned, patches, unsafe, passed>>
diskVars == <<text, unsafe>>
fileVars == <<learned, patches>>

Text == [edit : Edits \union {"none", "torn"}, cut : BOOLEAN]
Original == [edit |-> "none", cut |-> FALSE]
Torn == [edit |-> "torn", cut |-> TRUE]
Fixes == [edit : Edits, cut : {FALSE}]
Ends == {"solved", "unsolved", "error"}

\* phase: what is being done; file: under repair; left: files still to try;
\* first: the text a phase read before it tried anything, "none" when it could
\* not; tries: candidates tried; copy: the heal memory in memory; healed: this
\* supervisor call healed something; made, bit: what it did.
SolveInit ==
  /\ text = [f \in Sources |-> Original]
  /\ learned \in BOOLEAN
  /\ patches \in {{}} \union {{<<f, t>>} : f \in Sources, t \in Fixes}
  /\ unsafe = {} /\ passed = <<>>
  /\ step = [phase |-> "supervise", round |-> 1, attempt |-> 1, waits |-> 0, healed |-> FALSE,
             made |-> FALSE, bit |-> FALSE, copy |-> FALSE, left |-> {}, file |-> "none",
             first |-> Original, known |-> FALSE, tries |-> 0]

f0 == step.file
Enter(phase) == step' = [step EXCEPT !.phase = phase, !.known = FALSE, !.tries = 0,
                                     !.first = Original]

\* output_bounded: the run ends, in time or by being killed.  It may fail at
\* any time; when it passes, what is on disk has passed.
Passes(tree) == passed' = tree /\ Enter("solved")

-----------------------------------------------------------------------------
(* Phase 1: run_supervised                                                  *)

\* Learned immunity: before the first run the directories that earlier runs of
\* this command needed, or those of several others, are made where missing.
Immunize ==
  /\ step.phase = "supervise"
  /\ \E done \in BOOLEAN :
       step' = [step EXCEPT !.phase = "run", !.attempt = 1, !.waits = 0, !.healed = done,
                            !.made = done, !.bit = FALSE, !.copy = learned]
  /\ UNCHANGED <<diskVars, fileVars, passed>>

\* A program that may not be executed gets its bit, once; a second failure, or
\* any other failure to start it, ends the whole solve.
Unlaunched ==
  /\ step.phase = "run" /\ "exec" \in SolveFaults
  /\ \/ /\ step.attempt <= Restarts /\ ~step.bit
        /\ step' = [step EXCEPT !.attempt = @ + 1, !.healed = TRUE, !.bit = TRUE]
     \/ Enter("error")
  /\ UNCHANGED <<diskVars, fileVars, passed>>

\* finalize_memory writes the copy read at the start, with what a successful
\* run was seen to need.
RunPasses ==
  /\ step.phase = "run"
  /\ Passes(text)
  /\ learned' = (step.copy \/ step.made)
  /\ UNCHANGED <<diskVars, patches>>

\* A failing run is restarted when the directory it missed could be made, when
\* a file it ran got its bit, or when it looked transient, within the budget.
RunFails ==
  /\ step.phase = "run"
  /\ \E heal \in {"none"} \union (IF step.made THEN {} ELSE {"made"})
                          \union (IF step.bit THEN {} ELSE {"bit"})
                          \union (IF step.waits < WaitsAllowed THEN {"waited"} ELSE {}) :
       LET again == heal # "none" /\ step.attempt <= Restarts IN
       /\ learned' = IF again THEN learned ELSE step.copy
       /\ step' = IF again
                  THEN [step EXCEPT !.attempt = @ + 1, !.healed = TRUE,
                                    !.waits = IF heal = "waited" THEN @ + 1 ELSE @,
                                    !.made = @ \/ heal = "made", !.bit = @ \/ heal = "bit"]
                  ELSE [step EXCEPT !.phase = "blame", !.healed = @ \/ heal # "none",
                                    !.attempt = 1, !.waits = 0, !.made = FALSE,
                                    !.bit = FALSE, !.copy = FALSE]
  /\ UNCHANGED <<diskVars, patches, passed>>

\* post_immunity_merge: a peer's directories, read, united and saved by the
\* server of this node.
PeerMerge ==
  /\ learned' = TRUE
  /\ UNCHANGED <<diskVars, step, patches, passed>>

-----------------------------------------------------------------------------
(* Rounds and candidate files *)

\* The named source, or the files the output blames.
Localize(files) ==
  /\ step.phase = "blame"
  /\ step' = [step EXCEPT !.phase = "next", !.left = files]
  /\ UNCHANGED <<diskVars, fileVars, passed>>

TakeFile(f) ==
  /\ step.phase = "next" /\ f \in step.left
  /\ step' = [step EXCEPT !.phase = "poly", !.left = @ \ {f}, !.file = f, !.known = FALSE,
                          !.tries = 0]
  /\ UNCHANGED <<diskVars, fileVars, passed>>

\* Another round only if the supervisor changed something in this one.
EndRound ==
  /\ step.phase = "next" /\ step.left = {}
  /\ IF step.healed /\ step.round < Rounds
     THEN step' = [step EXCEPT !.phase = "supervise", !.round = @ + 1, !.file = "none"]
     ELSE Enter("unsolved")
  /\ UNCHANGED <<diskVars, fileVars, passed>>

-----------------------------------------------------------------------------
(* Trying texts in the file under repair                                    *)

Now(t) == [text EXCEPT ![f0] = t]
Put(t) == text' = Now(t)
Trying(phase) == step.phase = phase /\ step.known

\* Each phase reads the file when it starts.  One that cannot goes on to the
\* next phase, but Poly-JIT goes on without a backup.
Reads(phase) ==
  /\ step.phase = phase /\ ~step.known
  /\ step' = [step EXCEPT !.known = TRUE, !.first = text[f0]]
  /\ UNCHANGED <<diskVars, fileVars, passed>>

\* Undo, whose own error is ignored or printed: std::fs::write truncates
\* first, and the loop goes on with whatever is left.
Forgets == UNCHANGED diskVars      \* mutant: nothing is undone
PutBack ==
  \/ Put(step.first) /\ UNCHANGED unsafe
  \/ "write" \in SolveFaults /\ Put(Torn) /\ unsafe' = unsafe \union {f0}

\* A candidate is written, the command run, and the text put back if it fails.
Tried == step' = [step EXCEPT !.tries = @ + 1]
Rejected ==
  /\ PutBack /\ Tried
  /\ UNCHANGED <<fileVars, passed>>

\* Kept: the file is read again and recorded, if it can be, for the fleet.
Kept(t, recorded) ==
  /\ Put(t) /\ Passes(Now(t))
  /\ patches' = IF recorded THEN patches \union {<<f0, t>>} ELSE patches
  /\ UNCHANGED <<learned, unsafe>>

\* A failing write may have truncated the file, so it is put back.
TornWrite(next) ==
  /\ "write" \in SolveFaults
  /\ PutBack /\ next
  /\ UNCHANGED <<fileVars, passed>>

GoesOn(next) == Enter(next) /\ UNCHANGED <<diskVars, fileVars, passed>>

-----------------------------------------------------------------------------
(* Phase 2: Poly-JIT runs the command, patches the excerpt it reads and     *)
(* writes it back as the whole file, until its steps are used.              *)

AtPoly == step.phase = "poly" /\ (step.known \/ f0 \in unsafe)

PolyUnread ==
  /\ step.phase = "poly" /\ ~step.known /\ f0 \notin unsafe /\ "read" \in SolveFaults
  /\ unsafe' = unsafe \union {f0}
  /\ UNCHANGED <<text, step, fileVars, passed>>

PolyPasses ==
  /\ AtPoly
  /\ Passes(text)
  /\ UNCHANGED <<diskVars, fileVars>>

Excerpt(e) == [edit |-> e, cut |-> text[f0].cut \/ f0 \in Lengthy]
PolyPatches(e) ==
  /\ AtPoly /\ step.tries + 1 < PolySteps
  /\ Put(Excerpt(e)) /\ Tried
  /\ UNCHANGED <<unsafe, fileVars, passed>>

\* No patch, no step left, a run past its deadline, a failing write: the
\* backup, if there is one, is put back.
PolyGivesUp ==
  /\ AtPoly
  /\ IF step.known THEN PutBack
     ELSE UNCHANGED unsafe /\ (text' = text \/ ("write" \in SolveFaults /\ Put(Torn)))
  /\ Enter("mutate")
  /\ UNCHANGED <<fileVars, passed>>

-----------------------------------------------------------------------------
(* Phases 2.1 and 3: apply_verified_patch_iterative, over the plan of       *)
(* mutations, never of a test, and over the proposals of the model, refused *)
(* when they look cut off.  Phase 2.5: PatchMemory::try_candidates, over    *)
(* the patches recorded for this file.                                      *)

NextPhase == [mutate |-> "fleet", fleet |-> "prompt", prompt |-> "next"]
Repairs == DOMAIN NextPhase

Candidates(phase) ==
  IF phase = "fleet" THEN {p[2] : p \in {q \in patches : q[1] = f0}} \ {step.first}
  ELSE IF phase = "mutate" THEN {t \in [edit : Edits, cut : {step.first.cut}] : t # step.first}
  ELSE Fixes \ {step.first}

May(phase) == phase = "mutate" => f0 \notin Tests

Discards(phase) ==
  /\ Trying(phase) /\ step.tries < Tries /\ Candidates(phase) # {}
  /\ Rejected

Adopts(phase, t, recorded) ==
  /\ Trying(phase) /\ step.tries < Tries /\ t \in Candidates(phase)
  /\ recorded => phase # "fleet"
  /\ Kept(t, recorded)

\* A write that fails ends the loop of a phase, but not the fleet's.
CannotWrite(phase) ==
  /\ Trying(phase) /\ step.tries < Tries /\ Candidates(phase) # {}
  /\ TornWrite(IF phase = "fleet" THEN Tried ELSE Enter(NextPhase[phase]))

\* A test, an unreadable file, no plan, no backend, no candidate left.
Skips(phase) ==
  /\ step.phase = phase
  /\ GoesOn(NextPhase[phase])

-----------------------------------------------------------------------------
SolveNext ==
  \/ Immunize \/ Unlaunched \/ RunPasses \/ RunFails
  \/ PeerMerge
  \/ \E files \in SUBSET Sources : Localize(files)
  \/ \E f \in Sources : TakeFile(f)
  \/ EndRound
  \/ Reads("poly") \/ PolyUnread \/ PolyPasses \/ PolyGivesUp
  \/ \E e \in Edits : PolyPatches(e)
  \/ \E phase \in Repairs :
       \/ May(phase) /\ Reads(phase)
       \/ Discards(phase) \/ CannotWrite(phase) \/ Skips(phase)
       \/ \E t \in Text, recorded \in BOOLEAN : Adopts(phase, t, recorded)

SolveSpec == SolveInit /\ [][SolveNext]_solveVars

-----------------------------------------------------------------------------
(* A solve that gives up, or fails, leaves every file as it found it,       *)
(* between any two files it tries too; one that succeeds changes at most    *)
(* one file, and what is on disk is what the command passed with: files     *)
(* whose backup or whose undoing the system refused aside.                  *)
Differs == {f \in Sources \ unsafe : text[f] # Original}
OnlyFixChanges ==
  /\ step.phase \in (Ends \ {"solved"}) \union {"supervise", "run", "blame", "next"}
       => Differs = {}
  /\ step.phase = "solved" => Cardinality(Differs) <= 1 /\ passed = text

(* Nothing is kept that is only a part of the file it replaces: "never risk *)
(* persisting a cut-off file that only partially verifies"                  *)
(* (llm_repair_round).                                                      *)
NeverCut ==
  step.phase = "solved" => \A f \in Sources \ unsafe : ~text[f].cut

(* What a peer taught stays: "Local learning is never weakened"             *)
(* (post_immunity_merge).                                                   *)
LearningStays == [][learned => learned']_solveVars
=============================================================================
