----------------------------- MODULE Checkpoint -----------------------------
(***************************************************************************)
(* A model's checkpoint is three files: the weights, the moments of the    *)
(* optimiser (resumable_adamw.rs) and a sidecar that says how the model is *)
(* to be built (model_meta.rs).  train_semantic resumes from them and      *)
(* writes them one after the other whenever an evaluation is the best of   *)
(* its run; the older trainers (train.rs, meta_train.rs) write the weights *)
(* alone, at their end; a server reads the sidecar, then the weights       *)
(* (inference.rs).  No two of these steps are atomic together, and a       *)
(* trainer may die between any two.                                        *)
(*                                                                         *)
(* What weights, moments and a sidecar were saved from is a pair <<run,    *)
(* step>>; losses are ranked, those within the tolerance of 1e-3 alike.    *)
(***************************************************************************)
EXTENDS Naturals

CONSTANTS
  Envs, Stabs, \* settings of a run: AXIOM_LEARNED_GATE, AXIOM_TTT_STABILIZE
  Dims,       \* sizes a model may have
  BaseDim,    \* the size a server assumes without a sidecar
  Windows,    \* training windows in an epoch
  Epochs, StepCap, Patience,
  TopLoss,    \* losses are ranked 0 .. TopLoss
  MaxRuns,    \* runs of a trainer
  CkptFaults  \* "cut": a trainer dies; "write": a file is not written

ASSUME CheckpointAssumption ==
  /\ Envs \subseteq {"on", "off", "unset"} /\ Stabs \subseteq BOOLEAN /\ BaseDim \in Dims
  /\ {Windows, Epochs, StepCap, Patience} \subseteq Nat \ {0}
  /\ TopLoss \in Nat /\ MaxRuns \in Nat
  /\ CkptFaults \subseteq {"cut", "write"}

VARIABLES
  weights, moments, sidecar,   \* the three files
  trainer, loader,             \* the process that trains, one that starts to serve
  runs,                        \* runs begun
  broken                       \* history: the last save was cut, failed in part or was of weights alone

ckptVars == <<weights, moments, sidecar, trainer, loader, runs, broken>>

Missing == [state |-> "missing"]
TornFile == [state |-> "torn"]

Arch == [dim : Dims, gate : BOOLEAN, stab : BOOLEAN]

Infinity == TopLoss + 1   \* or not a number

IdleTrainer == [at |-> "off"]
IdleLoader  == [at |-> "off"]

CkptInit ==
  /\ weights = Missing /\ moments = Missing /\ sidecar = Missing
  /\ trainer = IdleTrainer /\ loader = IdleLoader
  /\ runs = 0 /\ broken = FALSE

-----------------------------------------------------------------------------
(* train_semantic: start *)

\* An explicit AXIOM_LEARNED_GATE, or what the sidecar of the checkpoint says.
Gated(env) ==
  IF env # "unset" THEN env = "on"
  ELSE weights.state # "missing" /\ sidecar.state = "whole" /\ sidecar.arch.gate

\* The weights load when every tensor of the model is in the file with its
\* shape; those of a load that stops halfway count as new.
Fits(arch) ==
  weights.state = "whole" /\ weights.arch.dim = arch.dim /\ (arch.gate => weights.arch.gate)

\* The moments are looked for whether or not the weights did load; cold
\* moments belong to new weights.
Resume(env, dim, stab) ==
  LET arch  == [dim |-> dim, gate |-> Gated(env), stab |-> stab]
      fresh == <<runs + 1, 0>>
      kept  == moments.state = "whole"
  IN /\ trainer.at = "off" /\ runs < MaxRuns
     /\ runs' = runs + 1
     /\ trainer' = [at |-> "steps", kind |-> "semantic", arch |-> arch,
                    params  |-> IF Fits(arch) THEN weights.of ELSE fresh,
                    moments |-> IF kept /\ moments.dim = dim THEN moments.of ELSE fresh,
                    count   |-> IF kept THEN moments.of ELSE fresh,
                    step |-> 0, best |-> Infinity, lowest |-> Infinity, since |-> 0, skipped |-> FALSE]
     /\ UNCHANGED <<weights, moments, sidecar, loader, broken>>

\* The older trainers start from new weights, whatever is at the path.
StartPlain(dim) ==
  /\ trainer.at = "off" /\ runs < MaxRuns
  /\ runs' = runs + 1
  /\ trainer' = [at |-> "steps", kind |-> "plain",
                 arch |-> [dim |-> dim, gate |-> FALSE, stab |-> FALSE],
                 params |-> <<runs + 1, 0>>, moments |-> <<runs + 1, 0>>, count |-> <<runs + 1, 0>>,
                 step |-> 0, best |-> Infinity, lowest |-> Infinity, since |-> 0, skipped |-> FALSE]
  /\ UNCHANGED <<weights, moments, sidecar, loader, broken>>

-----------------------------------------------------------------------------
(* Steps and evaluations *)

Advanced ==
  LET now == <<runs, trainer.step + 1>>
  IN [trainer EXCEPT !.params = now, !.moments = now, !.count = now, !.step = @ + 1]
Skipped == [trainer EXCEPT !.step = @ + 1]

Then(t, to) == trainer' = IF to = "off" THEN IdleTrainer ELSE [t EXCEPT !.at = to]
Goes(to) == Then(trainer, to)

\* A window is trained (in part, if memory runs out: weights and moments change
\* together) or skipped, for a loss that is not finite or an error; the step
\* cap ends the run on the spot, without an evaluation.
Train(done) ==
  LET next == trainer.step + 1
      to   == IF next >= StepCap THEN "off" ELSE IF next % Windows = 0 THEN "eval" ELSE "steps"
  IN /\ trainer.at = "steps" /\ trainer.kind = "semantic"
     /\ Then(IF done THEN Advanced ELSE Skipped, to)
     /\ UNCHANGED <<weights, moments, sidecar, loader, runs, broken>>

\* Here an error ends the run, and the end of the run saves.
TrainPlain(done) ==
  /\ trainer.at = "steps" /\ trainer.kind = "plain"
  /\ IF done THEN Then(Advanced, IF trainer.step + 1 = Epochs * Windows THEN "weights" ELSE "steps")
             ELSE Goes("off")
  /\ UNCHANGED <<weights, moments, sidecar, loader, runs, broken>>

NextEpoch == IF trainer.step >= Epochs * Windows THEN "off" ELSE "steps"

\* Better than the best of this run by more than the tolerance.
Improves(v) == v < trainer.best

Worse == IF trainer.since + 1 >= Patience THEN "off" ELSE NextEpoch
MomentsAnyway == IF trainer.since + 1 >= Patience THEN "off" ELSE "moments"   \* mutant: saved every epoch
AfterWorse == Worse

Evaluate(v) ==
  /\ trainer.at = "eval"
  /\ LET low == IF v < trainer.lowest THEN v ELSE trainer.lowest
     IN IF Improves(v)
        THEN Then([trainer EXCEPT !.best = v, !.since = 0, !.lowest = low], "weights")
        ELSE Then([trainer EXCEPT !.since = @ + 1, !.lowest = low], AfterWorse)
  /\ UNCHANGED <<weights, moments, sidecar, loader, runs, broken>>

-----------------------------------------------------------------------------
(* Saving: each file is truncated, then filled *)

Overlaps ==
  loader' = IF loader.at \in {"dims", "built"} THEN [loader EXCEPT !.overlapped = TRUE] ELSE loader

TruncateWeights ==
  /\ trainer.at = "weights"
  /\ weights' = TornFile /\ broken' = TRUE
  /\ trainer' = [trainer EXCEPT !.at = "fill weights", !.skipped = FALSE]
  /\ Overlaps
  /\ UNCHANGED <<moments, sidecar, runs>>

FillWeights ==
  /\ trainer.at = "fill weights"
  /\ weights' = [state |-> "whole", of |-> trainer.params, arch |-> trainer.arch, val |-> trainer.best]
  /\ Goes(IF trainer.kind = "plain" THEN "off" ELSE "moments") /\ Overlaps
  /\ UNCHANGED <<moments, sidecar, runs, broken>>

TruncateMoments ==
  /\ trainer.at = "moments"
  /\ moments' = TornFile
  /\ Goes("fill moments") /\ Overlaps
  /\ UNCHANGED <<weights, sidecar, runs, broken>>

FillMoments ==
  /\ trainer.at = "fill moments"
  /\ moments' = [state |-> "whole", of |-> trainer.moments, dim |-> trainer.arch.dim]
  /\ Goes("sidecar") /\ Overlaps
  /\ UNCHANGED <<weights, sidecar, runs, broken>>

TruncateSidecar ==
  /\ trainer.at = "sidecar"
  /\ sidecar' = TornFile
  /\ Goes("fill sidecar") /\ Overlaps
  /\ UNCHANGED <<weights, moments, runs, broken>>

\* The save is whole when the moments were written and were of the weights (a
\* run that resumed from files that disagreed may not have trained a window).
FillSidecar ==
  /\ trainer.at = "fill sidecar"
  /\ sidecar' = [state |-> "whole", of |-> trainer.params, arch |-> trainer.arch]
  /\ broken' = (trainer.skipped \/ trainer.moments # trainer.params)
  /\ Goes(NextEpoch) /\ Overlaps
  /\ UNCHANGED <<weights, moments, runs>>

\* A warning, and the next file; for the sidecar, not even that.
SkipsMoments ==
  /\ "write" \in CkptFaults /\ trainer.at \in {"moments", "fill moments"}
  /\ trainer' = [trainer EXCEPT !.at = "sidecar", !.skipped = TRUE]
  /\ UNCHANGED <<weights, moments, sidecar, loader, runs, broken>>

SkipsSidecar ==
  /\ "write" \in CkptFaults /\ trainer.at \in {"sidecar", "fill sidecar"}
  /\ Goes(NextEpoch)
  /\ UNCHANGED <<weights, moments, sidecar, loader, runs, broken>>

\* The process dies, or panics because the weights cannot be written.
TrainerDies ==
  /\ "cut" \in CkptFaults /\ trainer.at # "off"
  /\ Goes("off")
  /\ UNCHANGED <<weights, moments, sidecar, loader, runs, broken>>

-----------------------------------------------------------------------------
(* A server starts *)

\* The size comes from one reading of the sidecar ...
ReadDims ==
  /\ loader.at \in {"off", "loaded", "mismatched", "refused", "untrained"}
  /\ loader' = [at |-> "dims", overlapped |-> trainer.at \notin {"off", "steps", "eval"},
                onBroken |-> broken,
                dim |-> IF sidecar.state = "whole" THEN sidecar.arch.dim ELSE BaseDim]
  /\ UNCHANGED <<weights, moments, sidecar, trainer, runs, broken>>

\* ... and the gate and the stabilisation from another.
Build ==
  /\ loader.at = "dims"
  /\ loader' = [at |-> "built", overlapped |-> loader.overlapped, onBroken |-> loader.onBroken,
                arch |-> IF sidecar.state = "whole" THEN [sidecar.arch EXCEPT !.dim = loader.dim]
                         ELSE [dim |-> loader.dim, gate |-> FALSE, stab |-> FALSE]]
  /\ UNCHANGED <<weights, moments, sidecar, trainer, runs, broken>>

\* Tensors the file lacks keep their initial values and extra ones are not
\* looked at; a shape that differs is an error.  "mismatched" is a server that
\* runs them without their gate, or as they were not trained.
ReadWeights ==
  /\ loader.at = "built"
  /\ LET done(at) == [at |-> at, overlapped |-> loader.overlapped, onBroken |-> loader.onBroken]
     IN \/ weights.state = "missing" /\ loader' = done("untrained")
        \/ weights.state = "torn" /\ loader' = done("refused")
        \/ /\ weights.state = "whole"
           /\ loader' = done(IF weights.arch.dim # loader.arch.dim THEN "refused"
                             ELSE IF weights.arch # loader.arch THEN "mismatched" ELSE "loaded")
  /\ UNCHANGED <<weights, moments, sidecar, trainer, runs, broken>>

-----------------------------------------------------------------------------
Saves ==
  \/ TruncateWeights \/ FillWeights \/ TruncateMoments \/ FillMoments \/ SkipsMoments
  \/ TruncateSidecar \/ FillSidecar \/ SkipsSidecar

CkptNext ==
  \/ \E env \in Envs, dim \in Dims, stab \in Stabs : Resume(env, dim, stab)
  \/ \E dim \in Dims : StartPlain(dim)
  \/ \E done \in BOOLEAN : Train(done) \/ TrainPlain(done)
  \/ \E v \in 0 .. Infinity : Evaluate(v)
  \/ Saves \/ TrainerDies
  \/ ReadDims \/ Build \/ ReadWeights

CkptSpec == CkptInit /\ [][CkptNext]_ckptVars

-----------------------------------------------------------------------------
(* Properties *)

Saving == trainer.at \notin {"off", "steps", "eval"}
Three  == {weights, moments, sidecar}

\* Between saves the three files are of one save and one model, and while a
\* run goes on whose save that was, of its best evaluation.
FilesAgree ==
  ~Saving /\ ~broken =>
    \/ Three = {Missing}
    \/ /\ \A f \in Three : f.state = "whole" /\ f.of = weights.of
       /\ sidecar.arch = weights.arch /\ moments.dim = weights.arch.dim
       /\ trainer.at # "off" /\ weights.of[1] = runs =>
            weights.val <= trainer.lowest

\* A run that resumes from them with a model of that size continues from
\* exactly where that save was: weights, moments and step count; and with the
\* gate the weights were trained with, unless it is told otherwise.
ResumesWarm ==
  /\ trainer.at = "steps" /\ trainer.kind = "semantic" /\ trainer.step = 0
  /\ ~broken /\ weights.state = "whole" /\ Fits(trainer.arch)
  => {trainer.params, trainer.moments, trainer.count} = {weights.of}

\* A server that starts on them while nothing is saved runs the weights as
\* they were trained.
ServedAsTrained ==
  loader.at # "off" /\ ~loader.overlapped /\ ~loader.onBroken =>
    loader.at \notin {"refused", "mismatched"}

\* The three files of a checkpoint (train_semantic.rs saves them one by one)
\* belong together whenever no save is under way and the last one was not cut
\* or failed: between runs, for a run that resumes, for a server that starts.
CheckpointSound == FilesAgree /\ ResumesWarm /\ ServedAsTrained

\* Not so: "save the BEST checkpoint" is the best of one run, and the first
\* evaluation of a resumed run overwrites whatever was there.
BestEver ==
  [][weights.state = "whole" /\ trainer.at = "weights" /\ trainer.arch = weights.arch
       /\ weights'.state = "torn" => trainer.best < weights.val]_ckptVars
=============================================================================
