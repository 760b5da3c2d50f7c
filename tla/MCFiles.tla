------------------------------ MODULE MCFiles -------------------------------
(***************************************************************************)
(* Small instances of five components whose state is files that several    *)
(* callers or processes work on, checked by one run: the tasks of agents,  *)
(* the recall memories, the patches nodes exchange, the daemon's pid file, *)
(* a model's checkpoint.                                                   *)
(* `part`, chosen once, says which of them takes steps; the others stay in *)
(* their initial state, one where there are several.                       *)
(***************************************************************************)
EXTENDS AgentTask, RecallLog, PatchExchange, Daemon, Checkpoint

CONSTANTS pa, pb, va, vb

VARIABLE part

Edit(p, v) == [path |-> p, content |-> v]

\* Nothing at all; one file; two files in both orders, whose effects are the
\* same; one file twice; two files with other contents.
Proposals == {<<>>, <<Edit(pa, va)>>, <<Edit(pa, va), Edit(pb, vb)>>,
              <<Edit(pb, vb), Edit(pa, va)>>, <<Edit(pa, va), Edit(pa, vb)>>}

FilesInit ==
  /\ part \in {"tasks", "recall", "patches", "daemon", "checkpoint"}
  /\ LogInit /\ PatchInit /\ DaemonInit /\ CkptInit
  /\ Init /\ (part # "tasks" => files = [p \in Paths |-> Absent])

FilesNext ==
  /\ part' = part
  /\ \/ /\ part = "tasks" /\ Next
        /\ UNCHANGED <<logVars, patchVars, daemonVars, ckptVars>>
     \/ /\ part = "recall" /\ LogNext
        /\ UNCHANGED <<vars, patchVars, daemonVars, ckptVars>>
     \/ /\ part = "patches" /\ PatchNext
        /\ UNCHANGED <<vars, logVars, daemonVars, ckptVars>>
     \/ /\ part = "daemon" /\ DaemonNext
        /\ UNCHANGED <<vars, logVars, patchVars, ckptVars>>
     \/ /\ part = "checkpoint" /\ CkptNext
        /\ UNCHANGED <<vars, logVars, patchVars, daemonVars>>

FilesSpec ==
  FilesInit /\ [][FilesNext]_<<part, vars, logVars, patchVars, daemonVars, ckptVars>>
=============================================================================
