---------------------------- MODULE Transaction -----------------------------
(***************************************************************************)
(* All-or-nothing application of a set of file edits                       *)
(* (axiom_engine_rs/src/agentic.rs, EditSet and Transaction), shared by    *)
(* the agent task server (AgentTask) and the repair loop (AgenticLoop).    *)
(* One transaction is open at a time: the task registry is locked during a *)
(* proposal and the loop is sequential.                                    *)
(*                                                                         *)
(* Abstractions.  File contents are model values.  A transaction applies   *)
(* one edit per step; undoing it is one step, since nothing else runs in   *)
(* between.  Modification times (mark_fresh) are left out.                 *)
(***************************************************************************)
EXTENDS Integers, Sequences

CONSTANTS
  Paths,       \* files a task may name
  Contents,    \* what a proposal may write
  Absent,      \* there is no file
  Dir,         \* the path is a directory
  Partial,     \* what a write that failed half way has left
  NotTaken,    \* no snapshot of this path
  Untouched,   \* the edit set does not name this path
  EditSets,    \* bound of the model: the edit sets proposers come up with
  Faults       \* which of "read", "mkdir", "write", "restore" fail

ASSUME TransactionAssumption ==
  /\ EditSets \subseteq Seq([path : Paths, content : Contents])
  /\ {Absent, Dir, Partial, NotTaken, Untouched} \intersect Contents = {}
  /\ Absent # Dir /\ Absent # Partial /\ Dir # Partial
  /\ NotTaken \notin {Absent, Dir, Partial}
  /\ Faults \subseteq {"read", "mkdir", "write", "restore"}

VARIABLES
  files,     \* what each path holds
  edits,     \* the edit set being applied
  done,      \* how many of its edits have been written
  snap,      \* Transaction::snapshot
  before     \* history: files when the transaction began

txVars == <<files, edits, done, snap, before>>

NoSnapshot == [p \in Paths |-> NotTaken]
Held       == Contents \union {Absent, Dir, Partial}

TxInit ==
  /\ files \in [Paths -> Held \ {Partial}]
  /\ edits = <<>> /\ done = 0
  /\ snap = NoSnapshot
  /\ before = files

\* The effect of an edit set, which its fingerprint identifies: the last edit
\* of a path wins.
Effect(E) ==
  [p \in Paths |->
     IF \E i \in DOMAIN E : E[i].path = p
     THEN E[CHOOSE i \in DOMAIN E : E[i].path = p /\ \A j \in DOMAIN E : E[j].path = p => j <= i].content
     ELSE Untouched]

\* `fs::read(..).ok()`: a file that cannot be read looks like one that is not there.
Seen(p) == IF files[p] \in {Absent, Dir} THEN {Absent}
           ELSE {files[p]} \union (IF "read" \in Faults THEN {Absent} ELSE {})

SnapshotsAnew(p, o) == [snap EXCEPT ![p] = o]   \* mutant: a second edit snapshots again
Snapshots(p, o) == IF snap[p] = NotTaken THEN [snap EXCEPT ![p] = o] ELSE snap

Begin(E) ==
  /\ edits' = E /\ done' = 0 /\ snap' = NoSnapshot /\ before' = files
  /\ UNCHANGED files

End == edits' = <<>> /\ done' = 0 /\ snap' = NoSnapshot

\* Undoing from the tree F with the snapshots S: what existed is written back,
\* what did not is removed (a directory stays).  Errors are ignored, and may
\* leave a path as it is or half written.
UndoesNewOnly(F, S) ==                    \* mutant: only created files are removed
  files' = [p \in Paths |-> IF S[p] = Absent /\ F[p] # Dir THEN Absent ELSE F[p]]
Undo(F, S) ==
  \E lost \in IF "restore" \in Faults THEN SUBSET Paths ELSE {{}} :
  \E left \in IF "restore" \in Faults THEN {"kept", "partial"} ELSE {"kept"} :
    files' = [p \in Paths |->
                CASE S[p] = NotTaken -> F[p]
                  [] S[p] = Absent -> IF F[p] = Dir \/ p \in lost THEN F[p] ELSE Absent
                  [] OTHER -> IF p \notin lost THEN S[p] ELSE IF left = "kept" THEN F[p] ELSE Partial]

\* One edit: snapshot the path unless an earlier edit has, make its directory,
\* write it.
WriteEdit ==
  /\ done < Len(edits)
  /\ LET e == edits[done + 1] IN
     /\ files[e.path] # Dir
     /\ \E o \in Seen(e.path) : snap' = Snapshots(e.path, o)
     /\ files' = [files EXCEPT ![e.path] = e.content]
  /\ done' = done + 1
  /\ UNCHANGED <<edits, before>>

\* The write fails, at once or half way: what has been written is undone.
WriteFails ==
  /\ done < Len(edits)
  /\ LET e == edits[done + 1] IN
     /\ files[e.path] = Dir \/ "write" \in Faults
     /\ \E o \in Seen(e.path), left \in {files[e.path]} \union (IF files[e.path] = Dir THEN {} ELSE {Partial}) :
          Undo([files EXCEPT ![e.path] = left], Snapshots(e.path, o))
  /\ End /\ UNCHANGED before

\* The parent directory cannot be made: `?` returns while `applied` is still
\* FALSE, so dropping the transaction undoes nothing.
MkdirFails ==
  /\ "mkdir" \in Faults
  /\ done < Len(edits)
  /\ End /\ UNCHANGED <<files, before>>

Applied == done = Len(edits)
=============================================================================
