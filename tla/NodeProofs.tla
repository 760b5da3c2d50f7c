----------------------------- MODULE NodeProofs ------------------------------
(***************************************************************************)
(* Proofs about what a node keeps between requests, for any values of the  *)
(* constants.  Agent tasks: what a proposal may touch, what an abort       *)
(* restores, and that, when only writes fail, a rejected proposal leaves   *)
(* the tree as it was and the server implements GatedTree.  The session    *)
(* table: its types, the order in which deltas are merged, and what may be *)
(* forgotten.  The exchange of weights: that no difference is merged       *)
(* twice.  The adapted weights: that none are reused which never absorbed  *)
(* their context.                                                          *)
(***************************************************************************)
EXTENDS MCState, TransactionProofs, FiniteSetTheorems, WellFoundedInduction, TLAPS

------------------------------------------------------------------------------
(* Agent tasks *)

-----------------------------------------------------------------------------
(* The invariant *)

TaskShape ==
  /\ live \subseteq Tasks /\ cur \in live \union {NoTask}
  /\ allow \in [Tasks -> SUBSET Paths]
  /\ originals \in [Tasks -> SnapTables]
  /\ attempt \in [Tasks -> 0 .. MaxAttempts]
  /\ started \in [Tasks -> [Paths -> Held \union {NotTaken}]]

\* What a task found is what it will put back: a directory counts as missing,
\* and is one to this day.
Recorded(t) ==
  \A p \in allow[t] :
    /\ started[t][p] \in Held
    /\ originals[t][p] = IF started[t][p] = Dir THEN Absent ELSE started[t][p]
    /\ files[p] = Dir <=> started[t][p] = Dir

\* A proposal being tried saves and names only files its task declared.
Tried ==
  cur # NoTask => /\ outcome = "none"
                  /\ Allows(cur, edits)
                  /\ \A p \in Paths : snap[p] # NotTaken => p \in allow[cur]

TaskInv ==
  /\ TxShape /\ TaskShape /\ Tried
  /\ \A t \in live : Recorded(t)
  /\ rejected = refused

LEMMA InitTaskInv == Init => TaskInv
<1> SUFFICES ASSUME Init PROVE TaskInv
  OBVIOUS
<1>1. files \in Trees /\ before \in Trees
  BY DEF Init, TxInit, Trees, Held
<1>2. /\ NoSnapshot \in SnapTables /\ Nothing \in SnapTables
      /\ Nothing \in [Paths -> Held \union {NotTaken}]
      /\ \A p \in Paths : NoSnapshot[p] = NotTaken
  BY DEF NoSnapshot, Nothing, SnapTables, Snapped
<1>3. <<>> \in Seq(FileEdits) /\ 0 \in 0 .. Len(<<>>)
  OBVIOUS
<1>4. TxShape
  BY <1>1, <1>2, <1>3 DEF Init, TxInit, TxShape
<1>5. TaskShape /\ Tried
  BY <1>2, AgentTaskAssumption DEF Init, TaskShape, Tried
<1> QED BY <1>4, <1>5 DEF Init, TaskInv

\* Nobody's record is disturbed by a step that leaves directories where they are.
LEMMA RecordsStay ==
  ASSUME TaskShape, \A t \in live : Recorded(t), live' \subseteq live,
         UNCHANGED <<allow, originals, started>>,
         \A p \in Paths : files'[p] = Dir <=> files[p] = Dir
  PROVE  \A t \in live' : Recorded(t)'
<1>1. ASSUME NEW t \in live'
      PROVE  Recorded(t)'
  <2>1. Recorded(t) /\ allow[t] \subseteq Paths
    BY <1>1 DEF TaskShape
  <2> QED BY <2>1 DEF Recorded
<1> QED BY <1>1

-----------------------------------------------------------------------------
(* The steps *)

LEMMA StartKeeps ==
  ASSUME TaskInv, NEW t \in Tasks, NEW A \in SUBSET Paths, Start(t, A)
  PROVE  TaskInv'
<1> DEFINE found == [p \in Paths |-> IF p \notin A THEN NotTaken
                                     ELSE IF files[p] = Dir THEN Absent ELSE files[p]]
<1>1. /\ TxShape /\ TaskShape /\ UNCHANGED <<files, edits, done, snap, before>>
      /\ UNCHANGED <<attempt, rejected, cur, outcome, refused>>
      /\ cur = NoTask /\ live' = live \union {t}
      /\ allow' = [allow EXCEPT ![t] = A]
      /\ originals' = [originals EXCEPT ![t] = found]
      /\ started' = [started EXCEPT ![t] = files]
  BY DEF TaskInv, Start, txVars
<1>2. found \in SnapTables
  BY <1>1, HeldKinds DEF SnapTables, Snapped, TxShape, Trees, Held
<1>3. \A p \in A : found[p] = IF files[p] = Dir THEN Absent ELSE files[p]
  OBVIOUS
<1> HIDE DEF found
<1>4. TxShape' /\ Tried'
  BY <1>1 DEF TxShape, Tried
<1>5. TaskShape'
  <2>1. files \in [Paths -> Held \union {NotTaken}]
    BY <1>1 DEF TxShape, Trees
  <2> QED BY <1>1, <1>2, <2>1 DEF TaskShape
<1>6. Recorded(t)'
  <2>1. allow'[t] = A /\ originals'[t] = found /\ started'[t] = files /\ files' = files
    BY <1>1 DEF TaskShape
  <2>2. \A p \in A : files[p] \in Held
    BY <1>1 DEF TxShape, Trees
  <2> QED BY <1>3, <2>1, <2>2 DEF Recorded
<1>7. ASSUME NEW k \in live, k # t
      PROVE  Recorded(k)'
  <2>1. k \in Tasks /\ Recorded(k)
    BY <1>1, <1>7 DEF TaskInv, TaskShape
  <2>2. /\ allow'[k] = allow[k] /\ originals'[k] = originals[k]
        /\ started'[k] = started[k] /\ files' = files
    BY <1>1, <1>7, <2>1 DEF TaskShape
  <2> QED BY <2>1, <2>2 DEF Recorded
<1> QED BY <1>1, <1>4, <1>5, <1>6, <1>7 DEF TaskInv

LEMMA CountsShape ==
  ASSUME TaskShape, NEW t \in Tasks, Counts(t)
  PROVE  cur = NoTask /\ t \in live /\ attempt' \in [Tasks -> 0 .. MaxAttempts]
<1>1. attempt[t] + 1 \in 0 .. MaxAttempts
  BY AgentTaskAssumption DEF TaskShape, Counts
<1> QED BY <1>1 DEF TaskShape, Counts

LEMMA TurnDownKeeps ==
  ASSUME TaskInv, NEW t \in Tasks, NEW E \in EditSets, TurnDown(t, E)
  PROVE  TaskInv'
<1>1. /\ UNCHANGED <<files, edits, done, snap, before>>
      /\ UNCHANGED <<live, allow, originals, rejected, cur, outcome, refused, started>>
  BY DEF TurnDown, txVars
<1>2. attempt' \in [Tasks -> 0 .. MaxAttempts]
  BY CountsShape DEF TaskInv, TurnDown
<1>3. \A k \in live' : Recorded(k)'
  BY <1>1, RecordsStay DEF TaskInv
<1> QED BY <1>1, <1>2, <1>3 DEF TaskInv, TxShape, TaskShape, Tried, Allows

LEMMA ProposeKeeps ==
  ASSUME TaskInv, NEW t \in Tasks, NEW E \in EditSets, Propose(t, E)
  PROVE  TaskInv'
<1>1. /\ TxShape /\ TaskShape /\ Allows(t, E)
      /\ edits' = E /\ done' = 0 /\ snap' = NoSnapshot /\ before' = files /\ files' = files
      /\ cur' = t /\ outcome' = "none"
      /\ UNCHANGED <<live, allow, originals, rejected, refused, started>>
  BY DEF TaskInv, Propose, Begin
<1>2. t \in live /\ attempt' \in [Tasks -> 0 .. MaxAttempts]
  BY <1>1, CountsShape DEF Propose
<1>3. NoSnapshot \in SnapTables /\ \A p \in Paths : NoSnapshot[p] = NotTaken
  BY DEF NoSnapshot, SnapTables, Snapped
<1>4. TxShape'
  <2>1. E \in Seq(FileEdits) /\ 0 \in 0 .. Len(E)
    BY HeldKinds
  <2> QED BY <1>1, <1>3, <2>1 DEF TxShape
<1>5. TaskShape'
  BY <1>1, <1>2 DEF TaskShape
<1>6. Tried'
  BY <1>1, <1>3 DEF Tried, Allows
<1>7. \A k \in live' : Recorded(k)'
  BY <1>1, RecordsStay DEF TaskInv
<1> QED BY <1>1, <1>4, <1>5, <1>6, <1>7 DEF TaskInv

\* A proposal that ends, however it does, having respected what it may not touch.
LEMMA EndKeeps ==
  ASSUME TaskInv, TxShape', cur' = NoTask,
         \A p \in Paths : files'[p] = Dir <=> files[p] = Dir,
         UNCHANGED <<live, allow, originals, attempt, started>>, rejected' = refused'
  PROVE  TaskInv'
<1>1. \A k \in live' : Recorded(k)'
  BY RecordsStay DEF TaskInv
<1>2. TaskShape' /\ Tried'
  BY DEF TaskInv, TaskShape, Tried
<1> QED BY <1>1, <1>2 DEF TaskInv

LEMMA WriteKeeps ==
  ASSUME TaskInv, Write
  PROVE  TaskInv'
<1>1. /\ TxShape /\ WriteEdit /\ cur # NoTask
      /\ UNCHANGED <<live, allow, originals, attempt, rejected, cur, outcome, refused, started>>
  BY DEF TaskInv, Write, taskVars
<1>2. /\ TxShape' /\ Respects
      /\ \A p \in Paths : snap'[p] # NotTaken => snap[p] # NotTaken \/ Named(p)
  BY <1>1, WriteRespects
<1>3. \A p \in Paths : Named(p) => p \in allow[cur]
  BY <1>1 DEF TaskInv, Tried, Named, Allows
<1>4. edits' = edits
  BY <1>1 DEF WriteEdit
<1>5. Tried'
  BY <1>1, <1>2, <1>3, <1>4 DEF TaskInv, Tried, Allows
<1>6. \A k \in live' : Recorded(k)'
  BY <1>1, <1>2, RecordsStay DEF TaskInv, Respects
<1> QED BY <1>1, <1>2, <1>5, <1>6 DEF TaskInv, TaskShape

LEMMA ApplyFailsKeeps ==
  ASSUME TaskInv, ApplyFails
  PROVE  TaskInv'
<1>1. TxShape' /\ Respects
  BY WriteFailsRespects, MkdirFailsRespects DEF TaskInv, ApplyFails
<1> QED BY <1>1, EndKeeps DEF TaskInv, ApplyFails, Respects

LEMMA PassesKeeps ==
  ASSUME TaskInv, Passes
  PROVE  TaskInv'
<1>1. TxShape' /\ files' = files
  BY EndShape DEF TaskInv, Passes, TxShape
<1> QED BY <1>1, EndKeeps DEF TaskInv, Passes

LEMMA FailsKeeps ==
  ASSUME TaskInv, Fails
  PROVE  TaskInv'
<1>1. TxShape' /\ Respects
  BY UndoRespects DEF TaskInv, Fails
<1>2. rejected' = refused'
  BY DEF TaskInv, Fails
<1> QED BY <1>1, <1>2, EndKeeps DEF Fails, Respects

LEMMA FinishKeepKeeps ==
  ASSUME TaskInv, NEW t \in Tasks, FinishKeep(t)
  PROVE  TaskInv'
<1>1. /\ UNCHANGED <<files, edits, done, snap, before>>
      /\ UNCHANGED <<allow, originals, attempt, rejected, cur, outcome, refused, started>>
      /\ cur = NoTask /\ live' = live \ {t}
  BY DEF FinishKeep, txVars
<1>2. \A k \in live' : Recorded(k)'
  BY <1>1, RecordsStay DEF TaskInv
<1> QED BY <1>1, <1>2 DEF TaskInv, TxShape, TaskShape, Tried

\* Restoring some of a task's files puts back what it found there.
LEMMA RestoredKinds ==
  ASSUME TaskInv, NEW t \in live, NEW S \in SUBSET allow[t]
  PROVE  /\ Restored(t, S) \in Trees
         /\ \A p \in Paths : Restored(t, S)[p] = Dir <=> files[p] = Dir
         /\ \A p \in S : Restored(t, S)[p] = started[t][p]
<1>1. /\ files \in Trees /\ allow[t] \subseteq Paths
      /\ \A p \in allow[t] : /\ started[t][p] \in Held
                             /\ originals[t][p] = IF started[t][p] = Dir THEN Absent ELSE started[t][p]
                             /\ files[p] = Dir <=> started[t][p] = Dir
  BY DEF TaskInv, TxShape, TaskShape, Recorded
<1>2. ASSUME NEW p \in Paths
      PROVE  Restored(t, S)[p] = IF p \notin S THEN files[p]
                   ELSE IF originals[t][p] = Absent THEN IF files[p] = Dir THEN Dir ELSE Absent
                   ELSE originals[t][p]
  BY DEF Restored
<1>3. ASSUME NEW p \in Paths, p \notin S
      PROVE  Restored(t, S)[p] = files[p]
  BY <1>2, <1>3
<1>4. ASSUME NEW p \in S
      PROVE  Restored(t, S)[p] = started[t][p]
  <2>1. p \in Paths /\ p \in allow[t]
    BY <1>1
  <2>2. CASE originals[t][p] = Absent
    <3>1. Restored(t, S)[p] = IF files[p] = Dir THEN Dir ELSE Absent
      BY <1>2, <2>1, <2>2
    <3> QED BY <1>1, <2>1, <2>2, <3>1
  <2>3. CASE originals[t][p] # Absent
    <3>1. Restored(t, S)[p] = originals[t][p]
      BY <1>2, <2>1, <2>3
    <3> QED BY <1>1, <2>1, <2>3, <3>1
  <2> QED BY <2>2, <2>3
<1>5. \A p \in Paths : /\ Restored(t, S)[p] \in Held
                       /\ Restored(t, S)[p] = Dir <=> files[p] = Dir
  BY <1>1, <1>3, <1>4 DEF Trees
<1>6. Restored(t, S) \in Trees
  BY <1>5 DEF Restored, Trees
<1> QED BY <1>4, <1>5, <1>6

\* Files put back outside any proposal.
LEMMA FilesChange ==
  ASSUME TaskInv, cur = NoTask, files' \in Trees,
         \A p \in Paths : files'[p] = Dir <=> files[p] = Dir,
         UNCHANGED <<edits, done, snap, before, allow, originals, attempt, rejected, cur, refused, started>>,
         live' \subseteq live
  PROVE  TaskInv'
<1>1. \A k \in live' : Recorded(k)'
  BY RecordsStay DEF TaskInv
<1> QED BY <1>1 DEF TaskInv, TxShape, TaskShape, Tried

LEMMA AbortKeeps ==
  ASSUME TaskInv, NEW t \in Tasks, FinishAbort(t)
  PROVE  TaskInv' /\ \A p \in allow[t] : files'[p] = started[t][p]
<1>1. t \in live /\ cur = NoTask /\ files' = Restored(t, allow[t]) /\ live' \subseteq live
      /\ UNCHANGED <<edits, done, snap, before, allow, originals, attempt, rejected, cur, refused, started>>
  BY DEF FinishAbort
<1>2. /\ files' \in Trees
      /\ \A p \in Paths : files'[p] = Dir <=> files[p] = Dir
      /\ \A p \in allow[t] : files'[p] = started[t][p]
  BY <1>1, RestoredKinds
<1> QED BY <1>1, <1>2, FilesChange

LEMMA AbortFailsKeeps ==
  ASSUME TaskInv, NEW t \in Tasks, AbortFails(t)
  PROVE  TaskInv'
<1>1. t \in live /\ cur = NoTask
      /\ UNCHANGED <<edits, done, snap, before, live, allow, originals, attempt, rejected, cur, refused, started>>
  BY DEF AbortFails
<1>2. PICK S \in SUBSET allow[t], p \in allow[t], left \in {"kept", "partial"} :
        files' = [Restored(t, S) EXCEPT ![p] =
                      IF left = "partial" /\ originals[t][p] # Absent THEN Partial ELSE @]
  BY DEF AbortFails
<1>3. /\ Restored(t, S) \in Trees
      /\ \A q \in Paths : Restored(t, S)[q] = Dir <=> files[q] = Dir
  BY <1>1, RestoredKinds
<1>4. p \in Paths /\ (originals[t][p] # Absent => files[p] # Dir)
  BY <1>1 DEF TaskInv, TaskShape, Recorded
<1>5. Partial \in Held /\ Partial # Dir
  BY TransactionAssumption DEF Held
<1>6. files' \in Trees /\ \A q \in Paths : files'[q] = Dir <=> files[q] = Dir
  BY <1>2, <1>3, <1>4, <1>5 DEF Trees
<1> QED BY <1>1, <1>6, FilesChange

LEMMA StepTaskInv == TaskInv /\ [Next]_vars => TaskInv'
<1> SUFFICES ASSUME TaskInv, [Next]_vars PROVE TaskInv'
  OBVIOUS
<1>1. CASE UNCHANGED vars
  <2>1. UNCHANGED <<files, edits, done, snap, before>>
        /\ UNCHANGED <<live, allow, originals, attempt, rejected, cur, outcome, refused, started>>
    BY <1>1 DEF vars, txVars, taskVars
  <2> QED BY <2>1, RecordsStay DEF TaskInv, TxShape, TaskShape, Tried, Allows
<1>2. CASE \E t \in Tasks, A \in SUBSET Paths : Start(t, A)
  BY <1>2, StartKeeps
<1>3. CASE \E t \in Tasks, E \in EditSets : TurnDown(t, E)
  BY <1>3, TurnDownKeeps
<1>4. CASE \E t \in Tasks, E \in EditSets : Propose(t, E)
  BY <1>4, ProposeKeeps
<1>5. CASE \E t \in Tasks : FinishKeep(t)
  BY <1>5, FinishKeepKeeps
<1>6. CASE \E t \in Tasks : FinishAbort(t)
  BY <1>6, AbortKeeps
<1>7. CASE \E t \in Tasks : AbortFails(t)
  BY <1>7, AbortFailsKeeps
<1>8. CASE Write
  BY <1>8, WriteKeeps
<1>9. CASE ApplyFails
  BY <1>9, ApplyFailsKeeps
<1>10. CASE Passes
  BY <1>10, PassesKeeps
<1>11. CASE Fails
  BY <1>11, FailsKeeps
<1> QED BY <1>1, <1>2, <1>3, <1>4, <1>5, <1>6, <1>7, <1>8, <1>9, <1>10, <1>11 DEF Next

\* Holds in every reachable state.
THEOREM TaskInvAlways == Spec => []TaskInv
BY InitTaskInv, StepTaskInv, PTL DEF Spec

-----------------------------------------------------------------------------
(* What follows for the caller *)

\* Every reachable state of the server is well formed (AgentTask and Transaction
\* of the source): snapshots hold no directory, attempts stay within their limit.
THEOREM TaskTypeCorrect == Spec => []TypeOK
<1>1. TaskInv => TypeOK
  BY DEF TaskInv, TxShape, TaskShape, TypeOK, Trees, SnapTables, Snapped
<1> QED BY <1>1, TaskInvAlways, PTL

\* Whatever becomes of a proposal, and whatever fails, it changes only files its
\* task declared (the allowlist of task_propose).
THEOREM ConfinedCorrect == Spec => Confined
<1> DEFINE Inside ==
      cur # NoTask => \A p \in Paths \ allow[cur] : files'[p] = files[p]
<1>1. ASSUME TaskInv, [Next]_vars
      PROVE  [Inside]_vars
  <2> SUFFICES ASSUME Next, cur # NoTask, NEW p \in Paths \ allow[cur]
               PROVE  files'[p] = files[p]
    BY <1>1
  <2>1. TxShape /\ snap[p] = NotTaken /\ ~Named(p)
    BY <1>1 DEF TaskInv, Tried, Allows, Named
  <2>2. Write \/ ApplyFails \/ Passes \/ Fails
    BY DEF Next, Start, TurnDown, Propose, Counts, FinishKeep, FinishAbort, AbortFails
  <2>3. CASE Write
    BY <2>1, <2>3, WriteRespects DEF Write, Respects
  <2>4. CASE ApplyFails
    BY <2>1, <2>4, WriteFailsRespects, MkdirFailsRespects DEF ApplyFails, Respects
  <2>5. CASE Passes
    BY <2>5 DEF Passes
  <2>6. CASE Fails
    BY <2>1, <2>6, UndoRespects DEF Fails, Respects
  <2> QED BY <2>2, <2>3, <2>4, <2>5, <2>6
<1>2. Confined <=> [][Inside]_vars
  BY PTL DEF Confined
<1> HIDE DEF Inside
<1> QED BY <1>1, <1>2, TaskInvAlways, PTL DEF Spec

\* An abort that reports success has put back what the task found, after any
\* number of accepted proposals and of aborts that failed half way.
THEOREM AbortRestoresCorrect == Spec => AbortRestores
<1> DEFINE PutsBack ==
      \A t \in Tasks : FinishAbort(t) => \A p \in allow[t] : files'[p] = started[t][p]
<1>1. ASSUME TaskInv, [Next]_vars
      PROVE  [PutsBack]_vars
  BY <1>1, AbortKeeps
<1>2. AbortRestores <=> [][PutsBack]_vars
  BY PTL DEF AbortRestores
<1> HIDE DEF PutsBack
<1> QED BY <1>1, <1>2, TaskInvAlways, PTL DEF Spec

\* No proposal is tried whose effect the verifier has refused before (the attempt
\* memory of the task's goal), in whatever order its edits come.
THEOREM NeverReappliedCorrect == Spec => NeverReapplied
<1> DEFINE Anew ==
      \A t \in Tasks : cur = NoTask /\ cur' = t => Effect(edits') \notin refused[t]
<1>1. ASSUME TaskInv, [Next]_vars
      PROVE  [Anew]_vars
  <2> SUFFICES ASSUME Next, NEW k \in Tasks, cur = NoTask, cur' = k
               PROVE  Effect(edits') \notin refused[k]
    BY <1>1
  <2>1. NoTask \notin Tasks
    BY AgentTaskAssumption
  <2>2. PICK t \in Tasks, E \in EditSets : Propose(t, E)
    BY <2>1 DEF Next, Start, TurnDown, FinishKeep, FinishAbort, AbortFails,
                Write, ApplyFails, Passes, Fails
  <2>3. t = k /\ edits' = E /\ Effect(E) \notin rejected[t]
    BY <2>2 DEF Propose, Begin, Known
  <2> QED BY <1>1, <2>3 DEF TaskInv
<1>2. NeverReapplied <=> [][Anew]_vars
  BY PTL DEF NeverReapplied
<1> HIDE DEF Anew
<1> QED BY <1>1, <1>2, TaskInvAlways, PTL DEF Spec

-----------------------------------------------------------------------------
(* When only writes fail *)

\* A rejected proposal has left no trace, and one being tried knows the way back.
WaysBack ==
  /\ outcome = "rejected" => files = before
  /\ cur # NoTask => Recalls

LEMMA WaysBackStep ==
  ASSUME Faults \subseteq {"write"}, TaskInv, WaysBack, [Next]_vars
  PROVE  WaysBack'
<1>0. "read" \notin Faults /\ "mkdir" \notin Faults /\ "restore" \notin Faults
  OBVIOUS
<1>1. CASE UNCHANGED vars
  BY <1>1 DEF vars, txVars, taskVars, WaysBack, Recalls
<1>2. CASE \E t \in Tasks, A \in SUBSET Paths : Start(t, A)
  BY <1>2 DEF Start, txVars, WaysBack
<1>3. CASE \E t \in Tasks, E \in EditSets : TurnDown(t, E)
  BY <1>3 DEF TurnDown, Counts, txVars, WaysBack
<1>4. CASE \E t \in Tasks, E \in EditSets : Propose(t, E)
  BY <1>4 DEF Propose, Begin, NoSnapshot, WaysBack, Recalls
<1>5. CASE \E t \in Tasks : FinishKeep(t)
  BY <1>5 DEF FinishKeep, txVars, WaysBack
<1>6. CASE \E t \in Tasks : FinishAbort(t) \/ AbortFails(t)
  BY <1>6 DEF FinishAbort, AbortFails, WaysBack
<1>7. CASE Write
  <2>1. outcome' = "none" /\ Recalls /\ before' = before
    BY <1>7 DEF Write, WriteEdit, taskVars, TaskInv, Tried, WaysBack
  <2>2. \A p \in Paths : \/ snap'[p] = snap[p] /\ (snap[p] = NotTaken => files'[p] = files[p])
                         \/ snap[p] = NotTaken /\ snap'[p] = files[p] /\ snap'[p] # NotTaken
    BY <1>0, <1>7, WriteRespects DEF Write, TaskInv
  <2>3. Recalls'
    BY <2>1, <2>2 DEF Recalls
  <2> QED BY <2>1, <2>3 DEF WaysBack
<1>8. CASE ApplyFails
  <2>1. WriteFails /\ Recalls /\ before' = before /\ cur' = NoTask
    BY <1>0, <1>8 DEF ApplyFails, MkdirFails, WriteFails, WaysBack
  <2>2. files' = before
    BY <1>0, <2>1, WriteFailsRespects DEF TaskInv
  <2> QED BY <2>1, <2>2 DEF WaysBack
<1>9. CASE Passes
  BY <1>9 DEF Passes, WaysBack
<1>10. CASE Fails
  <2>1. Recalls /\ before' = before /\ cur' = NoTask
    BY <1>10 DEF Fails, WaysBack
  <2>2. files' = before
    BY <1>0, <1>10, <2>1, UndoRespects DEF TaskInv, Fails
  <2> QED BY <2>1, <2>2 DEF WaysBack
<1> QED BY <1>1, <1>2, <1>3, <1>4, <1>5, <1>6, <1>7, <1>8, <1>9, <1>10 DEF Next

\* A proposal that is not accepted leaves every file as it was, byte for byte,
\* provided that directories can be made, files read and snapshots restored:
\* the three conditions the code does not enforce.
THEOREM AllOrNothingCorrect ==
  ASSUME Faults \subseteq {"write"}
  PROVE  Spec => []AllOrNothing
<1>1. Init => WaysBack
  BY DEF Init, WaysBack
<1>2. TaskInv /\ WaysBack /\ [Next]_vars => WaysBack'
  BY WaysBackStep
<1>3. WaysBack => AllOrNothing
  BY DEF WaysBack, AllOrNothing
<1> QED BY <1>1, <1>2, <1>3, TaskInvAlways, PTL DEF Spec

-----------------------------------------------------------------------------
(* The gated tree *)

\* A transaction in progress has written the first edits, the last one of a path on top.
Half ==
  cur # NoTask =>
    /\ edits \in EditSets
    /\ \A p \in Paths : (\A i \in 1 .. done : edits[i].path # p) => files[p] = before[p]
    /\ \A p \in Paths, i \in 1 .. done :
         edits[i].path = p /\ (\A j \in i + 1 .. done : edits[j].path # p) => files[p] = edits[i].content

\* Every task in the registry has declared a file.
Declares == \A t \in live : allow[t] # {}

GateInv == TaskInv /\ WaysBack /\ Half /\ Declares

LEMMA HalfStep ==
  ASSUME TaskInv, Half, [Next]_vars
  PROVE  Half'
<1>1. CASE UNCHANGED vars
  BY <1>1 DEF vars, txVars, taskVars, Half
<1>2. CASE \E t \in Tasks : \/ \E A \in SUBSET Paths : Start(t, A)
                            \/ \E E \in EditSets : TurnDown(t, E)
                            \/ FinishKeep(t) \/ FinishAbort(t) \/ AbortFails(t)
  BY <1>2 DEF Start, TurnDown, Counts, FinishKeep, FinishAbort, AbortFails, Half
<1>3. CASE \E t \in Tasks, E \in EditSets : Propose(t, E)
  <2>1. edits' \in EditSets /\ done' = 0 /\ files' = files /\ before' = files
    BY <1>3 DEF Propose, Begin
  <2> QED BY <2>1 DEF Half
<1>4. CASE ApplyFails \/ Passes \/ Fails
  BY <1>4 DEF ApplyFails, Passes, Fails, Half
<1>5. CASE Write
  <2> DEFINE e == edits[done + 1]
  <2>1. /\ cur # NoTask /\ done < Len(edits) /\ done' = done + 1
        /\ files' = [files EXCEPT ![e.path] = e.content]
        /\ UNCHANGED <<edits, before, cur>>
    BY <1>5 DEF Write, WriteEdit, taskVars
  <2>2. done \in Nat /\ e \in FileEdits /\ files \in Trees
    BY <2>1, NextEdit DEF TaskInv, TxShape
  <2>3. e.path \in Paths
    BY <2>2 DEF FileEdits
  <2>4. \A p \in Paths : files'[p] = IF p = e.path THEN e.content ELSE files[p]
    BY <2>1, <2>2 DEF Trees
  <2>5. ASSUME NEW p \in Paths, \A i \in 1 .. done' : edits'[i].path # p
        PROVE  files'[p] = before'[p]
    <3>1. p # e.path /\ \A i \in 1 .. done : edits[i].path # p
      BY <2>1, <2>2, <2>5
    <3> QED BY <2>1, <2>4, <3>1 DEF Half
  <2>6. ASSUME NEW p \in Paths, NEW i \in 1 .. done', edits'[i].path = p,
               \A j \in i + 1 .. done' : edits'[j].path # p
        PROVE  files'[p] = edits'[i].content
    <3>1. CASE i = done + 1
      BY <2>1, <2>4, <2>6, <3>1
    <3>2. CASE i # done + 1
      <4>1. i \in 1 .. done /\ done + 1 \in i + 1 .. done' /\ \A j \in i + 1 .. done : j \in i + 1 .. done'
        BY <2>1, <2>2, <2>6, <3>2
      <4>2. p # e.path
        BY <2>1, <2>6, <4>1
      <4> QED BY <2>1, <2>4, <2>6, <4>1, <4>2 DEF Half
    <3> QED BY <3>1, <3>2
  <2> QED BY <2>1, <2>5, <2>6 DEF Half
<1> QED BY <1>1, <1>2, <1>3, <1>4, <1>5 DEF Next

LEMMA DeclaresStep ==
  ASSUME TaskInv, Declares, [Next]_vars
  PROVE  Declares'
<1>1. CASE \E t \in Tasks, A \in SUBSET Paths : Start(t, A)
  BY <1>1 DEF Start, Declares, TaskInv, TaskShape
<1>2. ASSUME ~\E t \in Tasks, A \in SUBSET Paths : Start(t, A)
      PROVE  live' \subseteq live /\ allow' = allow
  BY <1>2 DEF Next, TurnDown, Counts, Propose, FinishKeep, FinishAbort, AbortFails, Write, ApplyFails,
     Passes, Fails, vars, taskVars
<1> QED BY <1>1, <1>2 DEF Declares

\* The tree the gate shows: the one a proposal began with while it is being tried.
Shown ==
  /\ cur # NoTask => Settled = before
  /\ cur = NoTask => Settled = files

LEMMA SettledTree == TxShape /\ WaysBack => Shown
<1> SUFFICES ASSUME TxShape, WaysBack PROVE Shown
  OBVIOUS
<1>1. files \in [Paths -> Held] /\ before \in [Paths -> Held]
  BY DEF TxShape, Trees
<1>2. cur # NoTask => \A p \in Paths : Settled[p] = before[p]
  BY DEF Settled, WaysBack, Recalls
<1>3. cur = NoTask => \A p \in Paths : Settled[p] = files[p]
  BY DEF Settled
<1>4. Settled = [p \in Paths |-> Settled[p]]
  BY DEF Settled
<1> QED BY <1>1, <1>2, <1>3, <1>4 DEF Shown

\* The least element of a nonempty set of naturals.
LEMMA LeastOf ==
  ASSUME NEW T \in SUBSET Nat, T # {}
  PROVE  \E x \in T : \A y \in T : x <= y
<1>1. PICK x \in T : \A y \in T : ~ (<<y, x>> \in OpToRel(<, Nat))
  BY NatLessThanWellFounded, WFMin
<1>2. \A y \in T : ~(y < x)
  BY <1>1 DEF OpToRel
<1> QED BY <1>2

\* An accepted set leaves of each path its last edit, as the whole set promises.
LEMMA AcceptsWhole ==
  ASSUME GateInv, Passes
  PROVE  \E E \in EditSets : Gate!Accept(E)
<1>1. /\ cur # NoTask /\ done = Len(edits) /\ files' = files /\ outcome' = "passed"
      /\ cur' = NoTask /\ started' = started
  BY DEF Passes, Applied
<1>2. /\ edits \in EditSets /\ edits \in Seq(FileEdits) /\ outcome = "none"
      /\ DOMAIN edits = 1 .. done /\ done \in Nat
  BY <1>1 DEF GateInv, TaskInv, Tried, Half, TxShape
<1>3. Settled = before
  BY <1>1, SettledTree DEF GateInv, TaskInv, Shown
<1>4. \A p \in Paths : Settled'[p] = files[p]
  BY <1>1 DEF Settled
<1>5. ASSUME NEW p \in Paths
      PROVE  LET I == {i \in DOMAIN edits : edits[i].path = p} IN
             files[p] = IF I = {} THEN Settled[p] ELSE edits[CHOOSE i \in I : \A j \in I : j <= i].content
  <2> DEFINE I == {i \in DOMAIN edits : edits[i].path = p}
             c == CHOOSE i \in I : \A j \in I : j <= i
  <2>1. CASE I = {}
    BY <1>1, <1>2, <1>3, <2>1 DEF GateInv, Half
  <2>2. CASE I # {}
    <3>1. \E i \in I : \A j \in I : j <= i
      <4> DEFINE T == {done - i : i \in I}
      <4>1. T \in SUBSET Nat /\ T # {}
        BY <1>2, <2>2
      <4>2. PICK x \in T : \A y \in T : x <= y
        <5> HIDE DEF T
        <5> QED BY <4>1, LeastOf
      <4>3. PICK i \in I : x = done - i
        BY <4>2
      <4>4. ASSUME NEW j \in I PROVE j <= i
        <5>1. done - j \in T /\ i \in Nat /\ j \in Nat
          BY <1>2
        <5> HIDE DEF T, I
        <5>2. done - i <= done - j
          BY <4>2, <4>3, <5>1
        <5> QED BY <1>2, <5>1, <5>2
      <4> QED BY <4>4
    <3>2. c \in I /\ \A j \in I : j <= c
      BY <3>1
    <3> HIDE DEF c
    <3>3. c \in 1 .. done /\ edits[c].path = p /\ \A j \in c + 1 .. done : edits[j].path # p
      BY <1>2, <3>2
    <3>4. files[p] = edits[c].content
      BY <1>1, <3>3 DEF GateInv, Half
    <3> QED BY <2>2, <3>4 DEF c
  <2> QED BY <2>1, <2>2
<1>6. Settled' = [p \in Paths |->
        LET I == {i \in DOMAIN edits : edits[i].path = p} IN
        IF I = {} THEN Settled[p] ELSE edits[CHOOSE i \in I : \A j \in I : j <= i].content]
  <2>1. Settled' = [p \in Paths |-> files[p]]
    BY <1>1 DEF Settled
  <2> QED BY <1>5, <2>1
<1> QED BY <1>1, <1>2, <1>6 DEF Gate!Accept

\* Each step is one of the gate, or changes nothing the gate shows.
LEMMA GateStep ==
  ASSUME Faults \subseteq {"write"}, GateInv, GateInv', [Next]_vars
  PROVE  [Gate!Next]_(Gate!vars)
<1>0. "read" \notin Faults /\ "mkdir" \notin Faults /\ "restore" \notin Faults
  OBVIOUS
<1>1. TaskInv /\ TxShape /\ WaysBack /\ Shown
  BY SettledTree DEF GateInv, TaskInv
<1>2. Shown'
  <2>1. TxShape' /\ WaysBack'
    BY DEF GateInv, TaskInv
  <2> QED BY <2>1, SettledTree, PTL
<1>3. CASE UNCHANGED vars
  BY <1>3 DEF vars, txVars, taskVars, Gate!vars, Settled
<1>4. CASE \E t \in Tasks, A \in SUBSET Paths : Start(t, A)
  <2>1. PICK t \in Tasks, A \in SUBSET Paths : Start(t, A)
    BY <1>4
  <2>2. started[t] = Nothing /\ started' = [started EXCEPT ![t] = Settled] /\ outcome' = outcome
        /\ Settled' = Settled
    BY <1>1, <2>1 DEF Start, Shown, Settled, txVars
  <2>3. Gate!Open(t)
    BY <2>2 DEF Gate!Open, Gate!NotStarted, Nothing
  <2> QED BY <2>3 DEF Gate!Next
<1>5. CASE \E t \in Tasks : FinishKeep(t) \/ \E E \in EditSets : TurnDown(t, E)
  BY <1>5 DEF FinishKeep, TurnDown, txVars, Gate!vars, Settled
<1>6. CASE \E t \in Tasks, E \in EditSets : Propose(t, E)
  <2>1. cur = NoTask /\ cur' # NoTask /\ before' = files /\ outcome' = "none" /\ started' = started
    BY <1>6, AgentTaskAssumption DEF Propose, Begin, Counts
  <2>2. Gate!Consider
    BY <1>1, <1>2, <2>1 DEF Gate!Consider, Shown
  <2> QED BY <2>2 DEF Gate!Next
<1>7. CASE Write
  <2>1. cur # NoTask /\ before' = before /\ UNCHANGED <<cur, started, outcome>>
    BY <1>7 DEF Write, WriteEdit, taskVars
  <2> QED BY <1>1, <1>2, <2>1 DEF Gate!vars, Shown
<1>8. CASE ApplyFails \/ Fails
  <2>1. cur # NoTask /\ outcome = "none" /\ cur' = NoTask /\ outcome' = "rejected"
        /\ before' = before /\ started' = started
    BY <1>0, <1>1, <1>8 DEF ApplyFails, Fails, WriteFails, MkdirFails, TaskInv, Tried
  <2>2. files' = before
    BY <2>1 DEF GateInv, WaysBack
  <2>3. Gate!Refuse
    BY <1>1, <1>2, <2>1, <2>2 DEF Gate!Refuse, Shown
  <2> QED BY <2>3 DEF Gate!Next
<1>9. CASE Passes
  <2>1. \E E \in EditSets : Gate!Accept(E)
    BY <1>9, AcceptsWhole
  <2> QED BY <2>1 DEF Gate!Next
<1>10. CASE \E t \in Tasks : FinishAbort(t)
  <2>1. PICK t \in Tasks : FinishAbort(t)
    BY <1>10
  <2>2. t \in live /\ cur = NoTask /\ cur' = NoTask /\ outcome' = "none" /\ started' = started
        /\ files' = Restored(t, allow[t])
    BY <2>1 DEF FinishAbort
  <2>3. allow[t] \in SUBSET Paths /\ allow[t] # {}
    BY <1>1, <2>2 DEF TaskInv, TaskShape, GateInv, Declares
  <2>4. started[t] # Nothing
    <3>1. PICK p \in allow[t] : started[t][p] \in Held
      BY <1>1, <2>2, <2>3 DEF TaskInv, Recorded
    <3>2. NotTaken \notin Held
      BY TransactionAssumption DEF Held
    <3> QED BY <2>3, <3>1, <3>2 DEF Nothing
  <2>5. \A p \in Paths : files'[p] = IF p \in allow[t] THEN started[t][p] ELSE Settled[p]
    <3>1. \A p \in allow[t] : files'[p] = started[t][p]
      BY <1>1, <2>1, AbortKeeps
    <3>2. \A p \in Paths \ allow[t] : files'[p] = files[p]
      BY <2>2 DEF Restored
    <3> QED BY <1>1, <2>2, <3>1, <3>2 DEF Shown
  <2>6. Settled' = [p \in Paths |-> IF p \in allow[t] THEN started[t][p] ELSE Settled[p]]
    <3>1. Settled' = [p \in Paths |-> files'[p]]
      BY <2>2 DEF Settled
    <3> QED BY <2>5, <3>1
  <2>7. Gate!Abort(t, allow[t])
    BY <2>2, <2>4, <2>6 DEF Gate!Abort, Gate!NotStarted, Nothing
  <2> QED BY <2>3, <2>7 DEF Gate!Next
<1>11. CASE \E t \in Tasks : AbortFails(t)
  BY <1>0, <1>11 DEF AbortFails
<1> QED BY <1>3, <1>4, <1>5, <1>6, <1>7, <1>8, <1>9, <1>10, <1>11 DEF Next

\* The tree the server shows changes only by whole edit sets that the verifier has
\* accepted, the last edit of a path on top, and by aborts that put back what a task
\* found: a proposal in progress, refused or failing is never seen in it.  Provided,
\* as above, that directories can be made, files read and snapshots restored.
THEOREM GateCorrect ==
  ASSUME Faults \subseteq {"write"}
  PROVE  Spec => GateSpec
<1>1. Init => GateInv
  BY InitTaskInv DEF Init, GateInv, WaysBack, Half, Declares
<1>2. GateInv /\ [Next]_vars => GateInv'
  BY StepTaskInv, WaysBackStep, HalfStep, DeclaresStep DEF GateInv
<1>3. Init => Gate!Init
  <2> SUFFICES ASSUME Init PROVE Gate!Init
    OBVIOUS
  <2>1. files \in [Paths -> Held \ {Partial}] /\ cur = NoTask /\ outcome = "none"
        /\ started = [t \in Tasks |-> Nothing]
    BY DEF Init, TxInit
  <2>2. Settled = [p \in Paths |-> files[p]]
    BY <2>1 DEF Settled
  <2>3. Settled \in [Paths -> Contents \union {Absent, Dir}]
    BY <2>1, <2>2 DEF Held
  <2> QED BY <2>1, <2>3 DEF Gate!Init, Gate!NotStarted, Nothing
<1>4. GateInv /\ GateInv' /\ [Next]_vars => [Gate!Next]_(Gate!vars)
  BY GateStep
<1> QED BY <1>1, <1>2, <1>3, <1>4, PTL DEF Spec, GateSpec, Gate!Spec

------------------------------------------------------------------------------
(* The session table *)

Entries == [res : Residency, got : SUBSET Turns, last : 0 .. MaxClock]
Threads == [pc : {"idle", "work"}, on : Sessions \cup {None}, got : SUBSET Turns, turn : 0 .. MaxCalls]
Parkings == [pc : {"idle", "pick", "copy", "install"}, on : Sessions \cup {None},
             last : 0 .. MaxClock, got : SUBSET Turns]

\* Whoever is at work works on a session, and what is not there has learned nothing.
SessShape ==
  /\ SessTypeOK
  /\ \A s \in Sessions : forget[s] <= calls
  /\ \A c \in Clients : client[c].pc = "work" => client[c].on \in Sessions /\ client[c].turn \in Turns
  /\ fragment.on # None => fragment.turn \in Turns
  /\ \A o \in Offloads : offload[o].pc \in {"copy", "install"} => offload[o].on \in Sessions
  /\ \A s \in Sessions : ~Live(s) => table[s].got = {}

LEMMA Numbers ==
  /\ MaxCalls \in Nat /\ 0 \in Nat /\ MaxClock \in Nat /\ 0 \in 0 .. MaxClock /\ \A v \in Versions : v \in Nat
  /\ Resting \in Parkings /\ Resting.pc = "idle" /\ NoSession \in Entries /\ Idle \in Threads
  /\ NoSession.res = "absent" /\ NoSession.got = {} /\ Idle.pc = "idle" /\ Resting.last = 0
BY SessionsAssumption DEF Resting, NoSession, Idle, Parkings, Entries, Threads, Residency

LEMMA SessTypes ==
  SessTypeOK <=>
    /\ table \in [Sessions -> Entries] /\ client \in [Clients -> Threads]
    /\ offload \in [Offloads -> Parkings]
    /\ guard \in [Sessions -> Versions \cup {0}] /\ dwe \in [Sessions -> Versions \cup {0}]
    /\ fragment \in [on : Sessions \cup {None}, turn : 0 .. MaxCalls]
    /\ forget \in [Sessions -> 0 .. MaxCalls]
    /\ clock \in 0 .. MaxClock /\ calls \in 0 .. MaxCalls
    /\ applied \in [Sessions -> Versions \cup {0}]
    /\ wiped \in [Sessions -> BOOLEAN] /\ broken \in BOOLEAN
    /\ overlooked \subseteq Offloads
BY DEF SessTypeOK, Entries, Threads, Parkings

LEMMA Stamping ==
  ASSUME clock \in 0 .. MaxClock
  PROVE  Stamps \subseteq 0 .. MaxClock /\ EarlyStamps \subseteq 0 .. MaxClock
BY Numbers DEF Stamps, EarlyStamps

LEMMA Calling ==
  ASSUME SessTypeOK, Call
  PROVE  calls + 1 \in Turns /\ calls' = calls + 1 /\ calls' \in 0 .. MaxCalls
BY Numbers DEF SessTypeOK, Call, Turns

\* A task may be spawned; those at work go on.
Spawned(o) == offload'[o] = offload[o] \/ offload'[o].pc = "pick"
LEMMA Triggers ==
  ASSUME SessShape, Trigger \/ UNCHANGED offload
  PROVE  /\ offload' \in [Offloads -> Parkings]
         /\ \A o \in Offloads : Spawned(o)
<1>1. offload \in [Offloads -> Parkings]
  BY SessTypes DEF SessShape
<1>2. PICK r : r = [Resting EXCEPT !.pc = "pick"]
  OBVIOUS
<1>3. r \in Parkings /\ r.pc = "pick"
  BY <1>2, Numbers DEF Parkings
<1>4. offload' = offload \/ \E o \in Offloads : offload' = [offload EXCEPT ![o] = r]
  BY <1>2 DEF Trigger
<1> QED BY <1>1, <1>3, <1>4 DEF Spawned

\* A step on one session: what becomes of its entry, and how many calls there were.
LEMMA Touches ==
  ASSUME SessShape, NEW s \in Sessions, NEW e \in Entries, table' = [table EXCEPT ![s] = e],
         e.res = "absent" => e.got = {},
         Trigger \/ UNCHANGED offload,
         clock' \in 0 .. MaxClock, overlooked' \subseteq Offloads, Call \/ UNCHANGED calls,
         broken' = broken,
         client' = client \/ \E c \in Clients, r \in Threads :
            client' = [client EXCEPT ![c] = r] /\ (r.pc = "work" => r.on \in Sessions /\ r.turn \in Turns),
         guard' \in [Sessions -> Versions \cup {0}], dwe' \in [Sessions -> Versions \cup {0}],
         fragment' \in [on : Sessions \cup {None}, turn : 0 .. MaxCalls],
         fragment'.on # None => fragment'.turn \in Turns,
         forget' = forget \/ (forget' = [forget EXCEPT ![s] = @ + 1] /\ Call),
         applied' \in [Sessions -> Versions \cup {0}], wiped' \in [Sessions -> BOOLEAN]
  PROVE  SessShape'
<1>1. SessTypeOK
  BY DEF SessShape
<1>2. table' \in [Sessions -> Entries]
  BY <1>1, SessTypes
<1>3. offload' \in [Offloads -> Parkings] /\ \A o \in Offloads : Spawned(o)
  BY Triggers
<1>4. calls' \in 0 .. MaxCalls /\ (calls' = calls \/ calls' = calls + 1) /\ calls \in Nat
  BY <1>1, Calling, SessTypes, Numbers
<1>5. client' \in [Clients -> Threads] /\ \A c \in Clients : client'[c].pc = "work" => client'[c].on \in Sessions /\ client'[c].turn \in Turns
  BY <1>1, SessTypes DEF SessShape
<1>6. forget' \in [Sessions -> 0 .. MaxCalls] /\ \A t \in Sessions : forget'[t] <= calls'
  <2>1. forget \in [Sessions -> 0 .. MaxCalls] /\ \A t \in Sessions : forget[t] \in Nat /\ forget[t] <= calls
    BY <1>1, SessTypes, Numbers DEF SessShape
  <2>2. CASE forget' = forget
    BY <1>4, <2>1, <2>2
  <2>3. CASE forget' = [forget EXCEPT ![s] = @ + 1] /\ Call
    <3>1. calls' = calls + 1 /\ calls' <= MaxCalls
      BY <1>1, <1>4, <2>3, Calling, Numbers
    <3>2. forget[s] + 1 \in 0 .. MaxCalls
      BY <1>4, <2>1, <3>1, Numbers
    <3> QED BY <1>4, <2>1, <2>3, <3>1, <3>2
  <2> QED BY <2>2, <2>3
<1>7. SessTypeOK'
  BY <1>1, <1>2, <1>3, <1>4, <1>5, <1>6, SessTypes DEF SessTypeOK, Entries, Threads, Parkings
<1>8. \A o \in Offloads : offload'[o].pc \in {"copy", "install"} => offload'[o].on \in Sessions
  BY <1>3 DEF SessShape, Spawned
<1>9. \A t \in Sessions : ~Live(t)' => table'[t].got = {}
  BY <1>1, SessTypes DEF SessShape, Live
<1> QED BY <1>5, <1>6, <1>7, <1>8, <1>9 DEF SessShape

\* A parking task that has its copy, and finds the stamp of the session as it was, has what
\* the session has learned, unless it has overlooked an update.
Copied ==
  \A o \in Offloads \ overlooked :
    LET s == offload[o].on
    IN  offload[o].pc = "install" /\ table[s].last = offload[o].last
          => offload[o].got = table[s].got

SessInv == SessShape /\ Copied

\* A request, or a delta, does so much to one session.
OneEntry(s, e) ==
  /\ table' = [table EXCEPT ![s] = e]
  /\ e.res = "absent" => e.got = {}
  /\ Trigger \/ UNCHANGED offload
  /\ clock' \in 0 .. MaxClock
  /\ Call \/ UNCHANGED calls
  /\ client' = client \/ \E c \in Clients, r \in Threads :
       client' = [client EXCEPT ![c] = r] /\ (r.pc = "work" => r.on \in Sessions /\ r.turn \in Turns)
  /\ guard' \in [Sessions -> Versions \cup {0}] /\ dwe' \in [Sessions -> Versions \cup {0}]
  /\ fragment' \in [on : Sessions \cup {None}, turn : 0 .. MaxCalls]
  /\ fragment'.on # None => fragment'.turn \in Turns
  /\ forget' = forget \/ (forget' = [forget EXCEPT ![s] = @ + 1] /\ Call)
  /\ applied' \in [Sessions -> Versions \cup {0}] /\ wiped' \in [Sessions -> BOOLEAN]
  /\ broken' = broken

LEMMA OneEntryKeeps ==
  ASSUME SessInv, overlooked' \subseteq Offloads, NEW s \in Sessions, NEW e \in Entries, OneEntry(s, e)
  PROVE  SessShape'
BY Touches DEF SessInv, OneEntry

Ranges ==
  /\ table \in [Sessions -> Entries] /\ clock \in 0 .. MaxClock
  /\ guard \in [Sessions -> Versions \cup {0}] /\ dwe \in [Sessions -> Versions \cup {0}]
  /\ fragment \in [on : Sessions \cup {None}, turn : 0 .. MaxCalls]
  /\ fragment.on # None => fragment.turn \in Turns
  /\ applied \in [Sessions -> Versions \cup {0}] /\ wiped \in [Sessions -> BOOLEAN]
LEMMA RangesHold == SessInv => Ranges /\ SessShape /\ SessTypeOK
BY SessTypes DEF SessInv, SessShape, Ranges

\* The two forms of an entry that is written.
LEMMA Stores ==
  ASSUME NEW s \in Sessions, NEW turns \in SUBSET Turns, NEW now \in 0 .. MaxClock, Store(s, turns, now)
  PROVE  \E e \in Entries : /\ table' = [table EXCEPT ![s] = e]
                             /\ e.res = "active" /\ e.got = turns /\ e.last = now
<1>1. PICK e : e = [res |-> "active", got |-> turns, last |-> now]
  OBVIOUS
<1>2. e \in Entries /\ e.res = "active" /\ e.got = turns /\ e.last = now
  BY <1>1 DEF Entries, Residency
<1> QED BY <1>1, <1>2 DEF Store

LEMMA Wakes ==
  ASSUME SessInv, NEW s \in Sessions
  PROVE  \E e \in Entries : /\ Wakened(s) = [table EXCEPT ![s] = e]
                             /\ e.res = "active" /\ e.got = table[s].got /\ e.last = table[s].last
<1>1. table[s] \in Entries
  BY RangesHold DEF Ranges
<1>2. PICK e : e = [table[s] EXCEPT !.res = "active"]
  OBVIOUS
<1>3. e \in Entries /\ e.res = "active" /\ e.got = table[s].got /\ e.last = table[s].last
  BY <1>1, <1>2 DEF Entries, Residency
<1> QED BY <1>2, <1>3 DEF Wakened

LEMMA CreateKeeps ==
  ASSUME SessInv, overlooked' \subseteq Offloads, NEW s \in Sessions, Create(s)
  PROVE  SessShape'
<1>1. PICK now \in Stamps : Store(s, {}, now) /\ clock' = now
  BY DEF Create
<1>2. now \in 0 .. MaxClock
  BY RangesHold, Stamping DEF Ranges
<1>3. PICK e \in Entries : /\ table' = [table EXCEPT ![s] = e]
                           /\ e.res = "active" /\ e.got = {} /\ e.last = now
  BY <1>1, <1>2, Stores
<1>4. applied' \in [Sessions -> Versions \cup {0}] /\ wiped' \in [Sessions -> BOOLEAN]
  BY RangesHold DEF Create, Fresh, Ranges
<1>5. OneEntry(s, e)
  BY <1>1, <1>2, <1>3, <1>4, RangesHold DEF OneEntry, Create, Ranges
<1> QED BY <1>5, OneEntryKeeps

LEMMA DeleteKeeps ==
  ASSUME SessInv, overlooked' \subseteq Offloads, NEW s \in Sessions, Delete(s)
  PROVE  SessShape'
<1>1. NoSession \in Entries
  BY Numbers
<1>2. OneEntry(s, NoSession)
  BY <1>1, RangesHold, Numbers DEF OneEntry, Delete, Ranges
<1> QED BY <1>1, <1>2, OneEntryKeeps

LEMMA ExportKeeps ==
  ASSUME SessInv, overlooked' \subseteq Offloads, NEW s \in Sessions, Export(s) \/ \E v \in Versions : SyncFails(s, v)
  PROVE  SessShape'
<1>1. /\ Live(s) /\ Call /\ table' = Wakened(s)
      /\ UNCHANGED <<guard, dwe, fragment, client, forget, offload, clock, broken, history>>
  BY DEF Export, SyncFails
<1>2. PICK e \in Entries : /\ Wakened(s) = [table EXCEPT ![s] = e]
                           /\ e.res = "active" /\ e.got = table[s].got /\ e.last = table[s].last
  BY Wakes
<1>3. OneEntry(s, e)
  BY <1>1, <1>2, RangesHold DEF OneEntry, Ranges, history
<1> QED BY <1>3, OneEntryKeeps

LEMMA RestoreKeeps ==
  ASSUME SessInv, overlooked' \subseteq Offloads, NEW s \in Sessions, Restore(s)
  PROVE  SessShape'
<1>1. PICK now \in EarlyStamps : /\ Store(s, {calls + 1}, now)
                                 /\ clock' = IF now > clock THEN now ELSE clock
  BY DEF Restore
<1>2. now \in 0 .. MaxClock /\ clock \in 0 .. MaxClock
  BY RangesHold, Stamping DEF Ranges
<1>3. PICK turns \in SUBSET Turns : turns = {calls + 1}
  BY RangesHold, Calling DEF Restore
<1>4. PICK e \in Entries : /\ table' = [table EXCEPT ![s] = e]
                           /\ e.res = "active" /\ e.got = turns /\ e.last = now
  BY <1>1, <1>2, <1>3, Stores
<1>5. clock' \in 0 .. MaxClock
  BY <1>1, <1>2
<1>6. applied' \in [Sessions -> Versions \cup {0}] /\ wiped' \in [Sessions -> BOOLEAN]
  BY RangesHold DEF Restore, Ranges
<1>7. OneEntry(s, e)
  BY <1>1, <1>4, <1>5, <1>6, RangesHold DEF OneEntry, Restore, Ranges
<1> QED BY <1>7, OneEntryKeeps

LEMMA LoadKeeps ==
  ASSUME SessInv, overlooked' \subseteq Offloads, NEW s \in Sessions, NEW c \in Clients, LoadNew(c, s) \/ LoadOld(c, s)
  PROVE  SessShape'
<1>1. /\ Call /\ client' = [client EXCEPT ![c] = [pc |-> "work", on |-> s, got |-> table'[s].got, turn |-> calls + 1]]
      /\ UNCHANGED <<guard, dwe, fragment, forget, offload, broken>>
  BY DEF LoadNew, LoadOld, Load
<1>2. PICK now \in Stamps : /\ clock' = now
                            /\ Store(s, {}, now) \/ table' = [Wakened(s) EXCEPT ![s].last = now]
  BY DEF LoadNew, LoadOld
<1>3. now \in 0 .. MaxClock
  BY RangesHold, Stamping DEF Ranges
<1>4. \E e \in Entries : table' = [table EXCEPT ![s] = e] /\ e.res = "active" /\ e.last = now
  <2>1. CASE Store(s, {}, now)
    BY <1>3, <2>1, Stores
  <2>2. CASE table' = [Wakened(s) EXCEPT ![s].last = now]
    <3>1. PICK d \in Entries : Wakened(s) = [table EXCEPT ![s] = d] /\ d.res = "active"
      BY Wakes
    <3>2. PICK e : e = [d EXCEPT !.last = now]
      OBVIOUS
    <3>3. e \in Entries /\ e.res = "active" /\ e.last = now
      BY <1>3, <3>1, <3>2 DEF Entries
    <3> QED BY <2>2, <3>1, <3>2, <3>3, RangesHold DEF Ranges
  <2> QED BY <1>2, <2>1, <2>2
<1>5. PICK e \in Entries : table' = [table EXCEPT ![s] = e] /\ e.res = "active" /\ e.last = now
  BY <1>4
<1>6. table'[s].got \in SUBSET Turns /\ calls + 1 \in 0 .. MaxCalls /\ calls + 1 \in Turns
  BY <1>1, <1>5, RangesHold, Calling DEF Ranges, Entries
<1>7. PICK r : r = [pc |-> "work", on |-> s, got |-> table'[s].got, turn |-> calls + 1]
  OBVIOUS
<1>8. r \in Threads /\ r.on \in Sessions /\ r.turn \in Turns
  BY <1>6, <1>7 DEF Threads
<1>9. applied' \in [Sessions -> Versions \cup {0}] /\ wiped' \in [Sessions -> BOOLEAN]
  BY RangesHold DEF LoadNew, LoadOld, Fresh, Ranges, history
<1>10. OneEntry(s, e)
  BY <1>1, <1>2, <1>3, <1>5, <1>7, <1>8, <1>9, RangesHold DEF OneEntry, Ranges
<1> QED BY <1>10, OneEntryKeeps

LEMMA SyncKeeps ==
  ASSUME SessInv, overlooked' \subseteq Offloads, NEW s \in Sessions, NEW v \in Versions, Sync(s, v)
  PROVE  SessShape'
<1>1. PICK now \in Stamps : Store(s, table[s].got \cup {calls + 1}, now) /\ clock' = now
  BY DEF Sync
<1>2. now \in 0 .. MaxClock
  BY RangesHold, Stamping DEF Ranges
<1>3. table[s].got \cup {calls + 1} \in SUBSET Turns
  BY RangesHold, Calling DEF Sync, Ranges, Entries
<1>4. PICK e \in Entries : table' = [table EXCEPT ![s] = e] /\ e.res = "active" /\ e.last = now
  BY <1>1, <1>2, <1>3, Stores
<1>5. guard' \in [Sessions -> Versions \cup {0}] /\ applied' \in [Sessions -> Versions \cup {0}]
  BY RangesHold DEF Sync, Ranges
<1>6. OneEntry(s, e)
  BY <1>1, <1>2, <1>4, <1>5, RangesHold DEF OneEntry, Sync, Ranges
<1> QED BY <1>6, OneEntryKeeps

\* What a session holds stays as it is.
LEMMA SameEntry ==
  ASSUME SessInv, NEW s \in Sessions, UNCHANGED <<table, clock>>
  PROVE  /\ table[s] \in Entries /\ table' = [table EXCEPT ![s] = table[s]]
         /\ table[s].res = "absent" => table[s].got = {}
         /\ clock' \in 0 .. MaxClock
BY RangesHold DEF Ranges, SessInv, SessShape, Live

LEMMA DweKeeps ==
  ASSUME SessInv, overlooked' \subseteq Offloads, DweMerge \/ \E s \in Sessions, v \in Versions : DweAdmit(s, v)
  PROVE  SessShape'
<1>1. CASE DweMerge
  <2>1. PICK s \in Sessions : s = fragment.on
    BY <1>1, RangesHold DEF DweMerge, Ranges
  <2>2. /\ fragment' = [on |-> None, turn |-> 0]
        /\ UNCHANGED <<guard, dwe, client, forget, offload, calls, broken, history>>
    BY <1>1 DEF DweMerge
  <2>3. fragment' \in [on : Sessions \cup {None}, turn : 0 .. MaxCalls] /\ fragment'.on = None
    BY <2>2, Numbers
  <2>4. \E e \in Entries : table' = [table EXCEPT ![s] = e]
                           /\ (e.res = "absent" => e.got = {}) /\ clock' \in 0 .. MaxClock
    <3>1. CASE UNCHANGED <<table, clock>>
      BY <3>1, SameEntry
    <3>2. CASE \E now \in Stamps : Store(s, table[s].got \cup {fragment.turn}, now) /\ clock' = now
      <4>1. PICK now \in Stamps : Store(s, table[s].got \cup {fragment.turn}, now) /\ clock' = now
        BY <3>2
      <4>2. now \in 0 .. MaxClock
        BY RangesHold, Stamping DEF Ranges
      <4>3. PICK turns \in SUBSET Turns : turns = table[s].got \cup {fragment.turn}
        BY <1>1, RangesHold DEF DweMerge, Ranges, Entries
      <4>4. PICK e \in Entries : table' = [table EXCEPT ![s] = e] /\ e.res = "active" /\ e.last = now
        <5>1. Store(s, turns, now)
          BY <4>1, <4>3
        <5> QED BY <4>2, <5>1, Stores
      <4> QED BY <4>1, <4>2, <4>4, RangesHold DEF Ranges
    <3>3. CASE Live(s) /\ table' = Wakened(s) /\ UNCHANGED clock
      <4>1. PICK e \in Entries : /\ Wakened(s) = [table EXCEPT ![s] = e]
                                 /\ e.res = "active" /\ e.got = table[s].got /\ e.last = table[s].last
        BY Wakes
      <4>2. clock' \in 0 .. MaxClock
        BY <3>3, RangesHold DEF Ranges
      <4> QED BY <3>3, <4>1, <4>2
    <3> QED BY <1>1, <2>1, <3>1, <3>2, <3>3 DEF DweMerge
  <2>5. PICK e \in Entries : table' = [table EXCEPT ![s] = e]
                           /\ (e.res = "absent" => e.got = {}) /\ clock' \in 0 .. MaxClock
    BY <2>4
  <2>6. OneEntry(s, e)
    BY <2>2, <2>3, <2>5, RangesHold DEF OneEntry, Ranges, history
  <2> QED BY <2>6, OneEntryKeeps
<1>2. ASSUME NEW s \in Sessions, NEW v \in Versions, DweAdmit(s, v)
      PROVE  SessShape'
  <2>1. /\ Call /\ dwe' = [dwe EXCEPT ![s] = v] /\ fragment' = [on |-> s, turn |-> calls + 1]
        /\ UNCHANGED <<table, guard, client, forget, offload, clock, broken, history>>
    BY <1>2 DEF DweAdmit
  <2>2. calls + 1 \in Turns /\ calls + 1 \in 0 .. MaxCalls
    BY <2>1, RangesHold, Calling
  <2>3. fragment' \in [on : Sessions \cup {None}, turn : 0 .. MaxCalls] /\ fragment'.turn \in Turns
    BY <2>1, <2>2
  <2>4. dwe' \in [Sessions -> Versions \cup {0}]
    BY <2>1, RangesHold DEF Ranges
  <2>5. OneEntry(s, table[s]) /\ table[s] \in Entries
    BY <2>1, <2>3, <2>4, SameEntry, RangesHold DEF OneEntry, Ranges, history
  <2> QED BY <2>5, OneEntryKeeps
<1> QED BY <1>1, <1>2

LEMMA ReturnKeeps ==
  ASSUME SessInv, overlooked' \subseteq Offloads, NEW c \in Clients, WriteBack(c) \/ (GivesUp(c) /\ (Trigger \/ UNCHANGED offload))
  PROVE  SessShape'
<1>1. PICK s \in Sessions : s = client[c].on /\ client[c].turn \in Turns /\ client[c] \in Threads
  <2>1. client[c] \in Threads
    BY SessTypes DEF SessInv, SessShape
  <2>2. client[c].pc = "work"
    BY <2>1 DEF WriteBack, GivesUp, Threads
  <2> QED BY <2>1, <2>2 DEF SessInv, SessShape
<1>2. /\ client' = [client EXCEPT ![c] = Idle] /\ (Trigger \/ UNCHANGED offload)
      /\ UNCHANGED <<guard, dwe, fragment, forget, calls, applied, wiped, broken>>
  BY DEF WriteBack, GivesUp, history
<1>3. \E e \in Entries : table' = [table EXCEPT ![s] = e]
                         /\ (e.res = "absent" => e.got = {}) /\ clock' \in 0 .. MaxClock
  <2>1. CASE UNCHANGED <<table, clock>>
    BY <2>1, SameEntry
  <2>2. CASE \E now \in Stamps : Store(s, client[c].got \cup {client[c].turn}, now) /\ clock' = now
    <3>1. PICK now \in Stamps : Store(s, client[c].got \cup {client[c].turn}, now) /\ clock' = now
      BY <2>2
    <3>2. now \in 0 .. MaxClock
      BY RangesHold, Stamping DEF Ranges
    <3>3. PICK turns \in SUBSET Turns : turns = client[c].got \cup {client[c].turn}
      BY <1>1 DEF Threads
    <3>4. PICK e \in Entries : table' = [table EXCEPT ![s] = e] /\ e.res = "active" /\ e.last = now
      <4>1. Store(s, turns, now)
        BY <3>1, <3>3
      <4> QED BY <3>2, <4>1, Stores
    <3> QED BY <3>1, <3>2, <3>4, RangesHold DEF Ranges
  <2> QED BY <1>1, <2>1, <2>2 DEF WriteBack, GivesUp
<1>4. PICK e \in Entries : table' = [table EXCEPT ![s] = e]
                         /\ (e.res = "absent" => e.got = {}) /\ clock' \in 0 .. MaxClock
  BY <1>3
<1>5. Idle.pc # "work" /\ Idle \in Threads
  BY Numbers
<1>6. OneEntry(s, e)
  BY <1>2, <1>4, <1>5, RangesHold DEF OneEntry, Ranges
<1> QED BY <1>6, OneEntryKeeps

LEMMA ForgetKeeps ==
  ASSUME SessInv, overlooked' \subseteq Offloads, NEW s \in Sessions, ForgetGuards(s)
  PROVE  SessShape'
<1>1. /\ forget[s] > 0 /\ forget' = [forget EXCEPT ![s] = @ - 1]
      /\ guard' = [t \in Sessions |-> IF t \in Beneath[s] THEN 0 ELSE guard[t]]
      /\ wiped' = [t \in Sessions |-> wiped[t] \/ (t \in Beneath[s] /\ Live(t))]
      /\ UNCHANGED <<table, dwe, fragment, client, offload, clock, calls, applied, broken>>
  BY DEF ForgetGuards
<1>2. SessShape /\ SessTypeOK /\ calls \in Nat
  BY RangesHold, SessTypes, Numbers
<1>3. forget \in [Sessions -> 0 .. MaxCalls] /\ \A t \in Sessions : forget[t] \in Nat /\ forget[t] <= calls
  BY <1>2, SessTypes, Numbers DEF SessShape
<1>4. forget[s] - 1 \in 0 .. MaxCalls /\ forget[s] - 1 <= calls
  BY <1>1, <1>2, <1>3, Numbers
<1>5. forget' \in [Sessions -> 0 .. MaxCalls] /\ \A t \in Sessions : forget'[t] <= calls'
  BY <1>1, <1>3, <1>4
<1>6. guard' \in [Sessions -> Versions \cup {0}]
  BY <1>1, <1>2, SessTypes
<1>7. wiped' \in [Sessions -> BOOLEAN]
  <2>1. \A t \in Sessions : (wiped[t] \/ (t \in Beneath[s] /\ Live(t))) \in BOOLEAN
    OBVIOUS
  <2> QED BY <1>1, <2>1
<1>8. SessTypeOK'
  BY <1>1, <1>2, <1>5, <1>6, <1>7 DEF SessTypeOK
<1>9. SessShape'
  BY <1>1, <1>2, <1>5, <1>8 DEF SessShape, Live
<1> QED BY <1>9

\* The parking tasks.
LEMMA TaskKeeps ==
  ASSUME SessInv, overlooked' \subseteq Offloads, NEW o \in Offloads, NEW r \in Parkings, offload' = [offload EXCEPT ![o] = r],
         r.pc \in {"copy", "install"} => r.on \in Sessions,
         UNCHANGED <<table, guard, dwe, fragment, client, forget, clock, calls, history>>,
         broken' \in BOOLEAN
  PROVE  SessShape'
<1>1. SessTypeOK /\ SessShape /\ offload \in [Offloads -> Parkings]
  BY RangesHold, SessTypes
<1>2. offload' \in [Offloads -> Parkings] /\ \A q \in Offloads : offload'[q] = IF q = o THEN r ELSE offload[q]
  BY <1>1
<1>3. SessTypeOK'
  BY <1>1, <1>2 DEF SessTypeOK, Parkings, history
<1>4. SessShape'
  BY <1>1, <1>2, <1>3 DEF SessShape, Live
<1> QED BY <1>4

LEMMA ParkKeeps ==
  ASSUME SessInv, overlooked' \subseteq Offloads, NEW o \in Offloads, Pick(o) \/ Copy(o) \/ OffloadFails(o)
  PROVE  SessShape'
<1>1. /\ UNCHANGED <<table, guard, dwe, fragment, client, forget, clock, calls, history>>
      /\ broken' = broken \/ broken' = TRUE
  BY DEF Pick, Copy, OffloadFails
<1>2. offload[o] \in Parkings /\ broken' \in BOOLEAN /\ table \in [Sessions -> Entries] /\ clock \in 0 .. MaxClock
  BY <1>1, RangesHold, SessTypes
<1>3. \E r \in Parkings : /\ offload' = [offload EXCEPT ![o] = r]
                          /\ r.pc \in {"copy", "install"} => r.on \in Sessions
  <2>1. PICK pick : pick = [Resting EXCEPT !.pc = "pick"]
    OBVIOUS
  <2>2. pick \in Parkings /\ pick.pc = "pick"
    BY <2>1, Numbers DEF Parkings
  <2>3. CASE offload' = [offload EXCEPT ![o] = Resting] \/ offload' = [offload EXCEPT ![o] = pick]
    BY <1>2, <2>2, <2>3, Numbers
  <2>4. CASE Choose(o)
    <3>1. PICK s \in ActiveOnes :
            offload' = [offload EXCEPT ![o] = [Resting EXCEPT !.pc = "copy", !.on = s, !.last = table[s].last]]
      BY <2>4 DEF Choose
    <3>2. s \in Sessions /\ table[s].last \in 0 .. MaxClock
      BY <1>2 DEF ActiveOnes, Entries
    <3>3. PICK r : r = [Resting EXCEPT !.pc = "copy", !.on = s, !.last = table[s].last]
      OBVIOUS
    <3>4. r \in Parkings /\ r.pc = "copy" /\ r.on = s /\ r.last = table[s].last
      BY <3>2, <3>3, Numbers DEF Parkings
    <3> QED BY <3>1, <3>2, <3>3, <3>4
  <2>5. CASE /\ offload[o].pc = "copy"
             /\ offload' = [offload EXCEPT ![o] = [@ EXCEPT !.pc = "install", !.got = table[offload[o].on].got]]
    <3>1. offload[o].on \in Sessions
      BY <2>5 DEF SessInv, SessShape
    <3>2. table[offload[o].on].got \in SUBSET Turns
      BY <1>2, <3>1 DEF Entries
    <3>3. PICK r : r = [offload[o] EXCEPT !.pc = "install", !.got = table[offload[o].on].got]
      OBVIOUS
    <3>4. r \in Parkings /\ r.pc = "install" /\ r.on = offload[o].on /\ r.last = offload[o].last
      BY <1>2, <3>2, <3>3 DEF Parkings
    <3> QED BY <2>5, <3>1, <3>3, <3>4
  <2> QED BY <2>1, <2>3, <2>4, <2>5 DEF Pick, Done, Copy, OffloadFails
<1> QED BY <1>1, <1>2, <1>3, TaskKeeps

\* The copy is put in place: it is what the session has learned, or the task has overlooked
\* an update.
LEMMA Installed ==
  ASSUME SessInv, NEW o \in Offloads, Install(o)
  PROVE  /\ offload[o].on \in Sessions
         /\ \/ table' = table
            \/ \E e \in Entries :
                 /\ table' = [table EXCEPT ![offload[o].on] = e]
                 /\ Live(offload[o].on) /\ e.res = "parked" /\ e.last = table[offload[o].on].last
                 /\ o \notin overlooked => e.got = table[offload[o].on].got
<1>1. offload[o].on \in Sessions /\ offload[o].pc = "install"
  BY DEF SessInv, SessShape, Install
<1>2. PICK s \in Sessions : s = offload[o].on
  BY <1>1
<1>3. table[s] \in Entries /\ offload[o] \in Parkings /\ table \in [Sessions -> Entries]
  BY RangesHold, SessTypes DEF Ranges
<1>4. CASE Unchanged(o)
  <2>1. PICK e : e = [table[s] EXCEPT !.res = "parked", !.got = offload[o].got]
    OBVIOUS
  <2>2. e \in Entries /\ e.res = "parked" /\ e.last = table[s].last /\ e.got = offload[o].got
    BY <1>3, <2>1 DEF Entries, Parkings, Residency
  <2>3. table' = [table EXCEPT ![s] = e]
    BY <1>2, <1>3, <1>4, <2>1 DEF Install, Entries
  <2>4. Live(s) /\ table[s].last = offload[o].last
    BY <1>2, <1>4 DEF Unchanged, StillActive, Live
  <2>5. o \notin overlooked => e.got = table[s].got
    BY <1>1, <1>2, <2>2, <2>4 DEF SessInv, Copied
  <2> QED BY <1>1, <1>2, <2>2, <2>3, <2>4, <2>5
<1>5. CASE ~Unchanged(o)
  BY <1>1, <1>5 DEF Install
<1> QED BY <1>4, <1>5

LEMMA InstallKeeps ==
  ASSUME SessInv, overlooked' \subseteq Offloads, NEW o \in Offloads, Install(o)
  PROVE  SessShape'
<1>1. /\ UNCHANGED <<guard, dwe, fragment, client, forget, clock, calls, applied, wiped, broken>>
      /\ offload' = [offload EXCEPT ![o] = [Resting EXCEPT !.pc = "pick"]]
  BY DEF Install, history
<1>2. PICK s \in Sessions : s = offload[o].on
  BY Installed
<1>3. /\ SessShape /\ SessTypeOK /\ table \in [Sessions -> Entries] /\ clock \in 0 .. MaxClock
      /\ offload \in [Offloads -> Parkings]
  BY RangesHold, SessTypes DEF Ranges
<1>4. PICK e \in Entries :
        /\ table' = [table EXCEPT ![s] = e] /\ e.last = table[s].last
        /\ (e.res = "absent" => e.got = {}) /\ (e.res # "absent" => Live(s))
  <2>1. table[s] \in Entries /\ table = [table EXCEPT ![s] = table[s]]
        /\ (~Live(s) => table[s].got = {})
    BY <1>3 DEF SessShape
  <2>2. CASE table' = table
    BY <2>1, <2>2 DEF Live
  <2>3. CASE table' # table
    BY <1>2, <2>3, Installed
  <2> QED BY <2>2, <2>3
<1>5. PICK pick : pick = [Resting EXCEPT !.pc = "pick"]
  OBVIOUS
<1>6. pick \in Parkings /\ pick.pc = "pick"
  BY <1>5, Numbers DEF Parkings
<1>7. /\ offload' \in [Offloads -> Parkings]
      /\ \A q \in Offloads : offload'[q] = IF q = o THEN pick ELSE offload[q]
  BY <1>1, <1>3, <1>5, <1>6
<1>8. /\ table' \in [Sessions -> Entries]
      /\ \A t \in Sessions : table'[t] = IF t = s THEN e ELSE table[t]
  BY <1>3, <1>4
<1>9. SessTypeOK'
  BY <1>1, <1>3, <1>7, <1>8 DEF SessTypeOK, Entries, Parkings
<1>11. SessShape'
  <2>1. \A t \in Sessions : ~Live(t)' => table'[t].got = {}
    BY <1>3, <1>4, <1>8 DEF SessShape, Live
  <2>2. \A q \in Offloads : offload'[q].pc \in {"copy", "install"} => offload'[q].on \in Sessions
    BY <1>3, <1>6, <1>7 DEF SessShape
  <2> QED BY <1>1, <1>3, <1>9, <2>1, <2>2 DEF SessShape
<1> QED BY <1>11

\* Each action leaves things in shape.
LEMMA ShapeStep ==
  ASSUME SessInv, overlooked' \subseteq Offloads, SessStep
  PROVE  SessShape'
<1>1. ASSUME NEW s \in Sessions,
             \/ Create(s) \/ Delete(s) \/ ForgetGuards(s) \/ Export(s) \/ Restore(s)
             \/ \E v \in Versions : Sync(s, v) \/ SyncFails(s, v) \/ DweAdmit(s, v)
             \/ \E c \in Clients : LoadNew(c, s) \/ Resolve(c, s) \/ Generate(c, s)
      PROVE  SessShape'
  BY <1>1, CreateKeeps, DeleteKeeps, ForgetKeeps, ExportKeeps, RestoreKeeps, SyncKeeps, DweKeeps,
     LoadKeeps DEF Resolve, Generate
<1>2. CASE DweMerge
  BY <1>2, DweKeeps
<1>3. ASSUME NEW c \in Clients, Adapted(c) \/ Generated(c) \/ CompletionFails(c) \/ ChatFails(c)
      PROVE  SessShape'
  BY <1>3, ReturnKeeps DEF Adapted, Generated, CompletionFails, ChatFails
<1>4. ASSUME NEW o \in Offloads, OffloadStep(o) \/ OffloadFails(o)
      PROVE  SessShape'
  BY <1>4, ParkKeeps, InstallKeeps DEF OffloadStep
<1> QED BY <1>1, <1>2, <1>3, <1>4 DEF SessStep

\* A task that is about to install was so before, or has just copied its session.
Copying(o) ==
  offload'[o].pc = "install" =>
    \/ offload'[o] = offload[o]
    \/ table' = table /\ offload'[o].got = table[offload'[o].on].got
LEMMA CopyingStep ==
  ASSUME SessInv, SessStep
  PROVE  \A o \in Offloads : Copying(o)
<1>1. SessShape /\ offload \in [Offloads -> Parkings]
  BY SessTypes DEF SessInv, SessShape
<1>2. CASE Trigger \/ UNCHANGED offload
  BY <1>1, <1>2, Triggers DEF Spawned, Copying
<1>3. ASSUME NEW o \in Offloads, Pick(o) \/ Install(o) \/ OffloadFails(o)
      PROVE  \A q \in Offloads : Copying(q)
  <2>1. PICK r : offload' = [offload EXCEPT ![o] = r] /\ r.pc # "install"
    <3>1. \A s, n : [Resting EXCEPT !.pc = "copy", !.on = s, !.last = n].pc = "copy"
      BY DEF Resting
    <3>2. [Resting EXCEPT !.pc = "pick"].pc = "pick" /\ Resting.pc = "idle"
      BY DEF Resting
    <3>3. CASE Install(o) \/ OffloadFails(o)
      BY <3>2, <3>3 DEF Install, OffloadFails
    <3>4. CASE Done(o)
      BY <3>2, <3>4 DEF Done
    <3>5. CASE Choose(o)
      <4>1. PICK s \in ActiveOnes :
              offload' = [offload EXCEPT ![o] = [Resting EXCEPT !.pc = "copy", !.on = s, !.last = table[s].last]]
        BY <3>5 DEF Choose
      <4>2. [Resting EXCEPT !.pc = "copy", !.on = s, !.last = table[s].last].pc = "copy"
        BY <3>1
      <4> QED BY <4>1, <4>2
    <3> QED BY <1>3, <3>3, <3>4, <3>5 DEF Pick
  <2> QED BY <1>1, <2>1 DEF Copying
<1>4. ASSUME NEW o \in Offloads, Copy(o)
      PROVE  \A q \in Offloads : Copying(q)
  <2>1. PICK r : /\ offload' = [offload EXCEPT ![o] = r] /\ table' = table
                 /\ r.pc = "install" => r.got = table[r.on].got
    <3>1. [Resting EXCEPT !.pc = "pick"].pc = "pick"
      BY DEF Resting
    <3>2. \A got : LET r == [offload[o] EXCEPT !.pc = "install", !.got = got]
                   IN  r.on = offload[o].on /\ r.got = got
      BY <1>1 DEF Parkings
    <3>3. CASE table[offload[o].on].res = "active"
      <4>1. offload' = [offload EXCEPT ![o] = [@ EXCEPT !.pc = "install", !.got = table[offload[o].on].got]]
            /\ table' = table
        BY <1>4, <3>3 DEF Copy
      <4>2. PICK r : r = [offload[o] EXCEPT !.pc = "install", !.got = table[offload[o].on].got]
        OBVIOUS
      <4>3. r.on = offload[o].on /\ r.got = table[offload[o].on].got
        BY <3>2, <4>2
      <4>4. offload' = [offload EXCEPT ![o] = r]
        BY <1>1, <4>1, <4>2
      <4> QED BY <4>1, <4>3, <4>4
    <3>4. CASE table[offload[o].on].res # "active"
      BY <1>4, <3>1, <3>4 DEF Copy
    <3> QED BY <3>3, <3>4
  <2> QED BY <1>1, <2>1 DEF Copying
<1> QED BY <1>2, <1>3, <1>4
        DEF SessStep, Create, Delete, ForgetGuards, Export, Restore, Sync, SyncFails, DweAdmit, LoadNew,
            Resolve, Generate, LoadOld, Load, DweMerge, Adapted, Generated, WriteBack, CompletionFails,
            ChatFails, GivesUp, OffloadStep

\* What a task has copied stays what its session has learned, while the stamp stays: a step
\* that writes the session and leaves it that stamp is one the task overlooks.
LEMMA CopiedStep ==
  ASSUME SessInv, SessStep, Overlooks
  PROVE  Copied'
<1> SUFFICES ASSUME NEW o \in Offloads, o \notin overlooked', offload'[o].pc = "install",
                    table'[offload'[o].on].last = offload'[o].last
             PROVE  offload'[o].got = table'[offload'[o].on].got
  BY DEF Copied
<1>1. CASE table' = table /\ offload'[o].got = table[offload'[o].on].got
  BY <1>1
<1>2. CASE offload'[o] = offload[o]
  <2>1. o \notin overlooked /\ ~SameSecond(o)
    BY <1>2 DEF Overlooks
  <2>2. table'[offload[o].on].got = table[offload[o].on].got
        /\ table'[offload[o].on].last = table[offload[o].on].last
    BY <1>2, <2>1 DEF SameSecond
  <2> QED BY <1>2, <2>1, <2>2 DEF SessInv, Copied
<1> QED BY <1>1, <1>2, CopyingStep DEF Copying

LEMMA SessInvStep ==
  ASSUME SessInv, [SessNext]_sessVars
  PROVE  SessInv'
<1>1. CASE UNCHANGED sessVars
  BY <1>1 DEF sessVars, SessInv, SessShape, SessTypeOK, Copied, Live
<1>2. CASE SessNext
  BY <1>2, ShapeStep, CopiedStep DEF SessNext, Overlooks, SessInv
<1> QED BY <1>1, <1>2

LEMMA SessStart == SessInit => SessInv
<1> SUFFICES ASSUME SessInit PROVE SessInv
  OBVIOUS
<1>1. SessTypeOK
  <2>1. table \in [Sessions -> Entries] /\ client \in [Clients -> Threads] /\ offload \in [Offloads -> Parkings]
    BY Numbers DEF SessInit
  <2>2. fragment \in [on : Sessions \cup {None}, turn : 0 .. MaxCalls]
    BY Numbers DEF SessInit
  <2>3. /\ guard \in [Sessions -> Versions \cup {0}] /\ dwe \in [Sessions -> Versions \cup {0}]
        /\ forget \in [Sessions -> 0 .. MaxCalls] /\ applied \in [Sessions -> Versions \cup {0}]
    BY Numbers DEF SessInit
  <2>4. clock \in 0 .. MaxClock /\ calls \in 0 .. MaxCalls /\ overlooked \subseteq Offloads
    BY Numbers DEF SessInit
  <2>5. wiped \in [Sessions -> BOOLEAN] /\ broken \in BOOLEAN
    BY DEF SessInit
  <2> QED BY <2>1, <2>2, <2>3, <2>4, <2>5, SessTypes
<1>2. SessShape
  BY <1>1, Numbers DEF SessInit, SessShape, Live
<1>3. Copied
  BY DEF SessInit, Resting, Copied
<1> QED BY <1>2, <1>3 DEF SessInv

LEMMA SessInvAlways == SessSpec => []SessInv
BY SessStart, SessInvStep, PTL DEF SessSpec

\* Sessions, guards, threads, parking tasks and pending fragments keep their types.
THEOREM SessTypeCorrect == SessSpec => []SessTypeOK
<1>1. SessInv => SessTypeOK
  BY RangesHold
<1> QED BY <1>1, SessInvAlways, PTL

\* The guard of a session that is there is at least the newest delta merged into it,
\* unless it was wiped.
Guarded == \A s \in Sessions : Live(s) => applied[s] <= guard[s] \/ wiped[s]

\* No session comes to be there, and its guard, history and the rest stay.
LEMMA GuardedQuiet ==
  ASSUME Guarded, UNCHANGED <<guard, applied, wiped>>,
         \A s \in Sessions : Live(s)' => Live(s)
  PROVE  Guarded'
BY DEF Guarded

\* A session is put in the table: it was there with its guard, or is new to it.
LEMMA GuardedNew ==
  ASSUME SessInv, Guarded, NEW s \in Sessions, NEW e \in Entries, table' = [table EXCEPT ![s] = e],
         guard' = guard, applied' = [applied EXCEPT ![s] = 0], wiped' = [wiped EXCEPT ![s] = FALSE]
  PROVE  Guarded'
<1>1. /\ table \in [Sessions -> Entries] /\ guard \in [Sessions -> Versions \cup {0}]
      /\ applied \in [Sessions -> Versions \cup {0}] /\ wiped \in [Sessions -> BOOLEAN]
  BY RangesHold DEF Ranges
<1>2. ASSUME NEW t \in Sessions, Live(t)' PROVE applied'[t] <= guard'[t] \/ wiped'[t]
  <2>1. CASE t = s
    <3>1. applied'[t] = 0 /\ guard'[t] \in Nat
      BY <1>1, <2>1, Numbers
    <3> QED BY <3>1
  <2>2. CASE t # s
    <3>1. Live(t) /\ applied'[t] = applied[t] /\ guard'[t] = guard[t] /\ wiped'[t] = wiped[t]
      BY <1>1, <1>2, <2>2 DEF Live
    <3> QED BY <3>1 DEF Guarded
  <2> QED BY <2>1, <2>2
<1> QED BY <1>2 DEF Guarded

LEMMA GuardedOne ==
  ASSUME SessInv, Guarded, NEW s \in Sessions, NEW e, table' = [table EXCEPT ![s] = e],
         e.res # "absent" => Live(s), UNCHANGED <<guard, applied, wiped>>
  PROVE  Guarded'
<1>1. \A t \in Sessions : Live(t)' => Live(t)
  BY RangesHold DEF Ranges, Live
<1> QED BY <1>1, GuardedQuiet

\* What else happens to a session that is there.
Stays(s) ==
  \/ Delete(s) \/ Export(s) \/ \E v \in Versions : SyncFails(s, v)
  \/ \E c \in Clients : LoadOld(c, s)

LEMMA GuardedStays ==
  ASSUME SessInv, Guarded, NEW s \in Sessions, Stays(s)
  PROVE  Guarded'
<1>1. Live(s) /\ UNCHANGED <<guard, applied, wiped>>
  BY DEF Stays, Delete, Export, SyncFails, LoadOld, Load, history
<1>2. \A t \in Sessions : t # s => table'[t] = table[t]
  BY RangesHold DEF Ranges, Stays, Delete, Export, SyncFails, LoadOld, Wakened
<1> QED BY <1>1, <1>2, GuardedQuiet DEF Live

LEMMA GuardedStep ==
  ASSUME SessInv, Guarded, [SessNext]_sessVars
  PROVE  Guarded'
<1>1. CASE UNCHANGED sessVars
  BY <1>1, GuardedQuiet DEF sessVars, Live
<1>2. ASSUME NEW s \in Sessions, Create(s) \/ \E c \in Clients : LoadNew(c, s)
      PROVE  Guarded'
  <2>1. PICK now \in Stamps : Store(s, {}, now)
    BY <1>2 DEF Create, LoadNew
  <2>2. now \in 0 .. MaxClock
    BY RangesHold, Stamping DEF Ranges
  <2>3. PICK e \in Entries : table' = [table EXCEPT ![s] = e]
    BY <2>1, <2>2, Stores
  <2> QED BY <1>2, <2>3, GuardedNew DEF Create, LoadNew, Load, Fresh
<1>3. ASSUME NEW s \in Sessions, Restore(s) PROVE Guarded'
  <2>1. PICK now \in EarlyStamps : Store(s, {calls + 1}, now)
    BY <1>3 DEF Restore
  <2>2. now \in 0 .. MaxClock /\ {calls + 1} \in SUBSET Turns
    BY <1>3, RangesHold, Stamping, Calling DEF Ranges, Restore
  <2>3. PICK e \in Entries : table' = [table EXCEPT ![s] = e]
    BY <2>1, <2>2, Stores
  <2>4. CASE Live(s)
    BY <1>3, <2>3, <2>4, GuardedOne DEF Restore
  <2>5. CASE ~Live(s)
    BY <1>3, <2>3, <2>5, GuardedNew DEF Restore
  <2> QED BY <2>4, <2>5
<1>4. ASSUME NEW s \in Sessions, NEW v \in Versions, Sync(s, v) PROVE Guarded'
  <2>1. /\ Live(s) /\ guard' = [guard EXCEPT ![s] = v] /\ applied' = [applied EXCEPT ![s] = v]
        /\ wiped' = wiped /\ v \in Nat
    BY <1>4, Numbers DEF Sync
  <2>2. \A t \in Sessions : t # s => table'[t] = table[t]
    BY <1>4, RangesHold DEF Ranges, Sync, Store
  <2>3. ASSUME NEW t \in Sessions, Live(t)' PROVE applied'[t] <= guard'[t] \/ wiped'[t]
    <3>1. CASE t = s
      BY <2>1, <3>1, RangesHold DEF Ranges
    <3>2. CASE t # s
      <4>1. Live(t) /\ applied'[t] = applied[t] /\ guard'[t] = guard[t]
        BY <2>1, <2>2, <2>3, <3>2, RangesHold DEF Ranges, Live
      <4> QED BY <2>1, <4>1 DEF Guarded
    <3> QED BY <3>1, <3>2
  <2> QED BY <2>3 DEF Guarded
<1>5. ASSUME NEW s \in Sessions, ForgetGuards(s) PROVE Guarded'
  <2>1. /\ guard' = [t \in Sessions |-> IF t \in Beneath[s] THEN 0 ELSE guard[t]]
        /\ wiped' = [t \in Sessions |-> wiped[t] \/ (t \in Beneath[s] /\ Live(t))]
        /\ UNCHANGED <<table, applied>>
    BY <1>5 DEF ForgetGuards
  <2>2. ASSUME NEW t \in Sessions, Live(t)' PROVE applied'[t] <= guard'[t] \/ wiped'[t]
    <3>1. Live(t) /\ (applied[t] <= guard[t] \/ wiped[t])
      BY <2>1, <2>2 DEF Guarded, Live
    <3>2. wiped'[t] = (wiped[t] \/ (t \in Beneath[s] /\ Live(t)))
      BY <2>1
    <3>3. t \notin Beneath[s] => guard'[t] = guard[t]
      BY <2>1
    <3>4. CASE wiped[t] \/ t \in Beneath[s]
      BY <3>1, <3>2, <3>4
    <3>5. CASE ~wiped[t] /\ t \notin Beneath[s]
      BY <2>1, <3>1, <3>3, <3>5
    <3> QED BY <3>4, <3>5
  <2> QED BY <2>2 DEF Guarded
<1>6. ASSUME NEW s \in Sessions, Stays(s) PROVE Guarded'
  BY <1>6, GuardedStays
<1>7. ASSUME NEW s \in Sessions, NEW v \in Versions, DweAdmit(s, v) PROVE Guarded'
  BY <1>7, GuardedQuiet DEF DweAdmit, history, Live
<1>8. CASE DweMerge
  <2>1. PICK s \in Sessions : s = fragment.on
    BY <1>8, RangesHold DEF DweMerge, Ranges
  <2>2. UNCHANGED <<guard, applied, wiped>>
    BY <1>8 DEF DweMerge, history
  <2>3. \A t \in Sessions : Live(t)' => Live(t)
    BY <1>8, <2>1, RangesHold DEF DweMerge, Ranges, Store, Wakened, Live
  <2> QED BY <2>2, <2>3, GuardedQuiet
<1>9. ASSUME NEW c \in Clients, WriteBack(c) \/ GivesUp(c) PROVE Guarded'
  <2>1. UNCHANGED <<guard, applied, wiped>>
    BY <1>9 DEF WriteBack, GivesUp, history
  <2>2. \A t \in Sessions : Live(t)' => Live(t)
    BY <1>9, RangesHold DEF WriteBack, GivesUp, Ranges, Store, Live
  <2> QED BY <2>1, <2>2, GuardedQuiet
<1>10. ASSUME NEW o \in Offloads, OffloadStep(o) \/ OffloadFails(o) PROVE Guarded'
  <2>1. UNCHANGED <<guard, applied, wiped>>
    BY <1>10 DEF OffloadStep, OffloadFails, Pick, Copy, Install, history
  <2>2. CASE table' = table
    BY <2>1, <2>2, GuardedQuiet DEF Live
  <2>3. CASE table' # table
    <3>1. Install(o)
      BY <1>10, <2>3 DEF OffloadStep, OffloadFails, Pick, Copy
    <3> QED BY <2>1, <2>3, <3>1, Installed, GuardedOne
  <2> QED BY <2>2, <2>3
<1> QED BY <1>1, <1>2, <1>3, <1>4, <1>5, <1>6, <1>7, <1>8, <1>9, <1>10
        DEF SessNext, SessStep, Stays, Resolve, Generate, Adapted, Generated, CompletionFails, ChatFails

LEMMA GuardedAlways == SessSpec => [](SessInv /\ Guarded)
<1>1. SessInit => Guarded
  BY DEF SessInit, Guarded, Live, NoSession
<1> QED BY <1>1, SessStart, SessInvStep, GuardedStep, PTL DEF SessSpec

\* A delta is merged into a session only when it is newer than all that were, unless a
\* delete took the guard of the session away.
THEOREM SyncInOrderCorrect == SessSpec => SyncInOrder
<1>1. ASSUME SessInv, Guarded, SessNext
      PROVE  \A s \in Sessions, v \in Versions : Sync(s, v) => v > applied[s] \/ wiped[s]
  <2> SUFFICES ASSUME NEW s \in Sessions, NEW v \in Versions, Sync(s, v)
               PROVE  v > applied[s] \/ wiped[s]
    OBVIOUS
  <2>1. Live(s) /\ v > guard[s]
    BY DEF Sync, Newer
  <2>2. v \in Nat /\ guard[s] \in Nat /\ applied[s] \in Nat
    BY <1>1, RangesHold, Numbers DEF Ranges
  <2>3. applied[s] <= guard[s] \/ wiped[s]
    BY <1>1, <2>1 DEF Guarded
  <2> QED BY <2>1, <2>2, <2>3
<1> QED BY <1>1, GuardedAlways, PTL DEF SyncInOrder, SessSpec

\* A session keeps what it has learned, or it goes, or its load is put back over what came
\* since, or a task that overlooked an update puts its copy there.
Undone(s) == \E o \in overlooked : Install(o) /\ offload[o].on = s
Remembers == \A s \in Sessions : \A t \in table[s].got :
  (Live(s)' /\ t \notin table'[s].got) => Overlap(s, t) \/ Undone(s)

LEMMA KeepsAll ==
  ASSUME SessInv, \A s \in Sessions : Live(s)' => table[s].got \subseteq table'[s].got
  PROVE  Remembers
BY DEF Remembers

\* One entry changes and what it held stays in it.
LEMMA KeepsOne ==
  ASSUME SessInv, NEW s \in Sessions, NEW e, table' = [table EXCEPT ![s] = e],
         e.res = "absent" \/ table[s].got \subseteq e.got
  PROVE  Remembers
<1>1. \A t \in Sessions : table'[t] = IF t = s THEN e ELSE table[t]
  BY RangesHold DEF Ranges
<1>2. \A t \in Sessions : Live(t)' => table[t].got \subseteq table'[t].got
  BY <1>1 DEF Live
<1> QED BY <1>2, KeepsAll

LEMMA RemembersStep ==
  ASSUME SessInv, SessStep
  PROVE  Remembers
<1>1. CASE UNCHANGED table
  BY <1>1, KeepsAll
<1>2. ASSUME NEW s \in Sessions, Create(s) \/ \E c \in Clients : LoadNew(c, s)
      PROVE  Remembers
  <2>1. ~Live(s) /\ table[s].got = {}
    BY <1>2 DEF Create, LoadNew, Unused, SessInv, SessShape
  <2>2. PICK e : table' = [table EXCEPT ![s] = e]
    BY <1>2 DEF Create, LoadNew, Store
  <2> QED BY <2>1, <2>2, KeepsOne
<1>3. ASSUME NEW s \in Sessions, Delete(s) PROVE Remembers
  BY <1>3, KeepsOne, Numbers DEF Delete
<1>4. ASSUME NEW s \in Sessions, table' = Wakened(s) PROVE Remembers
  BY <1>4, Wakes, KeepsOne
<1>5. ASSUME NEW s \in Sessions, Restore(s) PROVE Remembers
  <2>1. \A t \in Sessions : t # s => table'[t] = table[t]
    BY <1>5, RangesHold DEF Restore, Store, Ranges
  <2> QED BY <1>5, <2>1 DEF Remembers, Overlap
<1>6. ASSUME NEW s \in Sessions, NEW new, NEW now \in Stamps, Store(s, table[s].got \cup {new}, now)
      PROVE  Remembers
  <2>1. PICK e : e = [res |-> "active", got |-> table[s].got \cup {new}, last |-> now]
    OBVIOUS
  <2>2. table' = [table EXCEPT ![s] = e] /\ table[s].got \subseteq e.got
    BY <1>6, <2>1 DEF Store
  <2> QED BY <2>2, KeepsOne
<1>7. ASSUME NEW s \in Sessions, NEW c \in Clients, LoadOld(c, s) PROVE Remembers
  <2>1. PICK now \in Stamps : table' = [Wakened(s) EXCEPT ![s].last = now]
    BY <1>7 DEF LoadOld
  <2>2. PICK d \in Entries : Wakened(s) = [table EXCEPT ![s] = d] /\ d.got = table[s].got
    BY Wakes
  <2>3. PICK e : e = [d EXCEPT !.last = now]
    OBVIOUS
  <2>4. e.got = table[s].got
    BY <2>2, <2>3 DEF Entries
  <2>5. table' = [table EXCEPT ![s] = e]
    BY <2>1, <2>2, <2>3, RangesHold DEF Ranges
  <2> QED BY <2>4, <2>5, KeepsOne
<1>8. CASE DweMerge
  <2>1. PICK s \in Sessions : s = fragment.on
    BY <1>8, RangesHold DEF DweMerge, Ranges
  <2> QED BY <1>1, <1>4, <1>6, <1>8, <2>1 DEF DweMerge
<1>9. ASSUME NEW c \in Clients, WriteBack(c) PROVE Remembers
  <2>1. PICK s \in Sessions : s = client[c].on
    <3>1. client[c] \in Threads
      BY SessTypes DEF SessInv, SessShape
    <3>2. client[c].pc = "work"
      BY <1>9, <3>1 DEF WriteBack, Threads
    <3> QED BY <3>2 DEF SessInv, SessShape
  <2>2. CASE ~Live(s)
    BY <1>1, <1>9, <2>1, <2>2 DEF WriteBack
  <2>3. CASE Live(s)
    <3>1. PICK now \in Stamps : Store(s, client[c].got \cup {client[c].turn}, now)
      BY <1>9, <2>1, <2>3 DEF WriteBack
    <3>2. PICK e : e = [res |-> "active", got |-> client[c].got \cup {client[c].turn}, last |-> now]
      OBVIOUS
    <3>3. table' = [table EXCEPT ![s] = e] /\ client[c].got \subseteq e.got
      BY <3>1, <3>2 DEF Store
    <3>4. \A t \in Sessions : table'[t] = IF t = s THEN e ELSE table[t]
      BY <3>3, RangesHold DEF Ranges
    <3>5. ASSUME NEW r \in Sessions, NEW t \in table[r].got, t \notin table'[r].got
          PROVE  Overlap(r, t)
      <4>1. r = s /\ t \notin client[c].got
        BY <3>3, <3>4, <3>5
      <4> QED BY <1>9, <2>1, <4>1 DEF Overlap
    <3> QED BY <3>5 DEF Remembers
  <2> QED BY <2>2, <2>3
<1>10. ASSUME NEW o \in Offloads, Install(o) PROVE Remembers
  <2>1. CASE o \notin overlooked
    BY <1>1, <1>10, <2>1, Installed, KeepsOne
  <2>2. CASE o \in overlooked
    <3>1. \A t \in Sessions : t # offload[o].on => table'[t] = table[t]
      BY <1>10, Installed, RangesHold DEF Ranges
    <3> QED BY <1>10, <2>2, <3>1 DEF Remembers, Undone
  <2> QED BY <2>1, <2>2
<1>11. ASSUME NEW s \in Sessions, NEW v \in Versions, Sync(s, v) PROVE Remembers
  BY <1>6, <1>11 DEF Sync
<1>12. ASSUME NEW s \in Sessions,
             \/ Create(s) \/ Delete(s) \/ ForgetGuards(s) \/ Export(s) \/ Restore(s)
             \/ \E v \in Versions : Sync(s, v) \/ SyncFails(s, v) \/ DweAdmit(s, v)
             \/ \E c \in Clients : LoadNew(c, s) \/ Resolve(c, s) \/ Generate(c, s)
       PROVE Remembers
  <2>1. CASE ForgetGuards(s)
    BY <1>1, <2>1 DEF ForgetGuards
  <2>2. CASE Export(s) \/ \E v \in Versions : SyncFails(s, v)
    BY <1>4, <2>2 DEF Export, SyncFails
  <2>3. CASE \E v \in Versions : DweAdmit(s, v)
    BY <1>1, <2>3 DEF DweAdmit
  <2>4. CASE \E c \in Clients : Resolve(c, s) \/ Generate(c, s)
    BY <1>7, <2>4 DEF Resolve, Generate
  <2> QED BY <1>2, <1>3, <1>5, <1>11, <1>12, <2>1, <2>2, <2>3, <2>4
<1>13. ASSUME NEW c \in Clients, Adapted(c) \/ Generated(c) \/ CompletionFails(c) \/ ChatFails(c)
       PROVE  Remembers
  BY <1>1, <1>9, <1>13 DEF Adapted, Generated, CompletionFails, ChatFails, GivesUp
<1>14. ASSUME NEW o \in Offloads, OffloadStep(o) \/ OffloadFails(o) PROVE Remembers
  BY <1>1, <1>10, <1>14 DEF OffloadStep, OffloadFails, Pick, Copy
<1> QED BY <1>8, <1>12, <1>13, <1>14 DEF SessStep

\* What a session has learned goes away with the session, with a PUT, by the write back of a
\* request that was loaded before, or when a task installs its copy over an update that left
\* the session in the second the task compares with; parking loses nothing else, whatever
\* the clock does and however many tasks and requests overlap.
THEOREM LossExplainedCorrect == SessSpec => LossExplained
<1>1. SessInv /\ [SessNext]_sessVars =>
        [\A s \in Sessions : \A t \in table[s].got :
           (Live(s)' /\ t \notin table'[s].got) =>
             \/ Overlap(s, t)
             \/ \E o \in overlooked : Install(o) /\ offload[o].on = s]_sessVars
  BY RemembersStep DEF SessNext, Remembers, Undone
<1> QED BY <1>1, SessInvAlways, PTL DEF LossExplained, SessSpec

------------------------------------------------------------------------------
(* The exchange of weights between nodes *)

Frags == [id : Nat, from : Proxies, session : Shared, sequence : Nat, key : Nat, good : BOOLEAN]
Frames == [to : Proxies, frag : Frags, copy : BOOLEAN]
Weights == Seq(Frags)

ExchangeShape ==
  /\ deltas \in Nat /\ next \in [Proxies -> Nat] /\ key \in [Proxies -> Nat]
  /\ stamped \subseteq Frags
  /\ outbox \in [Proxies -> Weights] /\ inbox \in [Proxies -> Weights]
  /\ sending \in [Proxies -> SUBSET Frames] /\ frames \subseteq Frames
  /\ seen \in [Proxies -> [Shared -> Int]]
  /\ merged \in [Proxies -> [Shared -> Weights]] /\ saved \in [Proxies -> [Shared -> Weights]]

\* What the guard of a session that is at number n vouches for.
Once(q, n) ==
  /\ \A i \in DOMAIN q : q[i].sequence <= n
  /\ \A i, j \in DOMAIN q : q[i] = q[j] => i = j

\* The weights, and the checkpoint a client may put back, are covered by the
\* guard of this process, except where a number died with an earlier one.
Covered ==
  \A p \in Proxies, s \in Shared :
    /\ <<p, s>> \notin revived => Once(merged[p][s], seen[p][s])
    /\ <<p, s>> \notin stale => Once(saved[p][s], seen[p][s])

ExchangeInv == ExchangeShape /\ Covered

LEMMA NoWeights == Empty \in [Shared -> Weights] /\ \A s \in Shared : \A n : Once(Empty[s], n)
BY DEF Empty, Weights, Once

LEMMA ExchangeInitInv == ExchangeInit => ExchangeInv
<1> SUFFICES ASSUME ExchangeInit PROVE ExchangeInv
  OBVIOUS
<1>1. ExchangeShape
  BY NoWeights DEF ExchangeInit, ExchangeShape, Weights
<1> QED BY <1>1, NoWeights DEF ExchangeInit, ExchangeInv, Covered

LEMMA WeightsFacts ==
  ASSUME NEW q \in Weights, NEW i \in DOMAIN q
  PROVE  q[i] \in Frags /\ q[i].sequence \in Int
<1>1. q[i] \in Frags
  BY DEF Weights
<1> QED BY <1>1 DEF Frags

\* A fragment with a later number is another one.
LEMMA OneMore ==
  ASSUME NEW q \in Weights, NEW n \in Int, Once(q, n), NEW f \in Frags, f.sequence > n
  PROVE  Once(Append(q, f), f.sequence)
<1> DEFINE r == Append(q, f)
<1>1. f.sequence \in Int /\ \A i \in DOMAIN q : q[i] \in Frags /\ q[i].sequence \in Int
  BY WeightsFacts DEF Frags
<1>2. /\ DOMAIN r = 1 .. (Len(q) + 1) /\ DOMAIN q = 1 .. Len(q) /\ Len(q) \in Nat
      /\ \A i \in 1 .. Len(q) : r[i] = q[i]
      /\ r[Len(q) + 1] = f
  BY DEF Weights
<1> HIDE DEF r
<1>3. \A i \in DOMAIN q : q[i].sequence <= n /\ q[i] # f
  BY <1>1 DEF Once
<1>4. \A i \in DOMAIN r : r[i].sequence <= f.sequence
  BY <1>1, <1>2, <1>3
<1>5. \A i, j \in DOMAIN r : r[i] = r[j] => i = j
  <2> SUFFICES ASSUME NEW i \in DOMAIN r, NEW j \in DOMAIN r, r[i] = r[j] PROVE i = j
    OBVIOUS
  <2>1. i \in DOMAIN q \/ i = Len(q) + 1
    BY <1>2
  <2>2. j \in DOMAIN q \/ j = Len(q) + 1
    BY <1>2
  <2>3. CASE i \in DOMAIN q /\ j \in DOMAIN q
    BY <1>2, <2>3 DEF Once
  <2> QED BY <1>2, <1>3, <2>1, <2>2, <2>3
<1> QED BY <1>4, <1>5 DEF Once, r

LEMMA StillOnce ==
  ASSUME NEW q \in Weights, NEW n \in Int, NEW m \in Int, n <= m, Once(q, n)
  PROVE  Once(q, m)
<1>1. \A i \in DOMAIN q : q[i].sequence \in Int
  BY WeightsFacts
<1> QED BY <1>1 DEF Once

\* The sender and the wire: the sessions are not touched.
LEMMA WireKeeps ==
  ASSUME ExchangeInv,
         \/ \E p \in Proxies : \/ Take(p)
                               \/ \E m \in sending[p], arrives \in BOOLEAN : Transmit(p, m, arrives)
                               \/ \E s \in Shared : Stamp(p, s) \/ CreateCopy(p, s)
         \/ \E f \in stamped : Enqueue(f)
         \/ \E m \in frames : \E again \in Copies(m) : Deliver(m, again)
  PROVE  ExchangeInv'
<1>1. UNCHANGED <<seen, merged, saved, key, revived, stale>>
  BY DEF Take, Transmit, Stamp, CreateCopy, Enqueue, Deliver
<1>2. ExchangeShape
  BY DEF ExchangeInv
<1>3. SUFFICES /\ deltas' \in Nat /\ next' \in [Proxies -> Nat] /\ stamped' \subseteq Frags
               /\ outbox' \in [Proxies -> Weights] /\ inbox' \in [Proxies -> Weights]
               /\ sending' \in [Proxies -> SUBSET Frames] /\ frames' \subseteq Frames
  BY <1>1 DEF ExchangeInv, ExchangeShape, Covered
<1>4. ASSUME NEW p \in Proxies, Take(p)
      PROVE  outbox' \in [Proxies -> Weights] /\ sending' \in [Proxies -> SUBSET Frames]
  <2>1. Head(outbox[p]) \in Frags /\ Tail(outbox[p]) \in Weights
    BY <1>2, <1>4 DEF Take, ExchangeShape, Weights
  <2>2. \A q \in Proxies : [to |-> q, frag |-> Head(outbox[p]), copy |-> FALSE] \in Frames
    BY <2>1 DEF Frames
  <2> QED BY <1>2, <1>4, <2>1, <2>2 DEF Take, ExchangeShape
<1>5. ASSUME NEW p \in Proxies, NEW m \in sending[p], NEW arrives \in BOOLEAN, Transmit(p, m, arrives)
      PROVE  sending' \in [Proxies -> SUBSET Frames] /\ frames' \subseteq Frames
  BY <1>2, <1>5 DEF Transmit, ExchangeShape
<1>6. ASSUME NEW p \in Proxies, NEW s \in Shared, Stamp(p, s)
      PROVE  deltas' \in Nat /\ next' \in [Proxies -> Nat] /\ stamped' \subseteq Frags
  <2>1. deltas \in Nat /\ next[p] \in Nat /\ key[p] \in Nat
    BY <1>2 DEF ExchangeShape
  <2>2. \A good \in BOOLEAN :
          [id |-> deltas + 1, from |-> p, session |-> s, sequence |-> next[p], key |-> key[p], good |-> good] \in Frags
    BY <2>1 DEF Frags
  <2>3. stamped' \subseteq Frags
    BY <1>2, <1>6, <2>2 DEF Stamp, ExchangeShape
  <2> QED BY <1>2, <1>6, <2>1, <2>3 DEF Stamp, ExchangeShape
<1>7. ASSUME NEW f \in stamped, Enqueue(f)
      PROVE  stamped' \subseteq Frags /\ outbox' \in [Proxies -> Weights]
  <2>1. f \in Frags /\ f.from \in Proxies
    BY <1>2 DEF ExchangeShape, Frags
  <2>2. Append(outbox[f.from], f) \in Weights
    BY <1>2, <2>1 DEF ExchangeShape, Weights
  <2> QED BY <1>2, <1>7, <2>2 DEF Enqueue, ExchangeShape
<1>8. ASSUME NEW m \in frames, NEW again \in Copies(m), Deliver(m, again)
      PROVE  inbox' \in [Proxies -> Weights] /\ frames' \subseteq Frames
  <2>1. m \in Frames /\ m.to \in Proxies /\ m.frag \in Frags
    BY <1>2 DEF ExchangeShape, Frames
  <2>2. [m EXCEPT !.copy = TRUE] \in Frames
    BY <2>1 DEF Frames
  <2>4. again = {} \/ again = {[m EXCEPT !.copy = TRUE]}
    BY DEF Copies
  <2>3. Append(inbox[m.to], m.frag) \in Weights
    BY <1>2, <2>1 DEF ExchangeShape, Weights
  <2> QED BY <1>2, <1>8, <2>2, <2>3, <2>4 DEF Deliver, ExchangeShape
<1>9. ASSUME NEW p \in Proxies, NEW s \in Shared, CreateCopy(p, s) PROVE TRUE
  OBVIOUS
<1> QED BY <1>2, <1>4, <1>5, <1>6, <1>7, <1>8
        DEF Take, Transmit, Stamp, CreateCopy, Enqueue, Deliver, ExchangeShape

LEMMA ConsumeKeeps ==
  ASSUME ExchangeInv, NEW p \in Proxies, Consume(p)
  PROVE  ExchangeInv'
<1> DEFINE f == Head(inbox[p])
           pass == Authentic(p, f) /\ Unseen(p, f)
<1>1. /\ inbox[p] # <<>> /\ inbox' = [inbox EXCEPT ![p] = Tail(@)]
      /\ seen' = IF pass THEN [seen EXCEPT ![p][f.session] = f.sequence] ELSE seen
      /\ merged' = IF pass /\ f.session \in holds[p] /\ f.good
                   THEN [merged EXCEPT ![p][f.session] = Append(@, f)] ELSE merged
      /\ UNCHANGED <<deltas, next, stamped, outbox, sending, frames, saved, key, revived, stale>>
  BY DEF Consume
<1>2. f \in Frags /\ Tail(inbox[p]) \in Weights /\ ExchangeShape
  BY <1>1 DEF ExchangeInv, ExchangeShape, Weights
<1>3. f.session \in Shared /\ f.sequence \in Int
  BY <1>2 DEF Frags
<1> DEFINE s == f.session
           n == f.sequence
<1>4. /\ seen \in [Proxies -> [Shared -> Int]] /\ merged \in [Proxies -> [Shared -> Weights]]
      /\ saved \in [Proxies -> [Shared -> Weights]] /\ seen[p][s] \in Int /\ merged[p][s] \in Weights
  BY <1>2, <1>3 DEF ExchangeShape
<1>5. PICK g \in Frags : g = f
  BY <1>2
<1>6. Append(merged[p][s], g) \in Weights
  BY <1>4, <1>5 DEF Weights
<1>7. seen' \in [Proxies -> [Shared -> Int]] /\ merged' \in [Proxies -> [Shared -> Weights]]
  BY <1>1, <1>3, <1>4, <1>5, <1>6
<1>8. ExchangeShape'
  BY <1>1, <1>2, <1>7 DEF ExchangeShape
<1>9. \A q \in Proxies, t \in Shared : q # p \/ t # s => seen'[q][t] = seen[q][t] /\ merged'[q][t] = merged[q][t]
  BY <1>1, <1>3, <1>4
<1>10. \/ seen'[p][s] = seen[p][s] /\ merged'[p][s] = merged[p][s]
       \/ /\ seen'[p][s] = n /\ n > seen[p][s]
          /\ merged'[p][s] = merged[p][s] \/ merged'[p][s] = Append(merged[p][s], g)
  BY <1>1, <1>3, <1>4, <1>5 DEF Unseen
<1>11. <<p, s>> \notin revived => Once(merged'[p][s], seen'[p][s])
  <2> SUFFICES ASSUME <<p, s>> \notin revived PROVE Once(merged'[p][s], seen'[p][s])
    OBVIOUS
  <2>1. Once(merged[p][s], seen[p][s])
    BY <1>3 DEF ExchangeInv, Covered
  <2>2. n > seen[p][s] => Once(merged[p][s], n) /\ Once(Append(merged[p][s], g), n)
    BY <1>3, <1>4, <1>5, <2>1, OneMore, StillOnce
  <2> QED BY <1>10, <2>1, <2>2
<1>12. <<p, s>> \notin stale => Once(saved[p][s], seen'[p][s])
  <2>1. saved[p][s] \in Weights
    BY <1>3, <1>4
  <2>2. seen'[p][s] \in Int /\ seen[p][s] <= seen'[p][s]
    <3>1. seen[p][s] \in Int /\ n \in Int
      BY <1>3, <1>4
    <3>2. seen'[p][s] = seen[p][s] \/ (seen'[p][s] = n /\ n > seen[p][s])
      BY <1>10
    <3> HIDE DEF s, n
    <3> QED BY <3>1, <3>2
  <2>3. <<p, s>> \notin stale => Once(saved[p][s], seen[p][s])
    BY <1>3 DEF ExchangeInv, Covered
  <2> QED BY <1>4, <2>1, <2>2, <2>3, StillOnce
<1>13. \A q \in Proxies, t \in Shared : q # p \/ t # s =>
         /\ <<q, t>> \notin revived => Once(merged'[q][t], seen'[q][t])
         /\ <<q, t>> \notin stale => Once(saved[q][t], seen'[q][t])
  BY <1>9 DEF ExchangeInv, Covered
<1> HIDE DEF s, n, f
<1>14. Covered'
  BY <1>1, <1>11, <1>12, <1>13 DEF Covered
<1> QED BY <1>8, <1>14 DEF ExchangeInv

\* A session is deleted, exported, or put back.
LEMMA CopyKeeps ==
  ASSUME ExchangeInv, NEW p \in Proxies, NEW s \in Shared,
         DeleteCopy(p, s) \/ ExportCopy(p, s) \/ ImportCopy(p, s)
  PROVE  ExchangeInv'
<1>1. UNCHANGED <<deltas, next, stamped, outbox, sending, frames, inbox, seen, key>> /\ ExchangeShape
  BY DEF DeleteCopy, ExportCopy, ImportCopy, ExchangeInv
<1>2. /\ merged \in [Proxies -> [Shared -> Weights]] /\ saved \in [Proxies -> [Shared -> Weights]]
      /\ <<>> \in Weights
  BY <1>1 DEF ExchangeShape, Weights
<1>3. /\ merged' \in [Proxies -> [Shared -> Weights]] /\ saved' \in [Proxies -> [Shared -> Weights]]
      /\ \A q \in Proxies, t \in Shared : <<q, t>> # <<p, s>> =>
           /\ merged'[q][t] = merged[q][t] /\ saved'[q][t] = saved[q][t]
           /\ <<q, t>> \in revived' <=> <<q, t>> \in revived
           /\ <<q, t>> \in stale' <=> <<q, t>> \in stale
  <2>1. CASE DeleteCopy(p, s)
    BY <1>2, <2>1 DEF DeleteCopy
  <2>2. CASE ExportCopy(p, s)
    BY <1>2, <2>2 DEF ExportCopy
  <2>3. CASE ImportCopy(p, s)
    <3>1. merged' = [merged EXCEPT ![p][s] = saved[p][s]] /\ UNCHANGED <<saved, stale>>
      BY <2>3 DEF ImportCopy
    <3>2. \A r : r # <<p, s>> => (r \in revived' <=> r \in revived)
      BY <2>3 DEF ImportCopy
    <3> QED BY <1>2, <3>1, <3>2
  <2> QED BY <2>1, <2>2, <2>3
<1>4. ExchangeShape'
  BY <1>1, <1>3 DEF ExchangeShape
<1>5. /\ <<p, s>> \notin revived' => Once(merged'[p][s], seen[p][s])
      /\ <<p, s>> \notin stale' => Once(saved'[p][s], seen[p][s])
  <2>1. /\ <<p, s>> \notin revived => Once(merged[p][s], seen[p][s])
        /\ <<p, s>> \notin stale => Once(saved[p][s], seen[p][s])
    BY DEF ExchangeInv, Covered
  <2>2. CASE DeleteCopy(p, s)
    <3>1. merged'[p][s] = <<>> /\ UNCHANGED <<saved, revived, stale>>
      BY <1>2, <2>2 DEF DeleteCopy
    <3> QED BY <2>1, <3>1 DEF Once
  <2>3. CASE ExportCopy(p, s)
    BY <1>2, <2>1, <2>3 DEF ExportCopy
  <2>4. CASE ImportCopy(p, s)
    BY <1>2, <2>1, <2>4 DEF ImportCopy
  <2> QED BY <2>2, <2>3, <2>4
<1>6. Covered'
  <2> SUFFICES ASSUME NEW q \in Proxies, NEW t \in Shared
               PROVE  /\ <<q, t>> \notin revived' => Once(merged'[q][t], seen[q][t])
                      /\ <<q, t>> \notin stale' => Once(saved'[q][t], seen[q][t])
    BY <1>1 DEF Covered
  <2>1. CASE <<q, t>> = <<p, s>>
    BY <1>5, <2>1
  <2>2. CASE <<q, t>> # <<p, s>>
    BY <1>3, <2>2 DEF ExchangeInv, Covered
  <2> QED BY <2>1, <2>2
<1> QED BY <1>4, <1>6 DEF ExchangeInv

LEMMA RebornKeeps ==
  ASSUME ExchangeInv, NEW p \in Proxies, NEW k \in Nat, NEW w, Reborn(p, k, w)
  PROVE  ExchangeInv'
<1>1. ExchangeShape /\ <<>> \in Weights /\ -1 \in Int
  BY DEF ExchangeInv, Weights
<1>2. ExchangeShape'
  <2>1. deltas' \in Nat /\ next' \in [Proxies -> Nat] /\ key' \in [Proxies -> Nat]
    BY <1>1 DEF Reborn, ExchangeShape
  <2>2. stamped' \subseteq Frags /\ frames' \subseteq Frames
    BY <1>1 DEF Reborn, ExchangeShape
  <2>3. outbox' \in [Proxies -> Weights] /\ inbox' \in [Proxies -> Weights]
    BY <1>1 DEF Reborn, ExchangeShape
  <2>4. sending' \in [Proxies -> SUBSET Frames]
    BY <1>1 DEF Reborn, ExchangeShape
  <2>5. seen' \in [Proxies -> [Shared -> Int]]
    BY <1>1 DEF Reborn, ExchangeShape
  <2>6. merged' \in [Proxies -> [Shared -> Weights]] /\ saved' \in [Proxies -> [Shared -> Weights]]
    BY <1>1, NoWeights DEF Reborn, ExchangeShape
  <2> QED BY <2>1, <2>2, <2>3, <2>4, <2>5, <2>6 DEF ExchangeShape
<1>3. Covered'
  <2> SUFFICES ASSUME NEW q \in Proxies, NEW s \in Shared
               PROVE  /\ <<q, s>> \notin revived' => Once(merged'[q][s], seen'[q][s])
                      /\ <<q, s>> \notin stale' => Once(saved'[q][s], seen'[q][s])
    BY DEF Covered
  <2>1. CASE q = p
    <3>1. merged'[q] = Empty /\ <<q, s>> \in stale'
      BY <1>1, <2>1 DEF Reborn, ExchangeShape
    <3> QED BY <3>1, NoWeights
  <2>2. CASE q # p
    <3>1. /\ merged'[q] = merged[q] /\ saved' = saved /\ seen'[q] = seen[q]
          /\ <<q, s>> \in revived' <=> <<q, s>> \in revived
          /\ <<q, s>> \in stale' <=> <<q, s>> \in stale
      BY <1>1, <2>2 DEF Reborn, ExchangeShape
    <3> QED BY <3>1 DEF ExchangeInv, Covered
  <2> QED BY <2>1, <2>2
<1> QED BY <1>2, <1>3 DEF ExchangeInv

LEMMA ExchangeStep == ExchangeInv /\ [ExchangeNext]_exchangeVars => ExchangeInv'
<1> SUFFICES ASSUME ExchangeInv, [ExchangeNext]_exchangeVars
             PROVE  ExchangeInv'
  OBVIOUS
<1>1. CASE UNCHANGED exchangeVars
  BY <1>1 DEF exchangeVars, ExchangeInv, ExchangeShape, Covered
<1>2. CASE \/ \E p \in Proxies : \/ Take(p)
                                 \/ \E m \in sending[p], arrives \in BOOLEAN : Transmit(p, m, arrives)
                                 \/ \E s \in Shared : Stamp(p, s) \/ CreateCopy(p, s)
           \/ \E f \in stamped : Enqueue(f)
           \/ \E m \in frames : \E again \in Copies(m) : Deliver(m, again)
  BY <1>2, WireKeeps
<1>3. CASE \E p \in Proxies : Consume(p)
  BY <1>3, ConsumeKeeps
<1>4. CASE \E p \in Proxies, s \in Shared : DeleteCopy(p, s) \/ ExportCopy(p, s) \/ ImportCopy(p, s)
  BY <1>4, CopyKeeps
<1>5. CASE \E p \in Proxies : RestartProxy(p) \/ Rotate(p)
  <2>1. PICK p \in Proxies : RestartProxy(p) \/ Rotate(p)
    BY <1>5
  <2>2. key[p] \in Nat /\ key[p] + 1 \in Nat
    BY DEF ExchangeInv, ExchangeShape
  <2> QED BY <2>1, <2>2, RebornKeeps DEF RestartProxy, Rotate
<1> QED BY <1>1, <1>2, <1>3, <1>4, <1>5 DEF ExchangeNext

\* No difference is added twice to a session, though fragments are lost, replayed, even
\* after a restart, and overtake each other, keys rotate, and the session is deleted and
\* restored, unless it was restored from a checkpoint of an earlier process (dwe.rs,
\* start_dwe_apply_loop): for any fleet, sessions, queues and number of differences.
THEOREM MergedOnceCorrect == ExchangeSpec => []MergedOnce
<1>1. ExchangeInv => MergedOnce
  <2> SUFFICES ASSUME ExchangeInv, NEW p \in Proxies, NEW s \in Shared, <<p, s>> \notin revived,
                      NEW i \in DOMAIN merged[p][s]
               PROVE  Times(merged[p][s][i], merged[p][s]) = 1
    BY DEF MergedOnce
  <2>1. {j \in DOMAIN merged[p][s] : merged[p][s][j] = merged[p][s][i]} = {i}
    BY DEF ExchangeInv, Covered, Once
  <2> QED BY <2>1, FS_Singleton DEF Times
<1> QED BY <1>1, ExchangeInitInv, ExchangeStep, PTL DEF ExchangeSpec

------------------------------------------------------------------------------
(* The adapted weights *)

Digests == Contexts \union {NoObj}
SavedEntries == [digest : Digests, got : SUBSET Contexts]
CacheFiles == [WeightIds -> SavedEntries]
Stages == {"away", "get", "insert", "work", "mark", "digests", "handles", "encode", "rename", "fold"}
Requests == [pc : Stages, id : WeightIds \union {NoObj}, ctx : Digests,
             kind : {"none", "message", "prefill", "drop", "clear"}, adapt : BOOLEAN,
             obj : Objects \union {NoObj}, plan : [WeightIds -> Digests],
             todo : SUBSET (WeightIds \X Objects), file : CacheFiles, call : 0 .. MaxWeightCalls]

WeightShape ==
  /\ held \in [WeightIds -> Objects \union {NoObj}]
  /\ weights \in [Objects -> SUBSET Contexts]
  /\ digest \in [WeightIds -> Digests]
  /\ caller \in [Callers -> Requests]
  /\ cache \in CacheFiles /\ temp \in CacheFiles \union {NoObj}
  /\ made \in 0 .. MaxWeightCalls /\ crowd \in Nat

\* The object of an id that was never dropped has absorbed x.
Absorbed(s, x) == held[s] # NoObj /\ x \in weights[held[s]]

\* A digest vouches for weights.
Honest == \A s \in WeightIds \ gone : digest[s] # NoObj => Absorbed(s, digest[s])

Coherent(f) == \A s \in WeightIds \ gone : f[s] # NoEntry => f[s].digest \in f[s].got

\* What a request holds is true of the weights at each of its stages.
Served(r) ==
  /\ r.pc \in {"get", "insert", "work", "mark"} => r.id \in WeightIds /\ r.ctx \in Contexts
  /\ r.pc \in {"get", "insert"} => r.call # 0
  /\ r.pc \in {"work", "mark"} => r.obj \in Objects
Vouched(r) ==
  /\ r.pc \in {"get", "insert"} /\ ~r.adapt /\ r.id \notin gone => Absorbed(r.id, r.ctx)
  /\ r.pc \in {"work", "mark"} /\ r.id \notin gone => r.obj = held[r.id]
  /\ r.pc = "work" /\ ~r.adapt /\ r.id \notin gone => r.ctx \in weights[r.obj]
  /\ r.pc = "mark" /\ r.id \notin gone => r.ctx \in weights[r.obj]
Written(r) ==
  /\ r.pc = "handles" => \A s \in WeightIds \ gone : r.plan[s] # NoObj => Absorbed(s, r.plan[s])
  /\ r.pc = "encode" => \A h \in r.todo : h[1] \notin gone => r.plan[h[1]] \in weights[h[2]]
  /\ r.pc \in {"digests", "handles", "encode", "rename"} => Coherent(r.file)
Fair(r) == Served(r) /\ Vouched(r) /\ Written(r)

Inserting == {c \in Callers : caller[c].pc = "insert"}
Crowded == Cardinality(Resident) + Cardinality(Inserting) <= WeightCap + crowd

WeightInv ==
  /\ WeightShape /\ Honest /\ Coherent(cache) /\ (temp # NoObj => Coherent(temp))
  /\ \A c \in Callers : Fair(caller[c])
  /\ Crowded

LEMMA AwayFacts ==
  /\ Away \in Requests /\ Away.pc = "away" /\ Away.todo = {} /\ Away.call = 0
  /\ Away.file = NothingSaved /\ NothingSaved \in CacheFiles
  /\ \A s \in WeightIds : NothingSaved[s] = NoEntry
BY WeightAssumption DEF Away, Requests, Stages, NothingSaved, CacheFiles, SavedEntries, NoEntry, Digests

\* The sets that are counted are finite.
LEMMA Counting ==
  /\ \A S \in SUBSET WeightIds : IsFiniteSet(S) /\ Cardinality(S) \in Nat
  /\ \A S \in SUBSET Callers : IsFiniteSet(S) /\ Cardinality(S) \in Nat
  /\ \A S, T \in SUBSET WeightIds : S \subseteq T => Cardinality(S) <= Cardinality(T)
<1>1. \A S \in SUBSET WeightIds : IsFiniteSet(S)
  BY FS_Subset, WeightAssumption
<1>2. \A S \in SUBSET Callers : IsFiniteSet(S)
  BY FS_Subset, WeightAssumption
<1> QED BY <1>1, <1>2, FS_Subset, FS_CardinalityType

\* Objects that stay with their id, and what they absorbed, stay.
Grows ==
  /\ gone \subseteq gone'
  /\ \A o \in Objects : weights[o] \subseteq weights'[o]
  /\ \A s \in WeightIds \ gone' : held[s] # NoObj => held'[s] = held[s]

LEMMA AbsorbedStays ==
  ASSUME WeightShape, Grows, NEW s \in WeightIds \ gone', NEW x, Absorbed(s, x)
  PROVE  Absorbed(s, x)'
BY DEF WeightShape, Grows, Absorbed

LEMMA CoherentStays ==
  ASSUME Grows, NEW f, Coherent(f)
  PROVE  Coherent(f)'
BY DEF Grows, Coherent

LEMMA FairStays ==
  ASSUME WeightShape, Grows, NEW r \in Requests, Fair(r)
  PROVE  Fair(r)'
<1>1. Served(r)'
  BY DEF Fair, Served
<1>2. Vouched(r)'
  <2>1. r.id \notin gone' => r.id \notin gone
    BY DEF Grows
  <2>2. ASSUME r.pc \in {"get", "insert"}, ~r.adapt, r.id \notin gone' PROVE Absorbed(r.id, r.ctx)'
    BY <2>1, <2>2, AbsorbedStays DEF Fair, Served, Vouched
  <2>3. ASSUME r.pc \in {"work", "mark"}, r.id \notin gone' PROVE r.obj = held'[r.id]
    <3>1. r.obj = held[r.id] /\ r.obj \in Objects /\ r.id \in WeightIds
      BY <2>1, <2>3 DEF Fair, Served, Vouched
    <3> QED BY <2>3, <3>1, WeightAssumption DEF Grows, Objects
  <2>4. ASSUME r.pc \in {"work", "mark"}, r.id \notin gone', r.ctx \in weights[r.obj]
        PROVE  r.ctx \in weights'[r.obj]
    BY <2>4 DEF Fair, Served, Grows
  <2> QED BY <2>1, <2>2, <2>3, <2>4 DEF Fair, Vouched
<1>3. Written(r)'
  <2>1. ASSUME r.pc = "handles", NEW s \in WeightIds \ gone', r.plan[s] # NoObj
        PROVE  Absorbed(s, r.plan[s])'
    BY <2>1, AbsorbedStays DEF Fair, Written, Grows
  <2>2. ASSUME r.pc = "encode", NEW h \in r.todo, h[1] \notin gone'
        PROVE  r.plan[h[1]] \in weights'[h[2]]
    <3>1. h[2] \in Objects
      BY DEF Requests
    <3> QED BY <2>2, <3>1 DEF Fair, Written, Grows
  <2>3. r.pc \in {"digests", "handles", "encode", "rename"} => Coherent(r.file)'
    BY CoherentStays DEF Fair, Written
  <2> QED BY <2>1, <2>2, <2>3 DEF Written
<1> QED BY <1>1, <1>2, <1>3 DEF Fair

\* Nothing is counted twice: how many insert after a request has moved on.
LEMMA CrowdStays ==
  ASSUME WeightShape, Crowded, NEW c \in Callers, NEW r, caller' = [caller EXCEPT ![c] = r],
         r.pc # "insert", Resident' \subseteq Resident, crowd' = crowd
  PROVE  Crowded'
<1>1. Inserting' \subseteq Inserting
  BY DEF Inserting, WeightShape
<1>2. Inserting \subseteq Callers /\ Resident \subseteq WeightIds
  BY DEF Inserting, Resident
<1>3. Cardinality(Inserting') <= Cardinality(Inserting)
  BY <1>1, <1>2, Counting, FS_Subset
<1>4. Cardinality(Resident') <= Cardinality(Resident)
  BY <1>2, Counting
<1>5. /\ Cardinality(Inserting) \in Nat /\ Cardinality(Resident) \in Nat
      /\ Cardinality(Inserting') \in Nat /\ Cardinality(Resident') \in Nat
  BY <1>1, <1>2, Counting
<1> QED BY <1>3, <1>4, <1>5, WeightAssumption DEF Crowded, WeightShape

\* A request moves on while the rest grows.
LEMMA Advances ==
  ASSUME WeightInv, NEW c \in Callers, NEW r \in Requests, caller' = [caller EXCEPT ![c] = r],
         WeightShape', Grows, Fair(r)', Honest', Coherent(cache)', temp' # NoObj => Coherent(temp)',
         Crowded'
  PROVE  WeightInv'
<1>1. \A d \in Callers : caller[d] \in Requests /\ Fair(caller[d])
  BY DEF WeightInv, WeightShape
<1>2. ASSUME NEW d \in Callers PROVE Fair(caller[d])'
  <2>1. CASE d = c
    <3>1. caller'[d] = r
      BY <2>1 DEF WeightInv, WeightShape
    <3> QED BY <3>1 DEF Fair, Served, Vouched, Written, Absorbed, Coherent
  <2>2. CASE d # c
    <3>1. PICK q \in Requests : q = caller[d] /\ Fair(q)
      BY <1>1
    <3>2. Fair(q)'
      BY <3>1, FairStays DEF WeightInv
    <3>3. caller'[d] = q
      BY <2>2, <3>1 DEF WeightInv, WeightShape
    <3> QED BY <3>2, <3>3 DEF Fair, Served, Vouched, Written, Absorbed, Coherent
  <2> QED BY <2>1, <2>2
<1> QED BY <1>2 DEF WeightInv

\* Steps that change nothing but the request, the order of the stamps, the master and files.
LEMMA QuietAdvances ==
  ASSUME WeightInv, NEW c \in Callers, NEW r \in Requests, caller' = [caller EXCEPT ![c] = r],
         UNCHANGED <<held, weights, digest, gone, crowd>>, made' \in 0 .. MaxWeightCalls,
         r.pc # "insert", Fair(r), cache' \in CacheFiles, temp' \in CacheFiles \union {NoObj},
         Coherent(cache'), temp' # NoObj => Coherent(temp')
  PROVE  WeightInv'
<1>1. WeightShape'
  BY DEF WeightInv, WeightShape
<1>2. Grows
  BY DEF Grows
<1>3. Honest' /\ Fair(r)' /\ Coherent(cache)' /\ (temp' # NoObj => Coherent(temp)')
  BY DEF WeightInv, Honest, Absorbed, Fair, Served, Vouched, Written, Coherent
<1>4. Crowded'
  BY CrowdStays DEF WeightInv, Resident
<1> QED BY <1>1, <1>2, <1>3, <1>4, Advances

LEMMA RequestKnown ==
  ASSUME WeightInv, NEW c \in Callers
  PROVE  /\ caller[c] \in Requests /\ Fair(caller[c]) /\ WeightShape
         /\ Coherent(cache) /\ (temp # NoObj => Coherent(temp))
         /\ cache \in CacheFiles /\ temp \in CacheFiles \union {NoObj} /\ made \in 0 .. MaxWeightCalls
BY DEF WeightInv, WeightShape

LEMMA AwayFair == Fair(Away)
BY AwayFacts DEF Fair, Served, Vouched, Written

LEMMA GetKeeps ==
  ASSUME WeightInv, NEW c \in Callers, NEW s \in WeightIds, NEW x \in Contexts,
         Request(c, s, x) \/ Feedback(c, s, x) \/ Prefill(c, s, x)
  PROVE  WeightInv'
<1>1. /\ UNCHANGED <<held, weights, digest, cache, temp, gone, crowd>>
      /\ made' = made + 1 /\ made < MaxWeightCalls
      /\ \E adapt \in BOOLEAN, kind \in {"message", "prefill"} :
           /\ caller' = [caller EXCEPT ![c] = [Away EXCEPT !.pc = "get", !.id = s, !.ctx = x,
                                              !.kind = kind, !.adapt = adapt, !.call = made + 1]]
           /\ ~adapt => digest[s] = x
  BY AwayFacts DEF Request, Feedback, Prefill, Arrives, Moved, Away
<1>2. PICK adapt \in BOOLEAN, kind \in {"message", "prefill"} :
           /\ caller' = [caller EXCEPT ![c] = [Away EXCEPT !.pc = "get", !.id = s, !.ctx = x,
                                              !.kind = kind, !.adapt = adapt, !.call = made + 1]]
           /\ ~adapt => digest[s] = x
  BY <1>1
<1>3. made + 1 \in 0 .. MaxWeightCalls /\ made + 1 # 0
  BY <1>1, RequestKnown, WeightAssumption
<1>4. PICK r : r = [Away EXCEPT !.pc = "get", !.id = s, !.ctx = x,
                               !.kind = kind, !.adapt = adapt, !.call = made + 1]
  OBVIOUS
<1>5. /\ r \in Requests /\ r.pc = "get" /\ r.id = s /\ r.ctx = x /\ r.adapt = adapt /\ r.call = made + 1
  BY <1>3, <1>4, AwayFacts DEF Requests, Stages, Digests
<1>6. Fair(r)
  <2>1. ~adapt /\ s \notin gone => Absorbed(s, x)
    BY <1>2, WeightAssumption DEF WeightInv, Honest
  <2> QED BY <1>3, <1>5, <2>1 DEF Fair, Served, Vouched, Written
<1> QED BY <1>1, <1>2, <1>3, <1>4, <1>5, <1>6, RequestKnown, QuietAdvances

\* A request that has its object.
Holding(q, o) == [q EXCEPT !.pc = "work", !.obj = o, !.call = 0]

LEMMA AtWork ==
  ASSUME NEW q \in Requests, NEW o \in Objects
  PROVE  /\ Holding(q, o) \in Requests /\ Holding(q, o).pc = "work" /\ Holding(q, o).id = q.id
         /\ Holding(q, o).ctx = q.ctx /\ Holding(q, o).adapt = q.adapt /\ Holding(q, o).obj = o
<1>1. 0 \in 0 .. MaxWeightCalls
  BY WeightAssumption
<1>2. PICK ids : ids = 0 .. MaxWeightCalls
  OBVIOUS
<1>3. PICK some : some = Objects \union {NoObj}
  OBVIOUS
<1>4. "work" \in Stages
  BY DEF Stages
<1>5. Holding(q, o) \in Requests
  BY <1>1, <1>2, <1>3, <1>4 DEF Requests, Holding
<1> QED BY <1>5 DEF Requests, Holding

LEMMA FoundKeeps ==
  ASSUME WeightInv, NEW c \in Callers, Found(c)
  PROVE  WeightInv'
<1>1. PICK q \in Requests : q = caller[c] /\ Fair(q)
  BY RequestKnown
<1>2. /\ q.pc = "get" /\ held[q.id] # NoObj /\ q.id \in WeightIds
      /\ caller' = [caller EXCEPT ![c] = Holding(q, held[q.id])]
      /\ UNCHANGED <<held, weights, digest, cache, temp, made, gone, crowd>>
  BY <1>1 DEF Found, Moved, Holding, Fair, Served
<1>3. PICK r : r = Holding(q, held[q.id])
  OBVIOUS
<1>4. held[q.id] \in Objects
  BY <1>2 DEF WeightInv, WeightShape
<1>5. /\ r \in Requests /\ r.pc = "work" /\ r.id = q.id /\ r.ctx = q.ctx /\ r.adapt = q.adapt
      /\ r.obj = held[q.id]
  BY <1>3, <1>4, AtWork
<1>6. Fair(r)
  BY <1>1, <1>2, <1>4, <1>5 DEF Fair, Served, Vouched, Written, Absorbed
<1> QED BY <1>2, <1>3, <1>5, <1>6, RequestKnown, QuietAdvances

\* What leaves is gone; what stays is as it was.
LEMMA Left ==
  ASSUME WeightShape, NEW S, Leave(S), weights' = weights
  PROVE  /\ Grows /\ held' \in [WeightIds -> Objects \union {NoObj}]
         /\ Resident' = Resident \ S
         /\ \A s \in WeightIds \ gone' : s \notin gone /\ held'[s] = held[s]
BY DEF WeightShape, Leave, Grows, Resident

\* A request takes sessions out of the store and is told nothing of it.
LEMMA LeaveAdvances ==
  ASSUME WeightInv, NEW S, Leave(S), NEW c \in Callers, NEW r \in Requests,
         caller' = [caller EXCEPT ![c] = r], UNCHANGED <<weights, digest, cache, temp>>,
         made' \in 0 .. MaxWeightCalls, crowd' \in Nat, Fair(r)', Crowded'
  PROVE  WeightInv'
<1>1. /\ Grows /\ held' \in [WeightIds -> Objects \union {NoObj}]
      /\ \A s \in WeightIds \ gone' : s \notin gone /\ held'[s] = held[s]
  BY Left DEF WeightInv
<1>2. WeightShape'
  BY <1>1 DEF WeightInv, WeightShape
<1>3. Honest'
  BY <1>1 DEF WeightInv, Honest, Absorbed
<1>4. Coherent(cache)' /\ (temp' # NoObj => Coherent(temp)')
  BY <1>1, CoherentStays DEF WeightInv, Coherent
<1> QED BY <1>1, <1>2, <1>3, <1>4, Advances

LEMMA RoomKeeps ==
  ASSUME WeightInv, NEW c \in Callers, MakeRoom(c)
  PROVE  WeightInv'
<1>1. PICK q \in Requests : q = caller[c] /\ Fair(q)
  BY RequestKnown
<1> DEFINE others == Cardinality({d \in Callers : caller[d].pc = "insert"})
<1>2. /\ q.pc = "get" /\ held[q.id] = NoObj
      /\ crowd' = IF others > crowd THEN others ELSE crowd
      /\ caller' = [caller EXCEPT ![c] = [q EXCEPT !.pc = "insert"]]
      /\ UNCHANGED <<weights, digest, cache, temp, made>>
  BY <1>1 DEF MakeRoom, Goes, Moved
<1>3. PICK S \in Victims(q.id) : Leave(S)
  BY <1>1 DEF MakeRoom
<1>4. Cardinality(Resident \ S) < WeightCap
  BY <1>3 DEF Victims, Fits
<1>5. PICK r : r = [q EXCEPT !.pc = "insert"]
  OBVIOUS
<1>6. r \in Requests /\ r.pc = "insert" /\ r.id = q.id /\ r.ctx = q.ctx /\ r.adapt = q.adapt /\ r.call = q.call
  BY <1>5 DEF Requests, Stages
<1>7. /\ Grows /\ Resident' = Resident \ S
      /\ \A s \in WeightIds \ gone' : s \notin gone /\ held'[s] = held[s]
  BY <1>2, <1>3, Left DEF WeightInv
<1>8. Fair(r)'
  BY <1>1, <1>2, <1>6, <1>7 DEF Fair, Served, Vouched, Written, Absorbed
<1>9. Crowded' /\ crowd' \in Nat
  <2>1. /\ Inserting \subseteq Callers /\ IsFiniteSet(Inserting) /\ others = Cardinality(Inserting)
        /\ Cardinality(Inserting) \in Nat
    BY Counting DEF Inserting
  <2>2. Inserting' = Inserting \union {c} /\ c \notin Inserting
    BY <1>1, <1>2, <1>5, <1>6, RequestKnown DEF Inserting, WeightShape
  <2>3. Cardinality(Inserting') = Cardinality(Inserting) + 1
    BY <2>1, <2>2, FS_AddElement
  <2>4. Cardinality(Resident') < WeightCap /\ Cardinality(Resident') \in Nat
    BY <1>4, <1>7, Counting DEF Resident
  <2>5. crowd' \in Nat /\ crowd' >= Cardinality(Inserting)
    BY <1>2, <2>1, RequestKnown DEF WeightShape
  <2>6. Cardinality(Resident') + Cardinality(Inserting') <= WeightCap + crowd'
    BY <2>1, <2>3, <2>4, <2>5, WeightAssumption
  <2> QED BY <2>5, <2>6 DEF Crowded
<1> QED BY <1>2, <1>3, <1>5, <1>6, <1>8, <1>9, RequestKnown, LeaveAdvances

LEMMA PutKeeps ==
  ASSUME WeightInv, NEW c \in Callers, Insert(c)
  PROVE  WeightInv'
<1>1. PICK q \in Requests : q = caller[c] /\ Fair(q)
  BY RequestKnown
<1>2. PICK o : o = IF held[q.id] = NoObj THEN <<q.call, q.id>> ELSE held[q.id]
  OBVIOUS
<1>3. /\ q.pc = "insert" /\ q.id \in WeightIds /\ q.call # 0
      /\ held' = [held EXCEPT ![q.id] = o]
      /\ caller' = [caller EXCEPT ![c] = Holding(q, o)]
      /\ UNCHANGED <<weights, digest, cache, temp, made, gone, crowd>>
  BY <1>1, <1>2 DEF Insert, Moved, Holding, Fair, Served
<1>4. held \in [WeightIds -> Objects \union {NoObj}]
  BY RequestKnown DEF WeightShape
<1>5. o \in Objects /\ o # NoObj /\ (held[q.id] # NoObj => o = held[q.id])
  <2>1. q.call \in 1 .. MaxWeightCalls
    BY <1>3, WeightAssumption DEF Requests
  <2> QED BY <1>2, <1>3, <1>4, <2>1, WeightAssumption DEF Objects
<1>6. PICK r : r = Holding(q, o)
  OBVIOUS
<1>7. r \in Requests /\ r.pc = "work" /\ r.id = q.id /\ r.ctx = q.ctx /\ r.adapt = q.adapt /\ r.obj = o
  BY <1>5, <1>6, AtWork
<1>8. held' \in [WeightIds -> Objects \union {NoObj}] /\ held'[q.id] = o
      /\ \A s \in WeightIds : held[s] # NoObj => held'[s] = held[s]
  BY <1>3, <1>4, <1>5
<1>9. Grows
  BY <1>3, <1>8 DEF Grows
<1>10. WeightShape'
  <2>1. caller' \in [Callers -> Requests]
    BY <1>3, <1>6, <1>7, RequestKnown DEF WeightShape
  <2> QED BY <1>3, <1>8, <2>1, RequestKnown DEF WeightShape
<1>11. Fair(r)'
  BY <1>1, <1>3, <1>5, <1>7, <1>8 DEF Fair, Served, Vouched, Written, Absorbed
<1>12. Honest'
  BY <1>3, <1>8 DEF WeightInv, Honest, Absorbed
<1>13. Coherent(cache)' /\ (temp' # NoObj => Coherent(temp)')
  BY <1>3, RequestKnown DEF Coherent
<1>14. Crowded'
  <2>1. Inserting' = Inserting \ {c} /\ c \in Inserting /\ Inserting \subseteq Callers
    BY <1>1, <1>3, <1>6, <1>7, RequestKnown DEF Inserting, WeightShape
  <2>2. Cardinality(Inserting') = Cardinality(Inserting) - 1
    BY <2>1, Counting, FS_RemoveElement
  <2>3. Resident' = Resident \union {q.id} /\ Resident \subseteq WeightIds
    BY <1>3, <1>4, <1>5, <1>8 DEF Resident
  <2>4. Cardinality(Resident') <= Cardinality(Resident) + 1
    BY <1>3, <2>3, Counting, FS_AddElement
  <2>5. /\ Cardinality(Resident) \in Nat /\ Cardinality(Inserting) \in Nat
        /\ Cardinality(Resident') \in Nat /\ Cardinality(Inserting') \in Nat
    BY <1>3, <2>1, <2>3, Counting
  <2>6. crowd \in Nat /\ crowd' = crowd /\ Crowded
    BY <1>3, RequestKnown DEF WeightInv, WeightShape
  <2> QED BY <2>2, <2>4, <2>5, <2>6, WeightAssumption DEF Crowded
<1> QED BY <1>3, <1>6, <1>7, <1>9, <1>10, <1>11, <1>12, <1>13, <1>14, Advances

LEMMA AdaptKeeps ==
  ASSUME WeightInv, NEW c \in Callers, Adapt(c)
  PROVE  WeightInv'
<1>1. PICK q \in Requests : q = caller[c] /\ Fair(q)
  BY RequestKnown
<1>2. PICK r : r = IF q.kind = "prefill" THEN Away ELSE [q EXCEPT !.pc = "mark"]
  OBVIOUS
<1>3. /\ q.pc = "work" /\ q.obj \in Objects /\ q.id \in WeightIds /\ q.ctx \in Contexts
      /\ weights' = [weights EXCEPT ![q.obj] = @ \union {q.ctx}]
      /\ caller' = [caller EXCEPT ![c] = r]
      /\ UNCHANGED <<held, digest, cache, temp, made, gone, crowd>>
  BY <1>1, <1>2 DEF Adapt, Goes, Moved, Fair, Served
<1>4. /\ r \in Requests
      /\ r = Away \/ (r.pc = "mark" /\ r.id = q.id /\ r.ctx = q.ctx /\ r.obj = q.obj)
  BY <1>2, AwayFacts DEF Requests, Stages
<1>5. weights' \in [Objects -> SUBSET Contexts] /\ q.ctx \in weights'[q.obj]
      /\ \A o \in Objects : weights[o] \subseteq weights'[o]
  BY <1>3, RequestKnown DEF WeightShape
<1>6. Grows
  BY <1>3, <1>5 DEF Grows
<1>7. WeightShape'
  <2>1. caller' \in [Callers -> Requests]
    BY <1>3, <1>4, RequestKnown DEF WeightShape
  <2> QED BY <1>3, <1>5, <2>1, RequestKnown DEF WeightShape
<1>8. Fair(r)'
  <2>1. CASE r = Away
    BY <2>1, AwayFacts DEF Fair, Served, Vouched, Written
  <2>2. CASE r.pc = "mark" /\ r.id = q.id /\ r.ctx = q.ctx /\ r.obj = q.obj
    BY <1>1, <1>3, <1>5, <2>2 DEF Fair, Served, Vouched, Written
  <2> QED BY <1>4, <2>1, <2>2
<1>9. Honest'
  <2>1. ASSUME NEW s \in WeightIds \ gone, digest[s] # NoObj PROVE Absorbed(s, digest[s])'
    BY <1>3, <1>6, <2>1, AbsorbedStays, RequestKnown DEF WeightInv, Honest, Absorbed, Grows
  <2> QED BY <1>3, <2>1 DEF Honest, Absorbed
<1>10. Coherent(cache)' /\ (temp' # NoObj => Coherent(temp)')
  BY <1>3, RequestKnown DEF Coherent
<1>11. Crowded'
  BY <1>3, <1>4, CrowdStays, AwayFacts DEF WeightInv, Resident
<1> QED BY <1>3, <1>4, <1>6, <1>7, <1>8, <1>9, <1>10, <1>11, Advances

\* A request that ends, or fails, and leaves everything else as it is.
LEMMA EndsQuietly ==
  ASSUME WeightInv, NEW c \in Callers, AdaptFails(c) \/ Reuse(c)
  PROVE  WeightInv'
<1>1. /\ UNCHANGED <<held, weights, digest, gone, crowd>> /\ UNCHANGED <<cache, temp, made>>
      /\ caller' = [caller EXCEPT ![c] = Away]
  BY DEF AdaptFails, Reuse, Moved
<1> QED BY <1>1, RequestKnown, AwayFacts, AwayFair, QuietAdvances

LEMMA MarkKeeps ==
  ASSUME WeightInv, NEW c \in Callers, Mark(c)
  PROVE  WeightInv'
<1>1. PICK q \in Requests : q = caller[c] /\ Fair(q)
  BY RequestKnown
<1>2. PICK kept \in {digest, [s \in WeightIds |-> NoObj]} : digest' = [kept EXCEPT ![q.id] = q.ctx]
  BY <1>1 DEF Mark
<1>3. PICK r : r = [Away EXCEPT !.pc = "digests"]
  OBVIOUS
<1>4. /\ q.pc = "mark" /\ q.obj \in Objects /\ q.id \in WeightIds /\ q.ctx \in Contexts
      /\ caller' = [caller EXCEPT ![c] = r]
      /\ UNCHANGED <<held, weights, cache, temp, made, gone, crowd>>
  BY <1>1, <1>3 DEF Mark, Moved, Fair, Served
<1>5. r \in Requests /\ r.pc = "digests" /\ r.file = NothingSaved
  BY <1>3, AwayFacts DEF Requests, Stages
<1>6. kept \in [WeightIds -> Digests] /\ \A s \in WeightIds : kept[s] = digest[s] \/ kept[s] = NoObj
  BY RequestKnown DEF WeightShape, Digests
<1>7. digest' \in [WeightIds -> Digests] /\ digest'[q.id] = q.ctx
      /\ \A s \in WeightIds : s # q.id => digest'[s] = digest[s] \/ digest'[s] = NoObj
  BY <1>2, <1>4, <1>6 DEF Digests
<1>8. WeightShape'
  <2>1. caller' \in [Callers -> Requests]
    BY <1>4, <1>5, RequestKnown DEF WeightShape
  <2> QED BY <1>4, <1>7, <2>1, RequestKnown DEF WeightShape
<1>9. Grows
  BY <1>4 DEF Grows
<1>10. Fair(r)'
  BY <1>5, AwayFacts DEF Fair, Served, Vouched, Written, Coherent
<1>11. Honest'
  <2>1. ASSUME NEW s \in WeightIds \ gone, digest'[s] # NoObj PROVE Absorbed(s, digest'[s])
    <3>1. CASE s = q.id
      <4>1. q.obj = held[q.id] /\ q.ctx \in weights[q.obj]
        BY <1>1, <1>4, <2>1, <3>1 DEF Fair, Vouched
      <4> QED BY <1>4, <1>7, <3>1, <4>1, WeightAssumption DEF Absorbed, Objects
    <3>2. CASE s # q.id
      BY <1>7, <2>1, <3>2 DEF WeightInv, Honest
    <3> QED BY <3>1, <3>2
  <2> QED BY <1>4, <2>1 DEF Honest, Absorbed
<1>12. Coherent(cache)' /\ (temp' # NoObj => Coherent(temp)')
  BY <1>4, RequestKnown DEF Coherent
<1>13. Crowded'
  BY <1>4, <1>5, CrowdStays DEF WeightInv, Resident
<1> QED BY <1>4, <1>5, <1>8, <1>9, <1>10, <1>11, <1>12, <1>13, Advances

LEMMA CloneKeeps ==
  ASSUME WeightInv, NEW c \in Callers, CloneDigests(c)
  PROVE  WeightInv'
<1>1. PICK q \in Requests : q = caller[c] /\ Fair(q)
  BY RequestKnown
<1>2. /\ q.pc = "digests"
      /\ UNCHANGED <<held, weights, digest, gone, crowd>> /\ UNCHANGED <<cache, temp, made>>
  BY <1>1 DEF CloneDigests
<1>3. CASE caller' = [caller EXCEPT ![c] = Away]
  BY <1>2, <1>3, RequestKnown, AwayFacts, AwayFair, QuietAdvances
<1>4. CASE caller' = [caller EXCEPT ![c] = [q EXCEPT !.pc = "handles", !.plan = digest]]
  <2>1. PICK r : r = [q EXCEPT !.pc = "handles", !.plan = digest]
    OBVIOUS
  <2>2. r \in Requests
    BY <2>1, RequestKnown DEF WeightShape, Requests, Stages
  <2>3. r.pc = "handles" /\ r.plan = digest /\ r.file = q.file
    BY <2>1 DEF Requests
  <2>4. Fair(r)
    BY <1>1, <1>2, <2>3 DEF WeightInv, Honest, Fair, Served, Vouched, Written
  <2> QED BY <1>2, <1>4, <2>1, <2>2, <2>3, <2>4, RequestKnown, QuietAdvances
<1> QED BY <1>1, <1>3, <1>4 DEF CloneDigests, Moved

LEMMA SnapshotKeeps ==
  ASSUME WeightInv, NEW c \in Callers, SnapshotHandles(c)
  PROVE  WeightInv'
<1>1. PICK q \in Requests : q = caller[c] /\ Fair(q)
  BY RequestKnown
<1>2. PICK hs : hs = Handles({s \in WeightIds : q.plan[s] # NoObj})
  OBVIOUS
<1>3. PICK r : r = [q EXCEPT !.pc = "encode", !.todo = hs]
  OBVIOUS
<1>4. /\ q.pc = "handles" /\ caller' = [caller EXCEPT ![c] = r]
      /\ UNCHANGED <<held, weights, digest, gone, crowd>> /\ UNCHANGED <<cache, temp, made>>
  BY <1>1, <1>2, <1>3 DEF SnapshotHandles, Moved
<1>5. \A h \in hs : \E s \in WeightIds : h = <<s, held[s]>> /\ held[s] \in Objects /\ q.plan[s] # NoObj
  BY <1>2, RequestKnown DEF Handles, Resident, WeightShape
<1>6. hs \in SUBSET (WeightIds \X Objects)
  BY <1>5
<1>7. r \in Requests
  BY <1>3, <1>6 DEF Requests, Stages
<1>8. r.pc = "encode" /\ r.todo = hs /\ r.plan = q.plan /\ r.file = q.file
  BY <1>3 DEF Requests
<1>9. ASSUME NEW h \in hs, h[1] \notin gone PROVE q.plan[h[1]] \in weights[h[2]]
  <2>1. PICK s \in WeightIds : h = <<s, held[s]>> /\ q.plan[s] # NoObj
    BY <1>5
  <2>2. s \notin gone /\ Absorbed(s, q.plan[s])
    BY <1>1, <1>4, <1>9, <2>1 DEF Fair, Written
  <2> QED BY <2>1, <2>2 DEF Absorbed
<1>10. Fair(r)
  BY <1>1, <1>4, <1>8, <1>9 DEF Fair, Served, Vouched, Written
<1> QED BY <1>4, <1>7, <1>8, <1>10, RequestKnown, QuietAdvances

LEMMA EncodeKeeps ==
  ASSUME WeightInv, NEW c \in Callers, Encode(c)
  PROVE  WeightInv'
<1>1. PICK q \in Requests : q = caller[c] /\ Fair(q)
  BY RequestKnown
<1>2. PICK h \in q.todo :
        caller' = [caller EXCEPT ![c] = [q EXCEPT !.todo = @ \ {h}, !.file = [@ EXCEPT ![h[1]] = Entry(c, h)]]]
  BY <1>1 DEF Encode, Moved
<1>3. PICK e : e = [digest |-> q.plan[h[1]], got |-> weights[h[2]]]
  OBVIOUS
<1>4. PICK file : file = [q.file EXCEPT ![h[1]] = e]
  OBVIOUS
<1>5. PICK r : r = [q EXCEPT !.todo = @ \ {h}, !.file = file]
  OBVIOUS
<1>6. /\ q.pc = "encode"
      /\ UNCHANGED <<held, weights, digest, gone, crowd>> /\ UNCHANGED <<cache, temp, made>>
  BY <1>1 DEF Encode
<1>7. e = Entry(c, h)
  BY <1>1, <1>3 DEF Entry
<1>8. q.file \in CacheFiles /\ q.todo \in SUBSET (WeightIds \X Objects) /\ q.plan \in [WeightIds -> Digests]
  BY DEF Requests
<1>9. caller' = [caller EXCEPT ![c] = r]
  BY <1>2, <1>4, <1>5, <1>7, <1>8 DEF Requests
<1>10. h[1] \in WeightIds /\ h[2] \in Objects
  BY <1>8
<1>11. e \in SavedEntries
  BY <1>3, <1>8, <1>10, RequestKnown DEF SavedEntries, WeightShape
<1>12. file \in CacheFiles /\ file[h[1]] = e /\ \A s \in WeightIds : s # h[1] => file[s] = q.file[s]
  BY <1>4, <1>8, <1>10, <1>11 DEF CacheFiles
<1>13. r \in Requests
  BY <1>5, <1>8, <1>12 DEF Requests
<1>14. r.pc = "encode" /\ r.todo \subseteq q.todo /\ r.plan = q.plan /\ r.file = file
  BY <1>5, <1>6 DEF Requests
<1>15. Coherent(file)
  <2>1. ASSUME NEW s \in WeightIds \ gone, file[s] # NoEntry PROVE file[s].digest \in file[s].got
    <3>1. CASE s = h[1]
      BY <1>1, <1>3, <1>6, <1>12, <3>1 DEF Fair, Written
    <3>2. CASE s # h[1]
      BY <1>1, <1>6, <1>12, <2>1, <3>2 DEF Fair, Written, Coherent
    <3> QED BY <3>1, <3>2
  <2> QED BY <2>1 DEF Coherent
<1>16. Fair(r)
  BY <1>1, <1>6, <1>14, <1>15 DEF Fair, Served, Vouched, Written
<1> QED BY <1>6, <1>9, <1>13, <1>14, <1>16, RequestKnown, QuietAdvances

LEMMA CacheWriteKeeps ==
  ASSUME WeightInv, NEW c \in Callers, WriteTemp(c)
  PROVE  WeightInv'
<1>1. PICK q \in Requests : q = caller[c] /\ Fair(q)
  BY RequestKnown
<1>2. PICK r : r = [q EXCEPT !.pc = "rename"]
  OBVIOUS
<1>3. /\ q.pc = "encode" /\ temp' = q.file /\ caller' = [caller EXCEPT ![c] = r]
      /\ UNCHANGED <<held, weights, digest, gone, crowd>> /\ UNCHANGED <<cache, made>>
  BY <1>1, <1>2 DEF WriteTemp, Goes, Moved
<1>4. q.file \in CacheFiles
  BY DEF Requests
<1>5. r \in Requests
  BY <1>2 DEF Requests, Stages
<1>6. r.pc = "rename" /\ r.file = q.file
  BY <1>2 DEF Requests
<1>7. Coherent(q.file)
  BY <1>1, <1>3 DEF Fair, Written
<1>8. Fair(r)
  BY <1>6, <1>7 DEF Fair, Served, Vouched, Written
<1> QED BY <1>3, <1>4, <1>5, <1>6, <1>7, <1>8, RequestKnown, QuietAdvances

LEMMA RenameKeeps ==
  ASSUME WeightInv, NEW c \in Callers, Rename(c)
  PROVE  WeightInv'
<1>1. /\ caller' = [caller EXCEPT ![c] = Away]
      /\ UNCHANGED <<held, weights, digest, gone, crowd>> /\ made' = made
      /\ \/ temp # NoObj /\ cache' = temp /\ temp' = NoObj
         \/ cache' = cache /\ temp' = temp
  BY DEF Rename, Moved
<1> QED BY <1>1, RequestKnown, AwayFacts, AwayFair, QuietAdvances

LEMMA DropKeeps ==
  ASSUME WeightInv, NEW c \in Callers, NEW s \in WeightIds, Drop(c, s)
  PROVE  WeightInv'
<1>1. PICK r : r = [Away EXCEPT !.pc = "fold", !.kind = "drop", !.todo = Handles({s}), !.call = 0]
  OBVIOUS
<1>2. /\ Leave({s}) /\ UNCHANGED <<weights, digest, cache, temp>> /\ crowd' = crowd
      /\ made' = made + 1 /\ made < MaxWeightCalls /\ held[s] # NoObj
      /\ caller' = [caller EXCEPT ![c] = r]
  BY <1>1, AwayFacts DEF Drop, Arrives, Moved, Away
<1>3. Handles({s}) \in SUBSET (WeightIds \X Objects)
  BY RequestKnown DEF Handles, Resident, WeightShape
<1>4. r \in Requests /\ r.pc = "fold"
  <2>1. 0 \in 0 .. MaxWeightCalls /\ Away.call = 0
    BY AwayFacts, WeightAssumption
  <2>2. r = [Away EXCEPT !.pc = "fold", !.kind = "drop", !.todo = Handles({s})]
    BY <1>1, <2>1, AwayFacts DEF Requests
  <2>3. "fold" \in Stages
    BY DEF Stages
  <2>4. r \in Requests
    BY <1>3, <2>2, <2>3, AwayFacts DEF Requests
  <2> QED BY <2>2, <2>4, AwayFacts DEF Requests
<1>5. made' \in 0 .. MaxWeightCalls /\ crowd' \in Nat
  BY <1>2, RequestKnown, WeightAssumption DEF WeightShape
<1>6. Fair(r)'
  BY <1>4 DEF Fair, Served, Vouched, Written
<1>7. Crowded'
  <2>1. Resident' \subseteq Resident
    BY <1>2, Left, RequestKnown
  <2> QED BY <1>2, <1>4, <2>1, CrowdStays, RequestKnown DEF WeightInv
<1> QED BY <1>2, <1>4, <1>5, <1>6, <1>7, LeaveAdvances

LEMMA ClearKeeps ==
  ASSUME WeightInv, NEW c \in Callers, Clear(c)
  PROVE  WeightInv'
<1>1. PICK r : r = [Away EXCEPT !.pc = "fold", !.kind = "clear", !.todo = Handles(WeightIds), !.call = 0]
  OBVIOUS
<1>2. /\ UNCHANGED <<held, weights, digest, gone, crowd>> /\ UNCHANGED <<cache, temp>>
      /\ made' = made + 1 /\ made < MaxWeightCalls
      /\ caller' = [caller EXCEPT ![c] = r]
  BY <1>1, AwayFacts DEF Clear, Arrives, Moved, Away
<1>3. Handles(WeightIds) \in SUBSET (WeightIds \X Objects)
  BY RequestKnown DEF Handles, Resident, WeightShape
<1>4. r \in Requests /\ r.pc = "fold"
  <2>1. 0 \in 0 .. MaxWeightCalls /\ Away.call = 0
    BY AwayFacts, WeightAssumption
  <2>2. r = [Away EXCEPT !.pc = "fold", !.kind = "clear", !.todo = Handles(WeightIds)]
    BY <1>1, <2>1, AwayFacts DEF Requests
  <2>3. "fold" \in Stages
    BY DEF Stages
  <2>4. r \in Requests
    BY <1>3, <2>2, <2>3, AwayFacts DEF Requests
  <2> QED BY <2>2, <2>4, AwayFacts DEF Requests
<1>5. made' \in 0 .. MaxWeightCalls
  BY <1>2, RequestKnown, WeightAssumption
<1>6. Fair(r)
  BY <1>4 DEF Fair, Served, Vouched, Written
<1> QED BY <1>2, <1>4, <1>5, <1>6, RequestKnown, QuietAdvances

LEMMA FoldKeeps ==
  ASSUME WeightInv, NEW c \in Callers, Fold(c)
  PROVE  WeightInv'
<1>1. PICK q \in Requests : q = caller[c] /\ Fair(q)
  BY RequestKnown
<1>2. PICK h \in q.todo : caller' = [caller EXCEPT ![c] = [q EXCEPT !.todo = @ \ {h}]]
  BY <1>1 DEF Fold, Moved
<1>3. PICK r : r = [q EXCEPT !.todo = @ \ {h}]
  OBVIOUS
<1>4. /\ q.pc = "fold" /\ UNCHANGED <<held, weights, digest, gone, crowd>> /\ UNCHANGED <<cache, temp, made>>
  BY <1>1 DEF Fold
<1>5. r \in Requests /\ r.pc = "fold"
  BY <1>3, <1>4 DEF Requests
<1>6. Fair(r)
  BY <1>5 DEF Fair, Served, Vouched, Written
<1> QED BY <1>2, <1>3, <1>4, <1>5, <1>6, RequestKnown, QuietAdvances

LEMMA FoldedKeeps ==
  ASSUME WeightInv, NEW c \in Callers, Folded(c)
  PROVE  WeightInv'
<1>1. /\ caller' = [caller EXCEPT ![c] = Away]
      /\ UNCHANGED <<weights, digest, cache, temp>> /\ made' = made /\ crowd' = crowd
      /\ Leave(WeightIds) \/ UNCHANGED <<held, recent, gone>>
  BY DEF Folded, Moved
<1>2. CASE Leave(WeightIds)
  <2>1. Resident' \subseteq Resident
    BY <1>1, <1>2, Left, RequestKnown
  <2>2. Crowded'
    BY <1>1, <2>1, CrowdStays, AwayFacts DEF WeightInv
  <2>3. Fair(Away)'
    BY AwayFacts DEF Fair, Served, Vouched, Written
  <2>4. made' \in 0 .. MaxWeightCalls /\ crowd' \in Nat
    BY <1>1, RequestKnown DEF WeightShape
  <2> QED BY <1>1, <1>2, <2>2, <2>3, <2>4, AwayFacts, LeaveAdvances
<1>3. CASE UNCHANGED <<held, recent, gone>>
  BY <1>1, <1>3, RequestKnown, AwayFacts, AwayFair, QuietAdvances
<1> QED BY <1>1, <1>2, <1>3

\* The next process trusts the file, and the file is coherent.
LEMMA RestartKeeps ==
  ASSUME WeightInv, Restart
  PROVE  WeightInv'
<1>1. PICK S \in SUBSET Saved :
        /\ Cardinality(S) = (IF WeightCap < Cardinality(Saved) THEN WeightCap ELSE Cardinality(Saved))
        /\ held' = [s \in WeightIds |-> IF s \in S THEN <<made + 1, s>> ELSE NoObj]
        /\ weights' = [o \in Objects |-> IF o[1] = made + 1 /\ o[2] \in S THEN cache[o[2]].got ELSE {}]
        /\ gone' = gone \union (Saved \ S)
  BY DEF Restart
<1>2. /\ made' = made + 1 /\ made < MaxWeightCalls /\ caller' = [c \in Callers |-> Away]
      /\ digest' = [s \in WeightIds |-> cache[s].digest] /\ UNCHANGED <<cache, temp, crowd>>
  BY DEF Restart
<1>3. /\ cache \in CacheFiles /\ temp \in CacheFiles \union {NoObj} /\ made \in 0 .. MaxWeightCalls
      /\ crowd \in Nat /\ Coherent(cache) /\ (temp # NoObj => Coherent(temp))
  BY DEF WeightInv, WeightShape
<1>4. S \subseteq WeightIds /\ Saved \subseteq WeightIds
  BY DEF Saved
<1>5. made + 1 \in 1 .. MaxWeightCalls /\ made' \in 0 .. MaxWeightCalls
  BY <1>2, <1>3, WeightAssumption
<1>6. \A s \in WeightIds : <<made + 1, s>> \in Objects /\ <<made + 1, s>> # NoObj
  BY <1>5, WeightAssumption DEF Objects
<1>7. \A s \in WeightIds : cache[s].digest \in Digests /\ cache[s].got \in SUBSET Contexts
  BY <1>3 DEF CacheFiles, SavedEntries
<1>8. WeightShape'
  <2>1. held' \in [WeightIds -> Objects \union {NoObj}]
    BY <1>1, <1>6
  <2>2. weights' \in [Objects -> SUBSET Contexts]
    BY <1>1, <1>4, <1>7
  <2>3. digest' \in [WeightIds -> Digests]
    BY <1>2, <1>7
  <2>4. caller' \in [Callers -> Requests]
    BY <1>2, AwayFacts
  <2> QED BY <1>2, <1>3, <1>5, <2>1, <2>2, <2>3, <2>4 DEF WeightShape
<1>9. Honest'
  <2>1. ASSUME NEW s \in WeightIds \ gone', digest'[s] # NoObj PROVE Absorbed(s, digest[s])'
    <3>1. cache[s] # NoEntry /\ s \in S /\ s \notin gone /\ digest'[s] = cache[s].digest
      BY <1>1, <1>2, <2>1 DEF NoEntry, Saved
    <3>2. cache[s].digest \in cache[s].got
      BY <1>3, <3>1 DEF Coherent
    <3>3. held'[s] = <<made + 1, s>> /\ <<made + 1, s>> \in Objects /\ held'[s] # NoObj
      BY <1>1, <1>6, <3>1
    <3>4. weights'[<<made + 1, s>>] = cache[s].got
      BY <1>1, <3>1, <3>3
    <3>5. held'[s] # NoObj /\ digest'[s] \in weights'[held'[s]]
      BY <3>1, <3>2, <3>3, <3>4
    <3> QED BY <3>5 DEF Absorbed
  <2> QED BY <2>1 DEF Honest
<1>10. Coherent(cache)' /\ (temp' # NoObj => Coherent(temp)')
  BY <1>1, <1>2, <1>3 DEF Coherent
<1>11. \A c \in Callers : Fair(caller[c])'
  BY <1>2, AwayFacts DEF Fair, Served, Vouched, Written
<1>12. Crowded'
  <2>1. Inserting' = {}
    BY <1>2, AwayFacts DEF Inserting
  <2>2. Resident' = S
    BY <1>1, <1>4, <1>6 DEF Resident
  <2>3. Cardinality(S) <= WeightCap /\ Cardinality(S) \in Nat
    BY <1>1, <1>4, Counting, WeightAssumption
  <2>4. Cardinality(Inserting') = 0
    BY <2>1, FS_EmptySet
  <2> QED BY <1>2, <1>3, <2>2, <2>3, <2>4, WeightAssumption DEF Crowded
<1> QED BY <1>8, <1>9, <1>10, <1>11, <1>12 DEF WeightInv

\* Nothing a request, a restart or a stutter does breaks the invariant.
LEMMA WeightStep ==
  ASSUME WeightInv, [WeightNext]_weightVars
  PROVE  WeightInv'
<1>1. ASSUME NEW c \in Callers, Serve(c) PROVE WeightInv'
  BY <1>1, FoundKeeps, RoomKeeps, PutKeeps, AdaptKeeps, EndsQuietly, MarkKeeps, CloneKeeps,
     SnapshotKeeps, EncodeKeeps, CacheWriteKeeps, RenameKeeps, FoldKeeps, FoldedKeeps DEF Serve
<1>2. ASSUME NEW c \in Callers, NEW s \in WeightIds, Drop(c, s) PROVE WeightInv'
  BY <1>2, DropKeeps
<1>3. ASSUME NEW c \in Callers, NEW s \in WeightIds, NEW x \in Contexts,
             Request(c, s, x) \/ Feedback(c, s, x) \/ Prefill(c, s, x)
      PROVE  WeightInv'
  BY <1>3, GetKeeps
<1>4. ASSUME UNCHANGED weightVars PROVE WeightInv'
  BY <1>4 DEF weightVars, WeightInv, WeightShape, Honest, Absorbed, Coherent, Fair, Served, Vouched,
              Written, Crowded, Resident, Inserting
<1> QED BY <1>1, <1>2, <1>3, <1>4, ClearKeeps, RestartKeeps DEF WeightNext

LEMMA WeightStart ==
  ASSUME WeightInit
  PROVE  WeightInv
<1>1. WeightShape
  BY AwayFacts, WeightAssumption DEF WeightInit, WeightShape, Digests
<1>2. Honest
  BY DEF WeightInit, Honest
<1>3. Coherent(cache) /\ temp = NoObj
  BY AwayFacts DEF WeightInit, Coherent
<1>4. \A c \in Callers : Fair(caller[c])
  BY AwayFacts, AwayFair DEF WeightInit
<1>5. Crowded
  <2>1. Inserting = {} /\ Resident = {}
    BY AwayFacts DEF WeightInit, Inserting, Resident
  <2> QED BY <2>1, FS_EmptySet, WeightAssumption DEF WeightInit, Crowded
<1> QED BY <1>1, <1>2, <1>3, <1>4, <1>5 DEF WeightInv

LEMMA WeightGives == WeightInv => WeightsSound
<1> SUFFICES ASSUME WeightInv PROVE WeightsSound
  OBVIOUS
<1>1. ReuseUnlessGone
  BY DEF WeightInv, Fair, Vouched, ReuseUnlessGone, Reusing
<1>2. CacheCoherent
  BY DEF WeightInv, Coherent, CacheCoherent
<1>3. CapOverrun
  <2>1. Inserting \subseteq Callers /\ Resident \subseteq WeightIds
    BY DEF Inserting, Resident
  <2>2. Cardinality(Inserting) \in Nat /\ Cardinality(Resident) \in Nat
    BY <2>1, Counting
  <2> QED BY <2>2, WeightAssumption DEF WeightInv, WeightShape, Crowded, CapOverrun
<1> QED BY <1>1, <1>2, <1>3 DEF WeightsSound

\* Whatever requests overlap, fail or are cut off by a restart: who skips the adaptation
\* of a session that was never dropped holds weights that absorbed its context, the file
\* pairs no digest with weights that lack its context, and the store is over its cap by no
\* more than the requests that were building while another made room.
THEOREM WeightsSoundCorrect == WeightSpec => []WeightsSound
<1>1. WeightInit => WeightInv
  BY WeightStart
<1>2. WeightInv /\ [WeightNext]_weightVars => WeightInv'
  BY WeightStep
<1> QED BY <1>1, <1>2, WeightGives, PTL DEF WeightSpec

------------------------------------------------------------------------------
(* The node as one run checks it *)

\* A step of the node is a step of each part, or none of it.
LEMMA NodeStep ==
  ASSUME SessInv, WeightInv, [StateNext]_<<part, sessVars, weightVars, exchangeVars, vars>>
  PROVE  SessInv' /\ WeightInv'
<1>1. [SessNext]_sessVars /\ [WeightNext]_weightVars
  BY DEF StateNext
<1> QED BY <1>1, SessInvStep, WeightStep

\* The state of a node that its run checks as one: the table's types and the weights.
THEOREM NodeSoundCorrect == StateSpec => []NodeSound
<1>1. StateInit => SessInv /\ WeightInv
  BY SessStart, WeightStart DEF StateInit
<1>2. SessInv /\ WeightInv /\ [StateNext]_<<part, sessVars, weightVars, exchangeVars, vars>>
      => SessInv' /\ WeightInv'
  BY NodeStep
<1>3. SessInv /\ WeightInv => NodeSound
  BY RangesHold, WeightGives DEF NodeSound
<1>4. StateSpec => StateInit /\ [][StateNext]_<<part, sessVars, weightVars, exchangeVars, vars>>
  BY PTL DEF StateSpec
<1> QED BY <1>1, <1>2, <1>3, <1>4, PTL

==============================================================================
