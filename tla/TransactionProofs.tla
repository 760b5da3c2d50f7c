-------------------------- MODULE TransactionProofs --------------------------
(***************************************************************************)
(* Lemmas about one transaction, for any paths, contents, edit sets and    *)
(* faults: what each of its steps may touch, and that undoing it brings    *)
(* the tree back when only writes can fail.  NodeProofs and ControlProofs  *)
(* rest on them.                                                           *)
(***************************************************************************)
EXTENDS Transaction, TLAPS

FileEdits  == [path : Paths, content : Contents]
Snapped    == (Held \ {Dir}) \union {NotTaken}
Trees      == [Paths -> Held]
SnapTables == [Paths -> Snapped]

\* An open transaction: a path it has taken a snapshot of is no directory.
TxShape ==
  /\ files \in Trees /\ before \in Trees
  /\ edits \in Seq(FileEdits) /\ edits \in EditSets \union {<<>>} /\ done \in 0 .. Len(edits)
  /\ snap \in SnapTables
  /\ \A p \in Paths : snap[p] # NotTaken => files[p] # Dir

Named(p) == \E i \in DOMAIN edits : edits[i].path = p

\* What every step of a transaction respects: directories stay directories, and
\* a path that was neither saved nor named keeps what it holds.
Respects ==
  /\ files' \in Trees
  /\ \A p \in Paths : files'[p] = Dir <=> files[p] = Dir
  /\ \A p \in Paths : snap[p] = NotTaken /\ ~Named(p) => files'[p] = files[p]

-----------------------------------------------------------------------------
(* Transactions *)

LEMMA HeldKinds ==
  /\ Absent \in Snapped /\ Partial \in Snapped /\ Contents \subseteq Snapped
  /\ Dir \notin Snapped /\ NotTaken \notin Held /\ Held \ {Dir} \subseteq Snapped
  /\ \A E \in EditSets \union {<<>>} : E \in Seq(FileEdits)
<1>1. /\ Absent \notin Contents /\ Dir \notin Contents /\ NotTaken \notin Contents
      /\ Absent # Dir /\ Partial # Dir /\ NotTaken \notin {Absent, Dir, Partial}
  BY TransactionAssumption
<1>2. \A E \in EditSets \union {<<>>} : E \in Seq(FileEdits)
  <2>1. EditSets \subseteq Seq(FileEdits)
    BY TransactionAssumption, Zenon DEF FileEdits
  <2>2. <<>> \in Seq(FileEdits)
    OBVIOUS
  <2> QED BY <2>1, <2>2, Zenon
<1> QED BY <1>1, <1>2 DEF Held, Snapped

LEMMA NextEdit ==
  ASSUME TxShape, done < Len(edits)
  PROVE  /\ edits[done + 1] \in FileEdits /\ Named(edits[done + 1].path)
         /\ done + 1 \in 0 .. Len(edits)
<1>1. done + 1 \in DOMAIN edits /\ done + 1 \in 0 .. Len(edits)
  BY DEF TxShape
<1> QED BY <1>1 DEF TxShape, Named

LEMMA SeenKinds ==
  ASSUME files \in Trees, NEW p \in Paths, NEW o \in Seen(p)
  PROVE  /\ o \in Snapped /\ o # NotTaken
         /\ files[p] = Dir => o = Absent
         /\ "read" \notin Faults /\ files[p] # Dir => o = files[p]
BY HeldKinds DEF Seen, Trees, Held, Snapped

LEMMA SnapshotsKinds ==
  ASSUME snap \in SnapTables, NEW p \in Paths, NEW o \in Snapped
  PROVE  /\ Snapshots(p, o) \in SnapTables
         /\ \A q \in Paths : q # p => Snapshots(p, o)[q] = snap[q]
         /\ Snapshots(p, o)[p] = IF snap[p] = NotTaken THEN o ELSE snap[p]
BY DEF Snapshots, SnapTables

LEMMA UndoKinds ==
  ASSUME NEW F \in Trees, NEW S \in SnapTables, Undo(F, S)
  PROVE  /\ files' \in Trees
         /\ \A p \in Paths : S[p] = NotTaken => files'[p] = F[p]
         /\ \A p \in Paths : (F[p] = Dir => S[p] \in {NotTaken, Absent})
                              => (files'[p] = Dir <=> F[p] = Dir)
         /\ \A p \in Paths : "restore" \notin Faults /\ S[p] # NotTaken
                              => files'[p] = IF S[p] = Absent /\ F[p] = Dir THEN Dir ELSE S[p]
<1>1. PICK lost \in (IF "restore" \in Faults THEN SUBSET Paths ELSE {{}}),
           left \in (IF "restore" \in Faults THEN {"kept", "partial"} ELSE {"kept"}) :
        files' = [p \in Paths |->
                CASE S[p] = NotTaken -> F[p]
                  [] S[p] = Absent -> IF F[p] = Dir \/ p \in lost THEN F[p] ELSE Absent
                  [] OTHER -> IF p \notin lost THEN S[p] ELSE IF left = "kept" THEN F[p] ELSE Partial]
  BY DEF Undo
<1>2. ASSUME NEW p \in Paths, S[p] = NotTaken
      PROVE  files'[p] = F[p]
  <2>1. files'[p] = CASE S[p] = NotTaken -> F[p]
                  [] S[p] = Absent -> IF F[p] = Dir \/ p \in lost THEN F[p] ELSE Absent
                  [] OTHER -> IF p \notin lost THEN S[p] ELSE IF left = "kept" THEN F[p] ELSE Partial
    BY <1>1
  <2> QED BY <1>2, <2>1, TransactionAssumption
<1>3. ASSUME NEW p \in Paths, S[p] = Absent
      PROVE  files'[p] = IF F[p] = Dir \/ p \in lost THEN F[p] ELSE Absent
  <2>1. S[p] # NotTaken
    BY <1>3, TransactionAssumption
  <2> QED BY <1>1, <1>3, <2>1
<1>4. ASSUME NEW p \in Paths, S[p] # NotTaken, S[p] # Absent
      PROVE  files'[p] = IF p \notin lost THEN S[p] ELSE IF left = "kept" THEN F[p] ELSE Partial
  BY <1>1, <1>4
<1>5. ASSUME NEW p \in Paths
      PROVE  /\ files'[p] \in Held
             /\ (F[p] = Dir => S[p] \in {NotTaken, Absent}) => (files'[p] = Dir <=> F[p] = Dir)
             /\ "restore" \notin Faults /\ S[p] # NotTaken
                  => files'[p] = IF S[p] = Absent /\ F[p] = Dir THEN Dir ELSE S[p]
  <2>1. /\ F[p] \in Held /\ S[p] \in Snapped
        /\ Absent \in Held /\ Partial \in Held /\ Absent # Dir /\ Partial # Dir
        /\ "restore" \notin Faults => lost = {}
    BY TransactionAssumption DEF Trees, SnapTables, Held
  <2>2. CASE S[p] = NotTaken
    BY <1>2, <2>1, <2>2, TransactionAssumption
  <2>3. CASE S[p] = Absent
    BY <1>3, <2>1, <2>3, TransactionAssumption
  <2>4. CASE S[p] # NotTaken /\ S[p] # Absent
    BY <1>4, <2>1, <2>4 DEF Snapped
  <2> QED BY <2>2, <2>3, <2>4
<1>6. files' \in Trees
  BY <1>1, <1>5 DEF Trees
<1> QED BY <1>2, <1>5, <1>6

\* Writing one edit.
LEMMA WriteRespects ==
  ASSUME TxShape, WriteEdit
  PROVE  /\ TxShape' /\ Respects
         /\ \A p \in Paths : snap'[p] # NotTaken => snap[p] # NotTaken \/ Named(p)
         /\ \A p \in Paths : "read" \notin Faults =>
              \/ snap'[p] = snap[p] /\ (snap[p] = NotTaken => files'[p] = files[p])
              \/ snap[p] = NotTaken /\ snap'[p] = files[p] /\ snap'[p] # NotTaken
<1> DEFINE e == edits[done + 1]
<1>1. e \in FileEdits /\ Named(e.path) /\ done' \in 0 .. Len(edits)
  BY NextEdit DEF WriteEdit
<1>2. e.path \in Paths /\ e.content \in Contents
  BY <1>1 DEF FileEdits
<1>3. PICK o \in Seen(e.path) : snap' = Snapshots(e.path, o)
  BY DEF WriteEdit
<1>4. /\ files[e.path] # Dir /\ files' = [files EXCEPT ![e.path] = e.content]
      /\ edits' = edits /\ before' = before
  BY DEF WriteEdit
<1> HIDE DEF e
<1>5. /\ o \in Snapped /\ o # NotTaken
      /\ "read" \notin Faults => o = files[e.path]
  BY <1>2, <1>4, SeenKinds DEF TxShape
<1>6. /\ snap' \in SnapTables
      /\ \A q \in Paths : q # e.path => snap'[q] = snap[q]
      /\ snap'[e.path] = IF snap[e.path] = NotTaken THEN o ELSE snap[e.path]
  BY <1>2, <1>3, <1>5, SnapshotsKinds DEF TxShape
<1>7. /\ files' \in Trees /\ files'[e.path] # Dir
      /\ \A q \in Paths : q # e.path => files'[q] = files[q]
  BY <1>2, <1>4, TransactionAssumption DEF TxShape, Trees, Held
<1>8. TxShape'
  BY <1>1, <1>4, <1>6, <1>7 DEF TxShape
<1>9. Respects
  BY <1>1, <1>4, <1>7 DEF Respects
<1> QED BY <1>1, <1>5, <1>6, <1>7, <1>8, <1>9

LEMMA EndShape ==
  ASSUME TxShape, files' \in Trees, before' \in Trees, End
  PROVE  TxShape' /\ snap' = NoSnapshot
<1>1. <<>> \in Seq(FileEdits) /\ 0 \in 0 .. Len(<<>>)
  OBVIOUS
<1>2. NoSnapshot \in SnapTables /\ \A p \in Paths : NoSnapshot[p] = NotTaken
  BY DEF NoSnapshot, SnapTables, Snapped
<1> QED BY <1>1, <1>2 DEF TxShape, End

\* What a transaction knows of the tree it began with, when only writes fail.
Recalls ==
  \A p \in Paths : IF snap[p] = NotTaken THEN files[p] = before[p] ELSE snap[p] = before[p]

\* Undoing: what was saved is put back, and a directory is never in the way.
LEMMA UndoRespects ==
  ASSUME TxShape, Undo(files, snap), End, UNCHANGED before
  PROVE  /\ TxShape' /\ Respects /\ snap' = NoSnapshot
         /\ "restore" \notin Faults /\ Recalls => files' = before
<1>1. files \in Trees /\ snap \in SnapTables /\ before \in Trees
      /\ \A p \in Paths : snap[p] # NotTaken => files[p] # Dir
  BY DEF TxShape
<1>2. /\ files' \in Trees
      /\ \A p \in Paths : snap[p] = NotTaken => files'[p] = files[p]
      /\ \A p \in Paths : (files[p] = Dir => snap[p] \in {NotTaken, Absent})
                           => (files'[p] = Dir <=> files[p] = Dir)
      /\ \A p \in Paths : "restore" \notin Faults /\ snap[p] # NotTaken
                           => files'[p] = IF snap[p] = Absent /\ files[p] = Dir THEN Dir ELSE snap[p]
  BY <1>1, UndoKinds
<1>3. Respects
  BY <1>1, <1>2 DEF Respects
<1>4. TxShape' /\ snap' = NoSnapshot
  BY <1>1, <1>2, EndShape
<1>5. ASSUME "restore" \notin Faults, Recalls
      PROVE  files' = before
  <2>1. \A p \in Paths : files'[p] = before[p]
    BY <1>1, <1>2, <1>5 DEF Recalls
  <2> QED BY <1>1, <1>2, <2>1 DEF Trees
<1> QED BY <1>3, <1>4, <1>5

LEMMA WriteFailsRespects ==
  ASSUME TxShape, WriteFails
  PROVE  /\ TxShape' /\ Respects /\ snap' = NoSnapshot
         /\ {"read", "restore"} \intersect Faults = {} /\ Recalls => files' = before
<1> DEFINE e == edits[done + 1]
<1>1. e \in FileEdits /\ Named(e.path)
  BY NextEdit DEF WriteFails
<1>2. e.path \in Paths
  BY <1>1 DEF FileEdits
<1>3. PICK o \in Seen(e.path),
           left \in {files[e.path]} \union (IF files[e.path] = Dir THEN {} ELSE {Partial}) :
        Undo([files EXCEPT ![e.path] = left], Snapshots(e.path, o))
  BY DEF WriteFails
<1>4. End /\ before' = before
  BY DEF WriteFails
<1> HIDE DEF e
<1> DEFINE F == [files EXCEPT ![e.path] = left]
           S == Snapshots(e.path, o)
<1>5. files \in Trees /\ snap \in SnapTables /\ before \in Trees
      /\ \A p \in Paths : snap[p] # NotTaken => files[p] # Dir
  BY DEF TxShape
<1>6. /\ o \in Snapped /\ o # NotTaken
      /\ files[e.path] = Dir => o = Absent
      /\ "read" \notin Faults /\ files[e.path] # Dir => o = files[e.path]
  BY <1>2, <1>5, SeenKinds
<1>7. /\ S \in SnapTables
      /\ \A q \in Paths : q # e.path => S[q] = snap[q]
      /\ S[e.path] = IF snap[e.path] = NotTaken THEN o ELSE snap[e.path]
  BY <1>2, <1>5, <1>6, SnapshotsKinds
<1>8. left \in Held /\ (left = Dir <=> files[e.path] = Dir)
  BY <1>2, <1>5, TransactionAssumption DEF Trees, Held
<1>9. /\ F \in Trees /\ F[e.path] = left
      /\ \A q \in Paths : q # e.path => F[q] = files[q]
  BY <1>2, <1>5, <1>8 DEF Trees
<1>10. Undo(F, S)
  BY <1>3
<1> HIDE DEF F, S
<1>11. /\ files' \in Trees
       /\ \A p \in Paths : S[p] = NotTaken => files'[p] = F[p]
       /\ \A p \in Paths : (F[p] = Dir => S[p] \in {NotTaken, Absent})
                            => (files'[p] = Dir <=> F[p] = Dir)
       /\ \A p \in Paths : "restore" \notin Faults /\ S[p] # NotTaken
                            => files'[p] = IF S[p] = Absent /\ F[p] = Dir THEN Dir ELSE S[p]
  BY <1>7, <1>9, <1>10, UndoKinds
<1>12. \A p \in Paths : F[p] = Dir => S[p] \in {NotTaken, Absent}
  BY <1>5, <1>6, <1>7, <1>8, <1>9
<1>13. Respects
  <2>1. \A p \in Paths : files'[p] = Dir <=> files[p] = Dir
    BY <1>8, <1>9, <1>11, <1>12
  <2>2. \A p \in Paths : snap[p] = NotTaken /\ ~Named(p) => files'[p] = files[p]
    BY <1>1, <1>7, <1>9, <1>11
  <2> QED BY <1>11, <2>1, <2>2 DEF Respects
<1>14. TxShape' /\ snap' = NoSnapshot
  BY <1>4, <1>5, <1>11, EndShape
<1>15. ASSUME {"read", "restore"} \intersect Faults = {}, Recalls
       PROVE  files' = before
  <2>1. "read" \notin Faults /\ "restore" \notin Faults
    BY <1>15
  <2>2. ASSUME NEW p \in Paths
        PROVE  files'[p] = before[p]
    <3>1. CASE p # e.path
      BY <1>5, <1>7, <1>9, <1>11, <1>15, <2>1, <3>1 DEF Recalls
    <3>2. CASE p = e.path /\ snap[p] # NotTaken
      BY <1>5, <1>7, <1>8, <1>9, <1>11, <1>15, <2>1, <3>2 DEF Recalls
    <3>3. CASE p = e.path /\ snap[p] = NotTaken
      <4>1. files[p] = before[p] /\ S[p] = o /\ F[p] = left
        BY <1>7, <1>9, <1>15, <3>3 DEF Recalls
      <4>2. files'[p] = IF o = Absent /\ left = Dir THEN Dir ELSE o
        BY <1>6, <1>11, <2>1, <4>1
      <4> QED BY <1>6, <1>8, <2>1, <3>3, <4>1, <4>2
    <3> QED BY <3>1, <3>2, <3>3
  <2> QED BY <1>5, <1>11, <2>2 DEF Trees
<1> QED BY <1>13, <1>14, <1>15

LEMMA MkdirFailsRespects ==
  ASSUME TxShape, MkdirFails
  PROVE  TxShape' /\ Respects /\ snap' = NoSnapshot
<1>1. files' = files /\ before' = before /\ End /\ files \in Trees /\ before \in Trees
  BY DEF MkdirFails, TxShape
<1> QED BY <1>1, EndShape DEF Respects
=============================================================================
