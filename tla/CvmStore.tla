------------------------------ MODULE CvmStore ------------------------------
(***************************************************************************)
(* The content-addressed L2 page store of the CVM cost stack               *)
(* (axiom_engine_rs/src/cvm_store.rs): one append-only JSONL file per      *)
(* session, an in-memory index of recently used sessions behind one        *)
(* RwLock, and three bounds - per session, in memory, on disk.             *)
(*                                                                         *)
(* Request threads call put, get and delete_session.  A call first reads   *)
(* the "is it loaded" flag under the read lock, then reads the session     *)
(* file under no lock, and only then takes the write lock; those are       *)
(* separate steps here, and everything done under one write guard between  *)
(* two file operations is one step.                                        *)
(*                                                                         *)
(* Abstractions.  A page is its content hash: pages are atomic and their   *)
(* size is Bytes[p].  The clocks and touch stamps are replaced by the      *)
(* orders they induce: older and diskOlder hold the pairs <<a, b>> where   *)
(* a was used before b.  A file is the sequence of its rows, the number    *)
(* of its lines that do not parse, and a flag for a half-written last      *)
(* line without its newline; where the unparsable lines stand is           *)
(* immaterial, since loading skips them.                                   *)
(***************************************************************************)
EXTENDS Integers, Sequences, FiniteSets, SequencesExt, FiniteSetsExt

CONSTANTS
  Threads,          \* request-handler threads
  Sessions,         \* client-chosen session ids
  Stems,            \* file name stems
  StemOf,           \* session_file_stem as a function
  Pages,            \* page texts, identified by their content hash
  Bytes,            \* Bytes[p]: length of the text of p
  LineOverhead,     \* JSON bytes a row adds around its text
  MaxSessionBytes,  \* MAX_SESSION_BYTES
  MaxIndexBytes,    \* CvmLimits::max_index_bytes
  MaxTotalBytes,    \* CvmLimits::max_total_bytes
  MaxRows,          \* bound of the model: rows a file may reach
  Faults,           \* which operating-system faults and crashes happen
  NoThread,         \* the write lock is free
  NoSnap            \* `rows: None`: the flag said the session is loaded

ASSUME ConstantsAssumption ==
  /\ Sessions # {} /\ Pages # {}
  /\ StemOf \in [Sessions -> Stems]
  /\ \A p \in Pages : Bytes[p] \in Nat
  /\ LineOverhead \in Nat
  /\ MaxSessionBytes \in Nat /\ MaxIndexBytes \in Nat /\ MaxTotalBytes \in Nat
  /\ Faults \subseteq {"read", "open", "append", "rewrite", "unlink", "crash"}
  /\ NoThread \notin Threads
  /\ NoSnap \notin Seq(Pages)

VARIABLES
  loaded,      \* keys of Index::sessions
  rows,        \* SessionEntry::rows; <<>> for a session that is not loaded
  older,       \* order of SessionEntry::last_touch on the loaded sessions
  indexBytes,  \* Index::index_bytes
  files,       \* rows of each session file
  junk,        \* number of lines of each file that do not parse
  torn,        \* stems whose file ends in a half line
  present,     \* stems whose file exists
  booked,      \* keys of Index::disk_bytes
  diskBytes,   \* Index::disk_bytes (0 when the key is absent)
  diskOlder,   \* order of Index::disk_touch on the booked files
  lock,        \* thread holding the write guard across file operations
  poisoned,    \* the RwLock is poisoned
  pc, req,     \* where each thread is, and the call it is serving
  snap,        \* rows a thread read from the file outside the lock
  pending,     \* rows of the lock holder's session after its push
  owed,        \* history: acknowledged pages no bound or delete has dropped
  putBy        \* history: pages ever handed to put, per session

indexVars == <<loaded, rows, older, indexBytes>>
diskVars  == <<files, junk, torn, present>>
bookVars  == <<booked, diskBytes, diskOlder>>
lockVars  == <<lock, poisoned, pending>>
callVars  == <<pc, req, snap>>
vars == <<indexVars, diskVars, bookVars, lockVars, callVars, owed, putBy>>

Requests == [op : {"put", "get", "delete"}, s : Sessions, p : Pages]
Labels   == {"idle", "read", "want", "append", "rewrite", "unlink"}
NoRequest == CHOOSE r \in Requests : TRUE

(***************************************************************************)
(* Sizes, recency orders, and the two shapes of the eviction loops.        *)
(***************************************************************************)
RowBytes(q)   == FoldLeft(LAMBDA acc, p : acc + Bytes[p], 0, q)
FileLen(F, j, g) == RowBytes(F) + LineOverhead * Len(F) + (LineOverhead + 1) * j
                    + (IF g THEN 1 ELSE 0)
Total(S, w)   == MapThenSumSet(LAMBDA x : w[x], S)
SizeOf(R)     == [s \in Sessions |-> RowBytes(R[s])]

\* The order R on S after x \in S has been stamped as the most recent.
Touched(R, S, x) == {e \in R : x \notin {e[1], e[2]}} \union ((S \ {x}) \X {x})
Among(R, S)      == R \intersect (S \X S)

\* The rows left of q when its k oldest are dropped, and the k at which the
\* loop over a session's rows stops: it drops one while they weigh too much.
After(q, k) == SubSeq(q, k + 1, Len(q))
GreedyExcess(q, k) ==                     \* mutant: the loop runs while >=
  /\ k = Len(q) - 1 \/ RowBytes(After(q, k)) < MaxSessionBytes
  /\ \A j \in 0 .. k - 1 : RowBytes(After(q, j)) >= MaxSessionBytes
IsExcess(q, k) ==
  /\ k = Len(q) - 1 \/ RowBytes(After(q, k)) <= MaxSessionBytes
  /\ \A j \in 0 .. k - 1 : RowBytes(After(q, j)) > MaxSessionBytes

\* V is what the loops over sessions and over files may have dropped from S at
\* some iteration: the least recent, each while the rest was over the budget,
\* and never `keep`.  Victims(...) are the sets at which the loop ends.
Overdue(S, R, w, budget, keep, V) ==
  /\ V \subseteq S \ {keep}
  /\ \A v \in V, u \in S \ {keep} : <<u, v>> \in R => u \in V
  /\ \A v \in V : Total(S \ {u \in V : <<u, v>> \in R}, w) > budget
SparesNone(S, R, w, budget, keep) ==      \* mutant: `keep` is not spared
  {V \in SUBSET S :
     /\ \A v \in V, u \in S : <<u, v>> \in R => u \in V
     /\ \A v \in V : Total(S \ {u \in V : <<u, v>> \in R}, w) > budget
     /\ Total(S \ V, w) <= budget}
Victims(S, R, w, budget, keep) ==
  {V \in SUBSET S : /\ Overdue(S, R, w, budget, keep, V)
                    /\ Total(S \ V, w) <= budget \/ V = S \ {keep}}

Init ==
  /\ loaded = {} /\ rows = [s \in Sessions |-> <<>>] /\ older = {}
  /\ indexBytes = 0
  /\ files = [f \in Stems |-> <<>>] /\ junk = [f \in Stems |-> 0]
  /\ torn = {} /\ present = {}
  /\ booked = {} /\ diskBytes = [f \in Stems |-> 0] /\ diskOlder = {}
  /\ lock = NoThread /\ poisoned = FALSE /\ pending = <<>>
  /\ pc = [t \in Threads |-> "idle"]
  /\ req = [t \in Threads |-> NoRequest]
  /\ snap = [t \in Threads |-> NoSnap]
  /\ owed = [s \in Sessions |-> {}] /\ putBy = [s \in Sessions |-> {}]

(***************************************************************************)
(* load_and_touch, first half: the flag is read under the read lock (FALSE *)
(* when poisoned), the file is read later, under no lock.                  *)
(***************************************************************************)
Call(t, op, s, p) ==
  /\ pc[t] = "idle" /\ lock = NoThread
  /\ op = "put" => Len(files[StemOf[s]]) + junk[StemOf[s]] < MaxRows
  /\ req' = [req EXCEPT ![t] = [op |-> op, s |-> s,
                                p |-> IF op = "put" THEN p ELSE NoRequest.p]]
  /\ pc' = [pc EXCEPT ![t] = IF op = "delete" \/ (s \in loaded /\ ~poisoned)
                             THEN "want" ELSE "read"]
  /\ putBy' = IF op = "put" THEN [putBy EXCEPT ![s] = @ \union {p}] ELSE putBy
  /\ UNCHANGED <<indexVars, diskVars, bookVars, lockVars, snap, owed>>

\* load_session_rows: a file that cannot be opened or read to its end yields
\* the rows before the failure, and no error.
ReadFile(t) ==
  LET f == files[StemOf[req[t].s]] IN
  /\ pc[t] = "read"
  /\ \E n \in IF "read" \in Faults THEN 0 .. Len(f) ELSE {Len(f)} :
       snap' = [snap EXCEPT ![t] = SubSeq(f, 1, n)]
  /\ pc' = [pc EXCEPT ![t] = "want"]
  /\ UNCHANGED <<indexVars, diskVars, bookVars, lockVars, req, owed, putBy>>

(***************************************************************************)
(* shed_index: forget least recently used sessions other than the one      *)
(* being touched.  L, R and O are the loaded sessions, their rows and      *)
(* their order before shedding; total is the byte counter.                 *)
(***************************************************************************)
ShedIndex(keep, L, R, O, total) ==
  \E V \in Victims(L, O, SizeOf(R), MaxIndexBytes, keep) :
    /\ loaded' = L \ V
    /\ rows' = [s \in Sessions |-> IF s \in V THEN <<>> ELSE R[s]]
    /\ older' = Among(O, L \ V)
    /\ indexBytes' = total - Total(V, SizeOf(R))

\* load_and_touch, second half: insert the rows read earlier unless another
\* thread has inserted the session meanwhile, else only refresh its stamp.
Inserts(t)     == snap[t] # NoSnap /\ req[t].s \notin loaded
TouchedKeys(t) == IF Inserts(t) THEN loaded \union {req[t].s} ELSE loaded
TouchedRows(t) == IF Inserts(t) THEN [rows EXCEPT ![req[t].s] = snap[t]] ELSE rows
TouchedOrder(t) ==
  IF req[t].s \in TouchedKeys(t) THEN Touched(older, TouchedKeys(t), req[t].s) ELSE older
BytesEachTouch(t) == indexBytes + (IF snap[t] = NoSnap THEN 0 ELSE RowBytes(snap[t]))
                                          \* mutant: a lost race is counted too
TouchedBytes(t) == indexBytes + (IF Inserts(t) THEN RowBytes(snap[t]) ELSE 0)

Return(t) ==
  /\ pc' = [pc EXCEPT ![t] = "idle"]
  /\ snap' = [snap EXCEPT ![t] = NoSnap]
  /\ req' = [req EXCEPT ![t] = NoRequest]

LoadOnly(t) ==                            \* mutant: no shed_index after a load
  /\ loaded' = TouchedKeys(t) /\ rows' = TouchedRows(t)
  /\ older' = TouchedOrder(t) /\ indexBytes' = TouchedBytes(t)
LoadAndTouch(t) ==
  ShedIndex(req[t].s, TouchedKeys(t), TouchedRows(t), TouchedOrder(t), TouchedBytes(t))

\* The write lock is poisoned: put returns an error and get returns None.
Refused(t) ==
  /\ pc[t] = "want" /\ poisoned /\ req[t].op # "delete"
  /\ Return(t)
  /\ UNCHANGED <<indexVars, diskVars, bookVars, lockVars, owed, putBy>>

Enter(t, op) ==
  /\ pc[t] = "want" /\ req[t].op = op /\ lock = NoThread /\ ~poisoned

Get(t) ==
  /\ Enter(t, "get")
  /\ LoadAndTouch(t)
  /\ Return(t)
  /\ UNCHANGED <<diskVars, bookVars, lockVars, owed, putBy>>

(***************************************************************************)
(* put under the write guard.  A session that is not in the index after    *)
(* load_and_touch makes `expect` panic, which poisons the lock; a page     *)
(* already among the rows makes the call a no-op; otherwise the row is     *)
(* pushed, the oldest rows over the session cap are dropped, and the file  *)
(* is opened for append, or truncated for a rewrite.                       *)
(***************************************************************************)
PutPanics(t) ==
  /\ Enter(t, "put")
  /\ LoadAndTouch(t)
  /\ req[t].s \notin loaded'
  /\ poisoned' = TRUE
  /\ Return(t)
  /\ UNCHANGED <<diskVars, bookVars, lock, pending, owed, putBy>>

PutKnown(t) ==
  /\ Enter(t, "put")
  /\ LoadAndTouch(t)
  /\ req[t].s \in loaded' /\ Contains(rows'[req[t].s], req[t].p)
  /\ Return(t)
  /\ owed' = [owed EXCEPT ![req[t].s] = @ \union {req[t].p}]
  /\ UNCHANGED <<diskVars, bookVars, lockVars, putBy>>

\* The push and the eviction loop act on the rows load_and_touch left.  No
\* other thread sees the entry before the guard is dropped, so the new rows
\* wait in `pending` for the outcome of the write.
PutPushes(t) ==
  LET f   == StemOf[req[t].s]
      old == TouchedRows(t)[req[t].s]
      new == Append(old, req[t].p)
  IN /\ Enter(t, "put")
     /\ LoadAndTouch(t)
     /\ req[t].s \in loaded' /\ ~Contains(old, req[t].p)
     /\ \E k \in 0 .. Len(new) - 1 :
          /\ IsExcess(new, k)
          /\ pending' = After(new, k)
          /\ pc' = [pc EXCEPT ![t] = IF k = 0 THEN "append" ELSE "rewrite"]
          /\ files' = IF k = 0 THEN files ELSE [files EXCEPT ![f] = <<>>]
          /\ junk' = IF k = 0 THEN junk ELSE [junk EXCEPT ![f] = 0]
          /\ torn' = IF k = 0 THEN torn ELSE torn \ {f}
     /\ present' = present \union {f}
     /\ lock' = t
     /\ UNCHANGED <<bookVars, poisoned, req, snap, owed, putBy>>

\* The file cannot be opened: the push is rolled back, nothing is written.
OpenFails(t) ==
  /\ "open" \in Faults
  /\ Enter(t, "put")
  /\ LoadAndTouch(t)
  /\ req[t].s \in loaded' /\ ~Contains(TouchedRows(t)[req[t].s], req[t].p)
  /\ Return(t)
  /\ UNCHANGED <<diskVars, bookVars, lockVars, owed, putBy>>

(***************************************************************************)
(* The write returned Ok and left the rows F[f], J[f] unparsable lines and *)
(* the torn tails G: commit the rows and the counters; shed_index; then    *)
(* shed_disk, which deletes least recently used files other than f until   *)
(* the books fit the disk budget (a deletion that fails stops it) and      *)
(* drops the sessions of each deleted file from the index.                 *)
(***************************************************************************)
LineLen(f, F, J, G) == LineOverhead + 1   \* mutant: the line, not the file
NewLen(f, F, J, G)  == FileLen(F[f], J[f], f \in G)

Orphans(gone) == {s \in Sessions : StemOf[s] \in gone}

Deletable(f, B, O) ==
  IF "unlink" \in Faults
  THEN {D \in SUBSET (booked \union {f}) :
          Overdue(booked \union {f}, O, B, MaxTotalBytes, f, D)}
  ELSE Victims(booked \union {f}, O, B, MaxTotalBytes, f)

\* What a committed put still owes: not the rows its eviction dropped.
Owing(s, p) == (owed[s] \ ToSet(rows[s])) \union ((owed[s] \union {p}) \intersect ToSet(pending))

Commit(t, F, J, G) ==
  LET s == req[t].s
      f == StemOf[s]
      R == [rows EXCEPT ![s] = pending]
      B == [diskBytes EXCEPT ![f] = NewLen(f, F, J, G)]
      O == Touched(diskOlder, booked \union {f}, f)
      total == indexBytes + RowBytes(pending) - RowBytes(rows[s])
  IN /\ \E V \in Victims(loaded, older, SizeOf(R), MaxIndexBytes, s), D \in Deletable(f, B, O) :
          LET left == loaded \ (V \union Orphans(D)) IN
          /\ loaded' = left
          /\ rows' = [r \in Sessions |-> IF r \in left THEN R[r] ELSE <<>>]
          /\ older' = Among(older, left)
          /\ indexBytes' = total - Total(loaded \ left, SizeOf(R))
          /\ booked' = (booked \union {f}) \ D
          /\ diskBytes' = [g \in Stems |-> IF g \in D THEN 0 ELSE B[g]]
          /\ diskOlder' = Among(O, booked')
          /\ files' = [g \in Stems |-> IF g \in D THEN <<>> ELSE F[g]]
          /\ junk' = [g \in Stems |-> IF g \in D THEN 0 ELSE J[g]]
          /\ torn' = G \ D /\ present' = present \ D
          /\ owed' = [r \in Sessions |-> IF r \in Orphans(D) THEN {}
                                          ELSE IF r = s THEN Owing(s, req[t].p) ELSE owed[r]]
     /\ lock' = NoThread /\ pending' = <<>>
     /\ Return(t)
     /\ UNCHANGED <<poisoned, putBy>>

\* A row appended behind a half line completes that line, which cannot parse.
AppendLost(t) ==                          \* mutant: the line is never flushed
  pc[t] = "append" /\ Commit(t, files, junk, torn)
AppendOk(t) ==
  LET f == StemOf[req[t].s] IN
  /\ pc[t] = "append"
  /\ IF f \in torn THEN Commit(t, files, [junk EXCEPT ![f] = @ + 1], torn \ {f})
                   ELSE Commit(t, [files EXCEPT ![f] = Append(@, req[t].p)], junk, torn)

RewriteOk(t) ==
  /\ pc[t] = "rewrite"
  /\ Commit(t, [files EXCEPT ![StemOf[req[t].s]] = pending], junk, torn)

\* A failed append is truncated back; a failed rewrite leaves what it wrote.
\* Either way the index entry returns to the rows it had before the push.
NoRollback(t) ==                          \* mutant: the pushed row stays
  /\ pc[t] = "append" /\ "append" \in Faults
  /\ rows' = [rows EXCEPT ![req[t].s] = pending]
  /\ lock' = NoThread /\ pending' = <<>>
  /\ Return(t)
  /\ UNCHANGED <<loaded, older, indexBytes, diskVars, bookVars, poisoned, owed, putBy>>
WriteFails(t) ==
  LET f == StemOf[req[t].s] IN
  /\ \/ pc[t] = "append" /\ "append" \in Faults /\ UNCHANGED <<files, torn>>
     \/ pc[t] = "rewrite" /\ "rewrite" \in Faults
        /\ \E n \in 0 .. Len(pending) - 1, g \in {{}, {f}} :
             /\ files' = [files EXCEPT ![f] = SubSeq(pending, 1, n)]
             /\ torn' = torn \union g
  /\ lock' = NoThread /\ pending' = <<>>
  /\ Return(t)
  /\ UNCHANGED <<indexVars, junk, present, bookVars, poisoned, owed, putBy>>

(***************************************************************************)
(* delete_session: the books are cleared under the write lock, the file is *)
(* removed after the guard has been dropped.  A poisoned lock skips the    *)
(* first half.                                                             *)
(***************************************************************************)
DeleteBooks(t) ==
  LET s == req[t].s
      f == StemOf[s]
  IN /\ pc[t] = "want" /\ req[t].op = "delete" /\ lock = NoThread
     /\ IF poisoned THEN UNCHANGED <<indexVars, bookVars>>
        ELSE /\ loaded' = loaded \ {s}
             /\ rows' = [rows EXCEPT ![s] = <<>>]
             /\ older' = Among(older, loaded \ {s})
             /\ indexBytes' = indexBytes - RowBytes(rows[s])
             /\ booked' = booked \ {f}
             /\ diskBytes' = [diskBytes EXCEPT ![f] = 0]
             /\ diskOlder' = Among(diskOlder, booked \ {f})
     /\ pc' = [pc EXCEPT ![t] = "unlink"]
     /\ owed' = [owed EXCEPT ![s] = {}]
     /\ UNCHANGED <<diskVars, lockVars, req, snap, putBy>>

DeleteFile(t) ==
  LET f == StemOf[req[t].s] IN
  /\ pc[t] = "unlink"
  /\ \/ /\ files' = [files EXCEPT ![f] = <<>>] /\ junk' = [junk EXCEPT ![f] = 0]
        /\ torn' = torn \ {f} /\ present' = present \ {f}
        /\ owed' = [owed EXCEPT ![req[t].s] = {}]
        /\ Return(t)
     \/ /\ "unlink" \in Faults
        /\ Return(t)
        /\ UNCHANGED <<diskVars, owed>>
  /\ UNCHANGED <<indexVars, bookVars, lockVars, putBy>>

(***************************************************************************)
(* The process dies and a new one opens the store: memory is lost, a write *)
(* in flight has left some prefix of its bytes, and open_with_limits scans *)
(* the directory.  Modification times have one-second resolution, so the   *)
(* scan may order the files in any way.                                    *)
(***************************************************************************)
Crashed(f) ==
  LET writing == {t \in Threads : lock = t /\ StemOf[req[t].s] = f}
      as_is   == <<files[f], junk[f], torn \intersect {f}>>
  IN IF writing = {} THEN {as_is}
     ELSE LET t == CHOOSE u \in writing : TRUE IN
          IF pc[t] = "append"
          THEN {as_is, <<files[f], junk[f], {f}>>,
                IF f \in torn THEN <<files[f], junk[f] + 1, {}>>
                              ELSE <<Append(files[f], req[t].p), junk[f], {}>>}
          ELSE {<<SubSeq(pending, 1, n), 0, g>> : n \in 0 .. Len(pending), g \in {{}, {f}}}

IsStrictOrder(R, S) ==
  /\ R \subseteq S \X S
  /\ \A a \in S : <<a, a>> \notin R
  /\ \A a, b \in S : a # b => <<a, b>> \in R \/ <<b, a>> \in R
  /\ \A a, b, c \in S : <<a, b>> \in R /\ <<b, c>> \in R => <<a, c>> \in R

Restart ==
  /\ "crash" \in Faults
  /\ \E F \in [Stems -> UNION {Crashed(f) : f \in Stems}] :
       /\ \A f \in Stems : F[f] \in Crashed(f)
       /\ files' = [f \in Stems |-> F[f][1]]
       /\ junk' = [f \in Stems |-> F[f][2]]
       /\ torn' = UNION {F[f][3] : f \in Stems}
       /\ diskBytes' = [f \in Stems |-> FileLen(F[f][1], F[f][2], F[f][3] # {})]
  /\ booked' = present
  /\ diskOlder' \in SUBSET (present \X present) /\ IsStrictOrder(diskOlder', present)
  /\ UNCHANGED <<present, putBy, owed>>
  /\ loaded' = {} /\ rows' = [s \in Sessions |-> <<>>] /\ older' = {}
  /\ indexBytes' = 0
  /\ lock' = NoThread /\ poisoned' = FALSE /\ pending' = <<>>
  /\ pc' = [t \in Threads |-> "idle"]
  /\ snap' = [t \in Threads |-> NoSnap]
  /\ req' = [t \in Threads |-> NoRequest]

Step(t) ==
  \/ \E op \in {"put", "get", "delete"}, s \in Sessions, p \in Pages : Call(t, op, s, p)
  \/ ReadFile(t) \/ Refused(t) \/ Get(t)
  \/ PutPanics(t) \/ PutKnown(t) \/ PutPushes(t) \/ OpenFails(t)
  \/ AppendOk(t) \/ RewriteOk(t) \/ WriteFails(t)
  \/ DeleteBooks(t) \/ DeleteFile(t)

Next == Restart \/ \E t \in Threads : Step(t)

Spec == Init /\ [][Next]_vars

-----------------------------------------------------------------------------
(* Properties *)

\* Shape of the state; the recency orders are strict total orders, so every
\* eviction has one least recent candidate.  For indexBytes see Accounting.
TypeOK ==
  /\ loaded \subseteq Sessions
  /\ rows \in [Sessions -> Seq(Pages)]
  /\ IsStrictOrder(older, loaded)
  /\ files \in [Stems -> Seq(Pages)] /\ junk \in [Stems -> Nat]
  /\ torn \subseteq Stems /\ present \subseteq Stems
  /\ booked \subseteq Stems
  /\ IsStrictOrder(diskOlder, booked)
  /\ lock \in Threads \union {NoThread} /\ poisoned \in BOOLEAN
  /\ pending \in Seq(Pages)
  /\ pc \in [Threads -> Labels]
  /\ req \in [Threads -> Requests]
  /\ snap \in [Threads -> Seq(Pages) \union {NoSnap}]
  /\ owed \in [Sessions -> SUBSET Pages] /\ putBy \in [Sessions -> SUBSET Pages]

\* What put and get see of a session: the index entry if there is one, else
\* the rows that a load would parse from the file.
OnDisk(s)  == files[StemOf[s]]
Visible(s) == ToSet(IF s \in loaded THEN rows[s] ELSE OnDisk(s))

\* The incremental byte counter never drifts from the rows in the index
\* (a drift would make the usize subtractions of Index::remove underflow).
Accounting == indexBytes = Total(loaded, SizeOf(rows))

\* The memory bound: only a single session may exceed it on its own.
IndexBounded == indexBytes <= MaxIndexBytes \/ Cardinality(loaded) <= 1

\* The disk bound: after a successful write the session files fit it, unless
\* all they hold is in one of them.  (Deletions that fail are excluded: they
\* stop the loop.)
FileSize  == [f \in Stems |-> FileLen(files[f], junk[f], f \in torn)]
DiskTotal == Total(present, FileSize)
WriteBoundsDisk ==
  [][ (\E t \in Threads : AppendOk(t) \/ RewriteOk(t))
      => DiskTotal' <= MaxTotalBytes \/ \E f \in present' : DiskTotal' = FileSize'[f] ]_vars

\* No page is ever readable in a session whose file name it was not put under.
PutUnder(f) == UNION {putBy[r] : r \in {r \in Sessions : StemOf[r] = f}}
Provenance == \A s \in Sessions : Visible(s) \subseteq PutUnder(StemOf[s])

\* Every page whose put was acknowledged stays readable until a bound or a
\* delete drops it: forgetting a session in memory loses nothing.
Durable == \A s \in Sessions : lock = NoThread => owed[s] \subseteq Visible(s)

\* The rows in memory are the rows on disk, in the same order.
IndexMatchesDisk ==
  lock = NoThread => \A s \in loaded : rows[s] = OnDisk(s)

\* The `expect` in put never fails.
NeverPanics == ~poisoned

\* It fails only by a race, whatever else fails: the put saw its session loaded, and a step
\* of another thread took the session out of the index before the put had the write guard.
\* Neither the put's own load nor its shedding ever costs it its session.
SeenLoaded(t) == pc[t] = "want" /\ req[t].op = "put" /\ snap[t] = NoSnap
Misses(t)     == SeenLoaded(t) /\ req[t].s \notin loaded
PanicsOnlyByRace ==
  [][\A t \in Threads :
       /\ PutPanics(t) => Misses(t)
       /\ Misses(t)' => Misses(t) \/ \E u \in Threads \ {t} : SeenLoaded(t) /\ Step(u)]_vars

\* The store implements the archive it promises: what can be recovered is what
\* the files hold, or the rows in memory while a file is being rewritten.
Rewriting(f) == \E t \in Threads : pc[t] = "rewrite" /\ StemOf[req[t].s] = f
Recoverable  == [s \in Sessions |-> IF Rewriting(StemOf[s]) THEN rows[s] ELSE OnDisk(s)]
Archive      == INSTANCE CvmArchive WITH archive <- Recoverable
ArchiveSpec  == Archive!Spec
=============================================================================
