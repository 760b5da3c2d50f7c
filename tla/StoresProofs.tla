---------------------------- MODULE StoresProofs ----------------------------
(***************************************************************************)
(* Proofs about the page store and the three stores checked beside it.     *)
(* For any number of threads, sessions, files and pages, any bounds and    *)
(* any set of faults: the page store's type invariant, the provenance of   *)
(* what it serves, its byte counter and its memory bound.  For one request *)
(* at a time, under the assumptions named below: that put never panics,    *)
(* that memory mirrors disk, that acknowledged pages last, that the store  *)
(* implements the archive, and the disk bound.  For any nodes, memories    *)
(* and documents: that immunity is earned and lasts, that recall is        *)
(* complete and returns nothing that was taken back, and that documents    *)
(* arrive as they were sealed and a clean corpus chains every measurement. *)
(***************************************************************************)
EXTENDS MCStores, SequenceTheorems, FiniteSetTheorems, WellFoundedInduction, TLAPS

-----------------------------------------------------------------------------
(* Recency orders *)

\* Restricting a recency order to some of its keys gives an order on those.
LEMMA AmongOrder ==
  ASSUME NEW R, NEW S, NEW T, T \subseteq S, IsStrictOrder(R, S)
  PROVE  IsStrictOrder(Among(R, T), T)
BY DEF IsStrictOrder, Among

\* Stamping a key, new or old, as the most recent keeps the order strict.
LEMMA TouchedOrdered ==
  ASSUME NEW R, NEW S, NEW x, IsStrictOrder(R, S)
  PROVE  IsStrictOrder(Touched(R, S \union {x}, x), S \union {x})
<1> DEFINE N == Touched(R, S \union {x}, x)
<1> DEFINE K == S \union {x}
<1>1. N \subseteq K \X K
  BY DEF IsStrictOrder, Touched
<1>2. \A a, b \in K : <<a, b>> \in N <=> (a # x /\ (b = x \/ <<a, b>> \in R))
  BY DEF IsStrictOrder, Touched
<1>3. \A a \in K : <<a, a>> \notin N
  BY <1>2 DEF IsStrictOrder
<1>4. \A a, b \in K : a # b => <<a, b>> \in N \/ <<b, a>> \in N
  BY <1>2 DEF IsStrictOrder
<1>5. \A a, b, c \in K : <<a, b>> \in N /\ <<b, c>> \in N => <<a, c>> \in N
  BY <1>2 DEF IsStrictOrder
<1> QED BY <1>1, <1>3, <1>4, <1>5 DEF IsStrictOrder

\* Dropping the oldest k rows of a session leaves rows.
LEMMA AfterType ==
  ASSUME NEW q \in Seq(Pages), NEW k \in 0 .. Len(q)
  PROVE  After(q, k) \in Seq(Pages)
BY SubSeqProperties DEF After

-----------------------------------------------------------------------------
(* Type correctness *)

IndexType ==
  /\ loaded \subseteq Sessions
  /\ rows \in [Sessions -> Seq(Pages)]
  /\ IsStrictOrder(older, loaded)

DiskType ==
  /\ files \in [Stems -> Seq(Pages)] /\ junk \in [Stems -> Nat]
  /\ torn \subseteq Stems /\ present \subseteq Stems

BooksType == booked \subseteq Stems /\ IsStrictOrder(diskOlder, booked)

LockType ==
  /\ lock \in Threads \union {NoThread} /\ poisoned \in BOOLEAN
  /\ pending \in Seq(Pages)

CallType ==
  /\ pc \in [Threads -> Labels]
  /\ req \in [Threads -> Requests]
  /\ snap \in [Threads -> Seq(Pages) \union {NoSnap}]

HistoryType == owed \in [Sessions -> SUBSET Pages] /\ putBy \in [Sessions -> SUBSET Pages]

\* The type invariant, cut into the parts an action may change.
LEMMA TypeParts ==
  TypeOK <=> IndexType /\ DiskType /\ BooksType /\ LockType /\ CallType /\ HistoryType
BY DEF TypeOK, IndexType, DiskType, BooksType, LockType, CallType, HistoryType

\* There is a request to hold while a thread is idle.
LEMMA NoRequestType == NoRequest \in Requests
<1>1. PICK s \in Sessions, p \in Pages : TRUE
  BY ConstantsAssumption
<1>2. [op |-> "get", s |-> s, p |-> p] \in Requests
  BY DEF Requests
<1> QED BY <1>2 DEF NoRequest

\* The fields of the call a thread is serving.
LEMMA RequestFields ==
  ASSUME CallType, NEW t \in Threads
  PROVE  req[t].s \in Sessions /\ req[t].p \in Pages /\ StemOf[req[t].s] \in Stems
BY ConstantsAssumption DEF CallType, Requests

\* A call that returns leaves the thread idle and forgets what it read.
LEMMA ReturnType ==
  ASSUME CallType, NEW t \in Threads, Return(t)
  PROVE  CallType'
BY NoRequestType DEF CallType, Return, Labels

\* shed_index keeps a well-formed index well formed.
LEMMA ShedType ==
  ASSUME NEW keep, NEW L, NEW R, NEW O, NEW total,
         L \subseteq Sessions, R \in [Sessions -> Seq(Pages)], IsStrictOrder(O, L),
         ShedIndex(keep, L, R, O, total)
  PROVE  IndexType'
<1>1. PICK V \in Victims(L, O, SizeOf(R), MaxIndexBytes, keep) :
        /\ loaded' = L \ V
        /\ rows' = [s \in Sessions |-> IF s \in V THEN <<>> ELSE R[s]]
        /\ older' = Among(O, L \ V)
  BY DEF ShedIndex
<1>2. rows' \in [Sessions -> Seq(Pages)]
  BY <1>1, EmptySeq
<1>3. IsStrictOrder(older', loaded')
  BY <1>1, AmongOrder
<1> QED BY <1>1, <1>2, <1>3 DEF IndexType

\* So does load_and_touch as a whole.
LEMMA LoadType ==
  ASSUME IndexType, CallType, NEW t \in Threads, LoadAndTouch(t)
  PROVE  IndexType'
<1> DEFINE s == req[t].s
<1>1. s \in Sessions
  BY RequestFields
<1>2. TouchedKeys(t) \subseteq Sessions
  BY <1>1 DEF TouchedKeys, IndexType
<1>3. TouchedRows(t) \in [Sessions -> Seq(Pages)]
  BY <1>1 DEF TouchedRows, Inserts, IndexType, CallType
<1>4. IsStrictOrder(TouchedOrder(t), TouchedKeys(t))
  <2>1. CASE s \in TouchedKeys(t)
    <3>1. TouchedKeys(t) = loaded \union {s}
      BY <2>1 DEF TouchedKeys
    <3> QED BY <2>1, <3>1, TouchedOrdered DEF TouchedOrder, IndexType
  <2>2. CASE s \notin TouchedKeys(t)
    BY <2>2 DEF TouchedOrder, TouchedKeys, IndexType
  <2> QED BY <2>1, <2>2
<1> QED BY <1>2, <1>3, <1>4, ShedType DEF LoadAndTouch

\* Committing well-formed file contents leaves a well-formed store.
LEMMA CommitType ==
  ASSUME TypeOK, NEW t \in Threads,
         NEW F \in [Stems -> Seq(Pages)], NEW J \in [Stems -> Nat], NEW G \in SUBSET Stems,
         Commit(t, F, J, G)
  PROVE  TypeOK'
<1> DEFINE s == req[t].s
           f == StemOf[s]
           R == [rows EXCEPT ![s] = pending]
           B == [diskBytes EXCEPT ![f] = NewLen(f, F, J, G)]
           O == Touched(diskOlder, booked \union {f}, f)
<1>1. s \in Sessions /\ f \in Stems /\ req[t].p \in Pages
  BY TypeParts, RequestFields
<1>2. PICK V \in Victims(loaded, older, SizeOf(R), MaxIndexBytes, s), D \in Deletable(f, B, O) :
        /\ loaded' = loaded \ (V \union Orphans(D))
        /\ rows' = [r \in Sessions |-> IF r \in loaded' THEN R[r] ELSE <<>>]
        /\ older' = Among(older, loaded')
        /\ booked' = (booked \union {f}) \ D
        /\ diskOlder' = Among(O, booked')
        /\ files' = [g \in Stems |-> IF g \in D THEN <<>> ELSE F[g]]
        /\ junk' = [g \in Stems |-> IF g \in D THEN 0 ELSE J[g]]
        /\ torn' = G \ D /\ present' = present \ D
        /\ owed' = [r \in Sessions |-> IF r \in Orphans(D) THEN {}
                                       ELSE IF r = s THEN Owing(s, req[t].p) ELSE owed[r]]
  BY DEF Commit
<1>3. IndexType'
  <2>1. R \in [Sessions -> Seq(Pages)]
    BY <1>1 DEF TypeOK
  <2>2. rows' \in [Sessions -> Seq(Pages)]
    BY <1>2, <2>1, EmptySeq
  <2>3. IsStrictOrder(older', loaded')
    BY <1>2, AmongOrder DEF TypeOK
  <2> QED BY <1>2, <2>2, <2>3 DEF IndexType, TypeOK
<1>4. DiskType'
  <2>1. files' \in [Stems -> Seq(Pages)]
    BY <1>2, EmptySeq
  <2> QED BY <1>2, <2>1 DEF DiskType, TypeOK
<1>5. BooksType'
  <2>1. IsStrictOrder(O, booked \union {f})
    BY TouchedOrdered DEF TypeOK
  <2> QED BY <1>1, <1>2, <2>1, AmongOrder DEF BooksType, TypeOK
<1>6. LockType'
  BY EmptySeq DEF Commit, LockType, TypeOK
<1>7. CallType'
  BY TypeParts, ReturnType DEF Commit
<1>8. HistoryType'
  <2>1. Owing(s, req[t].p) \subseteq Pages
    BY <1>1 DEF Owing, TypeOK
  <2> QED BY <1>1, <1>2, <2>1 DEF HistoryType, TypeOK, Commit
<1> QED BY <1>3, <1>4, <1>5, <1>6, <1>7, <1>8 DEF TypeOK, IndexType, DiskType,
          BooksType, LockType, CallType, HistoryType

\* The two writes hand Commit well-formed files.
LEMMA WriteType ==
  ASSUME TypeOK, NEW t \in Threads, AppendOk(t) \/ RewriteOk(t)
  PROVE  TypeOK'
<1> DEFINE f == StemOf[req[t].s]
<1>1. f \in Stems /\ req[t].p \in Pages
  BY TypeParts, RequestFields
<1>2. CASE AppendOk(t) /\ f \in torn
  <2>1. [junk EXCEPT ![f] = @ + 1] \in [Stems -> Nat]
    BY <1>1 DEF TypeOK
  <2>2. Commit(t, files, [junk EXCEPT ![f] = @ + 1], torn \ {f})
    BY <1>2 DEF AppendOk
  <2>3. torn \ {f} \in SUBSET Stems /\ files \in [Stems -> Seq(Pages)]
    BY DEF TypeOK
  <2> QED BY <2>1, <2>2, <2>3, CommitType
<1>3. CASE AppendOk(t) /\ f \notin torn
  <2>1. [files EXCEPT ![f] = Append(@, req[t].p)] \in [Stems -> Seq(Pages)]
    BY <1>1, AppendProperties DEF TypeOK
  <2>2. Commit(t, [files EXCEPT ![f] = Append(@, req[t].p)], junk, torn)
    BY <1>3 DEF AppendOk
  <2>3. torn \in SUBSET Stems /\ junk \in [Stems -> Nat]
    BY DEF TypeOK
  <2> QED BY <2>1, <2>2, <2>3, CommitType
<1>4. CASE RewriteOk(t)
  <2>1. [files EXCEPT ![f] = pending] \in [Stems -> Seq(Pages)]
    BY <1>1 DEF TypeOK
  <2>2. Commit(t, [files EXCEPT ![f] = pending], junk, torn)
    BY <1>4 DEF RewriteOk
  <2>3. torn \in SUBSET Stems /\ junk \in [Stems -> Nat]
    BY DEF TypeOK
  <2> QED BY <2>1, <2>2, <2>3, CommitType
<1> QED BY <1>2, <1>3, <1>4

\* The push under the write guard.
LEMMA PushType ==
  ASSUME TypeOK, NEW t \in Threads, PutPushes(t)
  PROVE  TypeOK'
<1> DEFINE f   == StemOf[req[t].s]
           old == TouchedRows(t)[req[t].s]
           new == Append(old, req[t].p)
<1>1. f \in Stems /\ req[t].s \in Sessions /\ req[t].p \in Pages
  BY TypeParts, RequestFields
<1>2. old \in Seq(Pages)
  BY <1>1 DEF TouchedRows, Inserts, TypeOK
<1>3. new \in Seq(Pages) /\ Len(new) \in Nat /\ Len(new) >= 1
  BY <1>1, <1>2, AppendProperties
<1>4. PICK k \in 0 .. Len(new) - 1 :
        /\ pending' = After(new, k)
        /\ pc' = [pc EXCEPT ![t] = IF k = 0 THEN "append" ELSE "rewrite"]
        /\ files' = IF k = 0 THEN files ELSE [files EXCEPT ![f] = <<>>]
        /\ junk' = IF k = 0 THEN junk ELSE [junk EXCEPT ![f] = 0]
        /\ torn' = IF k = 0 THEN torn ELSE torn \ {f}
  BY DEF PutPushes
<1>5. IndexType'
  BY TypeParts, LoadType DEF PutPushes
<1>6. DiskType'
  BY <1>1, <1>4, EmptySeq DEF DiskType, PutPushes, TypeOK
<1>7. LockType'
  <2>1. k \in 0 .. Len(new)
    BY <1>3, <1>4
  <2> QED BY <1>3, <1>4, <2>1, AfterType DEF LockType, PutPushes, TypeOK
<1>8. CallType'
  BY <1>4 DEF CallType, PutPushes, TypeOK, Labels
<1>9. BooksType' /\ HistoryType'
  BY TypeParts DEF PutPushes, BooksType, HistoryType, bookVars
<1> QED BY <1>5, <1>6, <1>7, <1>8, <1>9 DEF TypeOK, IndexType, DiskType,
          BooksType, LockType, CallType, HistoryType

\* A restart finds whatever prefix of a write had reached each file.
LEMMA RestartType ==
  ASSUME TypeOK, Restart
  PROVE  TypeOK'
<1>1. \A f \in Stems : \A e \in Crashed(f) :
        e[1] \in Seq(Pages) /\ e[2] \in Nat /\ e[3] \subseteq Stems
  <2> SUFFICES ASSUME NEW f \in Stems, NEW e \in Crashed(f)
               PROVE  e[1] \in Seq(Pages) /\ e[2] \in Nat /\ e[3] \subseteq Stems
    OBVIOUS
  <2> DEFINE writing == {t \in Threads : lock = t /\ StemOf[req[t].s] = f}
             as_is   == <<files[f], junk[f], torn \intersect {f}>>
  <2>1. files[f] \in Seq(Pages) /\ junk[f] \in Nat
    BY DEF TypeOK
  <2>2. CASE writing = {}
    <3>1. e = as_is
      BY <2>2 DEF Crashed
    <3> QED BY <3>1, <2>1
  <2>3. CASE writing # {}
    <3> DEFINE u == CHOOSE t \in writing : TRUE
    <3>1. u \in Threads
      BY <2>3
    <3>2. req[u].p \in Pages
      BY <3>1, TypeParts, RequestFields
    <3>3. CASE pc[u] = "append"
      <4>1. \/ e = as_is
            \/ e = <<files[f], junk[f], {f}>>
            \/ e = <<files[f], junk[f] + 1, {}>>
            \/ e = <<Append(files[f], req[u].p), junk[f], {}>>
        BY <2>3, <3>3 DEF Crashed
      <4>2. Append(files[f], req[u].p) \in Seq(Pages)
        BY <2>1, <3>2, AppendProperties
      <4>3. junk[f] + 1 \in Nat
        BY <2>1
      <4>4. CASE e = as_is
        BY <4>4, <2>1
      <4>5. CASE e = <<files[f], junk[f], {f}>>
        BY <4>5, <2>1
      <4>6. CASE e = <<files[f], junk[f] + 1, {}>>
        BY <4>6, <4>3, <2>1
      <4>7. CASE e = <<Append(files[f], req[u].p), junk[f], {}>>
        BY <4>7, <4>2, <2>1
      <4> QED BY <4>1, <4>4, <4>5, <4>6, <4>7
    <3>4. CASE pc[u] # "append"
      <4>1. PICK n \in 0 .. Len(pending), g \in {{}, {f}} : e = <<SubSeq(pending, 1, n), 0, g>>
        BY <2>3, <3>4 DEF Crashed
      <4>2. SubSeq(pending, 1, n) \in Seq(Pages)
        BY SubSeqProperties DEF TypeOK
      <4> QED BY <4>1, <4>2
    <3> QED BY <3>3, <3>4
  <2> QED BY <2>2, <2>3
<1>2. PICK F \in [Stems -> UNION {Crashed(f) : f \in Stems}] :
        /\ \A f \in Stems : F[f] \in Crashed(f)
        /\ files' = [f \in Stems |-> F[f][1]]
        /\ junk' = [f \in Stems |-> F[f][2]]
        /\ torn' = UNION {F[f][3] : f \in Stems}
  BY DEF Restart
<1>3. DiskType'
  BY <1>1, <1>2 DEF DiskType, Restart, TypeOK
<1>4. IndexType'
  BY EmptySeq DEF IndexType, Restart, IsStrictOrder
<1>5. BooksType'
  BY DEF BooksType, Restart, TypeOK
<1>6. LockType'
  BY EmptySeq DEF LockType, Restart
<1>7. CallType'
  BY NoRequestType DEF CallType, Restart, Labels
<1>8. HistoryType'
  BY DEF HistoryType, Restart, TypeOK
<1> QED BY <1>3, <1>4, <1>5, <1>6, <1>7, <1>8 DEF TypeOK, IndexType, DiskType,
          BooksType, LockType, CallType, HistoryType

\* A failed write leaves some prefix of what it wrote.
LEMMA FailType ==
  ASSUME TypeOK, NEW t \in Threads, WriteFails(t)
  PROVE  TypeOK'
<1> DEFINE f == StemOf[req[t].s]
<1>1. f \in Stems
  BY TypeParts, RequestFields
<1>2. DiskType'
  <2>1. CASE UNCHANGED <<files, torn>>
    BY <2>1 DEF DiskType, WriteFails, TypeOK
  <2>2. CASE \E n \in 0 .. Len(pending) - 1, g \in {{}, {f}} :
               /\ files' = [files EXCEPT ![f] = SubSeq(pending, 1, n)]
               /\ torn' = torn \union g
    <3>1. PICK n \in 0 .. Len(pending) - 1, g \in {{}, {f}} :
               /\ files' = [files EXCEPT ![f] = SubSeq(pending, 1, n)]
               /\ torn' = torn \union g
      BY <2>2
    <3>2. pending \in Seq(Pages) /\ Len(pending) \in Nat
      BY DEF TypeOK
    <3>3. SubSeq(pending, 1, n) \in Seq(Pages)
      BY <3>2, SubSeqProperties
    <3> QED BY <1>1, <3>1, <3>3 DEF DiskType, WriteFails, TypeOK
  <2> QED BY <2>1, <2>2 DEF WriteFails
<1>3. LockType' /\ CallType'
  BY TypeParts, ReturnType, EmptySeq DEF LockType, WriteFails, TypeOK
<1>4. IndexType' /\ BooksType' /\ HistoryType'
  BY TypeParts DEF WriteFails, IndexType, BooksType, HistoryType, indexVars, bookVars
<1> QED BY <1>2, <1>3, <1>4 DEF TypeOK, IndexType, DiskType,
          BooksType, LockType, CallType, HistoryType

-----------------------------------------------------------------------------
\* The store is well formed in every reachable state, whatever the number of
\* threads, sessions and pages, the bounds and the faults: in particular the
\* recency orders behind both LRU policies stay strict total orders on the keys
\* they order (Index::touch, insert, remove, shed_index, shed_disk), through
\* every eviction, deletion, failed write and restart.
THEOREM TypeCorrect == Spec => []TypeOK
<1>1. Init => TypeOK
  <2> SUFFICES ASSUME Init PROVE TypeOK
    OBVIOUS
  <2>1. IndexType
    BY EmptySeq DEF Init, IndexType, IsStrictOrder
  <2>2. DiskType
    BY EmptySeq DEF Init, DiskType
  <2>3. BooksType
    BY DEF Init, BooksType, IsStrictOrder
  <2>4. LockType
    BY EmptySeq DEF Init, LockType
  <2>5. CallType
    BY NoRequestType DEF Init, CallType, Labels
  <2>6. HistoryType
    BY DEF Init, HistoryType
  <2> QED BY <2>1, <2>2, <2>3, <2>4, <2>5, <2>6, TypeParts
<1>2. TypeOK /\ [Next]_vars => TypeOK'
  <2> SUFFICES ASSUME TypeOK, [Next]_vars
               PROVE  TypeOK'
    OBVIOUS
  <2> USE DEF IndexType, DiskType, BooksType, LockType, CallType, HistoryType
  <2>1. ASSUME NEW t \in Threads, NEW op \in {"put", "get", "delete"},
               NEW s \in Sessions, NEW p \in Pages, Call(t, op, s, p)
        PROVE  TypeOK'
    <3>1. [op |-> op, s |-> s, p |-> IF op = "put" THEN p ELSE NoRequest.p] \in Requests
      BY NoRequestType DEF Requests
    <3> QED BY <2>1, <3>1 DEF Call, TypeOK, Labels, indexVars, diskVars, bookVars, lockVars
  <2>2. ASSUME NEW t \in Threads, ReadFile(t)
        PROVE  TypeOK'
    <3> DEFINE f == files[StemOf[req[t].s]]
    <3>1. f \in Seq(Pages) /\ Len(f) \in Nat
      BY RequestFields DEF TypeOK
    <3>2. PICK n \in 0 .. Len(f) : snap' = [snap EXCEPT ![t] = SubSeq(f, 1, n)]
      <4>1. Len(f) \in 0 .. Len(f)
        BY <3>1
      <4>2. PICK n \in IF "read" \in Faults THEN 0 .. Len(f) ELSE {Len(f)} :
              snap' = [snap EXCEPT ![t] = SubSeq(f, 1, n)]
        BY <2>2 DEF ReadFile
      <4> QED BY <4>1, <4>2
    <3>3. SubSeq(f, 1, n) \in Seq(Pages)
      BY <3>1, SubSeqProperties
    <3> QED BY <2>2, <3>2, <3>3 DEF ReadFile, TypeOK, Labels, indexVars, diskVars, bookVars, lockVars
  <2>3. ASSUME NEW t \in Threads, Refused(t)
        PROVE  TypeOK'
    BY <2>3, ReturnType DEF Refused, TypeOK, indexVars, diskVars, bookVars, lockVars
  <2>4. ASSUME NEW t \in Threads, Get(t) \/ PutKnown(t) \/ OpenFails(t) \/ PutPanics(t)
        PROVE  TypeOK'
    <3>1. IndexType' /\ CallType'
      BY <2>4, TypeParts, ReturnType, LoadType DEF Get, PutKnown, OpenFails, PutPanics
    <3>2. DiskType' /\ BooksType' /\ LockType'
      BY <2>4 DEF Get, PutKnown, OpenFails, PutPanics, TypeOK, diskVars, bookVars, lockVars
    <3>3. HistoryType'
      BY <2>4, RequestFields DEF Get, PutKnown, OpenFails, PutPanics, TypeOK
    <3> QED BY <3>1, <3>2, <3>3, TypeParts DEF TypeOK
  <2>5. ASSUME NEW t \in Threads, DeleteBooks(t)
        PROVE  TypeOK'
    <3> DEFINE s == req[t].s
               f == StemOf[s]
    <3>1. IsStrictOrder(Among(older, loaded \ {s}), loaded \ {s})
      BY AmongOrder DEF TypeOK
    <3>2. IsStrictOrder(Among(diskOlder, booked \ {f}), booked \ {f})
      BY AmongOrder DEF TypeOK
    <3>3. CASE poisoned
      BY <2>5, <3>3 DEF DeleteBooks, TypeOK, indexVars, bookVars, diskVars, lockVars, Labels
    <3>4. CASE ~poisoned
      <4>1. IndexType'
        <5>1. [rows EXCEPT ![s] = <<>>] \in [Sessions -> Seq(Pages)]
          BY EmptySeq DEF TypeOK
        <5> QED BY <2>5, <3>4, <3>1, <5>1 DEF DeleteBooks, TypeOK
      <4>2. BooksType'
        BY <2>5, <3>4, <3>2 DEF DeleteBooks, TypeOK
      <4> QED BY <2>5, <4>1, <4>2 DEF DeleteBooks, TypeOK, diskVars, lockVars, Labels
    <3> QED BY <3>3, <3>4
  <2>6. ASSUME NEW t \in Threads, DeleteFile(t)
        PROVE  TypeOK'
    <3>1. CallType'
      BY <2>6, TypeParts, ReturnType DEF DeleteFile
    <3> DEFINE f == StemOf[req[t].s]
    <3>2. [files EXCEPT ![f] = <<>>] \in [Stems -> Seq(Pages)]
      BY EmptySeq DEF TypeOK
    <3>3. [junk EXCEPT ![f] = 0] \in [Stems -> Nat]
      BY DEF TypeOK
    <3>4. DiskType'
      BY <2>6, <3>2, <3>3 DEF DeleteFile, TypeOK, diskVars
    <3>5. HistoryType'
      BY <2>6 DEF DeleteFile, TypeOK
    <3> QED BY <2>6, <3>1, <3>4, <3>5 DEF DeleteFile, TypeOK, indexVars, bookVars, lockVars
  <2>7. CASE UNCHANGED vars
    BY <2>7 DEF TypeOK, vars, indexVars, diskVars, bookVars, lockVars, callVars
  <2> QED BY <2>1, <2>2, <2>3, <2>4, <2>5, <2>6, <2>7, WriteType, PushType, FailType,
             RestartType DEF Next, Step
<1> QED BY <1>1, <1>2, PTL DEF Spec

-----------------------------------------------------------------------------
(* Provenance *)

\* Every page of q was handed to put under the file name f.
From(q, f) == \A i \in 1 .. Len(q) : q[i] \in PutUnder(f)

\* The threads that are writing a file hold the write guard and serve a put.
GuardHeld ==
  \A t \in Threads :
    /\ pc[t] \in {"append", "rewrite"} <=> lock = t
    /\ pc[t] \in {"append", "rewrite"} => req[t].op = "put"
    /\ pc[t] = "idle" => snap[t] = NoSnap

\* Wherever rows wait - in the index, in a file, in the hands of a thread that
\* read them outside the lock, behind the guard - their pages were put there.
IndexFrom == \A s \in Sessions : From(rows[s], StemOf[s])
FilesFrom == \A f \in Stems : From(files[f], f)
CallsFrom ==
  \A t \in Threads :
    /\ snap[t] # NoSnap => From(snap[t], StemOf[req[t].s])
    /\ lock = t => From(pending, StemOf[req[t].s])
    /\ pc[t] # "idle" /\ req[t].op = "put" => req[t].p \in putBy[req[t].s]
Sourced == IndexFrom /\ FilesFrom /\ CallsFrom

ProvenanceInv == TypeOK /\ GuardHeld /\ Sourced

\* An empty file holds only pages put under its name.
LEMMA EmptyFrom == \A f : From(<<>>, f)
BY EmptySeq DEF From

\* Appending a page that was put under a name keeps the rows from that name.
LEMMA AppendFrom ==
  ASSUME NEW q \in Seq(Pages), NEW p \in Pages, NEW f, From(q, f), p \in PutUnder(f)
  PROVE  From(Append(q, p), f)
BY AppendProperties DEF From

\* So does cutting rows off.
LEMMA SubSeqFrom ==
  ASSUME NEW q \in Seq(Pages), NEW f, From(q, f), NEW m \in 1 .. Len(q) + 1, NEW n \in 0 .. Len(q)
  PROVE  From(SubSeq(q, m, n), f)
BY SubSeqProperties DEF From

\* What was put stays put: no action forgets the history.
LEMMA PutGrows ==
  ASSUME TypeOK, [Next]_vars
  PROVE  /\ \A s \in Sessions : putBy[s] \subseteq putBy'[s]
         /\ \A q, f : From(q, f) => From(q, f)'
<1>1. \A s \in Sessions : putBy[s] \subseteq putBy'[s]
  <2>1. ASSUME NEW t \in Threads, NEW op \in {"put", "get", "delete"},
               NEW s \in Sessions, NEW p \in Pages, Call(t, op, s, p)
        PROVE  \A r \in Sessions : putBy[r] \subseteq putBy'[r]
    BY <2>1 DEF Call, TypeOK
  <2>2. ASSUME NEW t \in Threads,
               \/ ReadFile(t) \/ Refused(t) \/ Get(t) \/ PutPanics(t) \/ PutKnown(t)
               \/ PutPushes(t) \/ OpenFails(t) \/ WriteFails(t) \/ DeleteBooks(t) \/ DeleteFile(t)
        PROVE  putBy' = putBy
    BY <2>2 DEF ReadFile, Refused, Get, PutPanics, PutKnown, PutPushes, OpenFails, WriteFails,
                DeleteBooks, DeleteFile
  <2>3. ASSUME NEW t \in Threads, AppendOk(t) \/ RewriteOk(t)
        PROVE  putBy' = putBy
    BY <2>3 DEF AppendOk, RewriteOk, Commit
  <2>4. CASE Restart \/ UNCHANGED vars
    BY <2>4 DEF Restart, vars
  <2> QED BY <2>1, <2>2, <2>3, <2>4 DEF Next, Step
<1>2. \A f : PutUnder(f) \subseteq PutUnder(f)'
  BY <1>1 DEF PutUnder
<1> QED BY <1>1, <1>2 DEF From

\* shed_index and load_and_touch only insert rows a thread read for its session.
LEMMA LoadFrom ==
  ASSUME TypeOK, Sourced, NEW t \in Threads, LoadAndTouch(t)
  PROVE  /\ \A s \in Sessions : From(TouchedRows(t)[s], StemOf[s])
         /\ \A s \in Sessions : From(rows'[s], StemOf[s])
<1>1. \A s \in Sessions : From(TouchedRows(t)[s], StemOf[s])
  BY RequestFields DEF TouchedRows, Inserts, Sourced, IndexFrom, CallsFrom, TypeOK, CallType
<1>2. PICK V \in SUBSET Sessions :
        rows' = [s \in Sessions |-> IF s \in V THEN <<>> ELSE TouchedRows(t)[s]]
  <2>1. TouchedKeys(t) \subseteq Sessions
    BY RequestFields DEF TouchedKeys, TypeOK, CallType
  <2> QED BY <2>1 DEF LoadAndTouch, ShedIndex, Victims
<1> QED BY <1>1, <1>2, EmptyFrom

\* A thread that returns is idle and holds no rows; the others do not move.
LEMMA ReturnGuard ==
  ASSUME TypeOK, NEW t \in Threads, Return(t)
  PROVE  /\ pc'[t] = "idle" /\ snap'[t] = NoSnap
         /\ \A u \in Threads \ {t} : pc'[u] = pc[u] /\ snap'[u] = snap[u] /\ req'[u] = req[u]
BY DEF Return, TypeOK

\* The guard discipline is preserved by every step.
LEMMA GuardStep ==
  ASSUME TypeOK, GuardHeld, [Next]_vars
  PROVE  GuardHeld'
<1>1. ASSUME NEW t \in Threads, NEW op \in {"put", "get", "delete"},
             NEW s \in Sessions, NEW p \in Pages, Call(t, op, s, p)
      PROVE  GuardHeld'
  BY <1>1, ConstantsAssumption DEF Call, GuardHeld, TypeOK, lockVars
<1>2. ASSUME NEW t \in Threads, ReadFile(t) \/ DeleteBooks(t)
      PROVE  GuardHeld'
  BY <1>2 DEF ReadFile, DeleteBooks, GuardHeld, TypeOK, lockVars
<1>3. ASSUME NEW t \in Threads,
             \/ Refused(t) \/ Get(t) \/ PutPanics(t) \/ PutKnown(t) \/ OpenFails(t) \/ DeleteFile(t)
      PROVE  GuardHeld'
  <2>1. lock' = lock /\ Return(t) /\ lock # t
    BY <1>3 DEF Refused, Get, PutPanics, PutKnown, OpenFails, DeleteFile, Enter, GuardHeld, lockVars
  <2> QED BY <2>1, ReturnGuard DEF GuardHeld
<1>4. ASSUME NEW t \in Threads, PutPushes(t)
      PROVE  GuardHeld'
  BY <1>4, ConstantsAssumption DEF PutPushes, Enter, GuardHeld, TypeOK
<1>5. ASSUME NEW t \in Threads, AppendOk(t) \/ RewriteOk(t) \/ WriteFails(t)
      PROVE  GuardHeld'
  <2>1. lock' = NoThread /\ Return(t) /\ lock = t
    BY <1>5 DEF AppendOk, RewriteOk, Commit, WriteFails, GuardHeld
  <2> QED BY <2>1, ReturnGuard, ConstantsAssumption DEF GuardHeld
<1>6. CASE Restart
  BY <1>6, ConstantsAssumption DEF Restart, GuardHeld
<1>7. CASE UNCHANGED vars
  BY <1>7 DEF vars, callVars, lockVars, GuardHeld
<1> QED BY <1>1, <1>2, <1>3, <1>4, <1>5, <1>6, <1>7 DEF Next, Step

\* The page a put brings is put under its session's file name.
LEMMA OwnPage ==
  ASSUME TypeOK, CallsFrom, NEW t \in Threads, pc[t] # "idle", req[t].op = "put"
  PROVE  req[t].p \in PutUnder(StemOf[req[t].s])
BY RequestFields DEF CallsFrom, PutUnder, TypeOK, CallType

\* After a call returns, what the other calls hold still comes from their files.
LEMMA ReturnFrom ==
  ASSUME ProvenanceInv, [Next]_vars, NEW t \in Threads, Return(t),
         lock' = NoThread \/ (lock' = lock /\ pending' = pending /\ lock # t)
  PROVE  CallsFrom'
<1>1. SUFFICES ASSUME NEW u \in Threads
               PROVE  /\ snap'[u] # NoSnap => From(snap[u], StemOf[req[u].s])'
                      /\ lock' = u => From(pending, StemOf[req[u].s])'
                      /\ pc'[u] # "idle" /\ req'[u].op = "put" => req'[u].p \in putBy'[req'[u].s]
  BY DEF CallsFrom
<1>2. CASE u = t
  BY <1>2, ReturnGuard, ConstantsAssumption DEF ProvenanceInv
<1>3. CASE u # t
  <2>1. pc'[u] = pc[u] /\ snap'[u] = snap[u] /\ req'[u] = req[u]
    BY <1>3, ReturnGuard DEF ProvenanceInv
  <2>2. req[u].s \in Sessions
    BY RequestFields DEF ProvenanceInv, TypeOK, CallType
  <2>3. snap[u] # NoSnap => From(snap[u], StemOf[req[u].s])
    BY DEF ProvenanceInv, Sourced, CallsFrom
  <2>4. lock = u => From(pending, StemOf[req[u].s])
    BY DEF ProvenanceInv, Sourced, CallsFrom
  <2>5. putBy[req[u].s] \subseteq putBy'[req[u].s]
    BY <2>2, PutGrows DEF ProvenanceInv
  <2>6. \A q, f : From(q, f) => From(q, f)'
    BY PutGrows DEF ProvenanceInv
  <2>7. snap'[u] # NoSnap => From(snap[u], StemOf[req[u].s])'
    BY <2>1, <2>3, <2>6
  <2>8. lock' = u => pending' = pending /\ lock = u
    BY ConstantsAssumption
  <2>9. pc[u] # "idle" /\ req[u].op = "put" => req[u].p \in putBy[req[u].s]
    BY DEF ProvenanceInv, Sourced, CallsFrom
  <2> QED BY <2>1, <2>4, <2>5, <2>6, <2>7, <2>8, <2>9
<1> QED BY <1>2, <1>3

\* Rows and files that are sourced under the old history are under the new one.
LEMMA Keep ==
  ASSUME TypeOK, [Next]_vars
  PROVE  /\ (\A s \in Sessions : From(rows'[s], StemOf[s])) => IndexFrom'
         /\ (\A f \in Stems : From(files'[f], f)) => FilesFrom'
BY PutGrows DEF IndexFrom, FilesFrom

\* Committing sourced files leaves sourced rows and files.
LEMMA CommitFrom ==
  ASSUME ProvenanceInv, [Next]_vars, NEW t \in Threads, pc[t] \in {"append", "rewrite"},
         NEW F, NEW J, NEW G, \A f \in Stems : From(F[f], f), Commit(t, F, J, G)
  PROVE  Sourced'
<1> DEFINE s == req[t].s
           R == [rows EXCEPT ![s] = pending]
<1>1. \A r \in Sessions : From(R[r], StemOf[r])
  BY RequestFields DEF ProvenanceInv, GuardHeld, Sourced, IndexFrom, CallsFrom, TypeOK, CallType
<1> DEFINE f == StemOf[s]
           B == [diskBytes EXCEPT ![f] = NewLen(f, F, J, G)]
           O == Touched(diskOlder, booked \union {f}, f)
<1>2. PICK V \in Victims(loaded, older, SizeOf(R), MaxIndexBytes, s), D \in Deletable(f, B, O) :
        /\ rows' = [r \in Sessions |-> IF r \in loaded' THEN R[r] ELSE <<>>]
        /\ files' = [g \in Stems |-> IF g \in D THEN <<>> ELSE F[g]]
  BY DEF Commit
<1>3. IndexFrom' /\ FilesFrom'
  BY <1>1, <1>2, EmptyFrom, Keep DEF ProvenanceInv
<1>4. CallsFrom'
  BY ReturnFrom DEF Commit
<1> QED BY <1>3, <1>4 DEF Sourced

\* Every step keeps every row sourced.
LEMMA SourcedStep ==
  ASSUME ProvenanceInv, [Next]_vars
  PROVE  Sourced'
<1> USE DEF ProvenanceInv
<1>1. ASSUME NEW t \in Threads, NEW op \in {"put", "get", "delete"},
             NEW s \in Sessions, NEW p \in Pages, Call(t, op, s, p)
      PROVE  Sourced'
  <2>1. IndexFrom' /\ FilesFrom'
    BY <1>1, Keep DEF Call, indexVars, diskVars, Sourced, IndexFrom, FilesFrom
  <2>2. ASSUME NEW u \in Threads, u # t
        PROVE  pc'[u] = pc[u] /\ req'[u] = req[u]
    BY <1>1, <2>2 DEF Call, TypeOK
  <2>3. lock' = NoThread /\ snap' = snap /\ snap[t] = NoSnap
    BY <1>1 DEF Call, GuardHeld, lockVars
  <2>4. req'[t].op = "put" => req'[t].p \in putBy'[req'[t].s]
    BY <1>1 DEF Call, TypeOK
  <2>5. ASSUME NEW u \in Threads, u # t
        PROVE  /\ snap'[u] # NoSnap => From(snap[u], StemOf[req[u].s])'
               /\ pc'[u] # "idle" /\ req'[u].op = "put" => req'[u].p \in putBy'[req'[u].s]
    BY <2>2, <2>3, <2>5, PutGrows, RequestFields DEF Sourced, CallsFrom, TypeOK, CallType
  <2>6. CallsFrom'
    BY <2>3, <2>4, <2>5, ConstantsAssumption DEF CallsFrom
  <2> QED BY <2>1, <2>6 DEF Sourced
<1>2. ASSUME NEW t \in Threads, ReadFile(t)
      PROVE  Sourced'
  <2> DEFINE f == files[StemOf[req[t].s]]
  <2>1. f \in Seq(Pages) /\ Len(f) \in Nat /\ From(f, StemOf[req[t].s])
    BY RequestFields DEF TypeOK, CallType, Sourced, FilesFrom
  <2>2. PICK n \in 0 .. Len(f) : snap' = [snap EXCEPT ![t] = SubSeq(f, 1, n)]
    <3>1. Len(f) \in 0 .. Len(f)
      BY <2>1
    <3>2. PICK n \in IF "read" \in Faults THEN 0 .. Len(f) ELSE {Len(f)} :
            snap' = [snap EXCEPT ![t] = SubSeq(f, 1, n)]
      BY <1>2 DEF ReadFile
    <3> QED BY <3>1, <3>2
  <2>3. From(SubSeq(f, 1, n), StemOf[req[t].s])
    <3>1. 1 \in 1 .. Len(f) + 1
      BY <2>1
    <3> QED BY <2>1, <3>1, SubSeqFrom
  <2>4. UNCHANGED <<rows, files, req, lock, pending, putBy>>
    BY <1>2 DEF ReadFile, indexVars, diskVars, lockVars
  <2>5. \A u \in Threads : snap'[u] = (IF u = t THEN SubSeq(f, 1, n) ELSE snap[u])
    BY <2>2 DEF TypeOK
  <2>6. \A u \in Threads : pc'[u] # "idle" => pc[u] # "idle"
    BY <1>2 DEF ReadFile, TypeOK
  <2>7. ASSUME NEW u \in Threads
        PROVE  /\ snap'[u] # NoSnap => From(snap[u], StemOf[req[u].s])'
               /\ lock' = u => From(pending, StemOf[req[u].s])'
               /\ pc'[u] # "idle" /\ req'[u].op = "put" => req'[u].p \in putBy'[req'[u].s]
    <3>1. snap'[u] # NoSnap => From(snap[u], StemOf[req[u].s])'
      <4>1. CASE u = t
        BY <2>3, <2>4, <2>5, <4>1, PutGrows
      <4>2. CASE u # t
        BY <2>4, <2>5, <4>2, PutGrows DEF Sourced, CallsFrom
      <4> QED BY <4>1, <4>2
    <3>2. lock' = u => From(pending, StemOf[req[u].s])'
      BY <2>4, PutGrows DEF Sourced, CallsFrom
    <3> QED BY <2>4, <2>6, <3>1, <3>2 DEF Sourced, CallsFrom
  <2>8. CallsFrom'
    BY <2>7 DEF CallsFrom
  <2> QED BY <2>4, <2>8, Keep DEF Sourced, IndexFrom, FilesFrom
<1>3. ASSUME NEW t \in Threads, Get(t) \/ PutPanics(t) \/ PutKnown(t) \/ OpenFails(t)
      PROVE  Sourced'
  <2>1. LoadAndTouch(t) /\ files' = files /\ Return(t) /\ lock' = lock /\ pending' = pending
        /\ lock # t
    BY <1>3 DEF Get, PutPanics, PutKnown, OpenFails, Enter, GuardHeld, diskVars, lockVars
  <2>2. IndexFrom' /\ FilesFrom'
    BY <2>1, LoadFrom, Keep DEF Sourced, FilesFrom
  <2> QED BY <2>1, <2>2, ReturnFrom DEF Sourced
<1>4. ASSUME NEW t \in Threads, Refused(t)
      PROVE  Sourced'
  <2>1. UNCHANGED <<rows, files>> /\ Return(t) /\ lock' = lock /\ pending' = pending /\ lock # t
    BY <1>4 DEF Refused, GuardHeld, indexVars, diskVars, lockVars
  <2> QED BY <2>1, Keep, ReturnFrom DEF Sourced, IndexFrom, FilesFrom
<1>5. ASSUME NEW t \in Threads, PutPushes(t)
      PROVE  Sourced'
  <2> DEFINE f   == StemOf[req[t].s]
             old == TouchedRows(t)[req[t].s]
             new == Append(old, req[t].p)
  <2>1. req[t].s \in Sessions /\ req[t].p \in Pages /\ f \in Stems
    BY RequestFields DEF TypeOK, CallType
  <2>2. old \in Seq(Pages)
    BY <2>1 DEF TouchedRows, Inserts, TypeOK
  <2>3. From(new, f)
    BY <1>5, <2>1, <2>2, LoadFrom, OwnPage, AppendFrom DEF PutPushes, Enter, Sourced
  <2>4. new \in Seq(Pages) /\ Len(new) \in Nat /\ Len(new) >= 1
    BY <2>1, <2>2, AppendProperties
  <2>5. PICK k \in 0 .. Len(new) - 1 :
          /\ pending' = After(new, k)
          /\ files' = IF k = 0 THEN files ELSE [files EXCEPT ![f] = <<>>]
    BY <1>5 DEF PutPushes
  <2>6. From(pending', f)
    <3>1. k + 1 \in 1 .. Len(new) + 1 /\ Len(new) \in 0 .. Len(new)
      BY <2>4, <2>5
    <3> QED BY <2>3, <2>4, <2>5, <3>1, SubSeqFrom DEF After
  <2>7. IndexFrom'
    BY <1>5, LoadFrom, Keep DEF PutPushes
  <2>8. FilesFrom'
    <3>1. \A g \in Stems : From(files'[g], g)
      BY <2>5, EmptyFrom DEF Sourced, FilesFrom, TypeOK
    <3> QED BY <3>1, Keep
  <2>9. UNCHANGED <<req, snap, putBy>> /\ lock' = t /\ pc[t] # "idle"
    BY <1>5 DEF PutPushes, Enter
  <2>10. \A u \in Threads : u # t => pc'[u] = pc[u]
    BY <1>5 DEF PutPushes, TypeOK
  <2>11. CallsFrom'
    BY <2>6, <2>9, <2>10 DEF CallsFrom, Sourced, From, PutUnder
  <2> QED BY <2>7, <2>8, <2>11 DEF Sourced
<1>6. ASSUME NEW t \in Threads, AppendOk(t)
      PROVE  Sourced'
  <2> DEFINE f == StemOf[req[t].s]
  <2>1. pc[t] \in {"append", "rewrite"}
    BY <1>6 DEF AppendOk
  <2>2. CASE f \in torn
    <3>1. Commit(t, files, [junk EXCEPT ![f] = @ + 1], torn \ {f})
      BY <1>6, <2>2 DEF AppendOk
    <3> QED BY <2>1, <3>1, CommitFrom DEF Sourced, FilesFrom
  <2>3. CASE f \notin torn
    <3> DEFINE F == [files EXCEPT ![f] = Append(@, req[t].p)]
    <3>1. Commit(t, F, junk, torn)
      BY <1>6, <2>3 DEF AppendOk
    <3>2. f \in Stems /\ req[t].p \in Pages /\ files[f] \in Seq(Pages)
      BY RequestFields DEF TypeOK, CallType
    <3>3. req[t].p \in PutUnder(f)
      BY <2>1, OwnPage DEF GuardHeld, Sourced
    <3>4. From(Append(files[f], req[t].p), f)
      BY <3>2, <3>3, AppendFrom DEF Sourced, FilesFrom
    <3>5. \A g \in Stems : From(F[g], g)
      BY <3>4 DEF Sourced, FilesFrom, TypeOK
    <3> QED BY <2>1, <3>1, <3>5, CommitFrom
  <2> QED BY <2>2, <2>3
<1>7. ASSUME NEW t \in Threads, RewriteOk(t)
      PROVE  Sourced'
  <2> DEFINE F == [files EXCEPT ![StemOf[req[t].s]] = pending]
  <2>1. pc[t] \in {"append", "rewrite"} /\ Commit(t, F, junk, torn)
    BY <1>7 DEF RewriteOk
  <2>2. From(pending, StemOf[req[t].s])
    BY <2>1 DEF GuardHeld, Sourced, CallsFrom
  <2>3. \A g \in Stems : From(F[g], g)
    BY <2>2 DEF Sourced, FilesFrom, TypeOK
  <2> QED BY <2>1, <2>3, CommitFrom
<1>8. ASSUME NEW t \in Threads, WriteFails(t)
      PROVE  Sourced'
  <2> DEFINE f == StemOf[req[t].s]
  <2>1. From(pending, f)
    BY <1>8 DEF WriteFails, GuardHeld, Sourced, CallsFrom
  <2>2. rows' = rows /\ lock' = NoThread /\ Return(t)
    BY <1>8 DEF WriteFails, indexVars
  <2>3. \A g \in Stems : From(files'[g], g)
    <3>1. CASE files' = files
      BY <3>1 DEF Sourced, FilesFrom
    <3>2. CASE \E n \in 0 .. Len(pending) - 1 : files' = [files EXCEPT ![f] = SubSeq(pending, 1, n)]
      <4>1. PICK n \in 0 .. Len(pending) - 1 : files' = [files EXCEPT ![f] = SubSeq(pending, 1, n)]
        BY <3>2
      <4>2. pending \in Seq(Pages) /\ Len(pending) \in Nat
        BY DEF TypeOK
      <4>3. n \in 0 .. Len(pending) /\ 1 \in 1 .. Len(pending) + 1
        BY <4>2
      <4>4. From(SubSeq(pending, 1, n), f)
        BY <2>1, <4>2, <4>3, SubSeqFrom
      <4> QED BY <4>1, <4>4 DEF Sourced, FilesFrom, TypeOK
    <3> QED BY <1>8, <3>1, <3>2 DEF WriteFails
  <2> QED BY <2>2, <2>3, Keep, ReturnFrom DEF Sourced, IndexFrom
<1>9. ASSUME NEW t \in Threads, DeleteBooks(t)
      PROVE  Sourced'
  <2>1. UNCHANGED <<files, req, snap, lock, pending, putBy>> /\ pc[t] # "idle"
    BY <1>9 DEF DeleteBooks, diskVars, lockVars
  <2>2. \A s \in Sessions : rows'[s] = rows[s] \/ rows'[s] = <<>>
    BY <1>9 DEF DeleteBooks, indexVars, TypeOK
  <2>3. \A u \in Threads : pc'[u] # "idle" => pc[u] # "idle"
    BY <1>9 DEF DeleteBooks, TypeOK
  <2>4. CallsFrom'
    BY <2>1, <2>3 DEF CallsFrom, Sourced, From, PutUnder
  <2>5. \A s \in Sessions : From(rows'[s], StemOf[s])
    BY <2>2, EmptyFrom DEF Sourced, IndexFrom
  <2> QED BY <2>1, <2>4, <2>5, Keep DEF Sourced, FilesFrom
<1>10. ASSUME NEW t \in Threads, DeleteFile(t)
       PROVE  Sourced'
  <2>1. rows' = rows /\ lock' = lock /\ pending' = pending /\ Return(t) /\ lock # t
    BY <1>10 DEF DeleteFile, GuardHeld, indexVars, lockVars
  <2>2. \A f \in Stems : files'[f] = files[f] \/ files'[f] = <<>>
    BY <1>10 DEF DeleteFile, diskVars, TypeOK
  <2>3. \A f \in Stems : From(files'[f], f)
    BY <2>2, EmptyFrom DEF Sourced, FilesFrom
  <2> QED BY <2>1, <2>3, Keep, ReturnFrom DEF Sourced, IndexFrom
<1>12. CASE UNCHANGED vars
  BY <1>12 DEF vars, indexVars, diskVars, lockVars, callVars, Sourced, IndexFrom, FilesFrom,
               CallsFrom, From, PutUnder
<1>11. CASE Restart
  <2>1. \A f \in Stems : \A e \in Crashed(f) : From(e[1], f)
    <3> SUFFICES ASSUME NEW f \in Stems, NEW e \in Crashed(f) PROVE From(e[1], f)
      OBVIOUS
    <3> DEFINE writing == {t \in Threads : lock = t /\ StemOf[req[t].s] = f}
               u == CHOOSE t \in writing : TRUE
    <3>1. files[f] \in Seq(Pages) /\ From(files[f], f)
      BY DEF TypeOK, Sourced, FilesFrom
    <3>2. CASE e[1] = files[f]
      BY <3>1, <3>2
    <3>3. CASE writing # {} /\ pc[u] = "append" /\ e[1] = Append(files[f], req[u].p)
      <4>1. u \in Threads /\ StemOf[req[u].s] = f
        BY <3>3
      <4>2. req[u].p \in Pages /\ req[u].p \in PutUnder(f)
        BY <3>3, <4>1, OwnPage, RequestFields DEF GuardHeld, Sourced, TypeOK, CallType
      <4> QED BY <3>1, <3>3, <4>2, AppendFrom
    <3>4. CASE writing # {} /\ \E n \in 0 .. Len(pending) : e[1] = SubSeq(pending, 1, n)
      <4>1. u \in Threads /\ StemOf[req[u].s] = f /\ lock = u
        BY <3>4
      <4> HIDE DEF u
      <4>2. From(pending, f) /\ pending \in Seq(Pages) /\ Len(pending) \in Nat
        <5>1. From(pending, StemOf[req[u].s])
          BY <4>1 DEF Sourced, CallsFrom
        <5>2. pending \in Seq(Pages)
          BY DEF TypeOK
        <5> QED BY <4>1, <5>1, <5>2
      <4>3. 1 \in 1 .. Len(pending) + 1
        BY <4>2
      <4> QED BY <3>4, <4>2, <4>3, SubSeqFrom
    <3>5. CASE writing = {}
      <4>1. e = <<files[f], junk[f], torn \intersect {f}>>
        BY <3>5 DEF Crashed
      <4> QED BY <3>2, <4>1
    <3>6. CASE writing # {} /\ pc[u] = "append"
      <4>1. \/ e = <<files[f], junk[f], torn \intersect {f}>>
            \/ e = <<files[f], junk[f], {f}>>
            \/ e = <<files[f], junk[f] + 1, {}>>
            \/ e = <<Append(files[f], req[u].p), junk[f], {}>>
        BY <3>6 DEF Crashed
      <4>2. e[1] = files[f] \/ e[1] = Append(files[f], req[u].p)
        BY <4>1
      <4> QED BY <3>2, <3>3, <3>6, <4>2
    <3>7. CASE writing # {} /\ pc[u] # "append"
      <4>1. PICK n \in 0 .. Len(pending), g \in {{}, {f}} : e = <<SubSeq(pending, 1, n), 0, g>>
        BY <3>7 DEF Crashed
      <4> QED BY <3>4, <3>7, <4>1
    <3> QED BY <3>5, <3>6, <3>7
  <2>2. \A f \in Stems : From(files'[f], f)
    BY <1>11, <2>1 DEF Restart
  <2>3. \A s \in Sessions : From(rows'[s], StemOf[s])
    BY <1>11, EmptyFrom DEF Restart
  <2>4. CallsFrom'
    BY <1>11, ConstantsAssumption DEF Restart, CallsFrom
  <2> QED BY <2>2, <2>3, <2>4, Keep DEF Sourced
<1> QED BY <1>1, <1>2, <1>3, <1>4, <1>5, <1>6, <1>7, <1>8, <1>9, <1>10, <1>11, <1>12 DEF Next, Step

\* The strengthening of Provenance is an inductive invariant.
THEOREM SourcedAlways == Spec => []ProvenanceInv
<1>1. Init => GuardHeld /\ Sourced
  BY ConstantsAssumption, EmptyFrom DEF Init, GuardHeld, Sourced, IndexFrom, FilesFrom, CallsFrom
<1>2. TypeOK /\ TypeOK' /\ GuardHeld /\ Sourced /\ [Next]_vars => GuardHeld' /\ Sourced'
  BY GuardStep, SourcedStep DEF ProvenanceInv
<1> QED BY <1>1, <1>2, TypeCorrect, PTL DEF Spec, ProvenanceInv

\* No page is ever readable in a session whose file name it was not put under:
\* the rows get answers from were put there, although a load inserts rows read
\* outside the lock, writes fail half way, evictions rewrite and delete files,
\* and the process restarts (load_and_touch, put, get, open_with_limits).
THEOREM ProvenanceCorrect == Spec => []Provenance
<1>1. ProvenanceInv => Provenance
  <2> SUFFICES ASSUME ProvenanceInv, NEW s \in Sessions, NEW p \in Visible(s)
               PROVE  p \in PutUnder(StemOf[s])
    BY DEF Provenance
  <2>1. StemOf[s] \in Stems
    BY ConstantsAssumption
  <2>2. rows[s] \in Seq(Pages) /\ From(rows[s], StemOf[s])
    BY DEF ProvenanceInv, TypeOK, Sourced, IndexFrom
  <2>3. files[StemOf[s]] \in Seq(Pages) /\ From(files[StemOf[s]], StemOf[s])
    BY <2>1 DEF ProvenanceInv, TypeOK, Sourced, FilesFrom
  <2> QED BY <2>2, <2>3 DEF Visible, OnDisk, ToSet, From
<1> QED BY <1>1, SourcedAlways, PTL

-----------------------------------------------------------------------------
(* Sums.  The library's induction theorems take the property as an operator, *)
(* which the provers cannot instantiate; that every set of naturals has a    *)
(* least element needs no operator, and gives induction over sets.           *)

\* Every nonempty set of naturals has a least element.
LEMMA LeastNat ==
  ASSUME NEW T \in SUBSET Nat, T # {}
  PROVE  \E x \in T : \A y \in T : x <= y
<1>1. PICK x \in T : \A y \in T : ~ (<<y, x>> \in OpToRel(<, Nat))
  BY NatLessThanWellFounded, WFMin
<1>2. \A y \in T : ~(y < x)
  BY <1>1 DEF OpToRel
<1> QED BY <1>2

\* A set of naturals with 0 and with the successor of each of its members has them all.
LEMMA NatInduct ==
  ASSUME NEW T, 0 \in T, \A n \in Nat : n \in T => n + 1 \in T
  PROVE  Nat \subseteq T
<1> SUFFICES ASSUME Nat \ T # {} PROVE FALSE
  OBVIOUS
<1>1. PICK x \in Nat \ T : \A y \in Nat \ T : x <= y
  BY LeastNat
<1>2. x # 0 /\ x - 1 \in Nat /\ x - 1 \in T
  BY <1>1
<1> QED BY <1>1, <1>2

Pick(s) == CHOOSE x \in s : TRUE

\* The summand a fold takes next from each set that has some.
Chooses(c, S) == \A s \in SUBSET S : s # {} => c[s] \in s

\* g gives the sums of w over the subsets of S, as far as it gives naturals.
Plus(c, w, g, s) == IF s = {} THEN 0 ELSE w[c[s]] + g[s \ {c[s]}]
Sums(c, w, g, S) ==
  \A s \in SUBSET S : s = {} \/ g[s \ {c[s]}] \in Nat => g[s] = Plus(c, w, g, s)
Weighs(S, w)     == \A x \in S : w[x] \in Nat
Naturals(g, S)   == \A s \in SUBSET S : g[s] \in Nat

Summed(c, w, g, S) ==
  g \in [SUBSET S -> Nat] /\ Naturals(g, S) /\ \A s \in SUBSET S : g[s] = Plus(c, w, g, s)

\* The subsets of a finite set are finite.
LEMMA Parts ==
  ASSUME NEW S, IsFiniteSet(S)
  PROVE  \A s \in SUBSET S : IsFiniteSet(s)
BY FS_Subset

\* A set without one of its elements has one element less.
LEMMA Smaller ==
  ASSUME NEW s, IsFiniteSet(s)
  PROVE  /\ Cardinality(s) \in Nat
         /\ Cardinality(s) <= 0 => s = {}
         /\ \A x \in s : Cardinality(s \ {x}) = Cardinality(s) - 1
BY FS_CardinalityType, FS_EmptySet, FS_RemoveElement

\* There is one function of that kind.
LEMMA SumUnique ==
  ASSUME NEW S, IsFiniteSet(S), NEW c, Chooses(c, S), NEW w, NEW g, NEW h,
         Sums(c, w, g, S), Naturals(g, S), Sums(c, w, h, S)
  PROVE  \A s \in SUBSET S : g[s] = h[s]
<1> DEFINE T == {n \in Nat : \A s \in SUBSET S : Cardinality(s) <= n => g[s] = h[s]}
<1>0. ASSUME NEW s \in SUBSET S, s = {} PROVE g[s] = h[s]
  BY <1>0 DEF Plus, Sums
<1>1. 0 \in T
  BY <1>0, Parts, Smaller
<1>2. ASSUME NEW n \in Nat, n \in T PROVE n + 1 \in T
  <2> SUFFICES ASSUME NEW s \in SUBSET S, Cardinality(s) <= n + 1, s # {} PROVE g[s] = h[s]
    BY <1>0, <1>2
  <2>1. c[s] \in s
    BY DEF Chooses
  <2>2. IsFiniteSet(s)
    BY Parts
  <2>3. s \ {c[s]} \in SUBSET S /\ Cardinality(s \ {c[s]}) <= n
    BY <2>1, <2>2, Smaller
  <2>4. g[s \ {c[s]}] = h[s \ {c[s]}]
    BY <1>2, <2>3
  <2>5. g[s] = Plus(c, w, g, s) /\ h[s] = Plus(c, w, h, s)
    BY <2>3, <2>4 DEF Sums, Naturals
  <2> QED BY <2>4, <2>5 DEF Plus
<1> HIDE DEF T
<1>3. Nat \subseteq T
  BY <1>1, <1>2, NatInduct
<1> QED
  <2> TAKE s \in SUBSET S
  <2>1. Cardinality(s) \in Nat
    BY Parts, Smaller
  <2>2. Cardinality(s) \in T
    BY <1>3, <2>1
  <2> QED BY <2>1, <2>2 DEF T

\* A function of that kind exists, by induction on the size of the subsets it is right on.
LEMMA SumExists ==
  ASSUME NEW S, IsFiniteSet(S), NEW c, Chooses(c, S), NEW w, Weighs(S, w)
  PROVE  \E g : Summed(c, w, g, S)
<1> DEFINE T == {n \in Nat : \E g \in [SUBSET S -> Nat] :
                               \A s \in SUBSET S : Cardinality(s) <= n => g[s] = Plus(c, w, g, s)}
<1>1. 0 \in T
  <2> DEFINE g == [s \in SUBSET S |-> 0]
  <2>1. ASSUME NEW s \in SUBSET S, Cardinality(s) <= 0 PROVE g[s] = Plus(c, w, g, s)
    <3>0. IsFiniteSet(s)
      BY Parts
    <3>1. s = {}
      BY <2>1, <3>0, Smaller
    <3> QED BY <3>1 DEF Plus
  <2>2. g \in [SUBSET S -> Nat]
    OBVIOUS
  <2> QED BY <2>1, <2>2
<1>2. ASSUME NEW n \in Nat, n \in T PROVE n + 1 \in T
  <2>1. PICK g \in [SUBSET S -> Nat] :
          \A s \in SUBSET S : Cardinality(s) <= n => g[s] = Plus(c, w, g, s)
    BY <1>2
  <2> DEFINE h == [s \in SUBSET S |-> Plus(c, w, g, s)]
  <2>2. ASSUME NEW s \in SUBSET S PROVE Plus(c, w, g, s) \in Nat
    <3>1. CASE s = {}
      BY <3>1 DEF Plus
    <3>2. CASE s # {}
      <4>1. c[s] \in s
        BY <3>2 DEF Chooses
      <4>2. w[c[s]] \in Nat /\ g[s \ {c[s]}] \in Nat
        BY <4>1 DEF Weighs
      <4> QED BY <3>2, <4>2 DEF Plus
    <3> QED BY <3>1, <3>2
  <2>3. h \in [SUBSET S -> Nat]
    BY <2>2
  <2>4. ASSUME NEW s \in SUBSET S, Cardinality(s) <= n + 1 PROVE h[s] = Plus(c, w, h, s)
    <3>1. CASE s = {}
      BY <3>1 DEF Plus
    <3>2. CASE s # {}
      <4>0. IsFiniteSet(s) /\ c[s] \in s
        BY <3>2, Parts DEF Chooses
      <4>1. s \ {c[s]} \in SUBSET S /\ Cardinality(s \ {c[s]}) <= n
        BY <2>4, <4>0, Smaller
      <4>2. h[s \ {c[s]}] = g[s \ {c[s]}]
        BY <2>1, <4>1
      <4>3. h[s] = Plus(c, w, g, s)
        OBVIOUS
      <4> QED BY <3>2, <4>2, <4>3 DEF Plus
    <3> QED BY <3>1, <3>2
  <2> HIDE DEF h
  <2>5. \E f \in [SUBSET S -> Nat] : \A s \in SUBSET S : Cardinality(s) <= n + 1 => f[s] = Plus(c, w, f, s)
    BY <2>3, <2>4
  <2> QED BY <2>5
<1> HIDE DEF T
<1>3. Cardinality(S) \in T
  BY <1>1, <1>2, NatInduct, FS_CardinalityType
<1>4. PICK g \in [SUBSET S -> Nat] :
        \A s \in SUBSET S : Cardinality(s) <= Cardinality(S) => g[s] = Plus(c, w, g, s)
  BY <1>3 DEF T
<1>5. \A s \in SUBSET S : Cardinality(s) <= Cardinality(S)
  BY FS_Subset
<1>6. Summed(c, w, g, S)
  BY <1>4, <1>5 DEF Naturals, Summed
<1> QED BY <1>6

\* Whatever satisfies the recursion of the sums gives naturals.
LEMMA SumValues ==
  ASSUME NEW S, IsFiniteSet(S), NEW c, Chooses(c, S), NEW w, Weighs(S, w), NEW h, Sums(c, w, h, S)
  PROVE  Naturals(h, S)
<1>1. PICK g : Summed(c, w, g, S)
  BY SumExists
<1>2. Sums(c, w, g, S) /\ Naturals(g, S)
  BY <1>1 DEF Sums, Summed
<1>3. \A s \in SUBSET S : g[s] = h[s]
  BY <1>2, SumUnique
<1> QED BY <1>2, <1>3 DEF Naturals

\* The recursive function the fold of Total is.
Picks(S)   == [s \in SUBSET S |-> Pick(s)]
Iter(S, w) == CHOOSE g : g = [s \in SUBSET S |-> IF s = {} THEN 0 ELSE w[Pick(s)] + g[s \ {Pick(s)}]]

\* Total is a fold, and a fold is such a recursion.
LEMMA TotalIter ==
  ASSUME NEW S, NEW w
  PROVE  Total(S, w) = Iter(S, w)[S]
BY DEF Total, MapThenSumSet, MapThenFoldSet, Iter, Pick

\* The fold takes an element of each set that has one.
LEMMA PicksChoose ==
  ASSUME NEW S
  PROVE  /\ Chooses(Picks(S), S)
         /\ \A s \in SUBSET S : s # {} => Pick(s) \in s
BY DEF Chooses, Picks, Pick

\* The recursion of the fold therefore gives sums.
LEMMA IterValues ==
  ASSUME NEW S, IsFiniteSet(S), NEW w, Weighs(S, w)
  PROVE  Sums(Picks(S), w, Iter(S, w), S) /\ Naturals(Iter(S, w), S)
<1> DEFINE c == Picks(S)
           B(g) == [s \in SUBSET S |-> IF s = {} THEN 0 ELSE w[Pick(s)] + g[s \ {Pick(s)}]]
           h == Iter(S, w)
<1>0. Chooses(c, S)
  BY PicksChoose
<1>1. PICK g : Summed(c, w, g, S)
  BY <1>0, SumExists
<1>2. g = B(g)
  BY <1>1 DEF Summed, Plus, Picks
<1>3. h = B(h)
  BY <1>2 DEF Iter
<1> HIDE DEF h
<1>4. \A s \in SUBSET S : h[s] = Plus(c, w, h, s)
  BY <1>3 DEF Plus, Picks
<1>5. Sums(c, w, h, S)
  BY <1>4 DEF Sums
<1>6. Naturals(h, S)
  BY <1>0, <1>5, SumValues
<1> QED BY <1>5, <1>6 DEF h

\* The sum over a subset is the one the recursion over the whole set reaches.
LEMMA TotalOf ==
  ASSUME NEW S, IsFiniteSet(S), NEW w, Weighs(S, w), NEW s \in SUBSET S
  PROVE  Total(s, w) = Iter(S, w)[s]
<1>1. IsFiniteSet(s) /\ Weighs(s, w) /\ SUBSET s \subseteq SUBSET S
  BY FS_Subset DEF Weighs
<1> DEFINE g == Iter(s, w)
           h == Iter(S, w)
           c == Picks(s)
<1>2. Sums(c, w, g, s) /\ Naturals(g, s)
  BY <1>1, IterValues
<1>3. Sums(c, w, h, s)
  <2>1. Sums(Picks(S), w, h, S)
    BY IterValues
  <2>2. \A r \in SUBSET s : Picks(S)[r] = c[r]
    BY <1>1 DEF Picks
  <2> HIDE DEF c, h
  <2> QED BY <1>1, <2>1, <2>2 DEF Sums, Plus
<1>4. Chooses(c, s)
  BY PicksChoose
<1> HIDE DEF g, h, c
<1>5. \A r \in SUBSET s : g[r] = h[r]
  BY <1>1, <1>2, <1>3, <1>4, SumUnique
<1> QED BY <1>5, TotalIter DEF g, h

\* A sum of naturals is one, and what is picked out is one summand of it.
LEMMA TotalPick ==
  ASSUME NEW S, IsFiniteSet(S), NEW w, Weighs(S, w)
  PROVE  /\ Total(S, w) \in Nat
         /\ Total({}, w) = 0
         /\ S # {} => Total(S, w) = w[Pick(S)] + Total(S \ {Pick(S)}, w)
<1> DEFINE h == Iter(S, w)
<1>1. \A s \in SUBSET S : /\ Total(s, w) = h[s] /\ h[s] \in Nat
                          /\ h[s] = Plus(Picks(S), w, h, s)
  BY TotalOf, IterValues DEF Sums, Naturals
<1>2. \A s \in SUBSET S : Picks(S)[s] = Pick(s)
  BY DEF Picks
<1> HIDE DEF h
<1>3. {} \in SUBSET S /\ S \in SUBSET S /\ S \ {Pick(S)} \in SUBSET S
  OBVIOUS
<1>4. Total({}, w) = 0
  BY <1>1, <1>3 DEF Plus
<1>5. ASSUME S # {} PROVE Total(S, w) = w[Pick(S)] + Total(S \ {Pick(S)}, w)
  BY <1>1, <1>2, <1>3, <1>5 DEF Plus
<1> QED BY <1>1, <1>3, <1>4, <1>5

\* It does not matter which summand is taken out first.
LEMMA TotalTake ==
  ASSUME NEW S, IsFiniteSet(S), NEW w, Weighs(S, w), NEW x \in S
  PROVE  Total(S, w) = w[x] + Total(S \ {x}, w)
<1> DEFINE T == {n \in Nat : \A s \in SUBSET S : \A y \in s :
                   Cardinality(s) <= n => Total(s, w) = w[y] + Total(s \ {y}, w)}
<1>0. ASSUME NEW s \in SUBSET S
      PROVE  /\ IsFiniteSet(s) /\ Weighs(s, w) /\ Total(s, w) \in Nat
             /\ Cardinality(s) \in Nat
             /\ Cardinality(s) <= 0 => s = {}
             /\ s # {} => Pick(s) \in s /\ Cardinality(s \ {Pick(s)}) = Cardinality(s) - 1
  <2>1. IsFiniteSet(s) /\ Weighs(s, w)
    BY Parts DEF Weighs
  <2> QED BY <2>1, TotalPick, Smaller, PicksChoose
<1>1. 0 \in T
  BY <1>0
<1>2. ASSUME NEW n \in Nat, n \in T PROVE n + 1 \in T
  <2> SUFFICES ASSUME NEW s \in SUBSET S, NEW y \in s, Cardinality(s) <= n + 1
               PROVE  Total(s, w) = w[y] + Total(s \ {y}, w)
    BY <1>2
  <2> DEFINE p == Pick(s)
  <2>1. p \in s /\ Total(s, w) = w[p] + Total(s \ {p}, w)
    BY <1>0, TotalPick
  <2>2. CASE y = p
    BY <2>1, <2>2
  <2>3. CASE y # p
    <3>1. s \ {p} \in SUBSET S /\ Cardinality(s \ {p}) <= n /\ y \in s \ {p}
      BY <1>0, <2>1, <2>3
    <3>2. Total(s \ {p}, w) = w[y] + Total((s \ {p}) \ {y}, w)
      BY <1>2, <3>1
    <3>3. s \ {y} \in SUBSET S /\ Cardinality(s \ {y}) <= n /\ p \in s \ {y}
      <4>1. IsFiniteSet(s) /\ Cardinality(s) \in Nat
        BY <1>0
      <4>2. Cardinality(s \ {y}) = Cardinality(s) - 1
        BY <4>1, FS_RemoveElement
      <4> QED BY <2>1, <2>3, <4>1, <4>2
    <3>4. Total(s \ {y}, w) = w[p] + Total((s \ {y}) \ {p}, w)
      BY <1>2, <3>3
    <3>5. (s \ {y}) \ {p} = (s \ {p}) \ {y}
      OBVIOUS
    <3>6. w[p] \in Nat /\ w[y] \in Nat
      BY <2>1 DEF Weighs
    <3>7. Total((s \ {p}) \ {y}, w) \in Nat
      BY <1>0
    <3>8. \A a, b, c, i, j, k \in Nat : (a = i + b /\ b = j + c /\ k = i + c) => a = j + k
      OBVIOUS
    <3>9. /\ Total(s, w) \in Nat /\ Total(s \ {p}, w) \in Nat /\ Total(s \ {y}, w) \in Nat
      BY <1>0
    <3>10. Total(s \ {y}, w) = w[p] + Total((s \ {p}) \ {y}, w)
      BY <3>4, <3>5
    <3> QED BY <2>1, <3>2, <3>6, <3>7, <3>8, <3>9, <3>10
  <2> QED BY <2>2, <2>3
<1> HIDE DEF T
<1>3. Cardinality(S) \in T
  BY <1>1, <1>2, NatInduct, FS_CardinalityType
<1> QED BY <1>3 DEF T

\* The sum depends only on the weights of its members.
LEMMA TotalSame ==
  ASSUME NEW S, IsFiniteSet(S), NEW w, Weighs(S, w), NEW v, \A x \in S : v[x] = w[x]
  PROVE  Total(S, v) = Total(S, w)
<1> DEFINE g == Iter(S, v)
           h == Iter(S, w)
           c == Picks(S)
<1>1. Weighs(S, v)
  BY DEF Weighs
<1>2. Sums(c, w, h, S) /\ Naturals(h, S) /\ Sums(c, v, g, S)
  BY <1>1, IterValues
<1>3. Chooses(c, S)
  BY PicksChoose
<1> HIDE DEF g, h, c
<1>4. \A s \in SUBSET S : Plus(c, w, g, s) = Plus(c, v, g, s)
  BY <1>3 DEF Plus, Chooses
<1>5. Sums(c, w, g, S)
  BY <1>2, <1>4 DEF Sums
<1>6. \A s \in SUBSET S : g[s] = h[s]
  BY <1>2, <1>3, <1>5, SumUnique
<1> QED BY <1>6, TotalIter DEF g, h

\* What is taken out of a set is taken out of its sum.
LEMMA TotalMinus ==
  ASSUME NEW S, IsFiniteSet(S), NEW w, Weighs(S, w), NEW V \in SUBSET S
  PROVE  Total(S \ V, w) = Total(S, w) - Total(V, w)
<1> DEFINE T == {n \in Nat : \A s \in SUBSET S :
                   Cardinality(s) <= n => Total(S \ s, w) = Total(S, w) - Total(s, w)}
<1>0. ASSUME NEW s \in SUBSET S
      PROVE  /\ IsFiniteSet(s) /\ Weighs(s, w) /\ Total(s, w) \in Nat
             /\ Cardinality(s) \in Nat
             /\ Cardinality(s) <= 0 => s = {}
             /\ s # {} => Pick(s) \in s /\ Cardinality(s \ {Pick(s)}) = Cardinality(s) - 1
  <2>1. IsFiniteSet(s) /\ Weighs(s, w)
    BY Parts DEF Weighs
  <2> QED BY <2>1, TotalPick, Smaller, PicksChoose
<1>1. 0 \in T
  <2> SUFFICES ASSUME NEW s \in SUBSET S, Cardinality(s) <= 0
               PROVE  Total(S \ s, w) = Total(S, w) - Total(s, w)
    OBVIOUS
  <2>1. s = {} /\ S \ s = S
    BY <1>0
  <2>2. Total(S, w) \in Nat /\ Total({}, w) = 0
    BY TotalPick
  <2> QED BY <2>1, <2>2
<1>2. ASSUME NEW n \in Nat, n \in T PROVE n + 1 \in T
  <2> SUFFICES ASSUME NEW s \in SUBSET S, Cardinality(s) <= n + 1
               PROVE  Total(S \ s, w) = Total(S, w) - Total(s, w)
    BY <1>2
  <2>1. CASE s = {}
    <3>1. 0 \in Nat /\ Cardinality({}) <= 0
      BY FS_EmptySet
    <3> QED BY <1>1, <2>1, <3>1
  <2>2. CASE s # {}
    <3> DEFINE p == Pick(s)
               r == s \ {p}
    <3>1. p \in s /\ r \in SUBSET S /\ Cardinality(r) <= n
      BY <1>0, <2>2
    <3>2. Total(S \ r, w) = Total(S, w) - Total(r, w)
      BY <1>2, <3>1
    <3>3. S \ r \in SUBSET S /\ p \in S \ r /\ (S \ r) \ {p} = S \ s
      BY <3>1
    <3>4. Total(S \ r, w) = w[p] + Total(S \ s, w)
      <4>1. IsFiniteSet(S \ r) /\ Weighs(S \ r, w)
        BY <3>3, <1>0
      <4>2. Total(S \ r, w) = w[p] + Total((S \ r) \ {p}, w)
        BY <3>3, <4>1, TotalTake
      <4> QED BY <3>3, <4>2
    <3>5. Total(s, w) = w[p] + Total(r, w)
      BY <3>1, <1>0, TotalTake
    <3>6. w[p] \in Nat
      BY <3>1 DEF Weighs
    <3>7. S \in SUBSET S /\ S \ s \in SUBSET S
      OBVIOUS
    <3>8. Total(S, w) \in Nat /\ Total(r, w) \in Nat /\ Total(S \ s, w) \in Nat
      BY <3>1, <3>7, <1>0
    <3> QED BY <3>2, <3>4, <3>5, <3>6, <3>8
  <2> QED BY <2>1, <2>2
<1> HIDE DEF T
<1>3. Cardinality(V) \in T
  BY <1>1, <1>2, NatInduct, FS_Subset, FS_CardinalityType
<1> QED BY <1>3, FS_Subset, FS_CardinalityType DEF T

-----------------------------------------------------------------------------
(* The bytes of a session's rows: a fold from the left. *)

\* A nonempty set of indices of a sequence has a greatest one.
LEMMA HasMax ==
  ASSUME NEW n \in Nat, NEW s \in SUBSET (1 .. n), s # {}
  PROVE  Max(s) \in s
<1> DEFINE T == {n - x : x \in s}
<1>1. T \in SUBSET Nat /\ T # {}
  <2>1. \A x \in s : n - x \in Nat
    OBVIOUS
  <2> QED BY <2>1
<1>2. PICK m \in T : \A y \in T : m <= y
  BY <1>1, LeastNat
<1>3. PICK x \in s : m = n - x
  BY <1>2
<1>4. \A y \in s : x >= y
  <2> TAKE y \in s
  <2>1. n - y \in T
    OBVIOUS
  <2>2. m <= n - y
    BY <1>2, <2>1
  <2> QED BY <1>3, <2>2
<1> QED BY <1>4 DEF Max

RowIter(q) ==
  CHOOSE g : g = [s \in SUBSET DOMAIN q |-> IF s = {} THEN 0 ELSE g[s \ {Max(s)}] + Bytes[q[Max(s)]]]

\* FoldLeft is a fold over the indices of the sequence, the greatest first.
LEMMA RowBytesIter ==
  ASSUME NEW q
  PROVE  RowBytes(q) = RowIter(q)[DOMAIN q]
BY DEF RowBytes, FoldLeft, MapThenFoldSet, RowIter

\* The bytes of a session's rows are a number, and no rows have none.
LEMMA RowBytesNat ==
  ASSUME NEW q \in Seq(Pages)
  PROVE  RowBytes(q) \in Nat /\ RowBytes(<<>>) = 0
<1>1. \A r \in Seq(Pages) : RowBytes(r) \in Nat /\ (r = <<>> => RowBytes(r) = 0)
  <2> TAKE r \in Seq(Pages)
  <2> DEFINE S == DOMAIN r
             n == Len(r)
             c == [s \in SUBSET S |-> Max(s)]
             w == [i \in S |-> Bytes[r[i]]]
             B(g) == [s \in SUBSET S |-> IF s = {} THEN 0 ELSE g[s \ {Max(s)}] + Bytes[r[Max(s)]]]
             h == RowIter(r)
  <2>1. n \in Nat /\ S = 1 .. n /\ \A i \in S : r[i] \in Pages
    OBVIOUS
  <2>2. IsFiniteSet(S)
    BY <2>1, FS_Interval
  <2>3. \A s \in SUBSET S : s # {} => Max(s) \in s
    BY <2>1, HasMax
  <2>4. Chooses(c, S)
    BY <2>3 DEF Chooses
  <2>5. Weighs(S, w)
    BY <2>1, ConstantsAssumption DEF Weighs
  <2> HIDE DEF c, w
  <2>60. PICK g : Summed(c, w, g, S)
    BY <2>2, <2>4, <2>5, SumExists
  <2>6. g \in [SUBSET S -> Nat] /\ \A s \in SUBSET S : g[s] = Plus(c, w, g, s)
    BY <2>60 DEF Summed
  <2>7. ASSUME NEW f, NEW s \in SUBSET S, s # {}, f[s \ {Max(s)}] \in Nat
        PROVE  Plus(c, w, f, s) = f[s \ {Max(s)}] + Bytes[r[Max(s)]]
    <3>1. c[s] = Max(s) /\ Max(s) \in S /\ w[Max(s)] = Bytes[r[Max(s)]] /\ w[Max(s)] \in Nat
      BY <2>3, <2>5, <2>7 DEF Weighs, c, w
    <3> QED BY <2>7, <3>1 DEF Plus
  <2>8. g = B(g)
    <3>1. \A s \in SUBSET S : g[s] = IF s = {} THEN 0 ELSE g[s \ {Max(s)}] + Bytes[r[Max(s)]]
      <4> TAKE s \in SUBSET S
      <4>1. CASE s = {}
        BY <2>6, <4>1 DEF Plus
      <4>2. CASE s # {}
        <5>1. g[s \ {Max(s)}] \in Nat
          BY <2>6
        <5> QED BY <2>6, <2>7, <4>2, <5>1
      <4> QED BY <4>1, <4>2
    <3> QED BY <2>6, <3>1
  <2>9. h = B(h)
    BY <2>8 DEF RowIter
  <2> HIDE DEF h
  <2>10. \A s \in SUBSET S : h[s] = IF s = {} THEN 0 ELSE h[s \ {Max(s)}] + Bytes[r[Max(s)]]
    BY <2>9
  <2>11. Sums(c, w, h, S)
    <3> SUFFICES ASSUME NEW s \in SUBSET S, s = {} \/ h[s \ {c[s]}] \in Nat
                 PROVE  h[s] = Plus(c, w, h, s)
      BY DEF Sums
    <3>1. CASE s = {}
      BY <2>10, <3>1 DEF Plus
    <3>2. CASE s # {}
      <4>1. c[s] = Max(s)
        BY DEF c
      <4> QED BY <2>7, <2>10, <3>2, <4>1
    <3> QED BY <3>1, <3>2
  <2>12. Naturals(h, S)
    BY <2>2, <2>4, <2>5, <2>11, SumValues
  <2>13. S \in SUBSET S /\ h[S] \in Nat
    BY <2>12 DEF Naturals
  <2>14. RowBytes(r) = h[S]
    BY RowBytesIter DEF h
  <2>15. r = <<>> => S = {}
    BY <2>1
  <2>16. r = <<>> => h[S] = 0
    BY <2>10, <2>15
  <2> QED BY <2>13, <2>14, <2>16
<1> QED BY <1>1, EmptySeq

-----------------------------------------------------------------------------
(* The byte counter of the index *)

Bounded(b, L) == b <= MaxIndexBytes \/ Cardinality(L) <= 1

\* The counter b is the bytes of the sessions L with the rows R, and in bounds.
Counted(L, R, b) ==
  /\ IsFiniteSet(L)
  /\ \A s \in Sessions \ L : R[s] = <<>>
  /\ b = Total(L, SizeOf(R))

ByteInv ==
  /\ Counted(loaded, rows, indexBytes)
  /\ Bounded(indexBytes, loaded)
  /\ \A t \in Threads : lock = t => req[t].s \in loaded

\* The size of each session's rows is a natural.
LEMMA SizesWeigh ==
  ASSUME NEW L \in SUBSET Sessions, NEW R \in [Sessions -> Seq(Pages)]
  PROVE  /\ Weighs(L, SizeOf(R))
         /\ \A s \in Sessions : SizeOf(R)[s] = RowBytes(R[s])
         /\ \A s \in Sessions : RowBytes(R[s]) \in Nat
BY RowBytesNat DEF Weighs, SizeOf

\* A set of at most one element has no larger subset.
LEMMA SmallSet ==
  ASSUME NEW S, IsFiniteSet(S), NEW x, NEW T \in SUBSET S, S \subseteq {x}
  PROVE  Cardinality(T) <= 1
<1>1. T = {} \/ T = {x}
  OBVIOUS
<1> QED BY <1>1, FS_EmptySet, FS_Singleton

\* The rows that are left of R when the sessions D are dropped from L.
Left(L, R, D) == [s \in Sessions |-> IF s \in L \ D THEN R[s] ELSE <<>>]

\* The eviction loop of shed_index subtracts what it drops, and stops within the budget.
LEMMA VictimBytes ==
  ASSUME NEW L \in SUBSET Sessions, NEW R \in [Sessions -> Seq(Pages)], IsFiniteSet(L),
         NEW O, NEW keep, NEW V \in Victims(L, O, SizeOf(R), MaxIndexBytes, keep),
         NEW D \in SUBSET L, V \subseteq D
  PROVE  /\ Counted(L \ D, Left(L, R, D), Total(L, SizeOf(R)) - Total(D, SizeOf(R)))
         /\ Bounded(Total(L, SizeOf(R)) - Total(D, SizeOf(R)), L \ D)
<1> DEFINE w == SizeOf(R)
           Q == Left(L, R, D)
<1>1. Weighs(L, w) /\ V \in SUBSET L /\ L \ D \in SUBSET (L \ V)
  BY SizesWeigh DEF Victims
<1>2. Total(L \ D, w) = Total(L, w) - Total(D, w) /\ Total(L \ V, w) = Total(L, w) - Total(V, w)
  BY <1>1, TotalMinus
<1>3. /\ IsFiniteSet(L \ D) /\ Weighs(L \ D, w) /\ IsFiniteSet(L \ V) /\ Weighs(L \ V, w)
      /\ IsFiniteSet(D \ V) /\ Weighs(D \ V, w)
  BY <1>1, FS_Subset DEF Weighs
<1>4. \A s \in L \ D : SizeOf(Q)[s] = w[s]
  BY DEF SizeOf, Left
<1>5. Total(L \ D, SizeOf(Q)) = Total(L \ D, w)
  BY <1>3, <1>4, TotalSame
<1>6. \A s \in Sessions \ (L \ D) : Q[s] = <<>>
  BY DEF Left
<1>7. Total(L \ D, w) <= Total(L \ V, w)
  <2>1. (L \ V) \ (D \ V) = L \ D /\ D \ V \in SUBSET (L \ V)
    OBVIOUS
  <2>2. Total(L \ D, w) = Total(L \ V, w) - Total(D \ V, w)
    BY <1>3, <2>1, TotalMinus
  <2>3. Total(L \ V, w) \in Nat /\ Total(D \ V, w) \in Nat
    BY <1>3, TotalPick
  <2> QED BY <2>2, <2>3
<1>8. Total(L \ D, w) <= MaxIndexBytes \/ Cardinality(L \ D) <= 1
  <2>1. CASE Total(L \ V, w) <= MaxIndexBytes
    <3>1. Total(L \ V, w) \in Nat /\ Total(L \ D, w) \in Nat
      BY <1>3, TotalPick
    <3> QED BY <1>7, <2>1, <3>1, ConstantsAssumption
  <2>2. CASE V = L \ {keep}
    <3>1. L \ V \subseteq {keep}
      BY <2>2
    <3> QED BY <1>1, <1>3, <3>1, SmallSet
  <2> QED BY <2>1, <2>2 DEF Victims
<1> QED BY <1>2, <1>3, <1>5, <1>6, <1>8 DEF Counted, Bounded

\* shed_index keeps the counter equal to the bytes left, and in bounds.
LEMMA ShedBytes ==
  ASSUME NEW L \in SUBSET Sessions, NEW R \in [Sessions -> Seq(Pages)], NEW keep, NEW O, NEW total,
         Counted(L, R, total), ShedIndex(keep, L, R, O, total)
  PROVE  Counted(loaded', rows', indexBytes') /\ Bounded(indexBytes', loaded')
<1>1. PICK V \in Victims(L, O, SizeOf(R), MaxIndexBytes, keep) :
        /\ loaded' = L \ V
        /\ rows' = [s \in Sessions |-> IF s \in V THEN <<>> ELSE R[s]]
        /\ indexBytes' = total - Total(V, SizeOf(R))
  BY DEF ShedIndex
<1>2. rows' = Left(L, R, V)
  BY <1>1 DEF Counted, Left
<1>3. V \in SUBSET L /\ V \subseteq V /\ IsFiniteSet(L)
  BY DEF Victims, Counted
<1>4. /\ Counted(L \ V, Left(L, R, V), Total(L, SizeOf(R)) - Total(V, SizeOf(R)))
      /\ Bounded(Total(L, SizeOf(R)) - Total(V, SizeOf(R)), L \ V)
  BY <1>3, VictimBytes
<1>5. total = Total(L, SizeOf(R))
  BY DEF Counted
<1> QED BY <1>1, <1>2, <1>4, <1>5

\* load_and_touch counts the rows it inserts.
LEMMA LoadBytes ==
  ASSUME TypeOK, ByteInv, NEW t \in Threads, LoadAndTouch(t)
  PROVE  Counted(loaded', rows', indexBytes') /\ Bounded(indexBytes', loaded')
<1> DEFINE s == req[t].s
           L == TouchedKeys(t)
           R == TouchedRows(t)
           b == TouchedBytes(t)
<1>1. s \in Sessions
  BY TypeParts, RequestFields
<1>2. L \in SUBSET Sessions /\ R \in [Sessions -> Seq(Pages)]
  BY <1>1 DEF TouchedKeys, TouchedRows, Inserts, TypeOK
<1>3. Counted(L, R, b)
  <2>1. CASE ~Inserts(t)
    <3>1. L = loaded /\ R = rows /\ b = indexBytes + 0
      BY <2>1 DEF TouchedKeys, TouchedRows, TouchedBytes
    <3>2. indexBytes \in Nat
      BY SizesWeigh, TotalPick DEF ByteInv, Counted, TypeOK
    <3> QED BY <3>1, <3>2 DEF ByteInv
  <2>2. CASE Inserts(t)
    <3>1. /\ L = loaded \union {s} /\ R = [rows EXCEPT ![s] = snap[t]] /\ b = indexBytes + RowBytes(snap[t])
          /\ s \notin loaded
      BY <2>2 DEF TouchedKeys, TouchedRows, TouchedBytes, Inserts
    <3>2. IsFiniteSet(L) /\ IsFiniteSet(loaded) /\ L \ {s} = loaded /\ s \in L
      BY <3>1, FS_AddElement DEF ByteInv, Counted
    <3>3. Total(L, SizeOf(R)) = SizeOf(R)[s] + Total(loaded, SizeOf(R))
      BY <1>2, <3>2, SizesWeigh, TotalTake
    <3>4. \A r \in loaded : SizeOf(R)[r] = SizeOf(rows)[r]
      BY <3>1 DEF SizeOf, TypeOK
    <3>5. Weighs(loaded, SizeOf(rows))
      BY SizesWeigh DEF TypeOK
    <3>6. Total(loaded, SizeOf(R)) = Total(loaded, SizeOf(rows))
      BY <3>2, <3>4, <3>5, TotalSame
    <3>7. SizeOf(R)[s] = RowBytes(snap[t]) /\ RowBytes(snap[t]) \in Nat
      <4>1. R[s] = snap[t]
        BY <1>1, <3>1 DEF TypeOK
      <4> QED BY <1>1, <1>2, <4>1, SizesWeigh
    <3>8. Total(loaded, SizeOf(rows)) \in Nat
      BY <3>2, <3>5, TotalPick
    <3>9. b = Total(L, SizeOf(R))
      BY <3>1, <3>3, <3>6, <3>7, <3>8 DEF ByteInv, Counted
    <3>10. \A r \in Sessions \ L : R[r] = <<>>
      BY <3>1 DEF ByteInv, Counted, TypeOK
    <3> QED BY <3>2, <3>9, <3>10 DEF Counted
  <2> QED BY <2>1, <2>2
<1> QED BY <1>2, <1>3, ShedBytes DEF LoadAndTouch

\* Setting the rows of a loaded session moves the counter by the difference.
LEMMA ReplaceBytes ==
  ASSUME TypeOK, Counted(loaded, rows, indexBytes), NEW s \in loaded, NEW q \in Seq(Pages)
  PROVE  Counted(loaded, [rows EXCEPT ![s] = q], indexBytes + RowBytes(q) - RowBytes(rows[s]))
<1> DEFINE R == [rows EXCEPT ![s] = q]
<1>1. s \in Sessions /\ rows \in [Sessions -> Seq(Pages)] /\ R \in [Sessions -> Seq(Pages)]
  BY DEF TypeOK
<1>2. IsFiniteSet(loaded) /\ loaded \in SUBSET Sessions
  BY DEF Counted, TypeOK
<1>3. /\ Total(loaded, SizeOf(R)) = SizeOf(R)[s] + Total(loaded \ {s}, SizeOf(R))
      /\ Total(loaded, SizeOf(rows)) = SizeOf(rows)[s] + Total(loaded \ {s}, SizeOf(rows))
  BY <1>1, <1>2, SizesWeigh, TotalTake
<1>4. IsFiniteSet(loaded \ {s}) /\ Weighs(loaded \ {s}, SizeOf(rows))
  BY <1>1, <1>2, FS_RemoveElement, SizesWeigh
<1>5. \A r \in loaded \ {s} : SizeOf(R)[r] = SizeOf(rows)[r]
  BY <1>1, <1>2 DEF SizeOf
<1>6. Total(loaded \ {s}, SizeOf(R)) = Total(loaded \ {s}, SizeOf(rows))
  BY <1>4, <1>5, TotalSame
<1>7. /\ SizeOf(R)[s] = RowBytes(q) /\ SizeOf(rows)[s] = RowBytes(rows[s])
      /\ RowBytes(q) \in Nat /\ RowBytes(rows[s]) \in Nat
  <2>1. R[s] = q
    BY <1>1
  <2> QED BY <1>1, <2>1, SizesWeigh
<1>8. Total(loaded \ {s}, SizeOf(rows)) \in Nat
  BY <1>4, TotalPick
<1>9. Total(loaded, SizeOf(R)) = indexBytes + RowBytes(q) - RowBytes(rows[s])
  <2>1. \A a, c, d, i, j \in Nat : (a = i + d /\ c = j + d) => (a = (c + i) - j)
    OBVIOUS
  <2>2. /\ Total(loaded, SizeOf(R)) \in Nat /\ Total(loaded, SizeOf(rows)) \in Nat
    BY <1>1, <1>2, SizesWeigh, TotalPick
  <2> QED BY <1>3, <1>6, <1>7, <1>8, <2>1, <2>2 DEF Counted
<1>10. \A r \in Sessions \ loaded : R[r] = <<>>
  BY <1>1 DEF Counted
<1> QED BY <1>2, <1>9, <1>10 DEF Counted

\* A committed write counts its rows, and what both evictions drop.
LEMMA CommitBytes ==
  ASSUME TypeOK, ByteInv, NEW t \in Threads, lock = t, NEW F, NEW J, NEW G, Commit(t, F, J, G)
  PROVE  Counted(loaded', rows', indexBytes') /\ Bounded(indexBytes', loaded')
<1> DEFINE s == req[t].s
           f == StemOf[s]
           R == [rows EXCEPT ![s] = pending]
           B == [diskBytes EXCEPT ![f] = NewLen(f, F, J, G)]
           O == Touched(diskOlder, booked \union {f}, f)
           total == indexBytes + RowBytes(pending) - RowBytes(rows[s])
<1>1. PICK V \in Victims(loaded, older, SizeOf(R), MaxIndexBytes, s), D \in Deletable(f, B, O) :
        /\ loaded' = loaded \ (V \union Orphans(D))
        /\ rows' = [r \in Sessions |-> IF r \in loaded' THEN R[r] ELSE <<>>]
        /\ indexBytes' = total - Total(loaded \ loaded', SizeOf(R))
  BY DEF Commit
<1>2. s \in loaded /\ loaded \in SUBSET Sessions /\ R \in [Sessions -> Seq(Pages)]
  BY DEF ByteInv, TypeOK
<1>3. Counted(loaded, R, total)
  BY <1>2, ReplaceBytes DEF ByteInv, TypeOK
<1> DEFINE E == loaded \ loaded'
<1>4. E \in SUBSET loaded /\ V \subseteq E /\ loaded' = loaded \ E
  BY <1>1 DEF Victims
<1> HIDE DEF R, B, O, total, E
<1>6. rows' = Left(loaded, R, E) /\ IsFiniteSet(loaded) /\ total = Total(loaded, SizeOf(R))
  BY <1>1, <1>3, <1>4 DEF Left, Counted
<1>5. /\ Counted(loaded \ E, Left(loaded, R, E), Total(loaded, SizeOf(R)) - Total(E, SizeOf(R)))
      /\ Bounded(Total(loaded, SizeOf(R)) - Total(E, SizeOf(R)), loaded \ E)
  BY <1>1, <1>2, <1>4, <1>6, VictimBytes
<1> QED BY <1>1, <1>4, <1>5, <1>6 DEF E

\* A removed session takes its bytes with it.
LEMMA RemoveBytes ==
  ASSUME TypeOK, ByteInv, NEW s \in Sessions
  PROVE  /\ Counted(loaded \ {s}, [rows EXCEPT ![s] = <<>>], indexBytes - RowBytes(rows[s]))
         /\ Bounded(indexBytes - RowBytes(rows[s]), loaded \ {s})
<1> DEFINE R == [rows EXCEPT ![s] = <<>>]
           b == indexBytes - RowBytes(rows[s])
<1>1. rows \in [Sessions -> Seq(Pages)] /\ loaded \in SUBSET Sessions /\ IsFiniteSet(loaded)
  BY DEF TypeOK, ByteInv, Counted
<1>2. RowBytes(<<>>) = 0 /\ RowBytes(rows[s]) \in Nat /\ Weighs(loaded, SizeOf(rows))
  BY <1>1, SizesWeigh, RowBytesNat
<1>3. indexBytes = Total(loaded, SizeOf(rows)) /\ indexBytes \in Nat
  BY <1>1, <1>2, TotalPick DEF ByteInv, Counted
<1>4. CASE s \notin loaded
  <2>1. rows[s] = <<>> /\ loaded \ {s} = loaded
    BY <1>4 DEF ByteInv, Counted
  <2>2. R = rows /\ b = indexBytes
    BY <1>1, <1>2, <1>3, <2>1
  <2> QED BY <2>1, <2>2 DEF ByteInv
<1>5. CASE s \in loaded
  <2>1. Total(loaded, SizeOf(rows)) = SizeOf(rows)[s] + Total(loaded \ {s}, SizeOf(rows))
    BY <1>1, <1>2, <1>5, TotalTake
  <2>2. /\ IsFiniteSet(loaded \ {s}) /\ Weighs(loaded \ {s}, SizeOf(rows))
        /\ SizeOf(rows)[s] = RowBytes(rows[s])
    BY <1>1, <1>2, FS_RemoveElement, SizesWeigh DEF Weighs
  <2>3. \A r \in loaded \ {s} : SizeOf(R)[r] = SizeOf(rows)[r]
    BY <1>1 DEF SizeOf
  <2>4. Total(loaded \ {s}, SizeOf(R)) = Total(loaded \ {s}, SizeOf(rows))
    BY <2>2, <2>3, TotalSame
  <2>5. Total(loaded \ {s}, SizeOf(rows)) \in Nat
    BY <2>2, TotalPick
  <2>6. b = Total(loaded \ {s}, SizeOf(R))
    BY <1>2, <1>3, <2>1, <2>2, <2>4, <2>5
  <2>7. \A r \in Sessions \ (loaded \ {s}) : R[r] = <<>>
    BY <1>1 DEF ByteInv, Counted
  <2>8. Bounded(b, loaded \ {s})
    <3>1. CASE indexBytes <= MaxIndexBytes
      <4>1. b <= MaxIndexBytes
        BY <1>2, <1>3, <3>1, ConstantsAssumption
      <4> QED BY <4>1 DEF Bounded
    <3>2. CASE Cardinality(loaded) <= 1
      <4>1. Cardinality(loaded \ {s}) <= 1
        BY <1>1, <1>5, <3>2, Smaller
      <4> QED BY <4>1 DEF Bounded
    <3> QED BY <3>1, <3>2 DEF ByteInv, Bounded
  <2> QED BY <2>2, <2>6, <2>7, <2>8 DEF Counted
<1> QED BY <1>4, <1>5

\* Whoever holds the guard has its session in the index, and nobody else touches it.
LEMMA HolderStays ==
  ASSUME TypeOK, GuardHeld, ByteInv, [Next]_vars
  PROVE  \A t \in Threads : lock' = t => (lock = t /\ req'[t] = req[t] /\ UNCHANGED indexVars)
                                         \/ req'[t].s \in loaded'
<1>1. ASSUME NEW t \in Threads, PutPushes(t)
      PROVE  lock' = t /\ req'[t].s \in loaded'
  BY <1>1 DEF PutPushes
<1>2. ASSUME NEW t \in Threads,
             \/ \E op \in {"put", "get", "delete"}, s \in Sessions, p \in Pages : Call(t, op, s, p)
             \/ Get(t) \/ PutPanics(t) \/ PutKnown(t) \/ OpenFails(t) \/ DeleteBooks(t)
      PROVE  lock' = NoThread
  BY <1>2 DEF Call, Get, PutPanics, PutKnown, OpenFails, DeleteBooks, Enter, lockVars
<1>3. ASSUME NEW t \in Threads, AppendOk(t) \/ RewriteOk(t) \/ WriteFails(t)
      PROVE  lock' = NoThread
  BY <1>3 DEF AppendOk, RewriteOk, Commit, WriteFails
<1>4. ASSUME NEW t \in Threads, ReadFile(t)
      PROVE  lock' = lock /\ req' = req /\ UNCHANGED indexVars
  BY <1>4 DEF ReadFile, lockVars
<1>5. ASSUME NEW t \in Threads, Refused(t) \/ DeleteFile(t)
      PROVE  /\ lock' = lock /\ lock # t /\ UNCHANGED indexVars
             /\ \A u \in Threads \ {t} : req'[u] = req[u]
  <2>1. lock' = lock /\ Return(t) /\ lock # t /\ UNCHANGED indexVars
    BY <1>5 DEF Refused, DeleteFile, GuardHeld, lockVars
  <2> QED BY <2>1, ReturnGuard
<1>6. CASE Restart
  BY <1>6, ConstantsAssumption DEF Restart
<1>7. CASE UNCHANGED vars
  BY <1>7 DEF vars, lockVars, callVars
<1> QED BY <1>1, <1>2, <1>3, <1>4, <1>5, <1>6, <1>7, ConstantsAssumption DEF Next, Step

\* Every step keeps the counter equal to the bytes in the index, and in bounds.
LEMMA ByteStep ==
  ASSUME TypeOK, GuardHeld, ByteInv, [Next]_vars
  PROVE  ByteInv'
<1>1. Counted(loaded', rows', indexBytes') /\ Bounded(indexBytes', loaded')
  <2>1. CASE UNCHANGED indexVars
    BY <2>1 DEF indexVars, ByteInv, Counted, Bounded
  <2>2. ASSUME NEW t \in Threads,
               Get(t) \/ PutPanics(t) \/ PutKnown(t) \/ PutPushes(t) \/ OpenFails(t)
        PROVE  Counted(loaded', rows', indexBytes') /\ Bounded(indexBytes', loaded')
    BY <2>2, LoadBytes DEF Get, PutPanics, PutKnown, PutPushes, OpenFails
  <2>3. ASSUME NEW t \in Threads, AppendOk(t) \/ RewriteOk(t)
        PROVE  Counted(loaded', rows', indexBytes') /\ Bounded(indexBytes', loaded')
    <3>1. lock = t /\ \E F, J, G : Commit(t, F, J, G)
      BY <2>3 DEF AppendOk, RewriteOk, GuardHeld
    <3> QED BY <3>1, CommitBytes
  <2>4. ASSUME NEW t \in Threads, DeleteBooks(t), ~poisoned
        PROVE  Counted(loaded', rows', indexBytes') /\ Bounded(indexBytes', loaded')
    BY <2>4, TypeParts, RequestFields, RemoveBytes DEF DeleteBooks
  <2>5. ASSUME NEW t \in Threads, DeleteBooks(t), poisoned
        PROVE  UNCHANGED indexVars
    BY <2>5 DEF DeleteBooks
  <2>6. ASSUME NEW t \in Threads,
               \/ \E op \in {"put", "get", "delete"}, s \in Sessions, p \in Pages : Call(t, op, s, p)
               \/ ReadFile(t) \/ Refused(t) \/ WriteFails(t) \/ DeleteFile(t)
        PROVE  UNCHANGED indexVars
    BY <2>6 DEF Call, ReadFile, Refused, WriteFails, DeleteFile
  <2>7. CASE Restart
    <3>1. Counted({}, [s \in Sessions |-> <<>>], 0)
      <4>1. Weighs({}, SizeOf([s \in Sessions |-> <<>>]))
        BY DEF Weighs
      <4> QED BY <4>1, FS_EmptySet, TotalPick DEF Counted
    <3>2. Bounded(0, {})
      BY ConstantsAssumption DEF Bounded
    <3> QED BY <2>7, <3>1, <3>2 DEF Restart
  <2>8. CASE UNCHANGED vars
    BY <2>1, <2>8 DEF vars
  <2> QED BY <2>1, <2>2, <2>3, <2>4, <2>5, <2>6, <2>7, <2>8 DEF Next, Step
<1>2. \A t \in Threads : lock' = t => req'[t].s \in loaded'
  BY HolderStays DEF ByteInv, indexVars
<1> QED BY <1>1, <1>2 DEF ByteInv

\* The counter, the rows and the bound in memory, and that the session of the call in its
\* write is in the index, are together inductive.
THEOREM BytesAlways == Spec => []ByteInv
<1>1. Init => ByteInv
  <2> SUFFICES ASSUME Init PROVE ByteInv
    OBVIOUS
  <2>1. Weighs({}, SizeOf(rows))
    BY DEF Weighs
  <2>2. Counted({}, rows, 0)
    BY <2>1, FS_EmptySet, TotalPick DEF Counted, Init
  <2>3. Bounded(0, {})
    BY ConstantsAssumption DEF Bounded
  <2> QED BY <2>2, <2>3, ConstantsAssumption DEF Init, ByteInv
<1>2. TypeOK /\ GuardHeld /\ ByteInv /\ [Next]_vars => ByteInv'
  BY ByteStep
<1> QED BY <1>1, <1>2, SourcedAlways, PTL DEF Spec, ProvenanceInv

\* The byte counter is the bytes of the rows in the index.
THEOREM AccountingCorrect == Spec => []Accounting
<1>1. ByteInv => Accounting
  BY DEF ByteInv, Counted, Accounting
<1> QED BY <1>1, BytesAlways, PTL

\* The index stays within max_index_bytes unless a single session exceeds it: every call that
\* loads or writes ends with the eviction loop, and between them nothing grows.
THEOREM IndexBoundedCorrect == Spec => []IndexBounded
<1>1. ByteInv => IndexBounded
  BY DEF ByteInv, Bounded, IndexBounded
<1> QED BY <1>1, BytesAlways, PTL

-----------------------------------------------------------------------------
(* One request at a time: the index mirrors the files *)

OneThread  == \A t, u \in Threads : t = u
OwnFile    == \A r, s \in Sessions : StemOf[r] = StemOf[s] => r = s
CleanFails == Faults \subseteq {"open", "append", "unlink"}

\* A thread that found its session in the index still finds it there.
KnownInv ==
  /\ ~poisoned
  /\ \A t \in Threads :
       pc[t] = "want" /\ snap[t] = NoSnap /\ req[t].op # "delete" => req[t].s \in loaded

\* The loop of shed_index spares the session being touched.
LEMMA LoadSpares ==
  ASSUME NEW t \in Threads, LoadAndTouch(t)
  PROVE  /\ req[t].s \in TouchedKeys(t) => req[t].s \in loaded'
         /\ \A s \in Sessions : s \in loaded' => s \in TouchedKeys(t) /\ rows'[s] = TouchedRows(t)[s]
<1>1. PICK V \in Victims(TouchedKeys(t), TouchedOrder(t), SizeOf(TouchedRows(t)), MaxIndexBytes, req[t].s) :
        /\ loaded' = TouchedKeys(t) \ V
        /\ rows' = [s \in Sessions |-> IF s \in V THEN <<>> ELSE TouchedRows(t)[s]]
  BY DEF LoadAndTouch, ShedIndex
<1>2. req[t].s \notin V
  BY DEF Victims, Overdue
<1> QED BY <1>1, <1>2

\* After load_and_touch the session of a put or a get is in the index.
LEMMA KnownTouched ==
  ASSUME KnownInv, NEW t \in Threads, pc[t] = "want", req[t].op # "delete", LoadAndTouch(t)
  PROVE  req[t].s \in loaded'
<1>1. req[t].s \in TouchedKeys(t)
  BY DEF KnownInv, TouchedKeys, Inserts
<1> QED BY <1>1, LoadSpares

\* With one thread nothing evicts a session between the flag and the write lock.
LEMMA KnownStep ==
  ASSUME OneThread, TypeOK, TypeOK', KnownInv, [Next]_vars
  PROVE  KnownInv'
<1>1. ASSUME NEW t \in Threads, NEW op \in {"put", "get", "delete"},
             NEW s \in Sessions, NEW p \in Pages, Call(t, op, s, p)
      PROVE  KnownInv'
  <2>1. /\ poisoned' = poisoned /\ loaded' = loaded
        /\ pc'[t] = "want" => op = "delete" \/ s \in loaded
        /\ req'[t].op = op /\ req'[t].s = s
    BY <1>1 DEF Call, TypeOK, lockVars, indexVars
  <2> QED BY <2>1 DEF KnownInv, OneThread
<1>2. ASSUME NEW t \in Threads, ReadFile(t)
      PROVE  KnownInv'
  <2>1. poisoned' = poisoned
    BY <1>2 DEF ReadFile, lockVars
  <2>2. snap'[t] # NoSnap
    <3>1. files[StemOf[req[t].s]] \in Seq(Pages)
      BY TypeParts, RequestFields DEF TypeOK
    <3>2. PICK n \in 0 .. Len(files[StemOf[req[t].s]]) :
            snap' = [snap EXCEPT ![t] = SubSeq(files[StemOf[req[t].s]], 1, n)]
      <4>1. Len(files[StemOf[req[t].s]]) \in 0 .. Len(files[StemOf[req[t].s]])
        BY <3>1
      <4> QED BY <1>2, <4>1 DEF ReadFile
    <3>3. SubSeq(files[StemOf[req[t].s]], 1, n) \in Seq(Pages)
      BY <3>1, SubSeqProperties
    <3> QED BY <3>2, <3>3, ConstantsAssumption DEF TypeOK
  <2> QED BY <2>1, <2>2 DEF KnownInv, OneThread
<1>3. ASSUME NEW t \in Threads,
             \/ Refused(t) \/ Get(t) \/ PutKnown(t) \/ OpenFails(t) \/ WriteFails(t) \/ DeleteFile(t)
             \/ AppendOk(t) \/ RewriteOk(t)
      PROVE  KnownInv'
  <2>1. Return(t) /\ poisoned' = poisoned
    BY <1>3 DEF Refused, Get, PutKnown, OpenFails, WriteFails, DeleteFile, AppendOk, RewriteOk, Commit,
                lockVars
  <2>2. pc'[t] = "idle"
    BY <2>1, ReturnGuard
  <2> QED BY <2>1, <2>2 DEF KnownInv, OneThread
<1>4. ASSUME NEW t \in Threads, PutPanics(t)
      PROVE  FALSE
  BY <1>4, KnownTouched DEF PutPanics, Enter
<1>5. ASSUME NEW t \in Threads, PutPushes(t) \/ DeleteBooks(t)
      PROVE  KnownInv'
  <2>1. pc'[t] # "want" /\ poisoned' = poisoned
    BY <1>5 DEF PutPushes, DeleteBooks, TypeOK, lockVars
  <2> QED BY <2>1 DEF KnownInv, OneThread
<1>6. CASE Restart
  BY <1>6 DEF Restart, KnownInv
<1>7. CASE UNCHANGED vars
  BY <1>7 DEF vars, lockVars, indexVars, callVars, KnownInv
<1> QED BY <1>1, <1>2, <1>3, <1>4, <1>5, <1>6, <1>7 DEF Next, Step

\* A step of another thread leaves a put where it was: what it saw, it saw before.
LEMMA MissesAfterOther ==
  ASSUME TypeOK, TypeOK', NEW t \in Threads, NEW u \in Threads, t # u, Step(u), Misses(t)'
  PROVE  SeenLoaded(t)
<1>1. pc'[t] = pc[t] /\ req'[t] = req[t] /\ snap'[t] = snap[t]
  <2>1. CASE Return(u)
    BY <2>1, ReturnGuard
  <2>2. CASE \E op \in {"put", "get", "delete"}, s \in Sessions, p \in Pages : Call(u, op, s, p)
    BY <2>2 DEF Call, TypeOK
  <2>3. CASE ReadFile(u) \/ PutPushes(u) \/ DeleteBooks(u)
    BY <2>3 DEF ReadFile, PutPushes, DeleteBooks, TypeOK
  <2>4. CASE Refused(u) \/ Get(u) \/ PutPanics(u) \/ PutKnown(u) \/ OpenFails(u) \/ AppendOk(u)
              \/ RewriteOk(u) \/ WriteFails(u) \/ DeleteFile(u)
    BY <2>1, <2>4 DEF Refused, Get, PutPanics, PutKnown, OpenFails, AppendOk, RewriteOk, Commit,
                      WriteFails, DeleteFile
  <2> QED BY <2>2, <2>3, <2>4 DEF Step
<1> QED BY <1>1 DEF Misses, SeenLoaded

\* No step of its own costs a put the session it has seen loaded.
LEMMA MissesAfterOwn ==
  ASSUME TypeOK, TypeOK', NEW t \in Threads, Step(t), Misses(t)'
  PROVE  FALSE
<1>1. ASSUME NEW op \in {"put", "get", "delete"}, NEW s \in Sessions, NEW p \in Pages, Call(t, op, s, p)
      PROVE  FALSE
  <2>1. loaded' = loaded /\ req'[t].op = op /\ req'[t].s = s
    BY <1>1 DEF Call, TypeOK, indexVars
  <2>2. pc'[t] = "want" => op = "delete" \/ s \in loaded
    BY <1>1 DEF Call, TypeOK
  <2> QED BY <2>1, <2>2 DEF Misses, SeenLoaded
<1>2. CASE ReadFile(t)
  <2>1. PICK n : snap' = [snap EXCEPT ![t] = SubSeq(files[StemOf[req[t].s]], 1, n)]
                 /\ n \in 0 .. Len(files[StemOf[req[t].s]])
    <3>1. files[StemOf[req[t].s]] \in Seq(Pages)
      BY TypeParts, RequestFields DEF TypeOK
    <3>2. Len(files[StemOf[req[t].s]]) \in 0 .. Len(files[StemOf[req[t].s]])
      BY <3>1
    <3> QED BY <1>2, <3>2 DEF ReadFile
  <2>2. SubSeq(files[StemOf[req[t].s]], 1, n) \in Seq(Pages)
    <3>1. files[StemOf[req[t].s]] \in Seq(Pages)
      BY TypeParts, RequestFields DEF TypeOK
    <3> QED BY <2>1, <3>1, SubSeqProperties
  <2>3. snap'[t] # NoSnap
    BY <2>1, <2>2, ConstantsAssumption DEF TypeOK
  <2> QED BY <2>3 DEF Misses, SeenLoaded
<1>3. CASE PutPushes(t) \/ DeleteBooks(t)
  BY <1>3 DEF PutPushes, DeleteBooks, TypeOK, Misses, SeenLoaded
<1>4. CASE Refused(t) \/ Get(t) \/ PutPanics(t) \/ PutKnown(t) \/ OpenFails(t) \/ AppendOk(t)
            \/ RewriteOk(t) \/ WriteFails(t) \/ DeleteFile(t)
  <2>1. Return(t)
    BY <1>4 DEF Refused, Get, PutPanics, PutKnown, OpenFails, AppendOk, RewriteOk, Commit,
                WriteFails, DeleteFile
  <2> QED BY <2>1, ReturnGuard DEF Misses, SeenLoaded
<1> QED BY <1>1, <1>2, <1>3, <1>4 DEF Step

\* The `expect` fails only when the session that its put saw loaded was gone before the put
\* had the guard, and only a step of another thread can have taken it: for any number of
\* threads, under every fault, the race that cvm_expect shows is the one way to the panic.
THEOREM PanicsOnlyByRaceCorrect == Spec => PanicsOnlyByRace
<1>1. ASSUME TypeOK, TypeOK', Next, NEW t \in Threads, PutPanics(t)
      PROVE  Misses(t)
  <2>1. LoadAndTouch(t) /\ pc[t] = "want" /\ req[t].op = "put" /\ req[t].s \notin loaded'
    BY <1>1 DEF PutPanics, Enter
  <2>2. req[t].s \notin TouchedKeys(t)
    BY <2>1, LoadSpares
  <2> QED BY <2>1, <2>2 DEF Misses, SeenLoaded, TouchedKeys, Inserts
<1>2. ASSUME TypeOK, TypeOK', Next, NEW t \in Threads, Misses(t)'
      PROVE  Misses(t) \/ \E u \in Threads \ {t} : SeenLoaded(t) /\ Step(u)
  <2>1. CASE Restart
    <3>1. pc' = [v \in Threads |-> "idle"]
      BY <2>1 DEF Restart
    <3> QED BY <1>2, <3>1 DEF Misses, SeenLoaded
  <2>2. CASE Step(t)
    BY <1>2, <2>2, MissesAfterOwn
  <2>3. ASSUME NEW u \in Threads, u # t, Step(u)
        PROVE  \E v \in Threads \ {t} : SeenLoaded(t) /\ Step(v)
    BY <1>2, <2>3, MissesAfterOther
  <2> QED BY <1>2, <2>1, <2>2, <2>3 DEF Next
<1>3. TypeOK /\ TypeOK' /\ [Next]_vars =>
        [\A t \in Threads :
           /\ PutPanics(t) => Misses(t)
           /\ Misses(t)' => Misses(t) \/ \E u \in Threads \ {t} : SeenLoaded(t) /\ Step(u)]_vars
  BY <1>1, <1>2
<1> QED BY <1>3, TypeCorrect, PTL DEF Spec, PanicsOnlyByRace

\* While a put is being written, what it pushed: the row, less the k oldest the cap drops.
Pushed(t, k) ==
  LET old == rows[req[t].s]
      new == Append(old, req[t].p)
  IN /\ ~Contains(old, req[t].p)
     /\ pending = After(new, k)
     /\ \A j \in 0 .. k - 1 : RowBytes(After(new, j)) > MaxSessionBytes

MirrorInv ==
  /\ torn = {}
  /\ \A s \in loaded : rows[s] = Recoverable[s]
  /\ \A s \in Sessions : owed[s] \subseteq ToSet(Recoverable[s])
  /\ \A t \in Threads :
       /\ pc[t] = "want" /\ snap[t] # NoSnap => snap[t] = OnDisk(req[t].s)
       /\ pc[t] = "append" => Pushed(t, 0)
       /\ pc[t] = "rewrite" => \E k \in 0 .. Len(rows[req[t].s]) : Pushed(t, k)
       /\ pc[t] = "unlink" => req[t].s \notin loaded

\* What can be recovered of each session, with one thread and a file for each session.
LEMMA RecoverableOf ==
  ASSUME OneThread, OwnFile, NEW t \in Threads, TypeOK
  PROVE  \A s \in Sessions :
           /\ pc[t] # "rewrite" => Recoverable[s] = OnDisk(s)
           /\ s # req[t].s => Recoverable[s] = OnDisk(s)
           /\ pc[t] = "rewrite" /\ s = req[t].s => Recoverable[s] = rows[s]
<1>1. req[t].s \in Sessions
  BY TypeParts, RequestFields
<1> QED BY <1>1 DEF Recoverable, Rewriting, OneThread, OwnFile

\* load_and_touch leaves in the index what is on disk.
LEMMA LoadMirrors ==
  ASSUME OneThread, OwnFile, TypeOK, KnownInv, MirrorInv, NEW t \in Threads, pc[t] = "want",
         req[t].op # "delete", LoadAndTouch(t)
  PROVE  /\ req[t].s \in loaded' /\ rows'[req[t].s] = OnDisk(req[t].s)
         /\ TouchedRows(t)[req[t].s] = OnDisk(req[t].s)
         /\ \A s \in Sessions : s \in loaded' => rows'[s] = OnDisk(s)
<1>1. req[t].s \in Sessions
  BY TypeParts, RequestFields
<1>2. \A s \in TouchedKeys(t) : TouchedRows(t)[s] = OnDisk(s)
  <2>1. \A s \in loaded : s \in Sessions /\ rows[s] = OnDisk(s)
    BY RecoverableOf DEF MirrorInv, TypeOK
  <2>2. snap[t] # NoSnap => snap[t] = OnDisk(req[t].s)
    BY DEF MirrorInv
  <2>3. CASE Inserts(t)
    <3>1. TouchedKeys(t) = loaded \union {req[t].s} /\ TouchedRows(t) = [rows EXCEPT ![req[t].s] = snap[t]]
      BY <2>3 DEF TouchedKeys, TouchedRows
    <3>2. snap[t] = OnDisk(req[t].s)
      BY <2>2, <2>3 DEF Inserts
    <3> QED BY <1>1, <2>1, <3>1, <3>2 DEF TypeOK
  <2>4. CASE ~Inserts(t)
    BY <2>1, <2>4 DEF TouchedKeys, TouchedRows
  <2> QED BY <2>3, <2>4
<1>3. req[t].s \in loaded'
  BY KnownTouched
<1>4. \A s \in Sessions : s \in loaded' => s \in TouchedKeys(t) /\ rows'[s] = TouchedRows(t)[s]
  BY LoadSpares
<1> QED BY <1>1, <1>2, <1>3, <1>4

\* A step that returns and leaves files, torn lines and debts alone mirrors as before.
LEMMA ReturnMirrors ==
  ASSUME OneThread, OwnFile, TypeOK, TypeOK', MirrorInv, NEW t \in Threads, pc'[t] = "idle", torn' = {},
         \A s \in Sessions : s \in loaded' => rows'[s] = OnDisk(s)',
         \A s \in Sessions : owed'[s] \subseteq ToSet(OnDisk(s)')
  PROVE  MirrorInv' /\ \A s \in Sessions : Recoverable'[s] = OnDisk(s)'
<1>1. \A s \in Sessions : Recoverable'[s] = OnDisk(s)'
  BY DEF Recoverable, Rewriting, OneThread
<1>2. \A u \in Threads : pc'[u] = "idle"
  BY DEF OneThread
<1> QED BY <1>1, <1>2 DEF MirrorInv, TypeOK

\* Two archives that agree on every session are one.
LEMMA SameRecoverable ==
  ASSUME \A s \in Sessions : Recoverable'[s] = Recoverable[s]
  PROVE  Recoverable' = Recoverable
BY DEF Recoverable

\* The operators of the archive are those of the store.
LEMMA SameSize == ASSUME NEW q PROVE Archive!Size(q) = RowBytes(q)
BY DEF Archive!Size, Archive!FoldLeft, Archive!MapThenFoldSet, Archive!Max, RowBytes, FoldLeft, MapThenFoldSet, Max

\* As above, for the test that a page is known.
LEMMA SameContains == ASSUME NEW q, NEW e PROVE Archive!Contains(q, e) <=> Contains(q, e)
BY DEF Archive!Contains, Contains

\* As above, for the eviction of the oldest rows.
LEMMA SameDrop == ASSUME NEW q, NEW k PROVE Archive!Drop(q, k) = After(q, k)
BY DEF Archive!Drop, After

\* Evicting no row changes nothing.
LEMMA AfterNone ==
  ASSUME NEW q \in Seq(Pages)
  PROVE  After(q, 0) = q
<1>1. /\ SubSeq(q, 1, Len(q)) \in Seq(Pages) /\ Len(SubSeq(q, 1, Len(q))) = Len(q)
      /\ \A i \in 1 .. Len(q) : SubSeq(q, 1, Len(q))[i] = q[i]
  <2>1. \A i \in 1 .. Len(q) : q[i] \in Pages
    OBVIOUS
  <2>2. 1 \in Int /\ Len(q) \in Int /\ Len(q) >= 0
    OBVIOUS
  <2> QED BY <2>1, <2>2, SubSeqProperties
<1> QED BY <1>1, SeqEqual DEF After

\* A committed write puts its page into the archive.
LEMMA CommitMirrors ==
  ASSUME OneThread, OwnFile, TypeOK, TypeOK', GuardHeld, ByteInv, MirrorInv, NEW t \in Threads,
         pc[t] \in {"append", "rewrite"}, NEW k \in 0 .. Len(rows[req[t].s]), Pushed(t, k),
         NEW F \in [Stems -> Seq(Pages)], F = [files EXCEPT ![StemOf[req[t].s]] = pending],
         Commit(t, F, junk, torn)
  PROVE  MirrorInv' /\ Archive!Put(req[t].s, req[t].p)
<1> DEFINE s == req[t].s
           f == StemOf[s]
           p == req[t].p
           R == [rows EXCEPT ![s] = pending]
           B == [diskBytes EXCEPT ![f] = NewLen(f, F, junk, torn)]
           O == Touched(diskOlder, booked \union {f}, f)
<1>1. s \in Sessions /\ f \in Stems /\ p \in Pages /\ s \in loaded
  <2>1. lock = t
    BY DEF GuardHeld
  <2> QED BY <2>1, TypeParts, RequestFields DEF ByteInv
<1>2. PICK V \in Victims(loaded, older, SizeOf(R), MaxIndexBytes, s), D \in Deletable(f, B, O) :
        /\ loaded' = loaded \ (V \union Orphans(D))
        /\ rows' = [r \in Sessions |-> IF r \in loaded' THEN R[r] ELSE <<>>]
        /\ files' = [g \in Stems |-> IF g \in D THEN <<>> ELSE F[g]]
        /\ torn' = torn \ D
        /\ owed' = [r \in Sessions |-> IF r \in Orphans(D) THEN {}
                                       ELSE IF r = s THEN Owing(s, p) ELSE owed[r]]
  BY DEF Commit
<1>3. f \notin D
  BY <1>2 DEF Deletable, Victims, Overdue
<1>4. \A r \in Sessions : StemOf[r] \in Stems /\ (r \in Orphans(D) <=> StemOf[r] \in D)
  BY ConstantsAssumption DEF Orphans
<1>5. pc'[t] = "idle"
  BY ReturnGuard DEF Commit
<1>6. /\ Recoverable[s] = rows[s]
      /\ \A r \in Sessions \ {s} : Recoverable[r] = OnDisk(r)
  BY <1>1, RecoverableOf DEF MirrorInv
<1>7. \A r \in Sessions : OnDisk(r)' = IF r = s THEN pending
                                       ELSE IF r \in Orphans(D) THEN <<>> ELSE OnDisk(r)
  <2> TAKE r \in Sessions
  <2>1. OnDisk(r)' = IF StemOf[r] \in D THEN <<>> ELSE F[StemOf[r]]
    BY <1>2, <1>4 DEF OnDisk
  <2>2. CASE r = s
    BY <1>1, <1>3, <2>1, <2>2 DEF TypeOK
  <2>3. CASE r # s
    <3>1. StemOf[r] # f
      BY <1>1, <2>3 DEF OwnFile
    <3>2. F[StemOf[r]] = files[StemOf[r]]
      BY <1>1, <1>4, <3>1 DEF TypeOK
    <3> QED BY <1>4, <2>1, <2>3, <3>2 DEF OnDisk
  <2> QED BY <2>2, <2>3
<1>8. \A r \in Sessions : r \in loaded' => rows'[r] = OnDisk(r)'
  <2> SUFFICES ASSUME NEW r \in Sessions, r \in loaded' PROVE rows'[r] = OnDisk(r)'
    OBVIOUS
  <2>1. r \in loaded /\ r \notin Orphans(D) /\ rows'[r] = R[r]
    BY <1>2
  <2>2. CASE r = s
    BY <1>1, <1>7, <2>1, <2>2 DEF TypeOK
  <2>3. CASE r # s
    <3>1. R[r] = rows[r] /\ rows[r] = OnDisk(r)
      BY <1>1, <1>6, <2>1, <2>3 DEF MirrorInv, TypeOK
    <3> QED BY <1>7, <2>1, <2>3, <3>1
  <2> QED BY <2>2, <2>3
<1>9. \A r \in Sessions : owed'[r] \subseteq ToSet(OnDisk(r)')
  <2> TAKE r \in Sessions
  <2>1. CASE r = s
    <3>1. owed[s] \subseteq ToSet(rows[s])
      BY <1>1, <1>6 DEF MirrorInv
    <3>2. Owing(s, p) \subseteq ToSet(pending)
      BY <3>1 DEF Owing
    <3> QED BY <1>2, <1>7, <2>1, <3>2
  <2>2. CASE r # s /\ r \in Orphans(D)
    BY <1>2, <2>2
  <2>3. CASE r # s /\ r \notin Orphans(D)
    BY <1>2, <1>6, <1>7, <2>3 DEF MirrorInv
  <2> QED BY <2>1, <2>2, <2>3
<1>10. torn' = {}
  BY <1>2 DEF MirrorInv
<1>11. MirrorInv' /\ \A r \in Sessions : Recoverable'[r] = OnDisk(r)'
  BY <1>5, <1>8, <1>9, <1>10, ReturnMirrors
<1>12. Recoverable' = [r \in Sessions |-> IF r = s THEN Archive!Drop(Append(Recoverable[s], p), k)
                                         ELSE IF r \in Orphans(D) \ {s} THEN <<>> ELSE Recoverable[r]]
  <2>1. pending = Archive!Drop(Append(Recoverable[s], p), k)
    BY <1>6, SameDrop DEF Pushed
  <2>2. \A r \in Sessions : Recoverable'[r] = IF r = s THEN pending
                                              ELSE IF r \in Orphans(D) \ {s} THEN <<>> ELSE Recoverable[r]
    BY <1>6, <1>7, <1>11
  <2> QED BY <2>1, <2>2 DEF Recoverable
<1>13. ~Archive!Contains(Recoverable[s], p)
  BY <1>6, SameContains DEF Pushed
<1>14. \A j \in 0 .. k - 1 : Archive!Size(Archive!Drop(Append(Recoverable[s], p), j)) > MaxSessionBytes
  BY <1>6, SameDrop, SameSize DEF Pushed
<1>15. Orphans(D) \ {s} \in SUBSET (Sessions \ {s}) /\ k \in 0 .. Len(Recoverable[s])
  BY <1>6 DEF Orphans
<1> QED BY <1>11, <1>12, <1>13, <1>14, <1>15 DEF Archive!Put

\* Appending the row, or rewriting the file, leaves the rows that were pushed.
LEMMA WriteMirrors ==
  ASSUME OneThread, OwnFile, TypeOK, TypeOK', GuardHeld, ByteInv, MirrorInv,
         NEW t \in Threads, AppendOk(t) \/ RewriteOk(t)
  PROVE  MirrorInv' /\ Archive!Put(req[t].s, req[t].p)
<1> DEFINE s == req[t].s
           f == StemOf[s]
           p == req[t].p
           F == [files EXCEPT ![f] = pending]
<1>1. s \in Sessions /\ f \in Stems /\ p \in Pages /\ s \in loaded
  <2>1. lock = t
    BY DEF GuardHeld, AppendOk, RewriteOk
  <2> QED BY <2>1, TypeParts, RequestFields DEF ByteInv
<1>2. F \in [Stems -> Seq(Pages)]
  BY <1>1 DEF TypeOK
<1>3. CASE AppendOk(t)
  <2>1. Pushed(t, 0) /\ pc[t] = "append" /\ f \notin torn
    BY <1>3 DEF AppendOk, MirrorInv
  <2>2. Commit(t, [files EXCEPT ![f] = Append(@, p)], junk, torn)
    BY <1>3, <2>1 DEF AppendOk
  <2>3. rows[s] = files[f]
    BY <1>1, <2>1, RecoverableOf DEF MirrorInv, OnDisk
  <2>4. pending = Append(files[f], p)
    <3>1. pending = After(Append(rows[s], p), 0)
      BY <2>1 DEF Pushed
    <3>2. Append(rows[s], p) \in Seq(Pages)
      BY <1>1, AppendProperties DEF TypeOK
    <3> QED BY <2>3, <3>1, <3>2, AfterNone
  <2>5. [files EXCEPT ![f] = Append(@, p)] = F
    BY <2>4
  <2>6. 0 \in 0 .. Len(rows[s])
    BY <1>1 DEF TypeOK
  <2>7. Commit(t, F, junk, torn)
    BY <2>2, <2>5
  <2> HIDE DEF F
  <2>8. F = [files EXCEPT ![StemOf[req[t].s]] = pending]
    BY DEF F
  <2> QED BY <1>2, <2>1, <2>6, <2>7, <2>8, CommitMirrors
<1>4. CASE RewriteOk(t)
  <2>1. pc[t] = "rewrite" /\ Commit(t, F, junk, torn)
    BY <1>4 DEF RewriteOk
  <2>2. PICK k \in 0 .. Len(rows[s]) : Pushed(t, k)
    BY <2>1 DEF MirrorInv
  <2> HIDE DEF F
  <2>3. F = [files EXCEPT ![StemOf[req[t].s]] = pending]
    BY DEF F
  <2> QED BY <1>2, <2>1, <2>2, <2>3, CommitMirrors
<1> QED BY <1>3, <1>4

\* The push takes the rows a put found; what they were is in memory while the file is empty.
LEMMA PushMirrors ==
  ASSUME OneThread, OwnFile, TypeOK, TypeOK', KnownInv, MirrorInv, NEW t \in Threads, PutPushes(t)
  PROVE  MirrorInv' /\ \A s \in Sessions : Recoverable'[s] = Recoverable[s]
<1> DEFINE s == req[t].s
           f == StemOf[s]
           old == TouchedRows(t)[s]
           new == Append(old, req[t].p)
<1>1. s \in Sessions /\ f \in Stems /\ req[t].p \in Pages
  BY TypeParts, RequestFields
<1>2. /\ s \in loaded' /\ rows'[s] = OnDisk(s) /\ old = OnDisk(s)
      /\ \A r \in Sessions : r \in loaded' => rows'[r] = OnDisk(r)
  BY LoadMirrors DEF PutPushes, Enter
<1>3. \A r \in Sessions : Recoverable[r] = OnDisk(r)
  BY RecoverableOf DEF PutPushes, Enter
<1>4. PICK k \in 0 .. Len(new) - 1 :
        /\ IsExcess(new, k)
        /\ pending' = After(new, k)
        /\ pc' = [pc EXCEPT ![t] = IF k = 0 THEN "append" ELSE "rewrite"]
        /\ files' = IF k = 0 THEN files ELSE [files EXCEPT ![f] = <<>>]
        /\ torn' = IF k = 0 THEN torn ELSE torn \ {f}
  BY DEF PutPushes
<1>5. req' = req /\ snap' = snap /\ owed' = owed /\ ~Contains(old, req[t].p)
  BY DEF PutPushes
<1>6. pc'[t] = IF k = 0 THEN "append" ELSE "rewrite"
  BY <1>4 DEF TypeOK
<1>7. \A r \in Sessions \ {s} : OnDisk(r)' = OnDisk(r)
  <2> TAKE r \in Sessions \ {s}
  <2>1. StemOf[r] # f /\ StemOf[r] \in Stems
    BY <1>1, ConstantsAssumption DEF OwnFile
  <2> QED BY <1>4, <2>1 DEF OnDisk, TypeOK
<1>8. k = 0 => files' = files
  BY <1>4
<1>9. \A r \in Sessions : /\ pc'[t] # "rewrite" => Recoverable'[r] = OnDisk(r)'
                          /\ r # s => Recoverable'[r] = OnDisk(r)'
                          /\ pc'[t] = "rewrite" /\ r = s => Recoverable'[r] = rows'[r]
  BY <1>1, <1>5 DEF Recoverable, Rewriting, OneThread, OwnFile
<1>10. \A r \in Sessions : Recoverable'[r] = Recoverable[r]
  <2> TAKE r \in Sessions
  <2>1. CASE r # s
    BY <1>3, <1>7, <1>9, <2>1
  <2>2. CASE r = s /\ k = 0
    <3>1. pc'[t] # "rewrite" /\ files' = files
      BY <1>6, <1>8, <2>2
    <3>2. Recoverable'[r] = OnDisk(r)'
      BY <1>9, <3>1
    <3>3. OnDisk(r)' = OnDisk(r)
      BY <3>1 DEF OnDisk
    <3> QED BY <1>3, <3>2, <3>3
  <2>3. CASE r = s /\ k # 0
    BY <1>2, <1>3, <1>6, <1>9, <2>3
  <2> QED BY <2>1, <2>2, <2>3
<1>11. old \in Seq(Pages) /\ Len(new) = Len(old) + 1 /\ Len(old) \in Nat
  <2>1. old \in Seq(Pages)
    BY <1>1, <1>2 DEF OnDisk, TypeOK
  <2> QED BY <1>1, <2>1, AppendProperties
<1>12. Pushed(t, k)'
  BY <1>2, <1>4, <1>5 DEF Pushed, IsExcess
<1>13. k \in 0 .. Len(rows[req[t].s])'
  BY <1>2, <1>4, <1>5, <1>11
<1>14. torn' = {}
  BY <1>4 DEF MirrorInv
<1>15. \A r \in loaded' : rows'[r] = Recoverable'[r]
  BY <1>2, <1>3, <1>10 DEF TypeOK
<1>16. \A r \in Sessions : owed'[r] \subseteq ToSet(Recoverable'[r])
  BY <1>5, <1>10 DEF MirrorInv
<1>17. \A u \in Threads : u = t
  BY DEF OneThread
<1>18. \A u \in Threads :
         /\ pc'[u] # "want" /\ pc'[u] # "unlink"
         /\ pc'[u] = "append" => Pushed(u, 0)'
         /\ pc'[u] = "rewrite" => \E i \in 0 .. Len(rows[req[u].s])' : Pushed(u, i)'
  BY <1>6, <1>12, <1>13, <1>17
<1> QED BY <1>10, <1>14, <1>15, <1>16, <1>18 DEF MirrorInv

\* Every step mirrors, and is a step of the archive or none.
LEMMA MirrorStep ==
  ASSUME OneThread, OwnFile, CleanFails, TypeOK, TypeOK', GuardHeld, ByteInv, KnownInv, MirrorInv,
         [Next]_vars
  PROVE  MirrorInv' /\ [Archive!Next]_Recoverable
<1>1. ASSUME NEW t \in Threads, NEW op \in {"put", "get", "delete"},
             NEW s \in Sessions, NEW p \in Pages, Call(t, op, s, p)
      PROVE  MirrorInv' /\ \A r \in Sessions : Recoverable'[r] = Recoverable[r]
  <2>1. /\ pc[t] = "idle" /\ pc'[t] \in {"want", "read"} /\ snap'[t] = NoSnap
        /\ UNCHANGED <<loaded, rows, files, torn, owed>>
    BY <1>1 DEF Call, TypeOK, GuardHeld, indexVars, diskVars
  <2>2. \A u \in Threads : u = t
    BY DEF OneThread
  <2>3. \A r \in Sessions : Recoverable'[r] = Recoverable[r]
    BY <2>1, <2>2 DEF Recoverable, Rewriting, OnDisk
  <2> QED BY <2>1, <2>2, <2>3 DEF MirrorInv, TypeOK
<1>2. ASSUME NEW t \in Threads, ReadFile(t)
      PROVE  MirrorInv' /\ \A r \in Sessions : Recoverable'[r] = Recoverable[r]
  <2> DEFINE q == files[StemOf[req[t].s]]
  <2>1. q \in Seq(Pages)
    BY TypeParts, RequestFields DEF TypeOK
  <2>2. snap' = [snap EXCEPT ![t] = SubSeq(q, 1, Len(q))]
    BY <1>2 DEF ReadFile, CleanFails
  <2>3. SubSeq(q, 1, Len(q)) = q
    BY <2>1, AfterNone DEF After
  <2>4. /\ pc[t] = "read" /\ pc'[t] = "want" /\ snap'[t] = q
        /\ UNCHANGED <<loaded, rows, files, torn, owed, req>>
    BY <1>2, <2>2, <2>3 DEF ReadFile, TypeOK, indexVars, diskVars
  <2>5. \A u \in Threads : u = t
    BY DEF OneThread
  <2>6. \A r \in Sessions : Recoverable'[r] = Recoverable[r]
    BY <2>4, <2>5 DEF Recoverable, Rewriting, OnDisk
  <2> QED BY <2>4, <2>5, <2>6 DEF MirrorInv, TypeOK, OnDisk
<1>3. ASSUME NEW t \in Threads, Get(t) \/ PutKnown(t) \/ OpenFails(t)
      PROVE  MirrorInv' /\ \A r \in Sessions : Recoverable'[r] = Recoverable[r]
  <2> DEFINE s == req[t].s
  <2>1. pc[t] = "want" /\ req[t].op # "delete" /\ LoadAndTouch(t) /\ files' = files /\ torn' = torn /\ Return(t)
    BY <1>3 DEF Get, PutKnown, OpenFails, Enter, diskVars
  <2>2. /\ s \in loaded' /\ rows'[s] = OnDisk(s) /\ TouchedRows(t)[s] = OnDisk(s)
        /\ \A r \in Sessions : r \in loaded' => rows'[r] = OnDisk(r)
    BY <2>1, LoadMirrors
  <2>3. \A r \in Sessions : Recoverable[r] = OnDisk(r) /\ OnDisk(r)' = OnDisk(r)
    BY <2>1, RecoverableOf DEF OnDisk
  <2>4. \A r \in Sessions : owed'[r] \subseteq ToSet(OnDisk(r)')
    <3>1. CASE owed' = owed
      BY <2>3, <3>1 DEF MirrorInv
    <3>2. CASE PutKnown(t)
      <4>1. owed' = [owed EXCEPT ![s] = @ \union {req[t].p}] /\ Contains(rows'[s], req[t].p)
        BY <3>2 DEF PutKnown
      <4>2. req[t].p \in ToSet(OnDisk(s))
        BY <2>2, <4>1 DEF Contains, ToSet
      <4>3. \A r \in Sessions : owed[r] \subseteq ToSet(OnDisk(r))
        BY <2>3 DEF MirrorInv
      <4> QED BY <2>3, <4>1, <4>2, <4>3 DEF TypeOK
    <3> QED BY <1>3, <3>1, <3>2 DEF Get, OpenFails
  <2>5. pc'[t] = "idle"
    BY <2>1, ReturnGuard
  <2>6. torn' = {}
    BY <2>1 DEF MirrorInv
  <2> QED BY <2>2, <2>3, <2>4, <2>5, <2>6, ReturnMirrors
<1>4. ASSUME NEW t \in Threads, Refused(t) \/ WriteFails(t)
      PROVE  MirrorInv' /\ \A r \in Sessions : Recoverable'[r] = Recoverable[r]
  <2>1. Return(t) /\ pc[t] # "rewrite" /\ UNCHANGED <<loaded, rows, files, torn, owed>>
    BY <1>4 DEF Refused, WriteFails, CleanFails, KnownInv, indexVars, diskVars
  <2>2. \A r \in Sessions : Recoverable[r] = OnDisk(r) /\ OnDisk(r)' = OnDisk(r)
    BY <2>1, RecoverableOf DEF OnDisk
  <2>3. \A r \in Sessions : r \in loaded' => rows'[r] = OnDisk(r)'
    BY <2>1, <2>2 DEF MirrorInv
  <2>4. \A r \in Sessions : owed'[r] \subseteq ToSet(OnDisk(r)')
    BY <2>1, <2>2 DEF MirrorInv
  <2>5. pc'[t] = "idle" /\ torn' = {}
    BY <2>1, ReturnGuard DEF MirrorInv
  <2> QED BY <2>2, <2>3, <2>4, <2>5, ReturnMirrors
<1>5. ASSUME NEW t \in Threads, PutPanics(t)
      PROVE  FALSE
  BY <1>5, KnownTouched DEF PutPanics, Enter
<1>6. ASSUME NEW t \in Threads, PutPushes(t)
      PROVE  MirrorInv' /\ \A r \in Sessions : Recoverable'[r] = Recoverable[r]
  BY <1>6, PushMirrors
<1>7. ASSUME NEW t \in Threads, AppendOk(t) \/ RewriteOk(t)
      PROVE  MirrorInv' /\ Archive!Next
  <2>1. MirrorInv' /\ Archive!Put(req[t].s, req[t].p)
    BY <1>7, WriteMirrors
  <2>2. req[t].s \in Sessions /\ req[t].p \in Pages
    BY TypeParts, RequestFields
  <2> QED BY <2>1, <2>2 DEF Archive!Next
<1>8. ASSUME NEW t \in Threads, DeleteBooks(t)
      PROVE  MirrorInv' /\ \A r \in Sessions : Recoverable'[r] = Recoverable[r]
  <2> DEFINE s == req[t].s
  <2>1. /\ pc[t] = "want" /\ pc'[t] = "unlink" /\ UNCHANGED <<files, torn, req, snap>>
        /\ loaded' = loaded \ {s} /\ rows' = [rows EXCEPT ![s] = <<>>]
        /\ owed' = [owed EXCEPT ![s] = {}]
    BY <1>8 DEF DeleteBooks, KnownInv, TypeOK, diskVars
  <2>2. \A u \in Threads : u = t
    BY DEF OneThread
  <2>3. \A r \in Sessions : Recoverable[r] = OnDisk(r) /\ Recoverable'[r] = OnDisk(r)
    BY <2>1, <2>2, RecoverableOf DEF Recoverable, Rewriting, OnDisk
  <2>4. \A r \in loaded' : rows'[r] = Recoverable'[r]
    BY <2>1, <2>3 DEF MirrorInv, TypeOK
  <2>5. \A r \in Sessions : owed'[r] \subseteq ToSet(Recoverable'[r])
    BY <2>1, <2>3 DEF MirrorInv, TypeOK
  <2> QED BY <2>1, <2>2, <2>3, <2>4, <2>5 DEF MirrorInv
<1>9. ASSUME NEW t \in Threads, DeleteFile(t)
      PROVE  MirrorInv' /\ [Archive!Next]_Recoverable
  <2> DEFINE s == req[t].s
             f == StemOf[s]
  <2>1. Return(t) /\ pc[t] = "unlink" /\ UNCHANGED <<loaded, rows>> /\ s \in Sessions /\ f \in Stems
    BY <1>9, TypeParts, RequestFields DEF DeleteFile, indexVars
  <2>2. \A r \in Sessions : Recoverable[r] = OnDisk(r)
    BY <2>1, RecoverableOf
  <2>3. s \notin loaded
    BY <2>1 DEF MirrorInv
  <2>4. CASE files' = [files EXCEPT ![f] = <<>>] /\ torn' = torn \ {f} /\ owed' = [owed EXCEPT ![s] = {}]
    <3>1. \A r \in Sessions : OnDisk(r)' = IF r = s THEN <<>> ELSE OnDisk(r)
      <4> TAKE r \in Sessions
      <4>1. StemOf[r] \in Stems /\ (StemOf[r] = f => r = s)
        BY <2>1, ConstantsAssumption DEF OwnFile
      <4> QED BY <2>1, <2>4, <4>1 DEF OnDisk, TypeOK
    <3>2. \A r \in Sessions : r \in loaded' => rows'[r] = OnDisk(r)'
      BY <2>1, <2>2, <2>3, <3>1 DEF MirrorInv
    <3>3. \A r \in Sessions : owed'[r] \subseteq ToSet(OnDisk(r)')
      BY <2>1, <2>2, <2>4, <3>1 DEF MirrorInv, TypeOK
    <3>4. pc'[t] = "idle" /\ torn' = {}
      BY <2>1, <2>4, ReturnGuard DEF MirrorInv
    <3>5. MirrorInv' /\ \A r \in Sessions : Recoverable'[r] = OnDisk(r)'
      BY <3>2, <3>3, <3>4, ReturnMirrors
    <3>6. Recoverable' = [Recoverable EXCEPT ![s] = <<>>]
      BY <2>2, <3>1, <3>5 DEF Recoverable
    <3> QED BY <2>1, <3>5, <3>6 DEF Archive!Next, Archive!Delete
  <2>5. CASE UNCHANGED <<files, torn, owed>>
    <3>1. \A r \in Sessions : OnDisk(r)' = OnDisk(r)
      BY <2>5 DEF OnDisk
    <3>2. \A r \in Sessions : r \in loaded' => rows'[r] = OnDisk(r)'
      BY <2>1, <2>2, <3>1 DEF MirrorInv
    <3>3. \A r \in Sessions : owed'[r] \subseteq ToSet(OnDisk(r)')
      BY <2>2, <2>5, <3>1 DEF MirrorInv
    <3>4. pc'[t] = "idle" /\ torn' = {}
      BY <2>1, <2>5, ReturnGuard DEF MirrorInv
    <3>5. MirrorInv' /\ \A r \in Sessions : Recoverable'[r] = OnDisk(r)'
      BY <3>2, <3>3, <3>4, ReturnMirrors
    <3> QED BY <2>2, <3>1, <3>5, SameRecoverable
  <2> QED BY <1>9, <2>4, <2>5 DEF DeleteFile, diskVars
<1>10. CASE UNCHANGED vars
  <2>1. UNCHANGED <<loaded, rows, files, torn, pc, req, snap, pending, owed>>
    BY <1>10 DEF vars, indexVars, diskVars, lockVars, callVars
  <2>2. Recoverable' = Recoverable
    BY <2>1 DEF Recoverable, Rewriting, OnDisk
  <2>3. MirrorInv'
    BY <2>1, <2>2 DEF MirrorInv, Pushed, OnDisk
  <2> QED BY <2>2, <2>3
<1>11. ~Restart
  BY DEF Restart, CleanFails
<1> QED BY <1>1, <1>2, <1>3, <1>4, <1>5, <1>6, <1>7, <1>8, <1>9, <1>10, <1>11, SameRecoverable DEF Next, Step

StoreInv == TypeOK /\ GuardHeld /\ ByteInv /\ KnownInv /\ MirrorInv

\* The invariants of the index, its counter and its files, together.
THEOREM MirrorsAlways == ASSUME OneThread, OwnFile, CleanFails PROVE Spec => []StoreInv
<1>1. Init => KnownInv /\ MirrorInv
  <2> SUFFICES ASSUME Init PROVE KnownInv /\ MirrorInv
    OBVIOUS
  <2>1. KnownInv
    BY DEF Init, KnownInv
  <2>2. MirrorInv
    BY DEF Init, MirrorInv
  <2> QED BY <2>1, <2>2
<1>2. TypeOK /\ TypeOK' /\ KnownInv /\ [Next]_vars => KnownInv'
  BY KnownStep
<1>3. TypeOK /\ TypeOK' /\ GuardHeld /\ ByteInv /\ KnownInv /\ MirrorInv /\ [Next]_vars => MirrorInv'
  BY MirrorStep
<1> QED BY <1>1, <1>2, <1>3, SourcedAlways, BytesAlways, PTL DEF Spec, ProvenanceInv, StoreInv

\* The rows in memory are the rows on disk whenever no put is writing, with one request at a
\* time, a file for each session, and no half-done write, partial read or crash.
THEOREM IndexMatchesDiskCorrect ==
  ASSUME OneThread, OwnFile, CleanFails PROVE Spec => []IndexMatchesDisk
<1>1. StoreInv => IndexMatchesDisk
  <2> SUFFICES ASSUME StoreInv, lock = NoThread, NEW s \in loaded PROVE rows[s] = OnDisk(s)
    BY DEF IndexMatchesDisk
  <2>1. \A t \in Threads : pc[t] # "rewrite"
    BY ConstantsAssumption DEF StoreInv, GuardHeld
  <2> QED BY <2>1 DEF StoreInv, MirrorInv, Recoverable, Rewriting, TypeOK
<1> QED BY <1>1, MirrorsAlways, PTL

\* Under the same conditions every acknowledged page stays readable until a bound or a delete
\* drops it: evicting a session from memory, and loading it again, loses nothing.
THEOREM DurableCorrect ==
  ASSUME OneThread, OwnFile, CleanFails PROVE Spec => []Durable
<1>1. StoreInv => Durable
  <2> SUFFICES ASSUME StoreInv, NEW s \in Sessions, lock = NoThread PROVE owed[s] \subseteq Visible(s)
    BY DEF Durable
  <2>1. \A t \in Threads : pc[t] # "rewrite"
    BY ConstantsAssumption DEF StoreInv, GuardHeld
  <2>2. Recoverable[s] = OnDisk(s)
    BY <2>1 DEF Recoverable, Rewriting
  <2> QED BY <2>2 DEF StoreInv, MirrorInv, Visible
<1> QED BY <1>1, MirrorsAlways, PTL

\* Under the same conditions the store implements the archive: each step adds one page to a
\* session, drops oldest pages over the cap, drops a whole session, or changes nothing.
THEOREM ArchiveCorrect ==
  ASSUME OneThread, OwnFile, CleanFails PROVE Spec => ArchiveSpec
<1>1. Init => Archive!Init
  BY ConstantsAssumption DEF Init, Archive!Init, Recoverable, OnDisk, Rewriting
<1>2. StoreInv /\ StoreInv' /\ [Next]_vars => [Archive!Next]_Recoverable
  BY MirrorStep DEF StoreInv
<1> QED BY <1>1, <1>2, MirrorsAlways, PTL DEF Spec, ArchiveSpec, Archive!Spec

-----------------------------------------------------------------------------
(* The disk bound *)

Deletes == Faults \subseteq {"open", "append"}

\* The file whose size the books do not know: it is being rewritten or deleted.
Unsettled(f) == \E t \in Threads : pc[t] \in {"rewrite", "unlink"} /\ StemOf[req[t].s] = f

DiskInv ==
  /\ torn = {} /\ IsFiniteSet(present) /\ booked \subseteq present
  /\ diskBytes \in [Stems -> Nat]
  /\ \A f \in Stems : f \notin booked => diskBytes[f] = 0
  /\ \A f \in Stems : ~Unsettled(f) => FileSize[f] = diskBytes[f]
  /\ \A t \in Threads :
       /\ pc[t] \in {"append", "rewrite"} => StemOf[req[t].s] \in present
       /\ pc[t] = "unlink" => StemOf[req[t].s] \notin booked

\* What weighs nothing adds nothing.
LEMMA TotalZero ==
  ASSUME NEW S, IsFiniteSet(S), NEW w, Weighs(S, w), NEW V \in SUBSET S, \A x \in S \ V : w[x] = 0
  PROVE  Total(S, w) = Total(V, w)
<1> DEFINE T == {n \in Nat : \A s \in SUBSET (S \ V) : Cardinality(s) <= n => Total(s, w) = 0}
<1>0. ASSUME NEW s \in SUBSET S
      PROVE  /\ IsFiniteSet(s) /\ Weighs(s, w) /\ Total(s, w) \in Nat /\ Total({}, w) = 0
             /\ Cardinality(s) \in Nat
             /\ Cardinality(s) <= 0 => s = {}
             /\ s # {} => Pick(s) \in s /\ Cardinality(s \ {Pick(s)}) = Cardinality(s) - 1
  <2>1. IsFiniteSet(s) /\ Weighs(s, w)
    BY Parts DEF Weighs
  <2> QED BY <2>1, TotalPick, Smaller, PicksChoose
<1>1. 0 \in T
  BY <1>0
<1>2. ASSUME NEW n \in Nat, n \in T PROVE n + 1 \in T
  <2> SUFFICES ASSUME NEW s \in SUBSET (S \ V), Cardinality(s) <= n + 1 PROVE Total(s, w) = 0
    BY <1>2
  <2>0. s \in SUBSET S
    OBVIOUS
  <2>1. CASE s = {}
    <3>1. Total({}, w) = 0
      BY <1>0, <2>0
    <3> QED BY <2>1, <3>1
  <2>2. CASE s # {}
    <3>1. Pick(s) \in s /\ Cardinality(s \ {Pick(s)}) <= n
      BY <1>0, <2>0, <2>2
    <3>2. Total(s \ {Pick(s)}, w) = 0
      BY <1>2, <3>1
    <3>3. Total(s, w) = w[Pick(s)] + Total(s \ {Pick(s)}, w)
      BY <1>0, <2>0, <2>2, TotalPick
    <3> QED BY <3>1, <3>2, <3>3
  <2> QED BY <2>1, <2>2
<1> HIDE DEF T
<1>3. Cardinality(S \ V) \in T
  <2>1. Cardinality(S \ V) \in Nat
    <3>1. S \ V \in SUBSET S
      OBVIOUS
    <3> QED BY <1>0, <3>1
  <2> QED BY <1>1, <1>2, <2>1, NatInduct
<1>4. Total(S \ V, w) = 0
  <2>1. S \ V \in SUBSET S
    OBVIOUS
  <2>2. Cardinality(S \ V) \in Nat
    BY <1>0, <2>1
  <2>3. Cardinality(S \ V) <= Cardinality(S \ V)
    BY <2>2
  <2> QED BY <1>3, <2>3 DEF T
<1>5. S \ (S \ V) = V /\ S \ V \in SUBSET S
  OBVIOUS
<1>6. Total(V, w) = Total(S, w) - Total(S \ V, w)
  BY <1>5, TotalMinus
<1>7. S \in SUBSET S
  OBVIOUS
<1>8. Total(S, w) \in Nat
  BY <1>0, <1>7
<1> QED BY <1>4, <1>6, <1>8

\* A file's length is a natural, and an empty file has none.
LEMMA FileLenNat ==
  ASSUME NEW q \in Seq(Pages), NEW j \in Nat, NEW g \in BOOLEAN
  PROVE  FileLen(q, j, g) \in Nat /\ FileLen(<<>>, 0, FALSE) = 0
<1>1. RowBytes(q) \in Nat /\ RowBytes(<<>>) = 0 /\ Len(q) \in Nat /\ Len(<<>>) = 0
  BY RowBytesNat
<1>2. \A a, b \in Nat : a * b \in Nat /\ a * 0 = 0
  OBVIOUS
<1>3. LineOverhead * Len(q) \in Nat /\ (LineOverhead + 1) * j \in Nat
  <2>1. LineOverhead \in Nat /\ LineOverhead + 1 \in Nat
    BY ConstantsAssumption
  <2> QED BY <1>1, <1>2, <2>1
<1>4. LineOverhead * 0 = 0 /\ (LineOverhead + 1) * 0 = 0
  BY <1>2, ConstantsAssumption
<1>5. FileLen(q, j, g) \in Nat
  BY <1>1, <1>3 DEF FileLen
<1>6. FileLen(<<>>, 0, FALSE) = 0
  BY <1>1, <1>4 DEF FileLen
<1> QED BY <1>5, <1>6

\* As above, for the files as they are.
LEMMA SizesNat ==
  ASSUME TypeOK
  PROVE  \A f \in Stems : FileSize[f] = FileLen(files[f], junk[f], f \in torn) /\ FileSize[f] \in Nat
<1> TAKE f \in Stems
<1>1. files[f] \in Seq(Pages) /\ junk[f] \in Nat /\ (f \in torn) \in BOOLEAN
  BY DEF TypeOK
<1>2. FileLen(files[f], junk[f], f \in torn) \in Nat
  BY <1>1, FileLenNat
<1> QED BY <1>2 DEF FileSize

\* With no half line in any file, a file's size is that of its whole lines.
LEMMA WholeSizes ==
  ASSUME torn = {}
  PROVE  \A f \in Stems : FileSize[f] = FileLen(files[f], junk[f], FALSE)
BY DEF FileSize, FileLen

\* A committed write books the file's new size, and what the loop leaves fits or is one file.
LEMMA CommitDisk ==
  ASSUME OneThread, Deletes, TypeOK, TypeOK', DiskInv, NEW t \in Threads,
         pc[t] \in {"append", "rewrite"},
         NEW F \in [Stems -> Seq(Pages)], F = [files EXCEPT ![StemOf[req[t].s]] = F[StemOf[req[t].s]]],
         Commit(t, F, junk, torn)
  PROVE  /\ DiskInv'
         /\ DiskTotal' <= MaxTotalBytes \/ \E f \in present' : DiskTotal' = FileSize'[f]
<1> DEFINE s == req[t].s
           f == StemOf[s]
           R == [rows EXCEPT ![s] = pending]
           B == [diskBytes EXCEPT ![f] = NewLen(f, F, junk, torn)]
           O == Touched(diskOlder, booked \union {f}, f)
           S == booked \union {f}
<1>1. s \in Sessions /\ f \in Stems
  BY TypeParts, RequestFields
<1>2. PICK V \in Victims(loaded, older, SizeOf(R), MaxIndexBytes, s), D \in Deletable(f, B, O) :
        /\ booked' = S \ D
        /\ diskBytes' = [g \in Stems |-> IF g \in D THEN 0 ELSE B[g]]
        /\ files' = [g \in Stems |-> IF g \in D THEN <<>> ELSE F[g]]
        /\ junk' = [g \in Stems |-> IF g \in D THEN 0 ELSE junk[g]]
        /\ torn' = torn \ D /\ present' = present \ D
  BY DEF Commit
<1>3. /\ D \in SUBSET S /\ f \notin D
      /\ Total(S \ D, B) <= MaxTotalBytes \/ D = S \ {f}
  BY <1>2 DEF Deletable, Victims, Overdue, Deletes
<1>4. torn' = {} /\ f \in present /\ S \subseteq present
  BY <1>2 DEF DiskInv
<1>5. \A g \in Stems : g # f => ~Unsettled(g)
  BY DEF Unsettled, OneThread
<1>6. pc'[t] = "idle"
  BY ReturnGuard DEF Commit
<1>7. \A g \in Stems : ~Unsettled(g)'
  BY <1>6 DEF Unsettled, OneThread
<1>8. B \in [Stems -> Nat]
  <2>1. NewLen(f, F, junk, torn) \in Nat
    <3>1. F[f] \in Seq(Pages) /\ junk[f] \in Nat /\ (f \in torn) \in BOOLEAN
      BY <1>1 DEF TypeOK
    <3> QED BY <3>1, FileLenNat DEF NewLen
  <2> QED BY <1>1, <2>1 DEF DiskInv
<1>9. \A g \in Stems : FileSize'[g] = diskBytes'[g]
  <2> TAKE g \in Stems
  <2>1. FileSize'[g] = FileLen(files'[g], junk'[g], FALSE)
    BY <1>4 DEF FileSize, FileLen
  <2>2. CASE g \in D
    <3>1. FileLen(<<>>, 0, FALSE) = 0
      BY <1>1, FileLenNat, EmptySeq DEF TypeOK
    <3> QED BY <1>2, <2>1, <2>2, <3>1
  <2>3. CASE g \notin D /\ g = f
    <3>1. diskBytes'[f] = FileLen(F[f], junk[f], f \in torn)
      BY <1>1, <1>2, <2>3 DEF NewLen, DiskInv
    <3>2. f \notin torn
      BY DEF DiskInv
    <3>3. FileLen(F[f], junk[f], f \in torn) = FileLen(F[f], junk[f], FALSE)
      BY <3>2 DEF FileLen
    <3>4. files'[g] = F[f] /\ junk'[g] = junk[f]
      BY <1>2, <2>3
    <3> QED BY <2>1, <2>3, <3>1, <3>3, <3>4
  <2>4. CASE g \notin D /\ g # f
    <3>1. diskBytes'[g] = diskBytes[g] /\ files'[g] = F[g] /\ junk'[g] = junk[g]
      BY <1>1, <1>2, <2>4 DEF DiskInv
    <3>2. F[g] = files[g]
      BY <1>1, <2>4 DEF TypeOK
    <3>3. FileSize[g] = FileLen(files[g], junk[g], FALSE)
      BY WholeSizes DEF DiskInv
    <3>4. FileSize[g] = diskBytes[g]
      BY <1>5, <2>4 DEF DiskInv
    <3> QED BY <2>1, <3>1, <3>2, <3>3, <3>4
  <2> QED BY <2>2, <2>3, <2>4
<1>10. diskBytes' \in [Stems -> Nat]
  BY <1>2, <1>8
<1>11. IsFiniteSet(present') /\ booked' \subseteq present' /\ booked' \subseteq Stems
  <2>1. IsFiniteSet(present \ D)
    BY FS_Subset DEF DiskInv
  <2> QED BY <1>1, <1>2, <1>4, <2>1 DEF TypeOK
<1>12. \A g \in Stems : g \notin booked' => diskBytes'[g] = 0
  BY <1>1, <1>2 DEF DiskInv
<1>13. DiskInv'
  <2>1. \A u \in Threads : pc'[u] \notin {"append", "rewrite", "unlink"}
    BY <1>6 DEF OneThread
  <2> QED BY <1>4, <1>7, <1>9, <1>10, <1>11, <1>12, <2>1 DEF DiskInv
<1>14. DiskTotal' = Total(booked', B)
  <2>1. present' \subseteq Stems
    BY DEF TypeOK
  <2>2. Weighs(present', FileSize')
    BY <1>9, <1>10, <2>1 DEF Weighs
  <2>3. \A g \in present' \ booked' : FileSize'[g] = 0
    BY <1>9, <1>12, <2>1
  <2>4. Total(present', FileSize') = Total(booked', FileSize')
    BY <1>11, <2>2, <2>3, TotalZero
  <2>5. \A g \in booked' : FileSize'[g] = B[g]
    BY <1>2, <1>9, <1>11
  <2>6. IsFiniteSet(booked') /\ Weighs(booked', B)
    BY <1>8, <1>11, FS_Subset DEF Weighs
  <2>7. Total(booked', FileSize') = Total(booked', B)
    BY <2>5, <2>6, TotalSame
  <2> QED BY <2>4, <2>7 DEF DiskTotal
<1>15. CASE Total(S \ D, B) <= MaxTotalBytes
  BY <1>2, <1>13, <1>14, <1>15
<1>16. CASE D = S \ {f}
  <2>1. booked' = {f} /\ f \in present'
    BY <1>2, <1>4, <1>16
  <2>2. IsFiniteSet({f}) /\ Weighs({f}, B) /\ {f} \ {f} = {}
    BY <1>1, <1>8, FS_Singleton DEF Weighs
  <2>3. Total({f}, B) = B[f] + Total({}, B) /\ Total({}, B) = 0
    <3>1. f \in {f}
      OBVIOUS
    <3>2. Total({f}, B) = B[f] + Total({f} \ {f}, B)
      BY <2>2, <3>1, TotalTake
    <3>3. Total({}, B) = 0
      BY <2>2, TotalPick
    <3> QED BY <2>2, <3>2, <3>3
  <2>4. FileSize'[f] = B[f] /\ B[f] \in Nat
    BY <1>1, <1>2, <1>3, <1>8, <1>9
  <2>5. DiskTotal' = FileSize'[f]
    BY <1>14, <2>1, <2>3, <2>4
  <2> QED BY <1>13, <2>1, <2>5
<1> QED BY <1>3, <1>15, <1>16

\* A step that changes neither files nor books, and leaves no file in the middle of a change.
LEMMA DiskKeeps ==
  ASSUME OneThread, DiskInv, UNCHANGED <<diskVars, bookVars>>, NEW t \in Threads,
         pc[t] \notin {"rewrite", "unlink"}, pc'[t] \notin {"append", "rewrite", "unlink"}
  PROVE  DiskInv'
<1>1. UNCHANGED <<files, junk, torn, present, booked, diskBytes>>
  BY DEF diskVars, bookVars
<1>2. FileSize' = FileSize
  BY <1>1 DEF FileSize
<1>3. \A f \in Stems : ~Unsettled(f)
  BY DEF Unsettled, OneThread
<1>4. \A u \in Threads : pc'[u] \notin {"append", "rewrite", "unlink"}
  BY DEF OneThread
<1> QED BY <1>1, <1>2, <1>3, <1>4 DEF DiskInv

\* Every step keeps the books right, and a written put ends within the bound.
LEMMA DiskStep ==
  ASSUME OneThread, Deletes, TypeOK, TypeOK', KnownInv, DiskInv, [Next]_vars
  PROVE  /\ DiskInv'
         /\ (\E t \in Threads : AppendOk(t) \/ RewriteOk(t))
            => DiskTotal' <= MaxTotalBytes \/ \E f \in present' : DiskTotal' = FileSize'[f]
<1> DEFINE Bound == DiskTotal' <= MaxTotalBytes \/ \E f \in present' : DiskTotal' = FileSize'[f]
<1>0. ASSUME NEW t \in Threads
      PROVE  StemOf[req[t].s] \in Stems
  BY TypeParts, RequestFields
<1>1. ASSUME NEW t \in Threads, AppendOk(t)
      PROVE  DiskInv' /\ Bound
  <2> DEFINE f == StemOf[req[t].s]
             F == [files EXCEPT ![f] = Append(@, req[t].p)]
  <2>1. pc[t] = "append" /\ Commit(t, F, junk, torn)
    BY <1>1 DEF AppendOk, DiskInv
  <2>2. F \in [Stems -> Seq(Pages)] /\ F = [files EXCEPT ![f] = F[f]]
    <3>1. files[f] \in Seq(Pages) /\ req[t].p \in Pages
      BY <1>0, TypeParts, RequestFields DEF TypeOK
    <3>2. Append(files[f], req[t].p) \in Seq(Pages)
      BY <3>1
    <3> QED BY <1>0, <3>2 DEF TypeOK
  <2> HIDE DEF F
  <2> QED BY <2>1, <2>2, CommitDisk
<1>2. ASSUME NEW t \in Threads, RewriteOk(t)
      PROVE  DiskInv' /\ Bound
  <2> DEFINE f == StemOf[req[t].s]
             F == [files EXCEPT ![f] = pending]
  <2>1. pc[t] = "rewrite" /\ Commit(t, F, junk, torn)
    BY <1>2 DEF RewriteOk
  <2>2. F \in [Stems -> Seq(Pages)] /\ F = [files EXCEPT ![f] = F[f]]
    BY <1>0 DEF TypeOK
  <2> HIDE DEF F
  <2> QED BY <2>1, <2>2, CommitDisk
<1>3. ASSUME NEW t \in Threads,
             \/ \E op \in {"put", "get", "delete"}, s \in Sessions, p \in Pages : Call(t, op, s, p)
             \/ ReadFile(t)
      PROVE  DiskInv'
  <2>1. UNCHANGED <<diskVars, bookVars>> /\ pc[t] \in {"idle", "read"} /\ pc'[t] \in {"want", "read"}
    BY <1>3 DEF Call, ReadFile, TypeOK
  <2> QED BY <2>1, DiskKeeps
<1>4. ASSUME NEW t \in Threads,
             Refused(t) \/ Get(t) \/ PutPanics(t) \/ PutKnown(t) \/ OpenFails(t)
      PROVE  DiskInv'
  <2>1. UNCHANGED <<diskVars, bookVars>> /\ pc[t] = "want" /\ Return(t)
    BY <1>4 DEF Refused, Get, PutPanics, PutKnown, OpenFails, Enter
  <2>2. pc'[t] = "idle"
    BY <2>1, ReturnGuard
  <2> QED BY <2>1, <2>2, DiskKeeps
<1>5. ASSUME NEW t \in Threads, WriteFails(t)
      PROVE  DiskInv'
  <2>1. UNCHANGED <<diskVars, bookVars>> /\ pc[t] = "append" /\ Return(t)
    BY <1>5 DEF WriteFails, Deletes, diskVars
  <2>2. pc'[t] = "idle"
    BY <2>1, ReturnGuard
  <2> QED BY <2>1, <2>2, DiskKeeps
<1>6. ASSUME NEW t \in Threads, PutPushes(t)
      PROVE  DiskInv'
  <2> DEFINE f == StemOf[req[t].s]
  <2>1. /\ pc[t] = "want" /\ UNCHANGED <<bookVars, req>> /\ present' = present \union {f}
        /\ \/ pc'[t] = "append" /\ UNCHANGED <<files, junk, torn>>
           \/ /\ pc'[t] = "rewrite" /\ files' = [files EXCEPT ![f] = <<>>]
              /\ junk' = [junk EXCEPT ![f] = 0] /\ torn' = torn \ {f}
    BY <1>6 DEF PutPushes, Enter, TypeOK
  <2>2. IsFiniteSet(present') /\ torn' = {} /\ booked' \subseteq present'
    BY <2>1, FS_AddElement DEF DiskInv, bookVars
  <2>3. \A g \in Stems : FileSize[g] = diskBytes[g]
    BY <2>1 DEF DiskInv, Unsettled, OneThread
  <2>4. ASSUME NEW g \in Stems, ~Unsettled(g)' PROVE FileSize'[g] = diskBytes'[g]
    <3>1. pc'[t] = "rewrite" => g # f
      BY <2>1, <2>4 DEF Unsettled
    <3>2. files'[g] = files[g] /\ junk'[g] = junk[g]
      BY <2>1, <3>1 DEF TypeOK
    <3>3. FileSize[g] = FileLen(files[g], junk[g], FALSE) /\ FileSize'[g] = FileLen(files'[g], junk'[g], FALSE)
      BY <2>2 DEF FileSize, FileLen, DiskInv
    <3> QED BY <2>1, <2>3, <3>2, <3>3 DEF bookVars
  <2>5. \A u \in Threads : pc'[u] # "unlink" /\ StemOf[req'[u].s] \in present'
    BY <2>1 DEF OneThread
  <2> QED BY <2>1, <2>2, <2>4, <2>5 DEF DiskInv, bookVars
<1>7. ASSUME NEW t \in Threads, DeleteBooks(t)
      PROVE  DiskInv'
  <2> DEFINE f == StemOf[req[t].s]
  <2>1. /\ pc[t] = "want" /\ pc'[t] = "unlink" /\ UNCHANGED <<diskVars, req>>
        /\ booked' = booked \ {f} /\ diskBytes' = [diskBytes EXCEPT ![f] = 0]
    BY <1>7 DEF DeleteBooks, TypeOK, KnownInv
  <2>2. UNCHANGED <<files, junk, torn, present>> /\ FileSize' = FileSize
    BY <2>1 DEF diskVars, FileSize
  <2>3. \A g \in Stems : FileSize[g] = diskBytes[g]
    BY <2>1 DEF DiskInv, Unsettled, OneThread
  <2>4. ASSUME NEW g \in Stems, ~Unsettled(g)' PROVE g # f
    BY <2>1, <2>4 DEF Unsettled
  <2>5. \A u \in Threads : pc'[u] = "unlink" /\ StemOf[req'[u].s] \notin booked'
    BY <2>1 DEF OneThread
  <2> QED BY <2>1, <2>2, <2>3, <2>4, <2>5 DEF DiskInv
<1>8. ASSUME NEW t \in Threads, DeleteFile(t)
      PROVE  DiskInv'
  <2> DEFINE f == StemOf[req[t].s]
  <2>1. /\ pc[t] = "unlink" /\ UNCHANGED bookVars /\ Return(t)
        /\ files' = [files EXCEPT ![f] = <<>>] /\ junk' = [junk EXCEPT ![f] = 0]
        /\ torn' = torn \ {f} /\ present' = present \ {f}
    BY <1>8 DEF DeleteFile, Deletes
  <2>2. pc'[t] = "idle"
    BY <2>1, ReturnGuard
  <2>3. IsFiniteSet(present') /\ torn' = {} /\ f \notin booked /\ booked' \subseteq present'
    BY <2>1, FS_RemoveElement DEF DiskInv, bookVars
  <2>4. ASSUME NEW g \in Stems PROVE FileSize'[g] = diskBytes'[g]
    <3>1. FileSize[g] = FileLen(files[g], junk[g], FALSE) /\ FileSize'[g] = FileLen(files'[g], junk'[g], FALSE)
      BY <2>3 DEF FileSize, FileLen, DiskInv
    <3>2. CASE g = f
      <4>1. diskBytes'[g] = 0
        BY <2>1, <2>3, <3>2 DEF DiskInv, bookVars
      <4>2. files'[g] = <<>> /\ junk'[g] = 0
        BY <2>1, <3>2 DEF TypeOK
      <4>3. FileLen(<<>>, 0, FALSE) = 0
        BY <1>0, FileLenNat DEF TypeOK
      <4> QED BY <3>1, <4>1, <4>2, <4>3
    <3>3. CASE g # f
      <4>1. files'[g] = files[g] /\ junk'[g] = junk[g] /\ diskBytes'[g] = diskBytes[g]
        BY <2>1, <3>3 DEF TypeOK, bookVars
      <4>2. FileSize[g] = diskBytes[g]
        BY <3>3 DEF DiskInv, Unsettled, OneThread
      <4> QED BY <3>1, <4>1, <4>2
    <3> QED BY <3>2, <3>3
  <2>5. \A u \in Threads : pc'[u] \notin {"append", "rewrite", "unlink"}
    BY <2>2 DEF OneThread
  <2> QED BY <2>1, <2>3, <2>4, <2>5 DEF DiskInv, bookVars
<1>9. ASSUME UNCHANGED vars
      PROVE  DiskInv'
  <2>1. UNCHANGED <<files, junk, torn, present, booked, diskBytes, pc, req>>
    BY <1>9 DEF vars, diskVars, bookVars, callVars
  <2>2. FileSize' = FileSize
    BY <2>1 DEF FileSize
  <2>3. ASSUME NEW f \in Stems, ~Unsettled(f)' PROVE ~Unsettled(f)
    BY <2>1, <2>3 DEF Unsettled
  <2> QED BY <2>1, <2>2, <2>3 DEF DiskInv
<1>10. ~Restart
  BY DEF Restart, Deletes
<1>11. DiskInv'
  BY <1>1, <1>2, <1>3, <1>4, <1>5, <1>6, <1>7, <1>8, <1>9, <1>10 DEF Next, Step
<1>12. (\E t \in Threads : AppendOk(t) \/ RewriteOk(t)) => Bound
  BY <1>1, <1>2
<1> QED BY <1>11, <1>12

\* With one request at a time, no crash, and only opens and appends failing, a put that was
\* written leaves the session files within the disk bound, or one file with all they hold.
THEOREM WriteBoundsDiskCorrect == ASSUME OneThread, Deletes PROVE Spec => WriteBoundsDisk
<1> DEFINE Body == (\E t \in Threads : AppendOk(t) \/ RewriteOk(t))
                   => DiskTotal' <= MaxTotalBytes \/ \E f \in present' : DiskTotal' = FileSize'[f]
<1>1. Init => KnownInv /\ DiskInv
  <2> SUFFICES ASSUME Init PROVE KnownInv /\ DiskInv
    OBVIOUS
  <2>1. KnownInv
    BY DEF Init, KnownInv
  <2>2. \A f \in Stems : FileSize[f] = 0
    <3> TAKE f \in Stems
    <3>1. FileSize[f] = FileLen(<<>>, 0, FALSE)
      BY DEF Init, FileSize, FileLen
    <3>2. <<>> \in Seq(Pages) /\ 0 \in Nat /\ FALSE \in BOOLEAN
      OBVIOUS
    <3> QED BY <3>1, <3>2, FileLenNat
  <2>3. IsFiniteSet({})
    BY FS_EmptySet
  <2> QED BY <2>1, <2>2, <2>3 DEF Init, DiskInv
<1>2. TypeOK /\ TypeOK' /\ KnownInv /\ [Next]_vars => KnownInv'
  BY KnownStep
<1>3. TypeOK /\ TypeOK' /\ KnownInv /\ DiskInv /\ [Next]_vars => DiskInv' /\ Body
  BY DiskStep
<1>4. WriteBoundsDisk <=> [][Body]_vars
  BY PTL DEF WriteBoundsDisk
<1> HIDE DEF Body
<1> QED BY <1>1, <1>2, <1>3, <1>4, TypeCorrect, PTL DEF Spec

-----------------------------------------------------------------------------
(* Learned immunity *)

\* A record, and what a memory holds: of a command never heard of, no directories.
Fields(r) == /\ r = [known |-> r.known, dirs |-> r.dirs, held |-> r.held, last |-> r.last]
             /\ r.known \in BOOLEAN /\ r.dirs \subseteq Paths
             /\ (r.known = FALSE => r.dirs = {})
IsMemory(m) == /\ m = [c \in Commands |-> m[c]]
               /\ \A c \in Commands : Fields(m[c])

\* Two commands have failed without it, or this one has.
TwoNeed(d) == \E b, c \in Commands : b # c /\ <<b, d>> \in needed /\ <<c, d>> \in needed
Genuine(c, d) == <<c, d>> \in needed \/ TwoNeed(d)
AllGenuine(m) == \A c \in Commands : \A d \in m[c].dirs : Genuine(c, d)

\* What a memory has learnt.
Holds(m, n) == \A c \in Commands : \A d \in Paths : <<c, d>> \in learnt[n] => d \in m[c].dirs

IsRun(s) ==
  /\ s = [pc |-> s.pc, cmd |-> s.cmd, copy |-> s.copy, given |-> s.given, made |-> s.made]
  /\ s.cmd \in Commands /\ IsMemory(s.copy)
  /\ s.given \subseteq Paths /\ s.made \subseteq Paths
  /\ AllGenuine(s.copy)
  /\ \A d \in s.given \union s.made : Genuine(s.cmd, d)
IsMerge(g) == IsMemory(g.copy) /\ AllGenuine(g.copy)

\* A run and a merge that do not cross carry what the node has learnt, and the run began
\* with its directories there.
Node(n) ==
  /\ IsMemory(memory[n]) /\ AllGenuine(memory[n])
  /\ IsMemory(mail[n]) /\ AllGenuine(mail[n])
  /\ sup[n] # Off => IsRun(sup[n])
  /\ merging[n] # Off => IsMerge(merging[n])
Apart(n) ==
  ~overlapped[n] =>
    /\ Holds(memory[n], n)
    /\ sup[n] = Off \/ merging[n] = Off
    /\ sup[n] # Off => Holds(sup[n].copy, n)
    /\ merging[n] # Off => Holds(merging[n].copy, n)
    /\ sup[n] # Off /\ sup[n].pc = "first" =>
         \A d \in Paths : <<sup[n].cmd, d>> \in learnt[n] => d \in here[n]

HealShape ==
  /\ memory = [n \in Fleet |-> memory[n]] /\ mail = [n \in Fleet |-> mail[n]]
  /\ here = [n \in Fleet |-> here[n]] /\ sup = [n \in Fleet |-> sup[n]]
  /\ merging = [n \in Fleet |-> merging[n]] /\ learnt = [n \in Fleet |-> learnt[n]]
  /\ overlapped = [n \in Fleet |-> overlapped[n]]
  /\ \A n \in Fleet : here[n] \subseteq Paths /\ overlapped[n] \in BOOLEAN

HealInv == HealShape /\ \A n \in Fleet : Node(n) /\ Apart(n)

\* What two memories hold may be created for anyone.
LEMMA StructuralGenuine ==
  ASSUME NEW m, AllGenuine(m), NEW d \in StructuralDirs(m)
  PROVE  d \in Paths /\ TwoNeed(d)
<1> DEFINE C == {c \in Commands : d \in m[c].dirs}
<1>1. d \in Paths /\ Cardinality(C) >= 2
  BY DEF StructuralDirs, CorroborationThreshold
<1>2. IsFiniteSet(C)
  <2>1. IsFiniteSet(Commands) /\ C \subseteq Commands
    BY HealAssumption
  <2> HIDE DEF C
  <2> QED BY <2>1, FS_Subset
<1>3. \E b, c \in C : b # c
  <2> HIDE DEF C
  <2>1. C # {}
    BY <1>1, FS_EmptySet
  <2>2. PICK b \in C : TRUE
    BY <2>1
  <2>3. C # {b}
    BY <1>1, FS_Singleton
  <2> QED BY <2>2, <2>3
<1>4. PICK b \in C, c \in C : b # c
  BY <1>3
<1> QED BY <1>1, <1>4 DEF AllGenuine, Genuine, TwoNeed

\* Two that have failed without a directory.
LEMMA TwoCount ==
  ASSUME NEW d, TwoNeed(d)
  PROVE  Cardinality({c \in Commands : <<c, d>> \in needed}) >= 2
<1> DEFINE C == {c \in Commands : <<c, d>> \in needed}
<1>1. PICK x \in Commands, y \in Commands : x # y /\ <<x, d>> \in needed /\ <<y, d>> \in needed
  BY DEF TwoNeed
<1>2. {x, y} \subseteq C
  BY <1>1
<1>3. IsFiniteSet(C)
  <2>1. IsFiniteSet(Commands) /\ C \subseteq Commands
    BY HealAssumption
  <2> HIDE DEF C
  <2> QED BY <2>1, FS_Subset
<1> HIDE DEF C
<1>4. IsFiniteSet({x}) /\ Cardinality({x}) = 1 /\ y \notin {x}
  BY <1>1, FS_Singleton
<1>5. Cardinality({x} \union {y}) = 2
  BY <1>4, FS_AddElement
<1>6. {x} \union {y} \subseteq C
  BY <1>2
<1>7. Cardinality({x} \union {y}) <= Cardinality(C) /\ Cardinality(C) \in Nat
  BY <1>3, <1>6, FS_Subset, FS_CardinalityType
<1> QED BY <1>5, <1>7 DEF C

\* A command never heard of has a record too.
LEMMA UnknownFields == Fields(Unknown) /\ Unknown.dirs = {}
BY DEF Fields, Unknown

\* A run is not the absence of one.
LEMMA RunKnown == ASSUME NEW s, IsRun(s) PROVE s # Off
<1>1. DOMAIN s = {"pc", "cmd", "copy", "given", "made"}
  BY DEF IsRun
<1>2. DOMAIN Off = {"pc"}
  BY DEF Off
<1> QED BY <1>1, <1>2

-----------------------------------------------------------------------------
(* What the operators make of memories *)

\* A memory whose record of one command grows by what is genuine stays genuine, and keeps
\* what it held.
LEMMA KnowsMore ==
  ASSUME NEW m, IsMemory(m), AllGenuine(m), NEW c \in Commands, NEW r, Fields(r),
         m[c].dirs \subseteq r.dirs, \A d \in r.dirs \ m[c].dirs : Genuine(c, d)
  PROVE  LET k == [m EXCEPT ![c] = r]
         IN IsMemory(k) /\ AllGenuine(k) /\ \A n : Holds(m, n) => Holds(k, n)
<1> DEFINE k == [m EXCEPT ![c] = r]
<1>1. k = [b \in Commands |-> k[b]] /\ \A b \in Commands : k[b] = IF b = c THEN r ELSE m[b]
  BY DEF IsMemory
<1> HIDE DEF k
<1>2. IsMemory(k)
  BY <1>1 DEF IsMemory
<1>3. AllGenuine(k)
  BY <1>1 DEF AllGenuine
<1>4. \A n : Holds(m, n) => Holds(k, n)
  BY <1>1 DEF Holds
<1> QED BY <1>2, <1>3, <1>4 DEF k

\* Marking a record known changes nothing else of it.
LEMMA KnownFields ==
  ASSUME NEW q, Fields(q)
  PROVE  LET r == [q EXCEPT !.known = TRUE] IN Fields(r) /\ r.dirs = q.dirs
<1>1. PICK k, d, h, l : q = [known |-> k, dirs |-> d, held |-> h, last |-> l]
  BY DEF Fields
<1>2. q.dirs = d /\ d \subseteq Paths
  BY <1>1 DEF Fields
<1>3. [q EXCEPT !.known = TRUE] = [known |-> TRUE, dirs |-> d, held |-> h, last |-> l]
  <2>1. \A t : [q EXCEPT !.known = t] = [known |-> t, dirs |-> d, held |-> h, last |-> l]
    BY <1>1
  <2> QED BY ONLY <2>1, Zenon
<1> QED BY <1>2, <1>3 DEF Fields

\* Hearing of a command makes it known.
LEMMA HeardOf ==
  ASSUME NEW m, IsMemory(m), AllGenuine(m), NEW c \in Commands
  PROVE  LET k == [m EXCEPT ![c].known = TRUE]
         IN IsMemory(k) /\ AllGenuine(k) /\ \A n : Holds(m, n) => Holds(k, n)
<1> DEFINE r == [m[c] EXCEPT !.known = TRUE]
<1>1. Fields(m[c])
  BY DEF IsMemory
<1>2. Fields(r) /\ r.dirs = m[c].dirs
  BY <1>1, KnownFields
<1>3. [m EXCEPT ![c].known = TRUE] = [m EXCEPT ![c] = r]
  OBVIOUS
<1> HIDE DEF r
<1> QED BY <1>2, <1>3, KnowsMore

\* What a success saves is genuine, and all that the run began with.
LEMMA ProvenKnows ==
  ASSUME NEW s, IsRun(s)
  PROVE  IsMemory(Proven(s)) /\ AllGenuine(Proven(s)) /\ \A n : Holds(s.copy, n) => Holds(Proven(s), n)
<1> DEFINE dirs == s.made \union s.given
           r == s.copy[s.cmd]
           with == IF dirs = {} THEN r ELSE [r EXCEPT !.known = TRUE, !.dirs = @ \union dirs]
           e == IF s.given = {} THEN with ELSE [with EXCEPT !.held = Waned(r) + Unit, !.last = time]
<1>1. IsMemory(s.copy) /\ AllGenuine(s.copy) /\ s.cmd \in Commands /\ dirs \subseteq Paths
      /\ \A d \in dirs : Genuine(s.cmd, d)
  BY DEF IsRun
<1>2. Fields(r)
  BY <1>1 DEF IsMemory
<1>3. Fields(with) /\ with.dirs = r.dirs \union dirs
  <2>1. CASE dirs = {}
    BY <1>2, <2>1
  <2>2. CASE dirs # {}
    BY <1>1, <1>2, <2>2 DEF Fields
  <2> QED BY <2>1, <2>2
<1>4. Proven(s) = [s.copy EXCEPT ![s.cmd] = e]
  BY DEF Proven
<1> HIDE DEF with
<1>5. Fields(e) /\ e.dirs = with.dirs
  BY <1>3 DEF Fields
<1> HIDE DEF e
<1>6. r.dirs \subseteq e.dirs /\ \A d \in e.dirs \ r.dirs : Genuine(s.cmd, d)
  BY <1>1, <1>3, <1>5
<1> QED BY <1>1, <1>4, <1>5, <1>6, KnowsMore

\* A merged record has the directories of both sides at most, and of ours at least.
LEMMA MergedKnows ==
  ASSUME NEW mine, Fields(mine), NEW theirs, Fields(theirs)
  PROVE  LET r == MergedRecord(mine, theirs)
         IN Fields(r) /\ mine.dirs \subseteq r.dirs /\ r.dirs \subseteq mine.dirs \union theirs.dirs
BY DEF MergedRecord, Fields

-----------------------------------------------------------------------------
(* The steps *)

\* More needs leave the others' memories as genuine.
Steady(n) ==
  /\ memory'[n] = memory[n] /\ mail'[n] = mail[n] /\ here'[n] = here[n] /\ sup'[n] = sup[n]
  /\ merging'[n] = merging[n] /\ learnt'[n] = learnt[n] /\ overlapped'[n] = overlapped[n]

\* What was genuine stays so as needs are added.
LEMMA GenuineGrows ==
  ASSUME needed \subseteq needed'
  PROVE  \A c, d : Genuine(c, d) => Genuine(c, d)'
BY DEF Genuine, TwoNeed

\* A node that a step leaves alone keeps its invariant.
LEMMA SteadyKeeps ==
  ASSUME needed \subseteq needed', NEW n \in Fleet, Steady(n), Node(n), Apart(n)
  PROVE  Node(n)' /\ Apart(n)'
<1>1. Node(n)'
  BY GenuineGrows DEF Steady, Node, AllGenuine, IsRun, IsMerge
<1>2. Apart(n)'
  BY DEF Steady, Apart, Holds
<1> QED BY <1>1, <1>2

\* A node saves a copy that knows what it has learnt.
LEMMA SaveKeeps ==
  ASSUME HealInv, NEW n \in Fleet, NEW m, NEW gone \in SUBSET Commands, Save(n, m, gone), IsMemory(m), AllGenuine(m),
         UNCHANGED needed,
         \A c \in Commands \ gone : \A d \in Paths : ~overlapped'[n] /\ <<c, d>> \in learnt[n] => d \in m[c].dirs
  PROVE  /\ memory'[n] = m /\ IsMemory(m)' /\ AllGenuine(m)'
         /\ memory' = [k \in Fleet |-> memory'[k]] /\ learnt' = [k \in Fleet |-> learnt'[k]]
         /\ \A k \in Fleet \ {n} : memory'[k] = memory[k] /\ learnt'[k] = learnt[k]
         /\ ~overlapped'[n] => Holds(m, n)'
         /\ ~overlapped'[n] => \A c \in Commands : \A d \in Paths :
               <<c, d>> \in learnt'[n] => <<c, d>> \in learnt[n] \/ d \in m[c].dirs
<1>1. /\ memory = [k \in Fleet |-> memory[k]] /\ learnt = [k \in Fleet |-> learnt[k]]
      /\ memory' = [memory EXCEPT ![n] = m]
      /\ learnt' = [learnt EXCEPT ![n] =
           (@ \ (gone \X Paths)) \union {p \in Commands \X Paths : p[2] \in m[p[1]].dirs}]
  BY DEF HealInv, HealShape, Save
<1>2. learnt'[n] = (learnt[n] \ (gone \X Paths)) \union {p \in Commands \X Paths : p[2] \in m[p[1]].dirs}
  BY <1>1
<1>3. memory'[n] = m /\ memory' = [k \in Fleet |-> memory'[k]] /\ learnt' = [k \in Fleet |-> learnt'[k]]
      /\ \A k \in Fleet \ {n} : memory'[k] = memory[k] /\ learnt'[k] = learnt[k]
  BY <1>1
<1>4. \A c \in Commands, d \in Paths :
        <<c, d>> \in learnt'[n] <=> (<<c, d>> \in learnt[n] /\ c \notin gone) \/ d \in m[c].dirs
  BY <1>2
<1> QED BY <1>3, <1>4 DEF Holds, IsMemory, AllGenuine, Genuine, TwoNeed

\* What a step at one node leaves alone of the others.
Others(n) == \A k \in Fleet \ {n} : Steady(k)
Functions ==
  /\ memory' = [n \in Fleet |-> memory'[n]] /\ mail' = [n \in Fleet |-> mail'[n]]
  /\ here' = [n \in Fleet |-> here'[n]] /\ sup' = [n \in Fleet |-> sup'[n]]
  /\ merging' = [n \in Fleet |-> merging'[n]] /\ learnt' = [n \in Fleet |-> learnt'[n]]
  /\ overlapped' = [n \in Fleet |-> overlapped'[n]]

\* It is enough to look at the node that takes the step.
LEMMA OneNode ==
  ASSUME HealInv, NEW n \in Fleet, Functions, Others(n), needed \subseteq needed',
         here'[n] \subseteq Paths, overlapped'[n] \in BOOLEAN, Node(n)', Apart(n)'
  PROVE  HealInv'
<1>1. \A k \in Fleet : Node(k)' /\ Apart(k)'
  <2> TAKE k \in Fleet
  <2>1. CASE k # n
    BY <2>1, SteadyKeeps DEF HealInv, Others
  <2> QED BY <2>1
<1>2. HealShape'
  BY DEF HealInv, HealShape, Functions, Others, Steady
<1> QED BY <1>1, <1>2 DEF HealInv

\* What becomes of the marks that writers crossed.
LEMMA Crossing ==
  ASSUME HealShape, NEW n \in Fleet, Crosses(n)
  PROVE  /\ overlapped' = [k \in Fleet |-> overlapped'[k]]
         /\ \A k \in Fleet \ {n} : overlapped'[k] = overlapped[k]
         /\ overlapped'[n] \in BOOLEAN
         /\ ~overlapped'[n] => ~overlapped[n] /\ sup[n] = Off /\ merging[n] = Off
BY DEF HealShape, Crosses

\* A run begins with its directories there, or another writer has been crossed.
LEMMA StartKeeps ==
  ASSUME HealInv, NEW n \in Fleet, NEW c \in Commands, StartRun(n, c)
  PROVE  HealInv'
<1>0. PICK s : s = [pc |-> "first", cmd |-> c, copy |-> memory[n], given |-> Missing(n, c), made |-> {}]
  OBVIOUS
<1>1. /\ HealShape /\ Node(n) /\ Apart(n)
      /\ sup[n] = Off /\ sup' = [sup EXCEPT ![n] = s]
      /\ here' = [here EXCEPT ![n] = @ \union Missing(n, c)]
      /\ UNCHANGED <<memory, merging, mail, time, needed, learnt>>
  BY <1>0 DEF HealInv, StartRun
<1>2. /\ overlapped' = [k \in Fleet |-> overlapped'[k]]
      /\ \A k \in Fleet \ {n} : overlapped'[k] = overlapped[k]
      /\ overlapped'[n] \in BOOLEAN
      /\ ~overlapped'[n] => ~overlapped[n] /\ merging[n] = Off
  BY <1>1, Crossing DEF StartRun
<1>3. IsMemory(memory[n]) /\ AllGenuine(memory[n]) /\ memory[n][c].dirs \subseteq Paths
  BY <1>1 DEF Node, IsMemory, Fields
<1>4. Missing(n, c) \subseteq Paths /\ \A d \in Missing(n, c) : Genuine(c, d)
  BY <1>3, StructuralGenuine DEF Missing, AllGenuine, Genuine
<1>5. IsRun(s) /\ s.copy = memory[n] /\ s.cmd = c
  BY <1>0, <1>3, <1>4 DEF IsRun
<1>6. /\ sup' = [k \in Fleet |-> sup'[k]] /\ here' = [k \in Fleet |-> here'[k]]
      /\ sup'[n] = s /\ here'[n] = here[n] \union Missing(n, c)
      /\ \A k \in Fleet \ {n} : sup'[k] = sup[k] /\ here'[k] = here[k]
  BY <1>1 DEF HealShape
<1>7. Functions /\ Others(n) /\ here'[n] \subseteq Paths
  BY <1>1, <1>2, <1>4, <1>6 DEF Functions, Others, Steady, HealShape
<1>8. IsRun(s)'
  BY <1>1, <1>5 DEF IsRun, AllGenuine, Genuine, TwoNeed
<1>9. Node(n)'
  BY <1>1, <1>6, <1>8 DEF Node, IsMerge, AllGenuine, Genuine, TwoNeed
<1>10. Apart(n)'
  <2>0. s.pc = "first"
    BY <1>0
  <2>1. SUFFICES ASSUME ~overlapped'[n] PROVE Apart(n)'
    BY DEF Apart
  <2>2. Holds(memory[n], n) /\ merging'[n] = Off /\ memory'[n] = memory[n] /\ learnt'[n] = learnt[n]
    BY <1>1, <1>2, <2>1 DEF Apart
  <2>3. \A d \in Paths : <<c, d>> \in learnt[n] => d \in here'[n]
    BY <1>6, <2>2 DEF Holds, Missing
  <2> QED BY <1>5, <1>6, <2>2, <2>3 DEF Apart, Holds
<1> QED BY <1>1, <1>2, <1>7, <1>9, <1>10, OneNode

\* A failed attempt is what makes a directory genuine.
LEMMA HealRunKeeps ==
  ASSUME HealInv, NEW n \in Fleet, HealRun(n)
  PROVE  HealInv'
<1>0. PICK s, lacking, k, t :
        /\ s = sup[n] /\ lacking = Wants[s.cmd] \ here[n]
        /\ k = [s.copy EXCEPT ![s.cmd].known = TRUE]
        /\ t = [s EXCEPT !.pc = "again", !.made = @ \union lacking, !.copy[s.cmd].known = TRUE]
  OBVIOUS
<1>1. /\ HealShape /\ Node(n) /\ Apart(n)
      /\ s # Off /\ sup' = [sup EXCEPT ![n] = t]
      /\ here' = [here EXCEPT ![n] = @ \union lacking]
      /\ needed' = needed \union ({s.cmd} \X lacking)
      /\ UNCHANGED <<memory, merging, mail, time, learnt, overlapped, tries>>
  BY <1>0 DEF HealInv, HealRun
<1>2. IsRun(s) /\ s.cmd \in Commands /\ lacking \subseteq Paths
  BY <1>0, <1>1, HealAssumption DEF Node, IsRun
<1>3. IsMemory(k) /\ AllGenuine(k) /\ (Holds(s.copy, n) => Holds(k, n))
  BY <1>0, <1>2, HeardOf DEF IsRun
<1>4. t = [pc |-> "again", cmd |-> s.cmd, copy |-> k, given |-> s.given, made |-> s.made \union lacking]
  <2>1. s = [pc |-> s.pc, cmd |-> s.cmd, copy |-> s.copy, given |-> s.given, made |-> s.made]
    BY <1>2 DEF IsRun
  <2> QED BY <1>0, <2>1
<1>5. \A d \in lacking : Genuine(s.cmd, d)'
  <2> TAKE d \in lacking
  <2>1. <<s.cmd, d>> \in needed'
    BY <1>1
  <2> QED BY <2>1 DEF Genuine
<1>6. needed \subseteq needed'
  BY <1>1
<1>7. IsRun(t)'
  <2>1. AllGenuine(k)' /\ \A d \in s.given \union s.made : Genuine(s.cmd, d)'
    BY <1>2, <1>3, <1>6, GenuineGrows DEF AllGenuine, IsRun
  <2> QED BY <1>2, <1>3, <1>4, <1>5, <2>1 DEF IsRun, IsMemory
<1>8. /\ sup' = [i \in Fleet |-> sup'[i]] /\ here' = [i \in Fleet |-> here'[i]]
      /\ sup'[n] = t /\ here'[n] = here[n] \union lacking
      /\ \A i \in Fleet \ {n} : sup'[i] = sup[i] /\ here'[i] = here[i]
  BY <1>1 DEF HealShape
<1>9. Functions /\ Others(n) /\ here'[n] \subseteq Paths /\ overlapped'[n] \in BOOLEAN
  BY <1>1, <1>2, <1>8 DEF Functions, Others, Steady, HealShape
<1>10. Node(n)'
  BY <1>1, <1>6, <1>7, <1>8, GenuineGrows DEF Node, IsMerge, AllGenuine
<1>11. Apart(n)'
  BY <1>0, <1>1, <1>3, <1>4, <1>8 DEF Apart, Holds
<1> QED BY <1>6, <1>9, <1>10, <1>11, OneNode

\* A run ends, with what it saves.
LEMMA EndKeeps ==
  ASSUME HealInv, NEW n \in Fleet, sup[n] # Off, NEW m, Save(n, m, {}), IsMemory(m), AllGenuine(m),
         \A k : Holds(sup[n].copy, k) => Holds(m, k),
         sup' = [sup EXCEPT ![n] = Off],
         UNCHANGED <<here, merging, mail, needed, overlapped>>
  PROVE  HealInv'
<1>1. HealShape /\ Node(n) /\ Apart(n)
  BY DEF HealInv
<1>2. sup' = [k \in Fleet |-> sup'[k]] /\ sup'[n] = Off /\ \A k \in Fleet \ {n} : sup'[k] = sup[k]
  BY <1>1 DEF HealShape
<1>3. ~overlapped'[n] => Holds(m, n) /\ merging[n] = Off
  BY <1>1 DEF Apart
<1>4. /\ memory'[n] = m /\ IsMemory(m)' /\ AllGenuine(m)'
      /\ memory' = [k \in Fleet |-> memory'[k]] /\ learnt' = [k \in Fleet |-> learnt'[k]]
      /\ \A k \in Fleet \ {n} : memory'[k] = memory[k] /\ learnt'[k] = learnt[k]
      /\ ~overlapped'[n] => Holds(m, n)'
  <2>1. \A c \in Commands \ {} : \A d \in Paths : ~overlapped'[n] /\ <<c, d>> \in learnt[n] => d \in m[c].dirs
    BY <1>3 DEF Holds
  <2> QED BY <2>1, SaveKeeps
<1>5. Functions /\ Others(n)
  BY <1>1, <1>2, <1>4 DEF Functions, Others, Steady, HealShape
<1>6. Node(n)'
  BY <1>1, <1>2, <1>4 DEF Node, IsMerge, AllGenuine, Genuine, TwoNeed
<1>7. Apart(n)'
  BY <1>2, <1>3, <1>4 DEF Apart, Holds
<1> QED BY <1>1, <1>5, <1>6, <1>7, OneNode DEF HealShape

\* A merge saves what it loaded, with what the node knew.
LEMMA SaveMergedKeeps ==
  ASSUME HealInv, NEW n \in Fleet, SaveMerged(n)
  PROVE  HealInv'
<1>0. PICK m : m = merging[n].copy
  OBVIOUS
<1>1. /\ HealShape /\ Node(n) /\ Apart(n) /\ merging[n] # Off
      /\ Save(n, m, {}) /\ merging' = [merging EXCEPT ![n] = Off]
      /\ UNCHANGED <<here, sup, mail, needed, overlapped>>
  BY <1>0 DEF HealInv, SaveMerged
<1>2. merging' = [k \in Fleet |-> merging'[k]] /\ merging'[n] = Off /\ \A k \in Fleet \ {n} : merging'[k] = merging[k]
  BY <1>1 DEF HealShape
<1>3. ~overlapped'[n] => Holds(m, n) /\ sup[n] = Off
  BY <1>0, <1>1 DEF Apart
<1>4. /\ memory'[n] = m /\ IsMemory(m)' /\ AllGenuine(m)'
      /\ memory' = [k \in Fleet |-> memory'[k]] /\ learnt' = [k \in Fleet |-> learnt'[k]]
      /\ \A k \in Fleet \ {n} : memory'[k] = memory[k] /\ learnt'[k] = learnt[k]
      /\ ~overlapped'[n] => Holds(m, n)'
  <2>1. \A c \in Commands \ {} : \A d \in Paths : ~overlapped'[n] /\ <<c, d>> \in learnt[n] => d \in m[c].dirs
    BY <1>3 DEF Holds
  <2>2. IsMemory(m) /\ AllGenuine(m)
    BY <1>0, <1>1 DEF Node, IsMerge
  <2> QED BY <1>1, <2>1, <2>2, SaveKeeps
<1>5. Functions /\ Others(n)
  BY <1>1, <1>2, <1>4 DEF Functions, Others, Steady, HealShape
<1>6. Node(n)'
  BY <1>1, <1>2, <1>4 DEF Node, IsRun, AllGenuine, Genuine, TwoNeed
<1>7. Apart(n)'
  BY <1>1, <1>2, <1>3, <1>4 DEF Apart, Holds
<1> QED BY <1>1, <1>5, <1>6, <1>7, OneNode DEF HealShape

\* What is pruned is no longer learnt.
LEMMA PruneKeeps ==
  ASSUME HealInv, NEW n \in Fleet, Prune(n)
  PROVE  HealInv'
<1>0. PICK gone, m :
        /\ gone = {c \in Commands : memory[n][c].known /\ Faded(memory[n][c])}
        /\ m = [c \in Commands |-> IF c \in gone THEN Unknown ELSE memory[n][c]]
  OBVIOUS
<1>1. /\ HealShape /\ Node(n) /\ Apart(n) /\ gone \in SUBSET Commands
      /\ Save(n, m, gone) /\ Crosses(n)
      /\ UNCHANGED <<here, sup, merging, mail, needed>>
  BY <1>0 DEF HealInv, Prune
<1>2. /\ overlapped' = [k \in Fleet |-> overlapped'[k]]
      /\ \A k \in Fleet \ {n} : overlapped'[k] = overlapped[k]
      /\ overlapped'[n] \in BOOLEAN
      /\ ~overlapped'[n] => ~overlapped[n] /\ sup[n] = Off /\ merging[n] = Off
  BY <1>1, Crossing
<1>3. /\ memory'[n] = m /\ IsMemory(m)' /\ AllGenuine(m)'
      /\ memory' = [k \in Fleet |-> memory'[k]] /\ learnt' = [k \in Fleet |-> learnt'[k]]
      /\ \A k \in Fleet \ {n} : memory'[k] = memory[k] /\ learnt'[k] = learnt[k]
      /\ ~overlapped'[n] => Holds(m, n)'
  <2>1. \A c \in Commands \ gone : \A d \in Paths : ~overlapped'[n] /\ <<c, d>> \in learnt[n] => d \in m[c].dirs
    BY <1>0, <1>1, <1>2 DEF Apart, Holds
  <2>2. IsMemory(m) /\ AllGenuine(m)
    BY <1>0, <1>1, UnknownFields DEF Node, IsMemory, AllGenuine
  <2> QED BY <1>1, <2>1, <2>2, SaveKeeps
<1>4. Functions /\ Others(n)
  BY <1>1, <1>2, <1>3 DEF Functions, Others, Steady, HealShape
<1>5. Node(n)'
  BY <1>1, <1>3 DEF Node, IsRun, IsMerge, AllGenuine, Genuine, TwoNeed
<1>6. Apart(n)'
  BY <1>1, <1>2, <1>3 DEF Apart, Holds
<1> QED BY <1>1, <1>2, <1>4, <1>5, <1>6, OneNode DEF HealShape

\* A merge loads a memory that knows what this node has learnt.
LEMMA LoadKeeps ==
  ASSUME HealInv, NEW n \in Fleet, NEW k \in Fleet, LoadForMerge(n, k)
  PROVE  HealInv'
<1>0. PICK m : m = [c \in Commands |-> MergedRecord(memory[n][c], mail[k][c])]
  OBVIOUS
<1>1. /\ HealShape /\ Node(n) /\ Apart(n) /\ Node(k)
      /\ merging[n] = Off /\ merging' = [merging EXCEPT ![n] = [pc |-> "save", copy |-> m]]
      /\ Crosses(n) /\ UNCHANGED <<memory, here, sup, mail, needed, learnt>>
  BY <1>0 DEF HealInv, LoadForMerge
<1>2. /\ overlapped' = [i \in Fleet |-> overlapped'[i]]
      /\ \A i \in Fleet \ {n} : overlapped'[i] = overlapped[i]
      /\ overlapped'[n] \in BOOLEAN
      /\ ~overlapped'[n] => ~overlapped[n] /\ sup[n] = Off
  BY <1>1, Crossing
<1>3. \A c \in Commands : /\ Fields(m[c]) /\ memory[n][c].dirs \subseteq m[c].dirs
                          /\ m[c].dirs \subseteq memory[n][c].dirs \union mail[k][c].dirs
  BY <1>0, <1>1, MergedKnows DEF Node, IsMemory
<1>4. IsMemory(m) /\ AllGenuine(m) /\ (Holds(memory[n], n) => Holds(m, n))
  BY <1>0, <1>1, <1>3 DEF Node, IsMemory, AllGenuine, Holds
<1>5. /\ merging' = [i \in Fleet |-> merging'[i]]
      /\ merging'[n] = [pc |-> "save", copy |-> m]
      /\ \A i \in Fleet \ {n} : merging'[i] = merging[i]
  BY <1>1 DEF HealShape
<1>6. Functions /\ Others(n)
  BY <1>1, <1>2, <1>5 DEF Functions, Others, Steady, HealShape
<1>7. Node(n)'
  <2>1. IsMerge(merging[n])'
    <3>1. merging'[n].copy = m
      BY <1>5
    <3>2. IsMemory(m)' /\ AllGenuine(m)'
      BY <1>1, <1>4 DEF IsMemory, AllGenuine, Genuine, TwoNeed
    <3> QED BY <3>1, <3>2 DEF IsMerge
  <2>2. IsMemory(memory[n])' /\ AllGenuine(memory[n])' /\ IsMemory(mail[n])' /\ AllGenuine(mail[n])'
    BY <1>1 DEF Node, IsMemory, AllGenuine, Genuine, TwoNeed
  <2>3. sup'[n] # Off => IsRun(sup[n])'
    BY <1>1 DEF Node, IsRun, AllGenuine, Genuine, TwoNeed
  <2> QED BY <2>1, <2>2, <2>3 DEF Node
<1>8. Apart(n)'
  BY <1>1, <1>2, <1>4, <1>5 DEF Apart, Holds
<1> QED BY <1>1, <1>2, <1>6, <1>7, <1>8, OneNode DEF HealShape

\* Each step keeps the invariant.
LEMMA HealStep == HealInv /\ [HealNext]_healVars => HealInv'
<1> SUFFICES ASSUME HealInv, [HealNext]_healVars PROVE HealInv'
  OBVIOUS
<1>1. CASE HalfLife \/ UNCHANGED healVars
  <2>1. UNCHANGED <<memory, here, sup, merging, mail, needed, learnt, overlapped>>
    BY <1>1 DEF HalfLife, healVars
  <2>2. HealShape'
    BY <2>1 DEF HealInv, HealShape
  <2>3. \A n \in Fleet : Steady(n)
    BY <2>1 DEF Steady
  <2>4. needed \subseteq needed'
    BY <2>1
  <2>5. \A n \in Fleet : Node(n)' /\ Apart(n)'
    BY <2>3, <2>4, SteadyKeeps DEF HealInv
  <2> QED BY <2>2, <2>5 DEF HealInv
<1>2. ASSUME NEW n \in Fleet, HealRun(n) PROVE HealInv'
  BY <1>2, HealRunKeeps
<1>3. ASSUME NEW n \in Fleet, Succeed(n) PROVE HealInv'
  <2>1. /\ sup[n] # Off /\ Save(n, Proven(sup[n]), {}) /\ sup' = [sup EXCEPT ![n] = Off]
        /\ UNCHANGED <<here, merging, mail, needed, overlapped>> /\ IsRun(sup[n])
    BY <1>3 DEF Succeed, HealInv, Node
  <2>2. IsMemory(Proven(sup[n])) /\ AllGenuine(Proven(sup[n]))
        /\ \A k : Holds(sup[n].copy, k) => Holds(Proven(sup[n]), k)
    BY <2>1, ProvenKnows
  <2> QED BY <2>1, <2>2, EndKeeps
<1>4. ASSUME NEW n \in Fleet, GiveUp(n) PROVE HealInv'
  <2> DEFINE m == [sup[n].copy EXCEPT ![sup[n].cmd].known = TRUE]
  <2>1. /\ sup[n] # Off /\ Save(n, m, {}) /\ sup' = [sup EXCEPT ![n] = Off]
        /\ UNCHANGED <<here, merging, mail, needed, overlapped>> /\ IsRun(sup[n])
    BY <1>4 DEF GiveUp, HealInv, Node
  <2>2. IsMemory(m) /\ AllGenuine(m) /\ \A k : Holds(sup[n].copy, k) => Holds(m, k)
    BY <2>1, HeardOf DEF IsRun
  <2> QED BY <2>1, <2>2, EndKeeps
<1>5. ASSUME NEW n \in Fleet, Abandon(n) PROVE HealInv'
  <2>1. /\ HealShape /\ Node(n) /\ Apart(n) /\ sup' = [sup EXCEPT ![n] = Off]
        /\ UNCHANGED <<memory, here, merging, mail, needed, learnt, overlapped>>
    BY <1>5 DEF Abandon, HealInv
  <2>2. Functions /\ Others(n) /\ sup'[n] = Off
    BY <2>1 DEF HealShape, Functions, Others, Steady
  <2>3. Node(n)' /\ Apart(n)'
    BY <2>1, <2>2 DEF Node, Apart, IsMerge, AllGenuine, Genuine, TwoNeed, Holds
  <2> QED BY <2>1, <2>2, <2>3, OneNode DEF HealShape
<1>6. ASSUME NEW n \in Fleet, CleanUp(n) PROVE HealInv'
  <2>1. /\ HealShape /\ Node(n) /\ Apart(n) /\ sup[n] = Off /\ here' = [here EXCEPT ![n] = {}]
        /\ UNCHANGED <<memory, sup, merging, mail, needed, learnt, overlapped>>
    BY <1>6 DEF CleanUp, HealInv
  <2>2. Functions /\ Others(n) /\ here'[n] = {}
    BY <2>1 DEF HealShape, Functions, Others, Steady
  <2>3. Node(n)' /\ Apart(n)'
    BY <2>1, <2>2 DEF Node, Apart, IsMerge, AllGenuine, Genuine, TwoNeed, Holds
  <2> QED BY <2>1, <2>2, <2>3, OneNode DEF HealShape
<1>7. ASSUME NEW n \in Fleet, Prune(n) PROVE HealInv'
  BY <1>7, PruneKeeps
<1>8. ASSUME NEW n \in Fleet, ExportMemory(n) PROVE HealInv'
  <2>1. /\ HealShape /\ Node(n) /\ Apart(n) /\ mail' = [mail EXCEPT ![n] = memory[n]]
        /\ UNCHANGED <<memory, here, sup, merging, needed, learnt, overlapped>>
    BY <1>8 DEF ExportMemory, HealInv
  <2>2. Functions /\ Others(n) /\ mail'[n] = memory[n]
    BY <2>1 DEF HealShape, Functions, Others, Steady
  <2>3. Node(n)' /\ Apart(n)'
    BY <2>1, <2>2 DEF Node, Apart, IsRun, IsMerge, AllGenuine, Genuine, TwoNeed, Holds
  <2> QED BY <2>1, <2>2, <2>3, OneNode DEF HealShape
<1>9. ASSUME NEW n \in Fleet, SaveMerged(n) PROVE HealInv'
  BY <1>9, SaveMergedKeeps
<1>10. ASSUME NEW n \in Fleet, NEW c \in Commands, StartRun(n, c) PROVE HealInv'
  BY <1>10, StartKeeps
<1>11. ASSUME NEW n \in Fleet, NEW k \in Fleet, LoadForMerge(n, k) PROVE HealInv'
  BY <1>11, LoadKeeps
<1> QED BY <1>1, <1>2, <1>3, <1>4, <1>5, <1>6, <1>7, <1>8, <1>9, <1>10, <1>11 DEF HealNext

\* It holds of empty memories.
LEMMA HealStart == HealInit => HealInv
<1> SUFFICES ASSUME HealInit PROVE HealInv
  OBVIOUS
<1>1. IsMemory(NoMemory) /\ AllGenuine(NoMemory)
  BY UnknownFields DEF NoMemory, IsMemory, AllGenuine
<1>2. HealShape
  BY DEF HealInit, HealShape
<1> QED BY <1>1, <1>2 DEF HealInit, HealInv, Node, Apart, Holds

\* Immunity for all is earned by two commands that failed; unless writers of one file crossed, a
\* failure that was learnt does not recur and nothing is unlearnt by what peers send: for any
\* nodes, commands and directories.
THEOREM HealSoundCorrect == HealSpec => []HealSound
<1>1. HealInv => HealSound
  <2> SUFFICES ASSUME HealInv PROVE HealSound
    OBVIOUS
  <2>1. GenuineTwo
    BY StructuralGenuine, TwoCount DEF HealInv, Node, GenuineTwo
  <2>2. NothingUnlearnt
    BY DEF HealInv, Apart, Holds, NothingUnlearnt
  <2>3. NeverRecurs
    <3> SUFFICES ASSUME NEW n \in Fleet, sup[n].pc = "first", ~overlapped[n],
                        NEW d \in Wants[sup[n].cmd], <<sup[n].cmd, d>> \in learnt[n]
                 PROVE  d \in here[n]
      BY DEF NeverRecurs
    <3>1. sup[n] # Off
      BY DEF Off
    <3>2. sup[n].cmd \in Commands
      BY <3>1 DEF HealInv, Node, IsRun
    <3>3. d \in Paths
      BY <3>2, HealAssumption
    <3> QED BY <3>1, <3>3 DEF HealInv, Apart
  <2> QED BY <2>1, <2>2, <2>3 DEF HealSound
<1> QED BY <1>1, HealStart, HealStep, PTL DEF HealSpec

-----------------------------------------------------------------------------
(* Recall *)

\* No element of S comes before itself, and what comes before comes before all that follows.
Strict(before, S) ==
  /\ \A a \in S : <<a, a>> \notin before
  /\ \A a, b, c \in S : <<a, b>> \in before /\ <<b, c>> \in before => <<a, c>> \in before

\* Something comes first, of finitely many.
LEMMA Foremost ==
  ASSUME NEW S, IsFiniteSet(S), S # {}, NEW before, Strict(before, S)
  PROVE  \E a \in S : \A b \in S : <<b, a>> \notin before
<1> DEFINE Up(a) == {b \in S : <<b, a>> \in before}
           T == {Cardinality(Up(a)) : a \in S}
<1>1. \A a \in S : IsFiniteSet(Up(a)) /\ Cardinality(Up(a)) \in Nat
  BY FS_Subset, FS_CardinalityType
<1>2. T \in SUBSET Nat /\ T # {}
  BY <1>1
<1>3. PICK n \in T : \A y \in T : n <= y
  BY <1>2, LeastNat
<1>4. PICK a \in S : n = Cardinality(Up(a))
  BY <1>3
<1>5. ASSUME NEW b \in S, <<b, a>> \in before PROVE FALSE
  <2>1. Up(b) \subseteq Up(a) /\ b \in Up(a) /\ b \notin Up(b)
    BY <1>5 DEF Strict
  <2>2. Cardinality(Up(b)) <= Cardinality(Up(a)) /\ Cardinality(Up(b)) # Cardinality(Up(a))
    <3>1. IsFiniteSet(Up(a))
      BY <1>1
    <3> HIDE DEF Up
    <3> QED BY <2>1, <3>1, FS_Subset
  <2>3. Cardinality(Up(a)) <= Cardinality(Up(b))
    BY <1>3, <1>4
  <2>4. Cardinality(Up(a)) \in Nat /\ Cardinality(Up(b)) \in Nat
    BY <1>1
  <2> HIDE DEF Up
  <2> QED BY <2>2, <2>3, <2>4
<1> QED BY <1>5

\* There are as many foremost ones as are wanted.
LEMMA BestExists ==
  ASSUME NEW from, IsFiniteSet(from), NEW k \in Nat, NEW before, Strict(before, from)
  PROVE  Best(from, k, before) # {}
<1> DEFINE Tops(j) == {s \in SUBSET from : /\ Cardinality(s) = j
                                           /\ \A a \in s, b \in from \ s : <<b, a>> \notin before}
           T == {j \in Nat : j <= Cardinality(from) => Tops(j) # {}}
<1>1. Cardinality(from) \in Nat
  BY FS_CardinalityType
<1>2. 0 \in T
  <2>1. {} \in Tops(0)
    BY FS_EmptySet
  <2> QED BY <2>1
<1>3. ASSUME NEW j \in Nat, j \in T PROVE j + 1 \in T
  <2> SUFFICES ASSUME j + 1 <= Cardinality(from) PROVE Tops(j + 1) # {}
    OBVIOUS
  <2>1. PICK s \in Tops(j) : TRUE
    BY <1>1, <1>3
  <2>2. s \subseteq from /\ Cardinality(s) = j /\ \A a \in s, b \in from \ s : <<b, a>> \notin before
    BY <2>1
  <2>3. IsFiniteSet(s) /\ IsFiniteSet(from \ s)
    BY <2>2, FS_Subset
  <2>4. from \ s # {}
    <3>1. s # from
      BY <1>1, <2>2
    <3> QED BY <2>2, <3>1
  <2>5. Strict(before, from \ s)
    BY DEF Strict
  <2>6. PICK x \in from \ s : \A b \in from \ s : <<b, x>> \notin before
    BY <2>3, <2>4, <2>5, Foremost
  <2>7. Cardinality(s \union {x}) = j + 1
    BY <2>2, <2>3, FS_AddElement
  <2>8. s \union {x} \in Tops(j + 1)
    BY <2>2, <2>6, <2>7
  <2> QED BY <2>8
<1> HIDE DEF T
<1>4. Nat \subseteq T
  BY <1>2, <1>3, NatInduct
<1>5. PICK j \in Nat : j = IF Cardinality(from) < k THEN Cardinality(from) ELSE k
  BY <1>1
<1>6. Tops(j) # {}
  BY <1>1, <1>4, <1>5 DEF T
<1> QED BY <1>5, <1>6 DEF Best

\* The greatest of the images of finitely many is one of them.
LEMMA GreatestImage ==
  ASSUME NEW S, IsFiniteSet(S), S # {}, NEW w, \A x \in S : w[x] \in Nat
  PROVE  Max({w[x] : x \in S}) \in Nat
<1> DEFINE before == {p \in S \X S : w[p[1]] > w[p[2]]}
<1>1. Strict(before, S)
  BY DEF Strict
<1>2. PICK a \in S : \A b \in S : <<b, a>> \notin before
  BY <1>1, Foremost
<1>3. \A b \in S : w[a] >= w[b]
  <2> TAKE b \in S
  <2>1. ~(w[b] > w[a])
    BY <1>2
  <2> QED BY <2>1
<1>4. Max({w[x] : x \in S}) \in {w[x] : x \in S}
  BY <1>3 DEF Max
<1> QED BY <1>4

-----------------------------------------------------------------------------
(* Activation *)

\* The number of edges between two memories.
LEMMA DegreeNat == ASSUME NEW E, NEW a, NEW b PROVE Degree(E, a, b) \in Nat
<1>1. {e \in E : e = <<a, b>>} \subseteq {<<a, b>>} /\ {e \in E : e = <<b, a>>} \subseteq {<<b, a>>}
  OBVIOUS
<1>2. IsFiniteSet({<<a, b>>}) /\ IsFiniteSet({<<b, a>>})
  BY FS_Singleton
<1>3. Cardinality({e \in E : e = <<a, b>>}) \in Nat /\ Cardinality({e \in E : e = <<b, a>>}) \in Nat
  BY <1>1, <1>2, FS_Subset, FS_CardinalityType
<1> QED BY <1>3 DEF Degree

Halved(E, seeds, n) ==
  CHOOSE g : g = [s \in SUBSET seeds |->
    IF s = {} THEN 0 ELSE Degree(E, Pick(s), n) * (Likeness[Pick(s)] \div 2) + g[s \ {Pick(s)}]]
GotBy(E, seeds) ==
  [f \in Adjacent(E, seeds) |-> Max({Likeness[s] \div 2 : s \in {a \in seeds : Degree(E, a, f) > 0}})]
Quartered(E, seeds, n) ==
  CHOOSE g : g = [s \in SUBSET Adjacent(E, seeds) |->
    IF s = {} THEN 0 ELSE Degree(E, Pick(s), n) * (GotBy(E, seeds)[Pick(s)] \div 2) + g[s \ {Pick(s)}]]

\* Activation is two folds: over the seeds, and over what they reach.
LEMMA ActivationIter ==
  ASSUME NEW E, NEW seeds, NEW n
  PROVE  Activation(E, seeds, n) = Halved(E, seeds, n)[seeds] + Quartered(E, seeds, n)[Adjacent(E, seeds)]
BY DEF Activation, MapThenSumSet, MapThenFoldSet, Halved, Quartered, GotBy, Pick

\* Such a recursion gives naturals, as the weights are.
LEMMA FoldNat ==
  ASSUME NEW S, IsFiniteSet(S), NEW w, Weighs(S, w), NEW h,
         (\E g : g = [s \in SUBSET S |-> IF s = {} THEN 0 ELSE w[Pick(s)] + g[s \ {Pick(s)}]])
           => h = [s \in SUBSET S |-> IF s = {} THEN 0 ELSE w[Pick(s)] + h[s \ {Pick(s)}]]
  PROVE  h[S] \in Nat
<1> DEFINE c == Picks(S)
           B(g) == [s \in SUBSET S |-> IF s = {} THEN 0 ELSE w[Pick(s)] + g[s \ {Pick(s)}]]
<1>0. Chooses(c, S)
  BY PicksChoose
<1>1. PICK g : Summed(c, w, g, S)
  BY <1>0, SumExists
<1>2. g = B(g)
  BY <1>1 DEF Summed, Plus, Picks
<1>3. h = B(h)
  BY <1>2
<1>4. \A s \in SUBSET S : h[s] = Plus(c, w, h, s)
  BY <1>3 DEF Plus, Picks
<1>5. Sums(c, w, h, S)
  BY <1>4 DEF Sums
<1>6. Naturals(h, S)
  BY <1>0, <1>5, SumValues
<1> QED BY <1>6 DEF Naturals

\* What the seeds give a memory.
LEMMA HalvedNat ==
  ASSUME NEW E, NEW seeds \in SUBSET Kept, NEW n
  PROVE  Halved(E, seeds, n)[seeds] \in Nat
<1> DEFINE w == [s \in seeds |-> Degree(E, s, n) * (Likeness[s] \div 2)]
           h == Halved(E, seeds, n)
           B(g) == [s \in SUBSET seeds |-> IF s = {} THEN 0 ELSE w[Pick(s)] + g[s \ {Pick(s)}]]
           C(g) == [s \in SUBSET seeds |-> IF s = {} THEN 0 ELSE
                      Degree(E, Pick(s), n) * (Likeness[Pick(s)] \div 2) + g[s \ {Pick(s)}]]
<1>1. IsFiniteSet(seeds)
  BY RecallAssumption, FS_Subset
<1>2. Weighs(seeds, w)
  <2> SUFFICES ASSUME NEW s \in seeds PROVE Degree(E, s, n) * (Likeness[s] \div 2) \in Nat
    BY DEF Weighs
  <2>1. Degree(E, s, n) \in Nat
    BY DegreeNat
  <2>2. Likeness[s] \in Nat
    BY RecallAssumption
  <2> QED BY <2>1, <2>2
<1>3. \A s \in SUBSET seeds : s # {} => w[Pick(s)] = Degree(E, Pick(s), n) * (Likeness[Pick(s)] \div 2)
  BY PicksChoose
<1> HIDE DEF w
<1>4. \A g : B(g) = C(g)
  BY <1>3
<1>5. (\E g : g = C(g)) => h = C(h)
  BY DEF Halved
<1>6. (\E g : g = B(g)) => h = B(h)
  <2> HIDE DEF B, C, h
  <2> QED BY <1>4, <1>5
<1> HIDE DEF h
<1>7. h[seeds] \in Nat
  BY <1>1, <1>2, <1>6, FoldNat
<1> QED BY <1>7 DEF h

\* What the memories next to them pass on.
LEMMA QuarteredNat ==
  ASSUME NEW E, NEW seeds \in SUBSET Kept, NEW n
  PROVE  Quartered(E, seeds, n)[Adjacent(E, seeds)] \in Nat
<1> DEFINE first == Adjacent(E, seeds)
           w == [s \in first |-> Degree(E, s, n) * (GotBy(E, seeds)[s] \div 2)]
           h == Quartered(E, seeds, n)
           B(g) == [s \in SUBSET first |-> IF s = {} THEN 0 ELSE w[Pick(s)] + g[s \ {Pick(s)}]]
           C(g) == [s \in SUBSET first |-> IF s = {} THEN 0 ELSE
                      Degree(E, Pick(s), n) * (GotBy(E, seeds)[Pick(s)] \div 2) + g[s \ {Pick(s)}]]
<1>1. IsFiniteSet(first)
  BY RecallAssumption, FS_Subset DEF Adjacent
<1>2. Weighs(first, w)
  <2> SUFFICES ASSUME NEW f \in first PROVE Degree(E, f, n) * (GotBy(E, seeds)[f] \div 2) \in Nat
    BY DEF Weighs
  <2>1. Degree(E, f, n) \in Nat
    BY DegreeNat
  <2>2. GotBy(E, seeds)[f] \in Nat
    <3> DEFINE R == {s \in seeds : Degree(E, s, f) > 0}
               v == [s \in R |-> Likeness[s] \div 2]
    <3>1. IsFiniteSet(R) /\ R # {}
      <4>1. R \subseteq Kept /\ R # {}
        BY DEF Adjacent
      <4> HIDE DEF R
      <4> QED BY <4>1, RecallAssumption, FS_Subset
    <3>2. \A s \in R : v[s] \in Nat
      BY RecallAssumption
    <3>3. {Likeness[s] \div 2 : s \in R} = {v[s] : s \in R}
      OBVIOUS
    <3>4. Max({v[s] : s \in R}) \in Nat
      <4> HIDE DEF R, v
      <4> QED BY <3>1, <3>2, GreatestImage
    <3> QED BY <3>3, <3>4 DEF GotBy
  <2> QED BY <2>1, <2>2
<1>3. \A s \in SUBSET first : s # {} => w[Pick(s)] = Degree(E, Pick(s), n) * (GotBy(E, seeds)[Pick(s)] \div 2)
  BY PicksChoose
<1> HIDE DEF w
<1>4. \A g : B(g) = C(g)
  BY <1>3
<1>5. (\E g : g = C(g)) => h = C(h)
  BY DEF Quartered
<1>6. (\E g : g = B(g)) => h = B(h)
  <2> HIDE DEF B, C, h
  <2> QED BY <1>4, <1>5
<1> HIDE DEF h, first
<1>7. h[first] \in Nat
  BY <1>1, <1>2, <1>6, FoldNat
<1> QED BY <1>7 DEF h, first

\* Activation is therefore comparable.
LEMMA ActivationNat ==
  ASSUME NEW E, NEW seeds \in SUBSET Kept, NEW n
  PROVE  Activation(E, seeds, n) \in Nat
BY ActivationIter, HalvedNat, QuarteredNat

-----------------------------------------------------------------------------
(* What is returned *)

\* Direct hits are live, in the scopes asked, and superseded by nothing there.
LEMMA DirectFrom ==
  ASSUME NEW scope, NEW direct \in DirectHits(scope)
  PROVE  direct \subseteq Pool(scope) \ Superseded(Pool(scope))
BY DEF DirectHits, Best

\* So are the hits of the graph, wherever they are kept: the choice among the best has one.
LEMMA GraphShown ==
  ASSUME NEW scope, NEW direct \in DirectHits(scope), NEW m \in GraphHits(scope, direct)
  PROVE  m \in Kept /\ Shown(m, Pool(scope))
<1> DEFINE pool == Pool(scope)
           act == [n \in Kept |-> Activation(Edges(pool), direct, n)]
           found == {n \in Kept \ direct : act[n] > 0 /\ Shown(n, pool)}
           before == {p \in found \X found :
                        \/ act[p[1]] > act[p[2]]
                        \/ act[p[1]] = act[p[2]] /\ Rank[p[1]] < Rank[p[2]]}
<1>1. direct \subseteq Kept
  BY DirectFrom DEF Pool
<1>2. \A n \in Kept : act[n] \in Nat /\ Rank[n] \in Nat
  BY <1>1, ActivationNat, RecallAssumption
<1>3. found \subseteq Kept /\ \A n \in found : Shown(n, pool)
  OBVIOUS
<1>4. GraphHits(scope, direct) = CHOOSE s \in Best(found, MaxExtra, before) : TRUE
  BY DEF GraphHits
<1> HIDE DEF act, found, pool
<1>5. Strict(before, found)
  BY <1>2, <1>3 DEF Strict
<1>6. IsFiniteSet(found)
  BY <1>3, RecallAssumption, FS_Subset
<1> HIDE DEF before
<1>7. Best(found, MaxExtra, before) # {}
  BY <1>5, <1>6, RecallAssumption, BestExists
<1>8. GraphHits(scope, direct) \in Best(found, MaxExtra, before)
  BY <1>4, <1>7
<1> QED BY <1>3, <1>8 DEF Best, pool

\* What is dismissed is not live.
Dismissed ==
  /\ state = [m \in Kept |-> state[m]]
  /\ dismissed \subseteq {m \in Kept : state[m] = "gone"}

\* Nothing that was taken back is returned, and what is returned can be fetched.
LEMMA RecallFinds == Dismissed => NoGhosts
<1> SUFFICES ASSUME Dismissed, NEW scope \in Scopes, NEW direct \in DirectHits(scope),
                    NEW m \in Hits(scope, direct)
             PROVE  /\ m \notin dismissed
                    /\ \A n \in Kept : state[n] = "live" /\ Home[n] \in {Personal, scope} => m \notin revised[n]
                    /\ Fetched(Home[m], m)
  BY DEF NoGhosts
<1>1. m \in Kept /\ state[m] = "live" /\ m \notin Superseded(Pool(scope))
  <2>1. CASE m \in direct
    BY <2>1, DirectFrom DEF Pool
  <2>2. CASE m \in GraphHits(scope, direct)
    BY <2>2, GraphShown DEF Shown
  <2> QED BY <2>1, <2>2 DEF Hits
<1>2. m \notin dismissed
  BY <1>1 DEF Dismissed
<1>3. ASSUME NEW n \in Kept, state[n] = "live", Home[n] \in {Personal, scope} PROVE m \notin revised[n]
  <2>1. n \in Pool(scope)
    BY <1>3 DEF Pool
  <2> QED BY <1>1, <2>1 DEF Superseded
<1> QED BY <1>1, <1>2, <1>3 DEF Fetched

\* The better of what is left over would have been chosen: by the sizes of the two cuts.
LEMMA AllFound == BestFound
<1> SUFFICES ASSUME NEW scope \in Scopes, NEW direct \in DirectHits(scope), NEW m \in Kept,
                    state[m] = "live", Home[m] \in {Personal, scope}, m \notin direct,
                    Likeness[m] >= MinScore, m \notin Superseded(Pool(scope))
             PROVE  Cardinality(direct) = TopK /\ \A d \in direct : Likeness[d] >= Likeness[m]
  BY DEF BestFound
<1> DEFINE free == Pool(scope) \ Superseded(Pool(scope))
           over(top) == {x \in top : Likeness[x] >= MinScore}
<1>1. free \subseteq Kept /\ m \in free
  BY DEF Pool
<1>2. PICK top \in Best(free, 2 * TopK, MoreAlike) : direct \in Best(over(top), TopK, Newer)
  BY DEF DirectHits
<1> DEFINE F == over(top)
<1>3. /\ top \subseteq free
      /\ Cardinality(top) = (IF Cardinality(free) < 2 * TopK THEN Cardinality(free) ELSE 2 * TopK)
      /\ \A a \in top, b \in free \ top : <<b, a>> \notin MoreAlike
  <2> HIDE DEF free
  <2> QED BY <1>2 DEF Best
<1>4. /\ direct \subseteq F
      /\ Cardinality(direct) = (IF Cardinality(F) < TopK THEN Cardinality(F) ELSE TopK)
      /\ \A a \in direct, b \in F \ direct : <<b, a>> \notin Newer
  <2> HIDE DEF F
  <2> QED BY <1>2 DEF Best, F
<1>5. \A x \in Kept : Likeness[x] \in Nat
  BY RecallAssumption
<1>6. TopK \in Nat /\ TopK > 0 /\ MinScore \in Nat
  BY RecallAssumption
<1>7. F \subseteq top /\ \A x \in top : x \in F <=> Likeness[x] >= MinScore
  OBVIOUS
<1> HIDE DEF free, F
<1>8. IsFiniteSet(free) /\ IsFiniteSet(top) /\ IsFiniteSet(F) /\ IsFiniteSet(direct)
  <2>1. IsFiniteSet(Kept)
    BY RecallAssumption
  <2>2. top \subseteq Kept /\ F \subseteq Kept /\ direct \subseteq Kept
    BY <1>1, <1>3, <1>4, <1>7
  <2> QED BY <1>1, <2>1, <2>2, FS_Subset
<1>9. /\ Cardinality(free) \in Nat /\ Cardinality(top) \in Nat
      /\ Cardinality(F) \in Nat /\ Cardinality(direct) \in Nat
  BY <1>8, FS_CardinalityType
<1>10. CASE m \in top
  <2>1. m \in F \ direct
    BY <1>7, <1>10
  <2>2. Cardinality(direct) # Cardinality(F)
    BY <1>4, <1>8, <2>1, FS_Subset
  <2>3. ASSUME NEW d \in direct PROVE Likeness[d] >= Likeness[m]
    <3>1. <<m, d>> \notin Newer /\ d \in Kept
      BY <1>1, <1>3, <1>4, <1>7, <2>1
    <3> QED BY <1>5, <3>1 DEF Newer, MoreAlike
  <2> QED BY <1>4, <2>2, <2>3
<1>11. CASE m \notin top
  <2>1. Cardinality(top) # Cardinality(free)
    BY <1>1, <1>3, <1>8, <1>11, FS_Subset
  <2>2. Cardinality(top) = 2 * TopK
    BY <1>3, <2>1
  <2>3. ASSUME NEW a \in top PROVE Likeness[a] >= Likeness[m] /\ a \in F
    <3>1. <<m, a>> \notin MoreAlike /\ a \in Kept
      BY <1>1, <1>3, <1>11
    <3>2. Likeness[a] >= Likeness[m]
      BY <1>5, <3>1 DEF MoreAlike
    <3> QED BY <1>5, <1>6, <1>7, <3>1, <3>2
  <2>4. F = top
    BY <1>7, <2>3
  <2>5. Cardinality(direct) = TopK
    BY <1>4, <1>6, <2>2, <2>4
  <2> QED BY <1>4, <2>3, <2>4, <2>5
<1> QED BY <1>10, <1>11

\* Only a tombstone in its own scope dismisses a memory, and that ends it.
LEMMA RecallStep == Dismissed /\ [RecallNext]_recallVars => Dismissed'
BY DEF Dismissed, RecallNext, recallVars, NextSecond, Remember, Forget, Connect, Changes

\* Recall is complete and returns nothing that was taken back, for any memories, scopes, files,
\* likenesses, revisions, edges and limits.
THEOREM RecallSoundCorrect == RecallSpec => []RecallSound
<1>1. RecallInit => Dismissed
  BY DEF RecallInit, Dismissed
<1>2. Dismissed => RecallSound
  BY RecallFinds, AllFound DEF RecallSound
<1> QED BY <1>1, <1>2, RecallStep, PTL DEF RecallSpec

-----------------------------------------------------------------------------
(* Documents on their way into a corpus *)

Seals == Contents \union {[c EXCEPT !.id = "none"] : c \in Contents}
Docs  == [content : Contents, seal : Seals, layout : {"canonical", "other"}]
Macs  == [key : Keys \union {NoKey}, over : Docs]
Envelopes == [payload : Docs, sha : Docs, mac : Macs, wrapped : Docs]

\* An envelope was sealed over what was wrapped, and holds that, or one thing has happened to it.
Intact(e)  == e.payload = e.wrapped /\ e.sha = e.wrapped
Tampered(e) ==
  \/ e.payload # e.sha
  \/ e.payload.layout = "other" /\ e.sha # e.wrapped
  \/ e.payload.content # e.payload.seal /\ e.sha # e.wrapped
Sealed(e) ==
  /\ e.mac.over = e.wrapped
  /\ e.wrapped.layout = "canonical" /\ e.wrapped.seal = e.wrapped.content
  /\ Intact(e) \/ Tampered(e)

CorpusShape ==
  /\ wire \subseteq Envelopes /\ corpus \in Seq(Docs)
  /\ \A e \in wire : Sealed(e)

\* Whatever a relay does to an envelope leaves a trace that opening finds.
LEMMA DamageSeals ==
  ASSUME NEW e \in Envelopes, Sealed(e), Intact(e), NEW c \in Contents, e.payload.content # c,
         NEW f \in Damaged(e, c)
  PROVE  f \in Envelopes /\ Sealed(f)
<1> DEFINE changed == [e.payload EXCEPT !.content = c]
           laid    == [e.payload EXCEPT !.layout = "other"]
<1>1. /\ e.payload \in Docs /\ e.sha \in Docs /\ e.mac \in Macs /\ e.wrapped \in Docs
      /\ e.payload = e.wrapped /\ e.sha = e.wrapped
      /\ e.mac.over = e.wrapped
      /\ e.wrapped.layout = "canonical" /\ e.wrapped.seal = e.wrapped.content
  BY DEF Envelopes, Sealed, Intact
<1>2. changed \in Docs /\ changed.content = c /\ changed.seal = e.payload.seal /\ changed # e.wrapped
  BY <1>1 DEF Docs
<1>3. laid \in Docs /\ laid.layout = "other" /\ laid # e.wrapped
  BY <1>1 DEF Docs
<1>4. \/ f = [e EXCEPT !.payload = changed]
      \/ f = [e EXCEPT !.payload = laid, !.sha = laid]
      \/ f = [e EXCEPT !.payload = changed, !.sha = changed]
  BY DEF Damaged
<1> HIDE DEF changed, laid
<1>5. f \in Envelopes /\ f.mac = e.mac /\ f.wrapped = e.wrapped
  BY <1>1, <1>2, <1>3, <1>4 DEF Envelopes
<1>6. \/ f.payload = changed /\ f.sha = e.sha
      \/ f.payload = laid /\ f.sha = laid
      \/ f.payload = changed /\ f.sha = changed
  BY <1>1, <1>2, <1>3, <1>4 DEF Envelopes
<1> QED BY <1>1, <1>2, <1>3, <1>5, <1>6 DEF Sealed, Tampered

\* What a receiver opens is what was wrapped.
LEMMA OpensWrapped ==
  ASSUME NEW e \in Envelopes, Sealed(e), NEW key \in Keys \union {NoKey}, Opens(e, key)
  PROVE  e.payload = e.wrapped /\ e.mac.key = key
<1>1. e.payload = e.sha /\ e.payload.layout = "canonical" /\ e.payload.seal = e.payload.content
  BY DEF Opens, Canonical, SealHolds
<1>2. e.mac.key = key
  BY DEF Opens, Signed
<1>3. CASE key = NoKey
  BY <1>1, <1>2 DEF Sealed, Intact, Tampered
<1>4. CASE key # NoKey
  BY <1>1, <1>2, <1>4 DEF Sealed, Opens, Signed
<1> QED BY <1>2, <1>3, <1>4

\* Each step keeps the envelopes sealed or touched, and opens only what was sealed.
LEMMA CorpusStep ==
  ASSUME CorpusShape, OpenedAsWrapped, [CorpusNext]_corpusVars
  PROVE  CorpusShape' /\ OpenedAsWrapped'
<1>1. CASE UNCHANGED corpusVars
  BY <1>1 DEF corpusVars, CorpusShape, OpenedAsWrapped
<1>2. ASSUME NEW c \in Contents, NEW key \in Keys \union {NoKey}, Wrap(c, key)
      PROVE  CorpusShape' /\ OpenedAsWrapped'
  <2> DEFINE d == Document(c, c, "canonical")
             e == [payload |-> d, sha |-> d, mac |-> [key |-> key, over |-> d], wrapped |-> d]
  <2>1. wire' = {e} /\ corpus' = corpus /\ arrival'.opened = {}
    BY <1>2 DEF Wrap, Nothing
  <2>2. d \in Docs /\ d.layout = "canonical" /\ d.seal = d.content
    BY DEF Document, Docs, Seals
  <2> HIDE DEF d
  <2>3. e \in Envelopes /\ Sealed(e)
    BY <2>2 DEF Envelopes, Macs, Sealed, Intact
  <2> QED BY <2>1, <2>3 DEF CorpusShape, OpenedAsWrapped
<1>3. ASSUME NEW c \in Contents, NEW e \in wire, Damage(e, c)
      PROVE  CorpusShape' /\ OpenedAsWrapped'
  <2>1. e \in Envelopes /\ Sealed(e) /\ Intact(e) /\ e.payload.content # c
    BY <1>3 DEF CorpusShape, Damage, Intact
  <2>2. PICK f \in Damaged(e, c) : wire' = (wire \ {e}) \union {f}
    BY <1>3 DEF Damage
  <2>3. f \in Envelopes /\ Sealed(f)
    BY <2>1, DamageSeals
  <2>4. corpus' = corpus /\ arrival'.opened = {}
    BY <1>3 DEF Damage, Nothing
  <2> QED BY <2>2, <2>3, <2>4 DEF CorpusShape, OpenedAsWrapped
<1>4. ASSUME NEW c \in Contents,
             NEW d \in {Document(c, c, "canonical"), Document(c, c, "other"),
                     Document(c, [c EXCEPT !.id = "none"], "canonical")}, Vendor(d)
      PROVE  CorpusShape' /\ OpenedAsWrapped'
  <2>1. d \in Docs
    BY DEF Document, Docs, Seals
  <2>2. corpus' = Append(corpus, d) /\ wire' = wire /\ arrival'.opened = {}
    BY <1>4 DEF Vendor, Nothing
  <2> QED BY <2>1, <2>2 DEF CorpusShape, OpenedAsWrapped
<1>5. ASSUME NEW e \in wire, NEW key \in Keys \union {NoKey}, NEW again \in BOOLEAN, Arrive(e, key, again)
      PROVE  CorpusShape' /\ OpenedAsWrapped'
  <2>1. e \in Envelopes /\ Sealed(e) /\ wire' \subseteq wire
    BY <1>5 DEF CorpusShape, Arrive
  <2>2. CASE Opens(e, key)
    <3>1. e.payload \in Docs /\ e.payload = e.wrapped /\ e.mac.key = key
      BY <2>1, <2>2, OpensWrapped DEF Envelopes
    <3>2. /\ corpus' = Append(corpus, e.payload)
          /\ arrival' = [opened |-> {e.payload}, of |-> e.wrapped, from |-> e.mac.key, by |-> key]
      BY <1>5, <2>2 DEF Arrive
    <3> QED BY <2>1, <3>1, <3>2 DEF CorpusShape, OpenedAsWrapped
  <2>3. CASE ~Opens(e, key)
    BY <1>5, <2>1, <2>3 DEF Arrive, Nothing, CorpusShape, OpenedAsWrapped
  <2> QED BY <2>2, <2>3
<1> QED BY <1>1, <1>2, <1>3, <1>4, <1>5 DEF CorpusNext

-----------------------------------------------------------------------------
(* What a clean corpus is *)

\* The document of an id: the first line that has it.
First(q, id, k) == k \in DOMAIN q /\ q[k].content.id = id /\ \A j \in 1 .. k - 1 : q[j].content.id # id

\* The first line of an id is the one Earliest finds.
LEMMA FirstIsOne ==
  ASSUME NEW q \in Seq(Docs), NEW id, NEW k, First(q, id, k)
  PROVE  Earliest(q, id) = k
<1>1. DOMAIN q = 1 .. Len(q) /\ Len(q) \in Nat
  BY LenProperties
<1>2. ASSUME NEW i, First(q, id, i) PROVE i = k
  BY <1>1, <1>2 DEF First
<1>3. Earliest(q, id) = CHOOSE i : First(q, id, i)
  BY DEF Earliest, First
<1> QED BY <1>2, <1>3

\* There is a first line of each id of a corpus.
LEMMA FirstIsThere ==
  ASSUME NEW q \in Seq(Docs), NEW id \in Ids(q)
  PROVE  First(q, id, Earliest(q, id))
<1> DEFINE T == {i \in DOMAIN q : q[i].content.id = id}
<1>1. DOMAIN q = 1 .. Len(q) /\ Len(q) \in Nat
  BY LenProperties
<1>2. T \in SUBSET Nat /\ T # {}
  BY <1>1 DEF Ids
<1>3. PICK k \in T : \A j \in T : k <= j
  <2> HIDE DEF T
  <2> QED BY <1>2, LeastNat
<1>4. First(q, id, k)
  BY <1>1, <1>3 DEF First
<1> QED BY <1>4, FirstIsOne

\* The results among the lines derive from what is there.
Chained(q, c) ==
  \E j \in DOMAIN q : LET r == q[j].content
                      IN r.id \in c.from /\ r.type = "completed" /\ Proves(r, c)
Alone(q) == \A i, j \in DOMAIN q : q[i].content.id = q[j].content.id => i = j
SoundLine(d) ==
  LET c == d.content
  IN /\ Canonical(d) /\ SealHolds(d) /\ c.sound /\ c.id \notin c.from
     /\ c.type = "result" => c.base = c.cand
Clean(q) ==
  /\ Alone(q)
  /\ \A i \in DOMAIN q : SoundLine(q[i])
  /\ \A i \in DOMAIN q : LET c == q[i].content
                         IN c.type = "result" /\ Measured(c) => Chained(q, c)

\* A document whose id no other line has is found by it.
LEMMA AloneFinds ==
  ASSUME NEW q \in Seq(Docs), Alone(q), NEW i \in DOMAIN q
  PROVE  Earliest(q, q[i].content.id) = i /\ ById(q, q[i].content.id) = q[i].content
<1>1. DOMAIN q = 1 .. Len(q) /\ Len(q) \in Nat
  BY LenProperties
<1>2. First(q, q[i].content.id, i)
  BY <1>1 DEF First, Alone
<1> QED BY <1>2, FirstIsOne DEF ById

\* The runs a result derives from, by lines and by ids.
LEMMA ChainedRuns ==
  ASSUME NEW q \in Seq(Docs), Alone(q), NEW c
  PROVE  Chained(q, c) <=> \E r \in Runs(q, c) : Proves(r, c)
<1>1. ASSUME Chained(q, c) PROVE \E r \in Runs(q, c) : Proves(r, c)
  <2>1. PICK j \in DOMAIN q : q[j].content.id \in c.from /\ q[j].content.type = "completed" /\ Proves(q[j].content, c)
    BY <1>1 DEF Chained
  <2>2. q[j].content.id \in Ids(q) /\ ById(q, q[j].content.id) = q[j].content
    BY AloneFinds DEF Ids
  <2>3. q[j].content \in Runs(q, c)
    BY <2>1, <2>2 DEF Runs
  <2> QED BY <2>1, <2>3
<1>2. ASSUME NEW r \in Runs(q, c), Proves(r, c) PROVE Chained(q, c)
  <2>1. PICK id \in c.from \intersect Ids(q) : r = ById(q, id) /\ r.type = "completed"
    BY DEF Runs
  <2>2. PICK j \in DOMAIN q : q[j].content.id = id
    BY DEF Ids
  <2>3. r = q[j].content
    BY <2>1, <2>2, AloneFinds
  <2> QED BY <1>2, <2>1, <2>2, <2>3 DEF Chained
<1> QED BY <1>1, <1>2

\* A corpus without failures is a clean one: no order of lines is in what that says.
LEMMA CleanMeans ==
  ASSUME NEW q \in Seq(Docs)
  PROVE  Failures(q) = {} <=> Clean(q)
<1>1. Failures(q) = {} <=> \A i \in DOMAIN q : LineFailures(q, i) = {} /\ EdgeFailures(q, i) = {}
  <2>1. \A i \in DOMAIN q : {<<i, f>> : f \in LineFailures(q, i) \union EdgeFailures(q, i)} = {}
          <=> LineFailures(q, i) = {} /\ EdgeFailures(q, i) = {}
    OBVIOUS
  <2> QED BY <2>1 DEF Failures
<1>2. \A i \in DOMAIN q : LineFailures(q, i) = {} <=>
        /\ Canonical(q[i]) /\ SealHolds(q[i]) /\ q[i].content.sound
        /\ Earliest(q, q[i].content.id) = i
  BY DEF LineFailures
<1>3. (\A i \in DOMAIN q : Earliest(q, q[i].content.id) = i) <=> Alone(q)
  BY AloneFinds DEF Alone
<1>4. ASSUME Alone(q), NEW i \in DOMAIN q
      PROVE  EdgeFailures(q, i) = {} <=>
               LET c == q[i].content
               IN /\ c.id \notin c.from /\ (c.type = "result" => c.base = c.cand)
                  /\ c.type = "result" /\ Measured(c) => Chained(q, c)
  <2> DEFINE c == q[i].content
  <2>1. ById(q, c.id) = c
    BY <1>4, AloneFinds
  <2>2. EdgeFailures(q, i) = {} <=>
          /\ c.id \notin c.from /\ (c.type = "result" => c.base = c.cand)
          /\ c.type = "result" /\ Measured(c) => \E r \in Runs(q, c) : Proves(r, c)
    BY <2>1 DEF EdgeFailures
  <2> QED BY <1>4, <2>2, ChainedRuns
<1> QED BY <1>1, <1>2, <1>3, <1>4 DEF Clean, SoundLine

\* The same lines in another order are as clean.
LEMMA CleanMoves ==
  ASSUME NEW q \in Seq(Docs), NEW r \in Seq(Docs), DOMAIN r = DOMAIN q,
         NEW p \in [DOMAIN q -> DOMAIN q], \A k \in DOMAIN q : p[p[k]] = k /\ r[k] = q[p[k]],
         Clean(q)
  PROVE  Clean(r)
<1>0. \A k \in DOMAIN r : p[k] \in DOMAIN q /\ p[p[k]] = k /\ r[k] = q[p[k]]
  OBVIOUS
<1>1. Alone(r)
  <2>1. \A i, j \in DOMAIN q : q[i].content.id = q[j].content.id => i = j
    BY DEF Clean, Alone
  <2>2. ASSUME NEW i \in DOMAIN r, NEW j \in DOMAIN r, r[i].content.id = r[j].content.id PROVE i = j
    <3>1. p[i] = p[j]
      BY <1>0, <2>1, <2>2
    <3> QED BY <1>0, <3>1
  <2> QED BY <2>2 DEF Alone
<1>2. \A i \in DOMAIN r : SoundLine(r[i])
  BY <1>0 DEF Clean
<1>3. ASSUME NEW c, Chained(q, c) PROVE Chained(r, c)
  <2>1. PICK j \in DOMAIN q : q[j].content.id \in c.from /\ q[j].content.type = "completed" /\ Proves(q[j].content, c)
    BY <1>3 DEF Chained
  <2>2. p[j] \in DOMAIN r /\ r[p[j]] = q[j]
    OBVIOUS
  <2> QED BY <2>1, <2>2 DEF Chained
<1> QED BY <1>1, <1>2, <1>3 DEF Clean

\* Swapping two lines makes no failure and mends none.
LEMMA CorpusOrder ==
  ASSUME corpus \in Seq(Docs)
  PROVE  OrderIsFree
<1> SUFFICES ASSUME NEW i \in DOMAIN corpus, NEW j \in DOMAIN corpus
             PROVE  LET r == [corpus EXCEPT ![i] = corpus[j], ![j] = corpus[i]]
                    IN Failures(r) = {} <=> Failures(corpus) = {}
  BY DEF OrderIsFree
<1> DEFINE r == [corpus EXCEPT ![i] = corpus[j], ![j] = corpus[i]]
           p == [k \in DOMAIN corpus |-> IF k = i THEN j ELSE IF k = j THEN i ELSE k]
<1>1. r \in Seq(Docs) /\ DOMAIN r = DOMAIN corpus
  OBVIOUS
<1>2. p \in [DOMAIN corpus -> DOMAIN corpus]
  OBVIOUS
<1>3. \A k \in DOMAIN corpus : p[p[k]] = k /\ r[k] = corpus[p[k]] /\ corpus[k] = r[p[k]]
  OBVIOUS
<1> HIDE DEF r, p
<1>4. Clean(r) <=> Clean(corpus)
  BY <1>1, <1>2, <1>3, CleanMoves
<1> QED BY <1>1, <1>4, CleanMeans DEF r

\* In a clean corpus each measured result has its simulation on a line of its own.
LEMMA CorpusChained ==
  ASSUME corpus \in Seq(Docs)
  PROVE  CleanIsChained
<1> SUFFICES ASSUME Clean(corpus), NEW i \in DOMAIN corpus
             PROVE  LET c == corpus[i].content
                    IN c.type = "result" /\ c.base + c.cand > 0 =>
              /\ c.base = c.cand
              /\ \E j \in DOMAIN corpus \ {i} :
                   LET r == corpus[j].content
                   IN r.id \in c.from /\ r.type = "completed" /\ r.about = c.about /\ r.base = c.base
  BY CleanMeans DEF CleanIsChained, Clean, Alone
<1> DEFINE c == corpus[i].content
<1>1. SUFFICES ASSUME c.type = "result", c.base + c.cand > 0
               PROVE  /\ c.base = c.cand
                      /\ \E j \in DOMAIN corpus \ {i} :
                           LET r == corpus[j].content
                           IN r.id \in c.from /\ r.type = "completed" /\ r.about = c.about /\ r.base = c.base
  OBVIOUS
<1>2. c \in Contents
  <2>1. corpus[i] \in Docs
    OBVIOUS
  <2> QED BY <2>1 DEF Docs
<1>3. c.base \in Nat /\ c.cand \in Nat
  BY <1>2, CorpusAssumption
<1>4. Measured(c)
  BY <1>1, <1>3 DEF Measured
<1>5. c.id \notin c.from /\ c.base = c.cand /\ Chained(corpus, c)
  BY <1>1, <1>4 DEF Clean, SoundLine
<1> QED BY <1>5 DEF Chained, Proves

-----------------------------------------------------------------------------
(* One line more *)

\* What the lines before are, with another line at the end.
LEMMA OneMore ==
  ASSUME NEW q \in Seq(Docs), q # <<>>
  PROVE  LET n == Len(q)
             b == SubSeq(q, 1, n - 1)
         IN /\ b \in Seq(Docs) /\ n \in DOMAIN q /\ DOMAIN b = 1 .. n - 1 /\ DOMAIN q = 1 .. n
            /\ n \in Nat \ {0} /\ \A i \in DOMAIN b : b[i] = q[i]
            /\ \A id \in Ids(b) : Earliest(q, id) = Earliest(b, id) /\ ById(q, id) = ById(b, id)
            /\ Ids(q) = Ids(b) \union {q[n].content.id}
            /\ q[n].content.id \notin Ids(b) => ById(q, q[n].content.id) = q[n].content
<1> DEFINE n == Len(q)
           b == SubSeq(q, 1, n - 1)
<1>1. n \in Nat \ {0} /\ DOMAIN q = 1 .. n
  BY EmptySeq, LenProperties
<1>2. b \in Seq(Docs) /\ DOMAIN b = 1 .. n - 1 /\ \A i \in 1 .. n - 1 : b[i] = q[i]
  BY <1>1, SubSeqProperties
<1> HIDE DEF n, b
<1>3. ASSUME NEW id \in Ids(b)
      PROVE  Earliest(q, id) = Earliest(b, id) /\ ById(q, id) = ById(b, id)
  <2>1. First(b, id, Earliest(b, id))
    BY <1>2, FirstIsThere
  <2>2. First(q, id, Earliest(b, id))
    BY <1>1, <1>2, <2>1 DEF First
  <2>3. Earliest(q, id) = Earliest(b, id)
    BY <2>2, FirstIsOne
  <2> QED BY <1>2, <2>1, <2>3 DEF ById, First
<1>4. Ids(q) = Ids(b) \union {q[n].content.id}
  <2>1. \A i \in DOMAIN q : i = n \/ i \in DOMAIN b
    BY <1>1, <1>2
  <2> QED BY <1>1, <1>2, <2>1 DEF Ids
<1>5. ASSUME q[n].content.id \notin Ids(b)
      PROVE  ById(q, q[n].content.id) = q[n].content
  <2>1. First(q, q[n].content.id, n)
    BY <1>1, <1>2, <1>5 DEF First, Ids
  <2> QED BY <2>1, FirstIsOne DEF ById
<1> QED BY <1>1, <1>2, <1>3, <1>4, <1>5 DEF n, b

\* Another line mends nothing but a result that waited for its simulation.
LEMMA CorpusAdds ==
  ASSUME corpus \in Seq(Docs)
  PROVE  NothingGlossedOver
<1> DEFINE q == corpus
           n == Len(q)
           b == SubSeq(q, 1, n - 1)
           c == q[n].content
<1> SUFFICES ASSUME q # <<>>, NEW f \in Failures(b) \ Failures(q)
             PROVE  /\ f[2] \in {"unchained", "unproven"} /\ c.type = "completed"
                    /\ c.id \in q[f[1]].content.from /\ c.id \notin Ids(b)
  BY DEF NothingGlossedOver
<1>1. /\ b \in Seq(Docs) /\ DOMAIN b \subseteq DOMAIN q /\ \A i \in DOMAIN b : b[i] = q[i]
      /\ \A id \in Ids(b) : Earliest(q, id) = Earliest(b, id) /\ ById(q, id) = ById(b, id)
      /\ Ids(q) = Ids(b) \union {c.id}
      /\ c.id \notin Ids(b) => ById(q, c.id) = c
  BY OneMore
<1> HIDE DEF n, b, c
<1>2. PICK i \in DOMAIN b : \E h \in LineFailures(b, i) \union EdgeFailures(b, i) : f = <<i, h>>
  BY DEF Failures
<1> PICK g \in LineFailures(b, i) \union EdgeFailures(b, i) : f = <<i, g>>
  BY <1>2
<1>3. i \in DOMAIN q /\ b[i] = q[i] /\ q[i].content.id \in Ids(b)
  BY <1>1, <1>2 DEF Ids
<1>4. g \notin LineFailures(q, i) /\ g \notin EdgeFailures(q, i)
  <2>1. g \notin LineFailures(q, i) \union EdgeFailures(q, i)
    BY <1>2, <1>3 DEF Failures
  <2> QED BY <2>1
<1>5. LineFailures(b, i) = LineFailures(q, i)
  BY <1>1, <1>3 DEF LineFailures
<1>6. g \in EdgeFailures(b, i)
  BY <1>2, <1>4, <1>5
<1> DEFINE own == q[i].content
<1>7. ById(b, own.id) = ById(q, own.id)
  BY <1>1, <1>3
<1>8. Runs(b, own) \subseteq Runs(q, own)
  BY <1>1 DEF Runs
<1>9. ASSUME NEW r \in Runs(q, own), r \notin Runs(b, own)
      PROVE  c.type = "completed" /\ c.id \in own.from /\ c.id \notin Ids(b)
  <2>1. PICK id \in own.from \intersect Ids(q) : r = ById(q, id) /\ r.type = "completed"
    BY <1>9 DEF Runs
  <2>2. id \notin Ids(b)
    BY <1>1, <1>9, <2>1 DEF Runs
  <2> QED BY <1>1, <2>1, <2>2
<1>10. g \in {"unchained", "unproven"} /\ \E r \in Runs(q, own) : r \notin Runs(b, own)
  BY <1>3, <1>4, <1>6, <1>7, <1>8 DEF EdgeFailures
<1> QED BY <1>2, <1>9, <1>10

\* Documents are opened as they were wrapped, a clean corpus chains every measurement, no
\* order of its lines makes it clean, and no later line glosses over a failure: for any contents,
\* keys and damage.
THEOREM CorpusSoundCorrect == CorpusSpec => []CorpusSound
<1>1. CorpusInit => CorpusShape /\ OpenedAsWrapped
  BY DEF CorpusInit, CorpusShape, OpenedAsWrapped, Nothing
<1>2. CorpusShape /\ OpenedAsWrapped /\ [CorpusNext]_corpusVars => CorpusShape' /\ OpenedAsWrapped'
  BY CorpusStep
<1>3. CorpusShape /\ OpenedAsWrapped => CorpusSound
  BY CorpusChained, CorpusOrder, CorpusAdds DEF CorpusShape, CorpusSound
<1> QED BY <1>1, <1>2, <1>3, PTL DEF CorpusSpec

-----------------------------------------------------------------------------
(* The parts as one run checks them *)

\* What is learnt, recalled and told, in the run that checks the three beside the page store: a
\* step of one part leaves the others as they are.
THEOREM LearningSoundCorrect == StoresSpec => []LearningSound
<1>1. StoresSpec => HealSpec /\ RecallSpec /\ CorpusSpec
  <2>1. StoresInit => HealInit /\ RecallInit /\ CorpusInit
    BY DEF StoresInit
  <2>2. [StoresNext]_<<part, vars, healVars, recallVars, corpusVars>>
          => [HealNext]_healVars /\ [RecallNext]_recallVars /\ [CorpusNext]_corpusVars
    BY DEF StoresNext
  <2> QED BY <2>1, <2>2, PTL DEF StoresSpec, HealSpec, RecallSpec, CorpusSpec
<1> QED BY <1>1, HealSoundCorrect, RecallSoundCorrect, CorpusSoundCorrect, PTL DEF LearningSound
=============================================================================
