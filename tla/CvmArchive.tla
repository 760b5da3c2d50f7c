----------------------------- MODULE CvmArchive -----------------------------
(***************************************************************************)
(* What the page store promises its callers                                *)
(* (axiom_engine_rs/src/cvm_store.rs, the comments on CvmStore and put):   *)
(* a session is a queue of pages, oldest first.  A put adds its page at    *)
(* the end and may cost the session its oldest pages, no more than the     *)
(* per-session cap requires; it may also cost other sessions everything    *)
(* they hold, when the disk bound deletes their files.  A delete empties   *)
(* one session.  Nothing else changes what can be recovered.               *)
(***************************************************************************)
EXTENDS Integers, Sequences, SequencesExt

CONSTANTS Sessions, Pages, Bytes, MaxSessionBytes

VARIABLE archive   \* archive[s]: the recoverable pages of s, oldest first

Size(q) == FoldLeft(LAMBDA acc, p : acc + Bytes[p], 0, q)
Drop(q, k) == SubSeq(q, k + 1, Len(q))

Init == archive = [s \in Sessions |-> <<>>]

Put(s, p) ==
  LET q == Append(archive[s], p) IN
  /\ ~Contains(archive[s], p)
  /\ \E k \in 0 .. Len(archive[s]), lost \in SUBSET (Sessions \ {s}) :
       /\ \A j \in 0 .. k - 1 : Size(Drop(q, j)) > MaxSessionBytes
       /\ archive' = [r \in Sessions |-> IF r = s THEN Drop(q, k)
                                         ELSE IF r \in lost THEN <<>> ELSE archive[r]]

Delete(s) == archive' = [archive EXCEPT ![s] = <<>>]

Next == \E s \in Sessions : Delete(s) \/ \E p \in Pages : Put(s, p)

Spec == Init /\ [][Next]_archive
=============================================================================
