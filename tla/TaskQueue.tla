----------------------------- MODULE TaskQueue ------------------------------
(***************************************************************************)
(* What the task board promises the agents that share it                   *)
(* (axiom_engine_rs/src/task_board.rs, module comment and README): every   *)
(* channel is a list of tasks in posting order, and posting, claiming the  *)
(* best pending task and reporting a result each take effect at once.      *)
(***************************************************************************)
EXTENDS Integers, Sequences

CONSTANTS Stems, Tasks, MaxPriority

VARIABLE board    \* board[f]: the entries of channel file f, oldest first

Entries == [id : Tasks, priority : 0 .. MaxPriority,
            status : {"pending", "claimed", "done", "failed"}]

Best(q, i) ==
  /\ i \in DOMAIN q /\ q[i].status = "pending"
  /\ \A j \in DOMAIN q : q[j].status = "pending" =>
       \/ q[i].priority > q[j].priority
       \/ q[i].priority = q[j].priority /\ i <= j

Init == board = [f \in Stems |-> <<>>]

Post(f) == \E e \in Entries :
  /\ e.status = "pending"
  /\ \A g \in Stems : \A i \in DOMAIN board[g] : board[g][i].id # e.id
  /\ board' = [board EXCEPT ![f] = Append(@, e)]

Claim(f) == \E i \in DOMAIN board[f] :
  /\ Best(board[f], i)
  /\ board' = [board EXCEPT ![f][i].status = "claimed"]

Finish(f) == \E i \in DOMAIN board[f], s \in {"done", "failed"} :
  board' = [board EXCEPT ![f][i].status = s]

Next == \E f \in Stems : Post(f) \/ Claim(f) \/ Finish(f)

Spec == Init /\ [][Next]_board
=============================================================================
