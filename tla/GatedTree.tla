----------------------------- MODULE GatedTree ------------------------------
(***************************************************************************)
(* What the agent task server promises about the working tree              *)
(* (axiom_engine_rs/src/agent_task.rs, module comment): it changes only    *)
(* when a whole edit set is accepted, or when an abort puts files back as  *)
(* the task found them.                                                    *)
(***************************************************************************)
EXTENDS Integers, Sequences

CONSTANTS Paths, Contents, Absent, Dir, NotTaken, EditSets, Tasks

VARIABLES tree,    \* what each path holds
          found,   \* what each task found when it was started
          verdict  \* what became of the last proposal: "none" while it is open

vars == <<tree, found, verdict>>

NotStarted == [p \in Paths |-> NotTaken]

Init ==
  /\ tree \in [Paths -> Contents \union {Absent, Dir}]
  /\ found = [t \in Tasks |-> NotStarted]
  /\ verdict = "none"

Open(t) ==
  /\ found[t] = NotStarted
  /\ found' = [found EXCEPT ![t] = tree] /\ UNCHANGED <<tree, verdict>>

Consider == verdict' = "none" /\ UNCHANGED <<tree, found>>

\* Of two edits of one path the last wins.
Accept(E) ==
  /\ verdict = "none" /\ verdict' = "passed"
  /\ tree' = [p \in Paths |->
       LET I == {i \in DOMAIN E : E[i].path = p} IN
       IF I = {} THEN tree[p] ELSE E[CHOOSE i \in I : \A j \in I : j <= i].content]
  /\ UNCHANGED found

Refuse == verdict = "none" /\ verdict' = "rejected" /\ UNCHANGED <<tree, found>>

Abort(t, A) ==
  /\ found[t] # NotStarted /\ verdict' = "none"
  /\ tree' = [p \in Paths |-> IF p \in A THEN found[t][p] ELSE tree[p]]
  /\ UNCHANGED found

Next ==
  \/ \E E \in EditSets : Accept(E)
  \/ Consider \/ Refuse
  \/ \E t \in Tasks : Open(t) \/ \E A \in SUBSET Paths : Abort(t, A)

Spec == Init /\ [][Next]_vars
=============================================================================
