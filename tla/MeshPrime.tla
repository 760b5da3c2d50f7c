----------------------------- MODULE MeshPrime ------------------------------
(***************************************************************************)
(* The mesh orchestrator (axiom_mesh_rs): the state machine of axiom_prime *)
(* (fsm.rs) driven by the loop of main.rs, the mesh it routes over, the    *)
(* failure streaks that quarantine a node, and the line protocol spoken    *)
(* with a worker process (axiom_mcp/transport.rs), whose calls time out    *)
(* while the worker still answers them.                                    *)
(*                                                                         *)
(* Abstractions.  The residual is the number of successful calls it still  *)
(* takes to come within epsilon (each shrinks it by the factor 0.6).  The  *)
(* Gumbel draw of forward may name any set of nodes of the size it routes  *)
(* to.  A call's payload is its id; lines are whole, because a conditioned *)
(* payload is far below the capacity of a pipe.  Mocks are the nodes wired *)
(* to a transport that always fails.                                       *)
(***************************************************************************)
EXTENDS Integers, Sequences, FiniteSets

CONSTANTS
  Nodes, Mocks,   \* the workers, and those whose transport always fails
  FanOut,         \* MeshConfig::fan_out
  Quarantine,     \* QUARANTINE_THRESHOLD
  Gap,            \* successful calls to convergence
  WorkersExit     \* whether a worker process may exit

ASSUME MeshAssumption ==
  /\ IsFiniteSet(Nodes) /\ Mocks \subseteq Nodes
  /\ FanOut \in Nat \ {0} /\ Quarantine \in Nat \ {0} /\ Gap \in Nat

VARIABLES
  control,   \* PrimeFsm::state: [at, pending]
  commands,  \* the runner's queue, popped at its end
  members,   \* the nodes of the mesh
  load,      \* in_flight
  streak,    \* NodeHealth::consecutive_failures
  gap,       \* what is left of the residual
  running,     \* spawned run_worker tasks: [node, id, at]
  mailbox,   \* the mpsc channel: [node, id, answer], answer 0 for a failure
  issued,    \* next_id - 1 of each transport
  pipe,      \* requests a worker has not read
  replies,   \* answers its transport has not read
  alive      \* the worker processes

meshVars == <<control, commands, members, load, streak, gap,
              running, mailbox, issued, pipe, replies, alive>>
wireVars == <<issued, pipe, replies, alive>>
healthVars == <<members, load, streak, gap>>

Awaiting(n) == [at |-> "awaiting", pending |-> n]
At(s) == [at |-> s, pending |-> 0]
Terminal == control.at \in {"converged", "halted"}

MeshInit ==
  /\ control = At("idle") /\ commands = <<>>
  /\ members = Nodes /\ load = [n \in Nodes |-> 0] /\ streak = [n \in Nodes |-> 0]
  /\ gap = Gap
  /\ running = {} /\ mailbox = <<>>
  /\ issued = [n \in Nodes |-> 0]
  /\ pipe = [n \in Nodes |-> <<>>] /\ replies = [n \in Nodes |-> <<>>]
  /\ alive = [n \in Nodes |-> n \notin Mocks]

-----------------------------------------------------------------------------
(* The state machine: an event moves it and adds at most one command; one  *)
(* it does not expect changes nothing.                                     *)

Command(op) == [op |-> op, nodes |-> {}]
DispatchTo(S) == [op |-> "dispatch", nodes |-> S]

Moves(to, rest, new) == control' = to /\ commands' = Append(rest, new)

GoalLoaded(rest) == control.at = "idle" /\ Moves(At("sensing"), rest, Command("fuse"))

Sensed(converged, rest) ==
  IF converged THEN Moves(At("converged"), rest, Command("announce"))
               ELSE Moves(At("routing"), rest, Command("route"))

Routed(S, rest) == Moves(Awaiting(Cardinality(S)), rest, DispatchTo(S))

Fault(rest) == Moves(At("halted"), rest, Command("announce"))

WorkerDone(rest) ==
  IF control.at # "awaiting" THEN UNCHANGED control /\ commands' = rest
  ELSE IF control.pending <= 1 THEN Moves(At("sensing"), rest, Command("fuse"))
  ELSE control' = Awaiting(control.pending - 1) /\ commands' = rest

-----------------------------------------------------------------------------
(* The runner *)

\* The loop pops a command unless the machine has reached its end.
Popped == commands[Len(commands)]
Rest == SubSeq(commands, 1, Len(commands) - 1)
Executes(op) == ~Terminal /\ commands # <<>> /\ Popped.op = op

Start ==
  /\ GoalLoaded(commands)
  /\ UNCHANGED <<healthVars, running, mailbox, wireVars>>

FuseSensors ==
  /\ Executes("fuse")
  /\ Sensed(gap = 0, Rest)
  /\ UNCHANGED <<healthVars, running, mailbox, wireVars>>

\* MIN(fan_out, nodes), at least 1.
Slots(S) == IF FanOut < Cardinality(S) THEN FanOut ELSE Cardinality(S)

RouteResidual ==
  /\ Executes("route")
  /\ \/ members = {} /\ Fault(Rest)
     \/ \E S \in SUBSET members :
          members # {} /\ Cardinality(S) = Slots(members) /\ Routed(S, Rest)
  /\ UNCHANGED <<healthVars, running, mailbox, wireVars>>

\* mesh.node(id).expect("routed node exists") holds by CalledAreMembers.
Dispatch ==
  /\ Executes("dispatch")
  /\ load' = [n \in Nodes |-> IF n \in Popped.nodes THEN load[n] + 1 ELSE load[n]]
  /\ issued' = [n \in Nodes |-> IF n \in Popped.nodes THEN issued[n] + 1 ELSE issued[n]]
  /\ running' = running \union {[node |-> n, id |-> issued[n] + 1, at |-> "queued"] : n \in Popped.nodes}
  /\ commands' = Rest
  /\ UNCHANGED <<control, members, streak, gap, mailbox, pipe, replies, alive>>

Idle(n) == [load EXCEPT ![n] = IF n \in members /\ @ > 0 THEN @ - 1 ELSE @]

Succeeds(n) ==
  /\ streak' = [streak EXCEPT ![n] = 0]
  /\ gap' = IF gap > 0 THEN gap - 1 ELSE 0
  /\ load' = Idle(n)
  /\ UNCHANGED members

\* A removal rebuilds the mesh and forgets what is in flight everywhere.
Fails(n) ==
  /\ streak' = [streak EXCEPT ![n] = @ + 1]
  /\ IF streak'[n] >= Quarantine /\ n \in members
     THEN members' = members \ {n} /\ load' = [m \in Nodes |-> 0]
     ELSE load' = Idle(n) /\ UNCHANGED members
  /\ UNCHANGED gap

Receive ==
  /\ ~Terminal /\ commands = <<>> /\ mailbox # <<>>
  /\ LET m == Head(mailbox)
     IN IF m.answer # 0 THEN Succeeds(m.node) ELSE Fails(m.node)
  /\ WorkerDone(<<>>)
  /\ mailbox' = Tail(mailbox)
  /\ UNCHANGED <<running, wireVars>>

-----------------------------------------------------------------------------
(* A call over the wire *)

Resolve(c, answer) ==
  /\ running' = running \ {c}
  /\ mailbox' = Append(mailbox, [node |-> c.node, id |-> c.id, answer |-> answer])
  /\ UNCHANGED <<control, commands, healthVars, issued, alive>>

\* The lock on the pipes spans the request and its answer.
WriteLine(c) ==
  /\ c.at = "queued" /\ alive[c.node]
  /\ \A d \in running : d.node = c.node => d.at = "queued"
  /\ pipe' = [pipe EXCEPT ![c.node] = Append(@, c.id)]
  /\ running' = (running \ {c}) \union {[c EXCEPT !.at = "sent"]}
  /\ UNCHANGED <<control, commands, healthVars, mailbox, issued, replies, alive>>

\* A mock's error, or a broken pipe.
Refused(c) ==
  /\ c.at = "queued" /\ ~alive[c.node]
  /\ Resolve(c, 0) /\ UNCHANGED <<pipe, replies>>

\* Answers to other calls are skipped.
AnyReply(c) ==                            \* mutant: the id is not compared
  /\ c.at = "sent" /\ replies[c.node] # <<>>
  /\ replies' = [replies EXCEPT ![c.node] = Tail(@)]
  /\ Resolve(c, Head(replies[c.node]))
  /\ UNCHANGED pipe
ReadReply(c) ==
  /\ c.at = "sent" /\ replies[c.node] # <<>>
  /\ replies' = [replies EXCEPT ![c.node] = Tail(@)]
  /\ IF Head(replies[c.node]) = c.id
     THEN Resolve(c, c.id)
     ELSE UNCHANGED <<control, commands, healthVars, running, mailbox, issued, alive>>
  /\ UNCHANGED pipe

Closed(c) ==
  /\ c.at = "sent" /\ ~alive[c.node] /\ replies[c.node] = <<>>
  /\ Resolve(c, 0) /\ UNCHANGED <<pipe, replies>>

\* The timeout covers the wait for the lock; the request stays in the pipe.
WaitsOnly(c) ==                           \* mutant: only the wait for the lock is timed
  c.at = "queued" /\ Resolve(c, 0) /\ UNCHANGED <<pipe, replies>>
Timeout(c) ==
  c.node \notin Mocks /\ Resolve(c, 0) /\ UNCHANGED <<pipe, replies>>

\* aether_worker answers line by line, however late.
Reply(n) ==
  /\ alive[n] /\ pipe[n] # <<>>
  /\ replies' = [replies EXCEPT ![n] = Append(@, Head(pipe[n]))]
  /\ pipe' = [pipe EXCEPT ![n] = Tail(@)]
  /\ UNCHANGED <<control, commands, healthVars, running, mailbox, issued, alive>>

Exit(n) ==
  /\ WorkersExit /\ alive[n]
  /\ alive' = [alive EXCEPT ![n] = FALSE] /\ pipe' = [pipe EXCEPT ![n] = <<>>]
  /\ UNCHANGED <<control, commands, healthVars, running, mailbox, issued, replies>>

-----------------------------------------------------------------------------
Runner == Start \/ FuseSensors \/ RouteResidual \/ Dispatch \/ Receive
Task(c) == WriteLine(c) \/ Refused(c) \/ ReadReply(c) \/ Closed(c) \/ Timeout(c)
Worker(n) == Reply(n) \/ Exit(n)

\* The process ends with the loop, and its tasks and workers with it.
MeshNext ==
  \/ Runner
  \/ ~Terminal /\ \E c \in running : Task(c)
  \/ ~Terminal /\ \E n \in Nodes : Worker(n)

\* The loop is one task of the runtime, and the clock reaches every timeout;
\* nothing is assumed of a worker process.
MeshFairness ==
  /\ WF_meshVars(Runner)
  /\ WF_meshVars(~Terminal /\ \E c \in running : Refused(c) \/ Timeout(c))

MeshSpec == MeshInit /\ [][MeshNext]_meshVars /\ MeshFairness

-----------------------------------------------------------------------------
(* Properties *)

Requested == UNION {commands[i].nodes : i \in DOMAIN commands}

\* The count a round waits for is exactly the calls it has not heard of, to
\* be spawned, running or in the channel; outside a round there are none.  So
\* a completion never counts for another round, though WorkerDone names none,
\* and no round waits for nobody.
PendingExact ==
  /\ control.pending = Cardinality(Requested) + Cardinality(running) + Len(mailbox)
  /\ control.at = "awaiting" <=> control.pending > 0

\* Whoever is called is in the mesh, so the runner's expect never fails and
\* a quarantined node gets no further call; and no node in the mesh has
\* reached the streak that quarantines it.
CalledAreMembers ==
  /\ Requested \subseteq members
  /\ \A c \in running : c.node \in members
  /\ \A n \in members : streak[n] < Quarantine

\* What a call reports as its answer is the answer to it, however many
\* earlier calls have timed out and been answered late.
AnswersAreOwn ==
  \A i \in DOMAIN mailbox : mailbox[i].answer \in {0, mailbox[i].id}

\* What completions and answers promise the round they are counted for.
CompletionsSound == PendingExact /\ AnswersAreOwn

\* Once it has its goal the controller converges or halts, though any worker
\* may hang.
ControllerEnds == control.at # "idle" ~> Terminal

\* A command the machine requests is executed.
CommandsRun == [](commands # <<>> => <>(commands = <<>>))
=============================================================================
