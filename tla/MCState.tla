------------------------------ MODULE MCState -------------------------------
(***************************************************************************)
(* Small instances of four components that share no state, checked by one  *)
(* run: the session table with its budget, the weights behind the message  *)
(* routes, the exchange of differences between nodes and the tasks of      *)
(* agents.  `part`, chosen once among Parts, says which of them takes      *)
(* steps; the others stay in their initial state, one where there are      *)
(* several.                                                                *)
(***************************************************************************)
EXTENDS ServerSessions, FastWeights, WeightExchange, AgentTask, TLC

CONSTANTS s1, s2, pa, pb, va, vb, Parts

VARIABLE part

\* s2 is an id that a client chose and that extends s1.
MCBeneath == s1 :> {s1, s2} @@ s2 :> {s2}

Edit(p, v) == [path |-> p, content |-> v]

\* Nothing at all; one file; two files in both orders, whose effects are the
\* same; one file twice; two files with other contents.
Proposals == {<<>>, <<Edit(pa, va)>>, <<Edit(pa, va), Edit(pb, vb)>>,
              <<Edit(pb, vb), Edit(pa, va)>>, <<Edit(pa, va), Edit(pa, vb)>>}

StateInit ==
  /\ part \in Parts
  /\ SessInit /\ WeightInit /\ ExchangeInit
  /\ Init /\ (part # "tasks" => files = [p \in Paths |-> Absent])

StateNext ==
  /\ part' = part
  /\ \/ /\ part = "sessions" /\ SessNext
        /\ UNCHANGED <<weightVars, exchangeVars, vars>>
     \/ /\ part = "weights" /\ WeightNext
        /\ UNCHANGED <<sessVars, exchangeVars, vars>>
     \/ /\ part = "exchange" /\ ExchangeNext
        /\ UNCHANGED <<sessVars, weightVars, vars>>
     \/ /\ part = "tasks" /\ Next
        /\ UNCHANGED <<sessVars, weightVars, exchangeVars>>

\* Each component's own fairness, while it is the one that takes steps.
StateSpec ==
  /\ StateInit
  /\ [][StateNext]_<<part, sessVars, weightVars, exchangeVars, vars>>
  /\ \A o \in Offloads : WF_offload(part = "sessions" /\ OffloadStep(o))
  /\ WF_exchangeVars(part = "exchange" /\ \E f \in stamped : Enqueue(f))
  /\ WF_exchangeVars(part = "exchange" /\ \E m \in frames : \E again \in Copies(m) : Deliver(m, again))
  /\ \A p \in Proxies :
       /\ WF_exchangeVars(part = "exchange" /\ Take(p))
       /\ WF_exchangeVars(part = "exchange" /\ Consume(p))
       /\ WF_exchangeVars(part = "exchange" /\ \E m \in sending[p], arrives \in BOOLEAN : Transmit(p, m, arrives))

\* What a node holds is well formed, adapted weights are reused only while they
\* are there, the cache on disk holds what memory holds, and the cap on adapted
\* weights is exceeded by no more than the requests that overlap.
NodeSound == SessTypeOK /\ WeightsSound

\* What a node does behind its clients' backs settles: the offload brings the
\* sessions back within their budget, and the queues of the exchange run dry.
NodeSettles == BudgetRestored /\ ExchangeSettles
=============================================================================
