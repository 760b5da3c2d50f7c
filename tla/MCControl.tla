------------------------------ MODULE MCControl ------------------------------
(***************************************************************************)
(* Small instances of seven components that share no state, checked by one *)
(* run: the cache keepalive, the frozen prefix of a prompt, the choice of  *)
(* a model for a turn, the agentic loop, the solve loop, the mesh          *)
(* controller and the WebSocket relay.  `part`, chosen once, says which of *)
(* them takes steps; the others stay in their initial state, one where     *)
(* there are several.                                                      *)
(***************************************************************************)
EXTENDS Keepalive, PromptPrefix, TurnRoute, AgenticLoop, SolveLoop, MeshPrime, FrameRelay

CONSTANTS pa, pb, va, vb

VARIABLE part

Edit(p, v) == [path |-> p, content |-> v]

\* Agentic loop: nothing; one file; two files, in both orders; one file twice.
Proposals == {<<>>, <<Edit(pa, va)>>, <<Edit(pa, vb)>>, <<Edit(pa, va), Edit(pb, vb)>>,
              <<Edit(pb, vb), Edit(pa, va)>>, <<Edit(pa, vb), Edit(pa, va)>>}

\* The train suite looks at one file, the held-out suite at the other.
TrainTrees   == {F \in [Paths -> Held] : F[pa] = va}
HeldOutTrees == {F \in [Paths -> Held] : F[pb] \in {vb, Dir}}

ControlInit ==
  /\ part \in {"keepalive", "prefix", "route", "loop", "solve", "mesh", "relay"}
  /\ Init /\ PrefixInit /\ MeshInit /\ FrameInit
  /\ RouteInit /\ (part # "route" => mode = "off" /\ swarm /\ cloud)
  /\ LoopInit /\ (part # "loop" => files = [p \in Paths |-> Absent])
  /\ SolveInit /\ (part # "solve" => ~learned /\ patches = {})

ControlNext ==
  /\ part' = part
  /\ \/ /\ part = "keepalive" /\ Next
        /\ UNCHANGED <<prefixVars, routeVars, loopAllVars, solveVars, meshVars, relayVars>>
     \/ /\ part = "prefix" /\ PrefixNext
        /\ UNCHANGED <<vars, routeVars, loopAllVars, solveVars, meshVars, relayVars>>
     \/ /\ part = "route" /\ RouteNext
        /\ UNCHANGED <<vars, prefixVars, loopAllVars, solveVars, meshVars, relayVars>>
     \/ /\ part = "loop" /\ LoopNext
        /\ UNCHANGED <<vars, prefixVars, routeVars, solveVars, meshVars, relayVars>>
     \/ /\ part = "solve" /\ SolveNext
        /\ UNCHANGED <<vars, prefixVars, routeVars, loopAllVars, meshVars, relayVars>>
     \/ /\ part = "mesh" /\ MeshNext
        /\ UNCHANGED <<vars, prefixVars, routeVars, loopAllVars, solveVars, relayVars>>
     \/ /\ part = "relay" /\ FrameNext
        /\ UNCHANGED <<vars, prefixVars, routeVars, loopAllVars, solveVars, meshVars>>

\* Each component's own fairness, while it is the one that takes steps.
ControlSpec ==
  /\ ControlInit
  /\ [][ControlNext]_<<part, vars, prefixVars, routeVars, loopAllVars, solveVars, meshVars,
                     relayVars>>
  /\ WF_vars(part = "keepalive" /\ Progress)
  /\ WF_meshVars(part = "mesh" /\ Runner)
  /\ WF_meshVars(part = "mesh" /\ ~Terminal /\ \E c \in running : Refused(c) \/ Timeout(c))
  /\ \A d \in Ways : WF_relayVars(part = "relay" /\ (Take(d) \/ Pass(d) \/ Finish(d)))

\* No timer, loop or round goes on for ever: every keepalive timer ends, the
\* controller of the mesh converges or halts, and a relay ends when one of its sides leaves.
LoopsEnd == TimersEnd /\ ControllerEnds /\ RelayEnds

\* Shape of the state of each component.
ControlTypesOK == TypeOK /\ PrefixTypeOK /\ RouteTypeOK /\ LoopTypeOK
=============================================================================
