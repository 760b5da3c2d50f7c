------------------------------- MODULE Daemon -------------------------------
(***************************************************************************)
(* axiom daemon start and stop, from the command line and the dashboard,   *)
(* over one pid file, and the servers they start and end (daemon.rs,       *)
(* server/run.rs).                                                         *)
(*                                                                         *)
(* A server that has ended stays a zombie while the process that started   *)
(* it lives on without waiting for it (the dashboard), and still counts as *)
(* existing.  A pid may be used again by a process that is none of ours.   *)
(* Configuration, logs and the endpoint are left out; a pid file that is   *)
(* missing, empty or unreadable as a number names nobody.                  *)
(***************************************************************************)
EXTENDS Naturals, FiniteSets

CONSTANTS
  Pids,
  Tools,        \* command lines and dashboards
  Dashboards,   \* those that go on after a command
  Nobody,       \* no pid
  DaemonFaults, \* of "dies", "reuse", "cut"
  MaxStarts     \* bound of the model: servers started

ASSUME DaemonAssumption == Dashboards \subseteq Tools /\ Nobody \notin Pids /\ MaxStarts \in Nat

VARIABLES
  process,    \* what each pid is
  parent,     \* the tool that started it
  pidFile,
  tool,       \* what each tool is doing, and with which pid
  starts,
  crossed,    \* history: two tools were at work at once
  astray      \* history: a server was started and its pid not written

daemonVars == <<process, parent, pidFile, tool, starts, crossed, astray>>

Doing(pc, what, pid) == [pc |-> pc, what |-> what, pid |-> pid]
Idle == Doing("idle", "none", Nobody)

DaemonInit ==
  /\ process = [p \in Pids |-> "free"]
  /\ parent = [p \in Pids |-> CHOOSE t \in Tools : TRUE]
  /\ pidFile = Nobody
  /\ tool = [t \in Tools |-> Idle]
  /\ starts = 0 /\ crossed = FALSE /\ astray = FALSE

Does(t, r) == tool' = [tool EXCEPT ![t] = r]
Exists(p) == p # Nobody /\ process[p] # "free"

-----------------------------------------------------------------------------
(* start and stop *)

ReadPid(t, what) ==
  /\ tool[t] = Idle
  /\ Does(t, Doing("read", what, pidFile))
  /\ crossed' = (crossed \/ \E u \in Tools : tool[u] # Idle)
  /\ UNCHANGED <<process, parent, pidFile, starts, astray>>

\* kill -0
NoProbe(t) == tool[t].what = "start"      \* mutant: start does not ask whether it runs
Finds(t) == tool[t].what = "start" /\ ~Exists(tool[t].pid)
Probe(t) ==
  /\ tool[t].pc = "read"
  /\ Does(t, IF Finds(t) THEN Doing("spawn", "start", Nobody)
             ELSE IF tool[t].what = "start" THEN Idle
             ELSE IF Exists(tool[t].pid) THEN [tool[t] EXCEPT !.pc = "kill"]
             ELSE [tool[t] EXCEPT !.pc = "remove"])
  /\ UNCHANGED <<process, parent, pidFile, starts, crossed, astray>>

Spawn(t, p) ==
  /\ tool[t].pc = "spawn" /\ process[p] = "free" /\ starts < MaxStarts
  /\ starts' = starts + 1
  /\ process' = [process EXCEPT ![p] = "loading"]
  /\ parent' = [parent EXCEPT ![p] = t]
  /\ Does(t, Doing("truncate", "start", p))
  /\ UNCHANGED <<pidFile, crossed, astray>>

\* fs::write, and then start says that the server runs.
TruncatePid(t) ==
  /\ tool[t].pc = "truncate"
  /\ pidFile' = Nobody
  /\ Does(t, [tool[t] EXCEPT !.pc = "fill"])
  /\ UNCHANGED <<process, parent, starts, crossed, astray>>

FillPid(t) ==
  /\ tool[t].pc = "fill"
  /\ pidFile' = tool[t].pid
  /\ Does(t, Idle)
  /\ UNCHANGED <<process, parent, starts, crossed, astray>>

\* The write fails, or the tool ends before it.
WriteCut(t) ==
  /\ "cut" \in DaemonFaults /\ tool[t].pc \in {"truncate", "fill"}
  /\ Does(t, Idle) /\ astray' = TRUE
  /\ UNCHANGED <<process, parent, pidFile, starts, crossed>>

\* What is left of a process that ends: its entry, if its parent is still there.
Leaves(p) == IF parent[p] \in Dashboards /\ process[p] # "stranger" THEN "zombie" ELSE "free"

\* SIGTERM: a server that listens ends in its own time, one that still loads
\* its model at once; a stop that cannot signal leaves the pid file.
Kill(t) ==
  LET p == tool[t].pid
  IN /\ tool[t].pc = "kill"
     /\ IF Exists(p)
        THEN /\ process' = [process EXCEPT ![p] = IF @ \in {"serving", "ending"} THEN "ending"
                                                  ELSE IF @ = "zombie" THEN @ ELSE Leaves(p)]
             /\ Does(t, [tool[t] EXCEPT !.pc = "remove"])
        ELSE Does(t, Idle) /\ UNCHANGED process
     /\ UNCHANGED <<parent, pidFile, starts, crossed, astray>>

RemovePid(t) ==
  /\ tool[t].pc = "remove"
  /\ pidFile' = Nobody
  /\ Does(t, Idle)
  /\ UNCHANGED <<process, parent, starts, crossed, astray>>

-----------------------------------------------------------------------------
(* The servers *)

Ends(p) ==
  /\ process' = [process EXCEPT ![p] = Leaves(p)]
  /\ UNCHANGED <<parent, pidFile, tool, starts, crossed, astray>>

\* The port is free, or held by a server that no longer listens.
Bind(p) ==
  /\ process[p] = "loading" /\ \A q \in Pids : process[q] # "serving"
  /\ process' = [process EXCEPT ![p] = "serving"]
  /\ UNCHANGED <<parent, pidFile, tool, starts, crossed, astray>>

BindFails(p) ==
  /\ process[p] = "loading" /\ \E q \in Pids : process[q] \in {"serving", "ending"}
  /\ Ends(p)

Ended(p) == process[p] = "ending" /\ Ends(p)

Dies(p) == "dies" \in DaemonFaults /\ process[p] \in {"loading", "serving"} /\ Ends(p)

\* A dashboard is closed, and its zombies with it; its servers go on.
Close(t) ==
  /\ t \in Dashboards /\ tool[t] = Idle
  /\ \E p \in Pids : process[p] = "zombie" /\ parent[p] = t
  /\ process' = [p \in Pids |-> IF process[p] = "zombie" /\ parent[p] = t THEN "free" ELSE process[p]]
  /\ UNCHANGED <<parent, pidFile, tool, starts, crossed, astray>>

Reused(p) ==
  /\ "reuse" \in DaemonFaults /\ process[p] = "free"
  /\ process' = [process EXCEPT ![p] = "stranger"]
  /\ UNCHANGED <<parent, pidFile, tool, starts, crossed, astray>>

DaemonNext ==
  \/ \E t \in Tools :
       \/ \E what \in {"start", "stop"} : ReadPid(t, what)
       \/ Probe(t) \/ TruncatePid(t) \/ FillPid(t) \/ WriteCut(t) \/ Kill(t) \/ RemovePid(t) \/ Close(t)
       \/ \E p \in Pids : Spawn(t, p)
  \/ \E p \in Pids : Bind(p) \/ BindFails(p) \/ Ended(p) \/ Dies(p) \/ Reused(p)

DaemonSpec == DaemonInit /\ [][DaemonNext]_daemonVars

-----------------------------------------------------------------------------
(* Properties *)

\* As long as the tools take turns and each start gets to write its pid, the
\* pid file names every server that was not told to end, so that the next stop
\* reaches it: across servers that die, pids used again, zombies, and a server
\* that is started while the one before it still holds the port.
NoOrphan ==
  ~crossed /\ ~astray /\ (\A t \in Tools : tool[t] = Idle) =>
    \A p \in Pids : process[p] \in {"loading", "serving"} => pidFile = p
=============================================================================
