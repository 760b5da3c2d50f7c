---------------------------- MODULE HealMemory ------------------------------
(***************************************************************************)
(* Learned immunity (heal_memory.rs): what the supervisor of each node     *)
(* remembers of the directories its commands needed, creates before their  *)
(* next run, forgets when it fades, and merges with other nodes            *)
(* (self_heal.rs, post_immunity_merge, axiom immunity, axiom swarm).       *)
(*                                                                         *)
(* A supervised run loads the file when it starts and saves its copy when  *)
(* it ends; a merge loads, changes and saves within one request; neither   *)
(* locks the file.  A belief is its evidence beyond the uniform prior, all *)
(* of it successes: no caller of this memory penalizes one, so no two      *)
(* beliefs here conflict.  Time goes in half-lives.  Saving is one step    *)
(* (its torn states are those of PatchExchange), and the tension of        *)
(* failures, required variables and wording are left out.                  *)
(***************************************************************************)
EXTENDS Integers, FiniteSetsExt

CONSTANTS
  Fleet,       \* nodes
  Commands,    \* fingerprints of command lines
  Paths,       \* directories, relative to where a command is run
  Wants,       \* what each command really cannot run without
  Unit,        \* the evidence of one success
  FadedBelow,  \* least evidence whose variance is under FADED_VARIANCE
  PeerCap,     \* bound of the model for MAX_PEER_EVIDENCE, less the prior
  MaxRunsSeen, \* bound of the model: supervised runs
  MaxMerged,   \* bound of the model: merges
  LastTime     \* bound of the model: half-lives

ASSUME HealAssumption ==
  /\ IsFiniteSet(Commands) /\ Wants \in [Commands -> SUBSET Paths]
  /\ Unit \in Nat \ {0} /\ FadedBelow \in Nat /\ PeerCap \in Nat
  /\ MaxRunsSeen \in Nat /\ MaxMerged \in Nat /\ LastTime \in Nat

VARIABLES
  memory,   \* heal_memory.json of each node
  here,     \* directories that exist where its commands run
  sup,      \* its supervised run
  merging,  \* its merge request, with the copy it will save
  mail,     \* the last export another node has taken of it
  time,
  needed,   \* history: <<command, path>> for which a run failed
  learnt,   \* history: <<command, path>> saved by a node and not forgotten
  overlapped, \* history: a run and a merge of a node crossed
  tries     \* history: runs and merges

healVars == <<memory, here, sup, merging, mail, time, needed, learnt, overlapped, tries>>

Unknown == [known |-> FALSE, dirs |-> {}, held |-> 0, last |-> 0]
NoMemory == [c \in Commands |-> Unknown]
Off == [pc |-> "off"]

HealInit ==
  /\ memory = [n \in Fleet |-> NoMemory] /\ here = [n \in Fleet |-> {}]
  /\ sup = [n \in Fleet |-> Off] /\ merging = [n \in Fleet |-> Off]
  /\ mail = [n \in Fleet |-> NoMemory] /\ time = 1
  /\ needed = {} /\ learnt = [n \in Fleet |-> {}]
  /\ overlapped = [n \in Fleet |-> FALSE] /\ tries = [runs |-> 0, merges |-> 0]

-----------------------------------------------------------------------------
(* Beliefs *)

\* belief_now: evidence halves with each half-life since the last success.
Waned(r) == IF r.last = 0 THEN r.held ELSE r.held \div 2 ^ (time - r.last)

\* prune_stale: what was never reinforced has had no chance to fade.
Faded(r) == r.last # 0 /\ Waned(r) < FadedBelow

\* combine_ds_conflict_aware: the peer's evidence counts for four fifths.
Combined(mine, theirs) == mine.held + (4 * theirs.held) \div 5

-----------------------------------------------------------------------------
(* Structural heals: directories that several commands have learnt. *)

ByOne == 1                                 \* mutant: one command is enough
CorroborationThreshold == 2

StructuralDirs(m) ==
  {d \in Paths : Cardinality({c \in Commands : d \in m[c].dirs}) >= CorroborationThreshold}

\* missing_prerequisites and missing_structural_prerequisites
Missing(n, c) == (memory[n][c].dirs \union StructuralDirs(memory[n])) \ here[n]

-----------------------------------------------------------------------------
(* run_supervised *)

Save(n, m, gone) ==
  /\ memory' = [memory EXCEPT ![n] = m]
  /\ learnt' = [learnt EXCEPT ![n] =
       (@ \ (gone \X Paths)) \union {p \in Commands \X Paths : p[2] \in m[p[1]].dirs}]

Crosses(n) == overlapped' = [overlapped EXCEPT ![n] = @ \/ sup[n] # Off \/ merging[n] # Off]

\* Immunize, then start the first attempt.
StartRun(n, c) ==
  /\ sup[n] = Off /\ tries.runs < MaxRunsSeen
  /\ sup' = [sup EXCEPT ![n] = [pc |-> "first", cmd |-> c, copy |-> memory[n],
                                given |-> Missing(n, c), made |-> {}]]
  /\ here' = [here EXCEPT ![n] = @ \union Missing(n, c)]
  /\ tries' = [tries EXCEPT !.runs = @ + 1]
  /\ Crosses(n)
  /\ UNCHANGED <<memory, merging, mail, time, needed, learnt>>

\* The command fails for want of directories, which are created; the failure
\* alone makes it known.
HealRun(n) ==
  LET s == sup[n]  lacking == Wants[s.cmd] \ here[n]
  IN /\ s # Off /\ lacking # {}
     /\ sup' = [sup EXCEPT ![n] = [s EXCEPT !.pc = "again", !.made = @ \union lacking,
                                            !.copy[s.cmd].known = TRUE]]
     /\ here' = [here EXCEPT ![n] = @ \union lacking]
     /\ needed' = needed \union ({s.cmd} \X lacking)
     /\ UNCHANGED <<memory, merging, mail, time, learnt, overlapped, tries>>

\* finalize_memory after a success: the directories made by this run, for
\* whatever reason, are remembered for its command, and one that was created
\* beforehand counts as a success of the immunity.
Proven(s) ==
  LET dirs == s.made \union s.given
      r == s.copy[s.cmd]
      with == IF dirs = {} THEN r ELSE [r EXCEPT !.known = TRUE, !.dirs = @ \union dirs]
  IN [s.copy EXCEPT ![s.cmd] =
        IF s.given = {} THEN with ELSE [with EXCEPT !.held = Waned(r) + Unit, !.last = time]]

Succeed(n) ==
  /\ sup[n] # Off /\ Wants[sup[n].cmd] \subseteq here[n]
  /\ Save(n, Proven(sup[n]), {})
  /\ sup' = [sup EXCEPT ![n] = Off]
  /\ UNCHANGED <<here, merging, mail, time, needed, overlapped, tries>>

\* It fails for another reason, or too often: what was created is unproven.
GiveUp(n) ==
  /\ sup[n] # Off
  /\ Save(n, [sup[n].copy EXCEPT ![sup[n].cmd].known = TRUE], {})
  /\ sup' = [sup EXCEPT ![n] = Off]
  /\ UNCHANGED <<here, merging, mail, time, needed, overlapped, tries>>

\* It cannot be started, or axiom run itself is ended: nothing is saved.
Abandon(n) ==
  /\ sup[n] # Off
  /\ sup' = [sup EXCEPT ![n] = Off]
  /\ UNCHANGED <<memory, here, merging, mail, time, needed, learnt, overlapped, tries>>

\* Another checkout, or the directories are cleaned away.
CleanUp(n) ==
  /\ sup[n] = Off /\ here[n] # {}
  /\ here' = [here EXCEPT ![n] = {}]
  /\ UNCHANGED <<memory, sup, merging, mail, time, needed, learnt, overlapped, tries>>

-----------------------------------------------------------------------------
(* axiom immunity --prune *)

Prune(n) ==
  LET gone == {c \in Commands : memory[n][c].known /\ Faded(memory[n][c])}
  IN /\ gone # {}
     /\ Save(n, [c \in Commands |-> IF c \in gone THEN Unknown ELSE memory[n][c]], gone)
     /\ Crosses(n)
     /\ UNCHANGED <<here, sup, merging, mail, time, needed, tries>>

-----------------------------------------------------------------------------
(* Swarm immunity: an export is what load_shared returns, and may be merged *)
(* late and again.                                                          *)

ExportMemory(n) ==
  /\ mail[n] # memory[n]
  /\ mail' = [mail EXCEPT ![n] = memory[n]]
  /\ UNCHANGED <<memory, here, sup, merging, time, needed, learnt, overlapped, tries>>

Plausible(r) == r.held <= PeerCap

MergedRecord(mine, theirs) ==
  IF ~theirs.known \/ ~Plausible(theirs) THEN mine
  ELSE IF ~mine.known THEN theirs
  ELSE [known |-> TRUE, dirs |-> mine.dirs \union theirs.dirs,
        held |-> Combined(mine, theirs), last |-> Max({mine.last, theirs.last})]

LoadForMerge(n, k) ==
  /\ merging[n] = Off /\ tries.merges < MaxMerged /\ mail[k] # NoMemory
  /\ merging' = [merging EXCEPT ![n] =
       [pc |-> "save", copy |-> [c \in Commands |-> MergedRecord(memory[n][c], mail[k][c])]]]
  /\ tries' = [tries EXCEPT !.merges = @ + 1]
  /\ Crosses(n)
  /\ UNCHANGED <<memory, here, sup, mail, time, needed, learnt>>

SaveMerged(n) ==
  /\ merging[n] # Off
  /\ Save(n, merging[n].copy, {})
  /\ merging' = [merging EXCEPT ![n] = Off]
  /\ UNCHANGED <<here, sup, mail, time, needed, overlapped, tries>>

HalfLife ==
  /\ time < LastTime /\ time' = time + 1
  /\ UNCHANGED <<memory, here, sup, merging, mail, needed, learnt, overlapped, tries>>

HealNext ==
  \/ HalfLife
  \/ \E n \in Fleet :
       \/ HealRun(n) \/ Succeed(n) \/ GiveUp(n) \/ Abandon(n)
       \/ CleanUp(n) \/ Prune(n) \/ ExportMemory(n) \/ SaveMerged(n)
       \/ \E c \in Commands : StartRun(n, c)
       \/ \E k \in Fleet : LoadForMerge(n, k)

HealSpec == HealInit /\ [][HealNext]_healVars

-----------------------------------------------------------------------------
(* Properties *)

\* A directory is created for commands that never asked for it only when two
\* commands, on whatever nodes, have failed without it: corroboration counts
\* neither what came back from a peer nor what immunity itself has added.
GenuineTwo ==
  \A n \in Fleet : \A d \in StructuralDirs(memory[n]) :
    Cardinality({c \in Commands : <<c, d>> \in needed}) >= 2

\* "so remembered failure modes never recur": the first attempt of a command
\* does not lack a directory that an earlier run on this node has learnt for
\* it and that has not been forgotten since, unless writers crossed.
NeverRecurs ==
  \A n \in Fleet : sup[n].pc = "first" /\ ~overlapped[n] =>
    \A d \in Wants[sup[n].cmd] : <<sup[n].cmd, d>> \in learnt[n] => d \in here[n]

\* "Local learning is never weakened" by what peers send: what a node has
\* learnt and not forgotten stays in its records, unless writers crossed.
NothingUnlearnt ==
  \A n \in Fleet : ~overlapped[n] =>
    \A c \in Commands : \A d \in Paths : <<c, d>> \in learnt[n] => d \in memory[n][c].dirs

HealSound == GenuineTwo /\ NeverRecurs /\ NothingUnlearnt

-----------------------------------------------------------------------------
(* What the comments say and the code does not do. *)

\* "Directories independently learned as needed by at least [two] distinct
\* programs": whoever was helped by a structural heal counts from then on,
\* and the two it came from may since have been forgotten.
CorroboratorsNeed ==
  \A n \in Fleet : \A d \in StructuralDirs(memory[n]) :
    Cardinality({c \in Commands : d \in memory[n][c].dirs /\ <<c, d>> \in needed}) >= 2

\* Evidence of honest nodes is not "fabricated certainty": each merge adds
\* the peer's evidence again, theirs and what they had of ours.
HonestTrusted == \A n \in Fleet : \A c \in Commands : Plausible(mail[n][c])

\* "confidence wanes with time since last reinforcement": a merge dates the
\* evidence of both sides with the newer of their two times.
NeverFresher ==
  [][\A n \in Fleet : \A c \in Commands : SaveMerged(n) =>
       Waned(memory'[n][c]) <=
         Waned(memory[n][c]) + Max({0, Waned(merging[n].copy[c]) - memory[n][c].held})]_healVars
=============================================================================
