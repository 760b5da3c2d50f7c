--------------------------- MODULE PatchExchange ----------------------------
(***************************************************************************)
(* The verified patches that nodes keep for one failure and share: each    *)
(* node's file is loaded, changed and saved as a whole by its solve loops  *)
(* and by the requests that merge a peer's export, with no lock between    *)
(* them (patch_memory.rs; routes_tools.rs, solve.rs, provenance.rs).       *)
(*                                                                         *)
(* A patch is its content hash, with its verified_count.  Saving truncates *)
(* the file and then fills it; a file that is empty or cut short loads as  *)
(* an empty store.  Exports are signed and may be merged late, again, and  *)
(* by their own node; one that does not verify changes nothing.  Sizes and    *)
(* other failures are left out: those are independent of each other.       *)
(***************************************************************************)
EXTENDS Naturals, FiniteSets, FiniteSetsExt

CONSTANTS
  Homes,       \* nodes of the fleet
  Hands,       \* requests and solve loops of a node at work at a time
  Patches,
  NewCap,      \* max_new_candidates_per_fingerprint
  PatchFaults, \* "save": a save may break off
  MaxWork,     \* bound of the model: verifications and merges
  MaxExports,  \* bound of the model: different exports in circulation
  Torn         \* a file that does not parse

Empty == [p \in Patches |-> 0]

ASSUME PatchAssumption ==
  /\ IsFiniteSet(Patches) /\ NewCap \in Nat \ {0}
  /\ MaxWork \in Nat /\ MaxExports \in Nat
  /\ Torn \notin [Patches -> Nat]

VARIABLES
  store,      \* the file of each node: verified_count of each patch, 0 for none
  hand,       \* what each hand of a node is doing, on which copy of the store
  exported,   \* payloads of GET /v1/patches
  verified,   \* history: times a node's own verification of a patch was recorded
  merged,     \* history: merges begun by each node
  learnt,     \* history: patches that a finished save of the node held
  mixed       \* history: a node loaded while it saved, or left its file torn

patchVars == <<store, hand, exported, verified, merged, learnt, mixed>>

AtRest == [pc |-> "rest", copy |-> Empty]
Loaded(n) == IF store[n] = Torn THEN Empty ELSE store[n]

PatchInit ==
  /\ store = [n \in Homes |-> Empty]
  /\ hand = [n \in Homes |-> [h \in Hands |-> AtRest]]
  /\ exported = {}
  /\ verified = [n \in Homes |-> Empty]
  /\ merged = [n \in Homes |-> 0]
  /\ learnt = [n \in Homes |-> {}]
  /\ mixed = [n \in Homes |-> FALSE]

Work == MapThenSumSet(LAMBDA n : merged[n] + MapThenSumSet(LAMBDA p : verified[n][p], Patches), Homes)

HandTo(n, h, r) == hand' = [hand EXCEPT ![n][h] = r]

\* Load, with whoever else is at work on the file.
Begins(n, h, copy) ==
  /\ hand[n][h] = AtRest /\ Work < MaxWork
  /\ HandTo(n, h, [pc |-> "save", copy |-> copy])
  /\ mixed' = [mixed EXCEPT ![n] = @ \/ store[n] = Torn \/ \E g \in Hands : hand[n][g] # AtRest]

\* The solve loop has made the target pass: record_verified.
Verify(n, h, p) ==
  /\ Begins(n, h, [Loaded(n) EXCEPT ![p] = @ + 1])
  /\ verified' = [verified EXCEPT ![n][p] = @ + 1]
  /\ UNCHANGED <<store, exported, merged, learnt>>

Export(n) ==
  /\ Loaded(n) # Empty
  /\ Cardinality(exported \union {Loaded(n)}) <= MaxExports
  /\ exported' = exported \union {Loaded(n)}
  /\ UNCHANGED <<store, hand, verified, merged, learnt, mixed>>

\* merge_signed_guarded under the robust policy: a patch that is here gains at
\* most one, a new one starts with one, and only the best ranked new ones that
\* fit are taken.
AsCounted(k) == k                         \* mutant: the peer's count is taken over
Bump(k) == IF k > 1 THEN 1 ELSE k

New(mine, theirs) == {p \in Patches : mine[p] = 0 /\ theirs[p] > 0}
Admitted(mine, theirs) ==
  {S \in SUBSET New(mine, theirs) :
     /\ Cardinality(S) = (IF Cardinality(New(mine, theirs)) < NewCap
                          THEN Cardinality(New(mine, theirs)) ELSE NewCap)
     /\ \A p \in S, q \in New(mine, theirs) \ S : theirs[p] >= theirs[q]}

Merge(n, h, e) ==
  /\ \E S \in Admitted(Loaded(n), e) :
       Begins(n, h, [p \in Patches |-> IF Loaded(n)[p] > 0 \/ p \in S
                                       THEN Loaded(n)[p] + Bump(e[p]) ELSE 0])
  /\ merged' = [merged EXCEPT ![n] = @ + 1]
  /\ UNCHANGED <<store, exported, verified, learnt>>

Truncate(n, h) ==
  /\ hand[n][h].pc = "save"
  /\ store' = [store EXCEPT ![n] = Torn]
  /\ HandTo(n, h, [hand[n][h] EXCEPT !.pc = "fill"])
  /\ UNCHANGED <<exported, verified, merged, learnt, mixed>>

Fill(n, h) ==
  /\ hand[n][h].pc = "fill"
  /\ store' = [store EXCEPT ![n] = hand[n][h].copy]
  /\ learnt' = [learnt EXCEPT ![n] = @ \union {p \in Patches : hand[n][h].copy[p] > 0}]
  /\ HandTo(n, h, AtRest)
  /\ UNCHANGED <<exported, verified, merged, mixed>>

\* The disk is full, or the process ends, before or after the truncation.
SaveFails(n, h) ==
  /\ hand[n][h] # AtRest /\ "save" \in PatchFaults
  /\ mixed' = [mixed EXCEPT ![n] = @ \/ hand[n][h].pc = "fill"]
  /\ HandTo(n, h, AtRest)
  /\ UNCHANGED <<store, exported, verified, merged, learnt>>

PatchNext ==
  \E n \in Homes :
    \/ Export(n)
    \/ \E h \in Hands :
         \/ Truncate(n, h) \/ Fill(n, h) \/ SaveFails(n, h)
         \/ \E p \in Patches : Verify(n, h, p)
         \/ \E e \in exported : Merge(n, h, e)

PatchSpec == PatchInit /\ [][PatchNext]_patchVars

-----------------------------------------------------------------------------
(* Properties *)

\* Nothing is forgotten: a patch once saved is in the file, unless two hands
\* of the node overlapped or a save broke off in the middle.
LearningKept ==
  \A n \in Homes : ~mixed[n] =>
    store[n] = Torn \/ \A p \in learnt[n] : store[n][p] > 0

\* A count that ranks a patch grows by one for each own verification and each
\* merge, however often exports go back and forth; and no patch is ranked that
\* nobody has verified.
TrustBounded ==
  \A n \in Homes, p \in Patches :
    /\ Loaded(n)[p] <= verified[n][p] + merged[n]
    /\ Loaded(n)[p] > 0 => \E m \in Homes : verified[m][p] > 0

\* What a node may rely on when it tries patches.
PatchesSound == LearningKept /\ TrustBounded

\* verified_count "records how many independent nodes have confirmed a patch
\* green".
CountsNodes ==
  \A n \in Homes, p \in Patches :
    Loaded(n)[p] <= Cardinality({m \in Homes : verified[m][p] > 0})
=============================================================================
