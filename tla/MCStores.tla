------------------------------ MODULE MCStores -------------------------------
(***************************************************************************)
(* Small instances of four components that share no state, checked by one  *)
(* run: the page store of CvmStore, the learned immunity of two nodes,     *)
(* recall over the memories of several scopes, and CP/1 documents on their *)
(* way into a corpus.  `part`, chosen once, says which of them takes       *)
(* steps; the others stay in their initial state.                          *)
(***************************************************************************)
EXTENDS MCCvmStore, HealMemory, MemoryRecall, Conformance

CONSTANTS make, npm, ls, dist, mp, ma, mb, mc

VARIABLE part

\* Two commands that need a directory, one that does not.
TwoNeedIt == make :> {dist} @@ npm :> {dist} @@ ls :> {}

\* The personal scope, two projects whose names are sanitized alike, a third.  Three
\* memories are equally like the query; revisions are within and across scopes.
ScopeOf   == mp :> "personal" @@ ma :> "project:a" @@ mb :> "project_a" @@ mc :> "project:c"
ScopeFile == "personal" :> "personal" @@ "project:a" :> "project_a" @@
             "project_a" :> "project_a" @@ "project:c" :> "project_c"
Alikeness == mp :> 8 @@ ma :> 8 @@ mb :> 8 @@ mc :> 4
IdOrder   == mp :> 1 @@ ma :> 2 @@ mb :> 3 @@ mc :> 4
SomeRevise == {<<mb, ma>>, <<mc, ma>>, <<ma, mp>>, <<mp, mc>>}
SomeLinks  == {<<mp, mc>>, <<mc, ma>>, <<mp, ma>>}

\* Simulations of two mutations, two of them under one id, one with unequal runs;
\* results that are proven, unequal, declined, that derive from themselves or from
\* what is not there, or are malformed.
Content(type, id, about, base, cand, from, sound) ==
  [type |-> type, id |-> id, about |-> about, base |-> base, cand |-> cand, from |-> from,
   sound |-> sound]
SomeContents ==
  { Content("completed", "s1", "m1", 2, 2, {}, TRUE),
    Content("completed", "s1", "m2", 2, 2, {}, TRUE),
    Content("completed", "s2", "m1", 1, 1, {}, TRUE),
    Content("completed", "s9", "m2", 2, 1, {}, TRUE),
    Content("result", "r1", "m1", 2, 2, {"s1", "s2"}, TRUE),
    Content("result", "r1", "m1", 0, 0, {"r1"}, TRUE),
    Content("result", "r2", "m2", 2, 1, {"s1", "s9"}, TRUE),
    Content("result", "r3", "m1", 1, 1, {"s2"}, FALSE) }

StoresInit ==
  /\ part \in {"pages", "heal", "recall", "corpus"}
  /\ Init /\ HealInit /\ RecallInit /\ CorpusInit

StoresNext ==
  /\ part' = part
  /\ \/ part = "pages"  /\ Next       /\ UNCHANGED <<healVars, recallVars, corpusVars>>
     \/ part = "heal"   /\ HealNext   /\ UNCHANGED <<vars, recallVars, corpusVars>>
     \/ part = "recall" /\ RecallNext /\ UNCHANGED <<vars, healVars, corpusVars>>
     \/ part = "corpus" /\ CorpusNext /\ UNCHANGED <<vars, healVars, recallVars>>

StoresSpec == StoresInit /\ [][StoresNext]_<<part, vars, healVars, recallVars, corpusVars>>

\* What a node learns, recalls and is told is what was really needed, remembered and measured:
\* immunity is earned and lasts, recall is complete and returns nothing that was taken back,
\* documents arrive as they were sealed and a clean corpus chains every measurement.
LearningSound == HealSound /\ RecallSound /\ CorpusSound
=============================================================================
