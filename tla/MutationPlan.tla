---------------------------- MODULE MutationPlan -----------------------------
(***************************************************************************)
(* The repair plan of axiom solve (plan in mutation_repair.rs): which      *)
(* one-line edits of a file are tried, one run of the failing command      *)
(* each, and in what order, given the lines its output blames and the      *)
(* modules it could not find.                                              *)
(*                                                                         *)
(* The plan is built candidate by candidate, the one with the least key    *)
(* first.  A line is a record: what it is, whether a #[cfg(test)] item     *)
(* holds it, the function whose body it is in, the functions it calls, the *)
(* edits its mutation classes offer, in order, and its rewritten import.   *)
(* What the generators and the parser of traces produce is left open.      *)
(***************************************************************************)
EXTENDS Integers, Sequences, FiniteSets, FiniteSetsExt

CONSTANTS
  Files,       \* files: functions from 1 .. n to lines
  Orders,      \* what class_order may return: sequences of the mutation classes
  LateClasses, \* IdentSwap, ArgShift
  ImportClass, \* ImportPath
  MaxHints,    \* bound of the model: lines blamed
  Caps,     \* values of AXIOM_REPAIR_MAX_CANDIDATES
  NoFn         \* outside of every function

ASSUME PlanAssumption == ImportClass \notin LateClasses

VARIABLES
  file, hints, order, missing, most,   \* the arguments: missing, the trace names a module
  stage,                                    \* "idle", "asked", "keyed"
  keyed,                                 \* the candidates with their keys
  plan                                   \* candidates: [line, text, class]

planVars == <<file, hints, order, missing, most, stage, keyed, plan>>

Lines    == DOMAIN file
Base     == 16       \* more than there are lines, functions or edits of a line

PlanInit ==
  /\ file = <<>> /\ hints = <<>> /\ order = <<>> /\ missing = FALSE /\ most = 0
  /\ stage = "idle" /\ keyed = {} /\ plan = <<>>

Begin(f, blamed, classes, unresolved, max) ==
  /\ stage = "idle" /\ stage' = "asked"
  /\ file' = f /\ hints' = blamed /\ order' = classes /\ missing' = unresolved
  /\ most' = IF max > 1 THEN max ELSE 1
  /\ UNCHANGED <<keyed, plan>>

(***************************************************************************)
(* Where: the tier of a line, and its place in the tier.                   *)
(***************************************************************************)
Place(s, x) == Min({k \in DOMAIN s : s[k] = x})

InScope(i) == ~file[i].test
Hinted == SelectSeq(hints, LAMBDA i : ~file[i].test)
HintedInOracle == SelectSeq(hints, LAMBDA i : file[i].test)

\* The functions that raised; their lines by distance, an earlier one before a later one.
Raised(h, i) == file[h].fn # NoFn /\ file[i].fn = file[h].fn /\ i # h
Away(h, i) == IF i < h THEN 2 * (h - i) ELSE 2 * (i - h) + 1
Enclosing == {i \in Lines : \E k \in DOMAIN Hinted : Raised(Hinted[k], i)}
EnclosingPlace(i) ==
  LET k == Min({j \in DOMAIN Hinted : Raised(Hinted[j], i)}) IN Base * k + Away(Hinted[k], i)

\* callee_focus_lines: the bodies of the functions the blamed tests call, in the order of
\* their first call, then of those these call.
BodyOf(fns) == {i \in Lines : InScope(i) /\ file[i].fn \in fns}
CallsOf(i) == {file[i].calls[j] : j \in DOMAIN file[i].calls}
Blames(k, i) == file[i].test /\ file[i].fn = file[HintedInOracle[k]].fn
TestLines == {p \in (DOMAIN HintedInOracle) \X Lines : Blames(p[1], p[2])}
Called == UNION {CallsOf(p[2]) : p \in TestLines}
CallPlace(fn) ==
  Min({Base * (Base * p[1] + p[2]) + Place(file[p[2]].calls, fn) :
         p \in {q \in TestLines : fn \in CallsOf(q[2])}})
Direct == BodyOf(Called)
DirectPlace(i) == Base * CallPlace(file[i].fn) + i

CalledNext == UNION {CallsOf(i) : i \in Direct} \ Called
NextPlace(fn) ==
  Min({Base * DirectPlace(i) + Place(file[i].calls, fn) : i \in {j \in Direct : fn \in CallsOf(j)}})
Indirect == BodyOf(CalledNext) \ Direct

HintedLines == {hints[k] : k \in {j \in DOMAIN hints : InScope(hints[j])}}
Anchors == HintedLines \union (Enclosing \union Direct \union Indirect)
Distance(i) == Min({IF h < i THEN i - h ELSE h - i : h \in Anchors} \union {Base})

Tier(i) ==
  IF i \in HintedLines THEN 0 ELSE IF i \in Enclosing THEN 1
  ELSE IF i \in Direct THEN 2 ELSE IF i \in Indirect THEN 3 ELSE 4
PlaceIn(i) ==
  CASE Tier(i) = 0 -> Place(Hinted, i)
    [] Tier(i) = 1 -> EnclosingPlace(i)
    [] Tier(i) = 2 -> DirectPlace(i)
    [] Tier(i) = 3 -> Base * NextPlace(file[i].fn) + i
    [] OTHER -> Base * Distance(i) + i

Pos(i) == Cardinality({j \in Lines : Tier(j) = Tier(i) /\ PlaceIn(j) < PlaceIn(i)})

(***************************************************************************)
(* What: candidates and their keys.                                        *)
(***************************************************************************)
AnyLine(i) == InScope(i)                    \* mutant: assertions are mutated
Mutable(i) == InScope(i) /\ file[i].kind = "code"

\* (tier, a, b, seq): a blamed line is done with before the next one; elsewhere a class is
\* done with before the next one, and the late ones wait for all others.
Key(i, class, n) ==
  LET rank == Place(order, class)
      tier == IF class \in LateClasses /\ Tier(i) > 0 THEN 5 ELSE Tier(i) IN
  IF tier = 0 THEN <<0, Pos(i), rank, 0, n>> ELSE <<tier, rank, Pos(i), Tier(i), n>>

Offers == {p \in Lines \X (1 .. Base) : Mutable(p[1]) /\ p[2] \in DOMAIN file[p[1]].edits}
Mutation(i, n) ==
  [line |-> i, text |-> file[i].edits[n].text, class |-> file[i].edits[n].class,
   key |-> Key(i, file[i].edits[n].class, n)]
Mutations == {Mutation(p[1], p[2]) : p \in Offers}

\* import_path_candidates: every line that names a module that could not be found.
Imports ==
  {[line |-> i, text |-> file[i].import, class |-> ImportClass,
    key |-> <<0, 0, Place(order, ImportClass), 0, i>>] :
      i \in {j \in Lines : missing /\ file[j].import # file[j].text}}

GiveKeys ==
  /\ stage = "asked" /\ stage' = "keyed"
  /\ keyed' = Mutations \union Imports
  /\ UNCHANGED <<file, hints, order, missing, most, plan>>

Before(k, l) == \E p \in 1 .. 5 : k[p] < l[p] /\ \A q \in 1 .. p - 1 : k[q] = l[q]

\* An edit that changes nothing, or gives a text that is planned already, is passed over.
Planned(c) == \E k \in DOMAIN plan : plan[k].line = c.line /\ plan[k].text = c.text
Left == {c \in keyed : c.text # file[c.line].text /\ ~Planned(c)}

AddCandidate ==
  /\ stage = "keyed" /\ Len(plan) < most
  /\ \E best \in Left :
       /\ \A c \in Left : ~Before(c.key, best.key)
       /\ plan' = Append(plan, [line |-> best.line, text |-> best.text, class |-> best.class])
  /\ UNCHANGED <<file, hints, order, missing, most, stage, keyed>>

PlanNext ==
  \/ \E f \in Files, classes \in Orders, unresolved \in BOOLEAN, max \in Caps, n \in 0 .. MaxHints :
       \E blamed \in [1 .. n -> DOMAIN f] :
         /\ \A j, k \in 1 .. n : blamed[j] = blamed[k] => j = k
         /\ Begin(f, blamed, classes, unresolved, max)
  \/ GiveKeys \/ AddCandidate

PlanSpec == PlanInit /\ [][PlanNext]_planVars

-----------------------------------------------------------------------------
(* Properties *)

\* "Never edit the oracle": no assertion, nothing of a test and no comment is edited, but
\* for the lines an import is rewritten in.
OracleKept ==
  \A k \in DOMAIN plan : plan[k].class # ImportClass =>
    InScope(plan[k].line) /\ file[plan[k].line].kind = "code"

\* Without that exception: import_path_candidates looks at every line.
OracleUntouched == \A k \in DOMAIN plan : InScope(plan[k].line) /\ file[plan[k].line].kind # "oracle"

\* "Lines the failure trace blames are mutated first", and "identifier swaps are tried off
\* the blamed lines only after everything else": whatever the budget cuts off, it cuts off
\* what the evidence supports least.
Blamed(c) == \E k \in DOMAIN hints : hints[k] = c.line
Focused ==
  \A j, k \in DOMAIN plan : j < k =>
    /\ ~(plan[j].class # ImportClass /\ ~Blamed(plan[j]) /\ Blamed(plan[k]) /\ InScope(plan[k].line)
         /\ plan[k].class # ImportClass)
    /\ ~(~Blamed(plan[j]) /\ plan[j].class \in LateClasses
         /\ (Blamed(plan[k]) \/ plan[k].class \notin LateClasses))

\* Every candidate is worth its run: it changes the file, and no two are the same.
NoWaste ==
  \A j, k \in DOMAIN plan :
    /\ plan[k].text # file[plan[k].line].text
    /\ plan[j].line = plan[k].line /\ plan[j].text = plan[k].text => j = k

\* A plan that does not fill its budget has everything the generators offer.
Exhaustive ==
  stage = "keyed" /\ Left = {} /\ Len(plan) < most =>
    \A i \in Lines, n \in 1 .. Base :
      Mutable(i) /\ n \in DOMAIN file[i].edits /\ file[i].edits[n].text # file[i].text =>
        \E k \in DOMAIN plan : plan[k].line = i /\ plan[k].text = file[i].edits[n].text

PlanSound == OracleKept /\ Focused /\ NoWaste /\ Exhaustive
=============================================================================
