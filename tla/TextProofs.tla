---------------------------- MODULE TextProofs ------------------------------
(***************************************************************************)
(* Proofs about five services that work on texts and answers, for every    *)
(* value of their constants: the plan of a repair, the grounding verifier, *)
(* questions to several providers, the messages that are forwarded, and    *)
(* the edits of a line.                                                    *)
(***************************************************************************)
EXTENDS MutationPlan, Grounding, Inquiry, Partition, LineEdits, SequenceTheorems,
        FiniteSetTheorems, WellFoundedInduction, TLAPS

-----------------------------------------------------------------------------
(* Numbers *)

\* Every nonempty set of naturals has a least element.
LEMMA LeastNat ==
  ASSUME NEW T \in SUBSET Nat, T # {}
  PROVE  \E x \in T : \A y \in T : x <= y
<1>1. PICK x \in T : \A y \in T : ~ (<<y, x>> \in OpToRel(<, Nat))
  BY NatLessThanWellFounded, WFMin
<1>2. \A y \in T : ~(y < x)
  BY <1>1 DEF OpToRel
<1> QED BY <1>2

\* One that is bounded has a greatest.
LEMMA GreatestNat ==
  ASSUME NEW T \in SUBSET Nat, T # {}, NEW n \in Nat, \A y \in T : y <= n
  PROVE  \E x \in T : \A y \in T : x >= y
<1> DEFINE U == {n - y : y \in T}
<1>1. U \in SUBSET Nat /\ U # {}
  OBVIOUS
<1>2. PICK u \in U : \A v \in U : u <= v
  BY <1>1, LeastNat
<1>3. PICK x \in T : u = n - x
  BY <1>2
<1>4. ASSUME NEW y \in T PROVE x >= y
  <2>1. n - y \in U
    OBVIOUS
  <2> QED BY <1>2, <1>3, <2>1
<1> QED BY <1>4

-----------------------------------------------------------------------------
(* The repair plan *)

\* A candidate as the plan keeps it.
Bare(c) == [line |-> c.line, text |-> c.text, class |-> c.class]

\* Whether the trace blames a line of the plan's scope.
BlamedLine(i) == InScope(i) /\ \E k \in DOMAIN hints : hints[k] = i

\* What is keyed: mutations of blamed lines first, those of late classes last; and imports.
\* Whatever the generators offer is among it.
IsMutation(c) ==
  /\ Mutable(c.line)
  /\ BlamedLine(c.line) => c.key[1] = 0
  /\ ~BlamedLine(c.line) => c.key[1] > 0
  /\ c.class \notin LateClasses => c.key[1] < 5
  /\ c.class \in LateClasses /\ ~BlamedLine(c.line) => c.key[1] = 5
IsImport(c) == c.class = ImportClass /\ c.key[1] = 0
Judged == \A c \in keyed : c.key[1] \in 0 .. 5 /\ (IsMutation(c) \/ IsImport(c))
AllKeyed ==
  \A i \in Lines, n \in 1 .. Base :
    Mutable(i) /\ n \in DOMAIN file[i].edits =>
      \E c \in keyed : c.line = i /\ c.text = file[i].edits[n].text

\* The plan as candidates, in the order of their tiers; nothing that is left comes before.
Picked(f) ==
  \A k \in 1 .. Len(plan) :
    /\ plan[k] = Bare(f[k])
    /\ \A j \in 1 .. k - 1 : f[j].key[1] <= f[k].key[1]
    /\ \A c \in Left : f[k].key[1] <= c.key[1]
InKeyOrder == \E f \in [1 .. Len(plan) -> keyed] : Picked(f)

PlanShape ==
  /\ stage \in {"idle", "asked", "keyed"}
  /\ stage # "keyed" => keyed = {} /\ plan = <<>>
  /\ stage = "keyed" => Judged /\ AllKeyed
  /\ plan \in Seq({Bare(c) : c \in keyed})

PlanInv == PlanShape /\ InKeyOrder /\ NoWaste

\* The tier of a line is one of five, and the first of the lines the trace blames.
LEMMA TierFacts ==
  \A i : /\ Tier(i) \in 0 .. 4
         /\ Tier(i) = 0 <=> BlamedLine(i)
BY DEF Tier, HintedLines, BlamedLine

\* What is keyed is a mutation or an import.
LEMMA KeyedKinds ==
  ASSUME NEW c \in Mutations \union Imports
  PROVE  c.key[1] \in 0 .. 5 /\ (IsMutation(c) \/ IsImport(c))
<1>1. CASE c \in Mutations
  <2>1. PICK p \in Offers : c = Mutation(p[1], p[2])
    BY <1>1 DEF Mutations
  <2>2. PICK i \in Lines, n \in 1 .. Base : p = <<i, n>> /\ Mutable(i)
    BY <2>1 DEF Offers
  <2>3. c.line = i /\ c.key = Key(i, c.class, n)
    BY <2>1, <2>2 DEF Mutation
  <2>4. c.key[1] = IF c.class \in LateClasses /\ Tier(i) > 0 THEN 5 ELSE Tier(i)
    BY <2>3, TierFacts DEF Key
  <2> QED BY <2>2, <2>3, <2>4, TierFacts DEF IsMutation
<1>2. CASE c \in Imports
  BY <1>2 DEF Imports, IsImport
<1> QED BY <1>1, <1>2

\* Before the keys are given nothing is keyed, so of what is keyed all of this is true.
LEMMA PlanJudged == PlanShape => Judged
BY DEF PlanShape, Judged

LEMMA PlanStart == PlanInit => PlanInv
<1> SUFFICES ASSUME PlanInit PROVE PlanInv
  OBVIOUS
<1>1. plan = <<>> /\ keyed = {} /\ stage = "idle" /\ Len(plan) = 0 /\ DOMAIN plan = {}
  BY DEF PlanInit
<1>2. PlanShape
  BY <1>1 DEF PlanShape
<1>3. InKeyOrder
  <2>1. [k \in 1 .. Len(plan) |-> k] \in [1 .. Len(plan) -> keyed]
    BY <1>1
  <2> QED BY <1>1, <2>1 DEF InKeyOrder, Picked
<1>4. NoWaste
  BY <1>1 DEF NoWaste
<1> QED BY <1>2, <1>3, <1>4 DEF PlanInv

\* A candidate that is left has no smaller key than those taken before, so it may follow them.
LEMMA AddKeeps == PlanInv /\ AddCandidate => PlanInv'
<1> SUFFICES ASSUME PlanInv, AddCandidate PROVE PlanInv'
  OBVIOUS
<1>0. PICK best \in Left :
        /\ \A c \in Left : ~Before(c.key, best.key)
        /\ plan' = Append(plan, Bare(best))
  BY DEF AddCandidate, Bare
<1>1. /\ stage = "keyed" /\ UNCHANGED <<file, hints, order, missing, most, stage, keyed>>
      /\ PlanShape /\ InKeyOrder /\ NoWaste /\ Judged
  BY PlanJudged DEF AddCandidate, PlanInv
<1>2. /\ best \in keyed /\ best.text # file[best.line].text
      /\ \A k \in DOMAIN plan : ~(plan[k].line = best.line /\ plan[k].text = best.text)
  BY <1>0 DEF Left, Planned
<1> DEFINE S == {Bare(c) : c \in keyed}
<1>3. plan \in Seq(S) /\ Bare(best) \in S
  BY <1>1, <1>2 DEF PlanShape
<1>4. /\ plan' \in Seq(S) /\ Len(plan) \in Nat /\ Len(plan') = Len(plan) + 1
      /\ DOMAIN plan = 1 .. Len(plan) /\ DOMAIN plan' = 1 .. Len(plan) + 1
      /\ \A k \in 1 .. Len(plan) : plan'[k] = plan[k]
      /\ plan'[Len(plan) + 1] = Bare(best)
  BY <1>0, <1>3, AppendProperties
<1>5. PlanShape'
  <2>1. Judged' /\ AllKeyed'
    BY <1>1 DEF PlanShape, Judged, AllKeyed, IsMutation, IsImport, BlamedLine, Mutable, InScope, Lines
  <2> QED BY <1>1, <1>4, <2>1 DEF PlanShape
<1>6. \A c \in Left' : c \in Left
  BY <1>1, <1>4 DEF Left, Planned
<1>7. \A c \in Left : best.key[1] <= c.key[1]
  <2> SUFFICES ASSUME NEW c \in Left, c.key[1] < best.key[1] PROVE FALSE
    BY <1>1, <1>2 DEF Judged, Left
  <2> QED BY <1>0 DEF Before
<1>8. InKeyOrder'
  <2>1. PICK f \in [1 .. Len(plan) -> keyed] : Picked(f)
    BY <1>1 DEF InKeyOrder
  <2>2. PICK g : g = [k \in 1 .. Len(plan) + 1 |-> IF k = Len(plan) + 1 THEN best ELSE f[k]]
    OBVIOUS
  <2>3. /\ g \in [1 .. Len(plan') -> keyed'] /\ g[Len(plan) + 1] = best
        /\ \A k \in 1 .. Len(plan) : g[k] = f[k]
    BY <1>1, <1>2, <1>4, <2>2
  <2>4. ASSUME NEW k \in 1 .. Len(plan')
        PROVE  /\ plan'[k] = Bare(g[k])
               /\ \A j \in 1 .. k - 1 : g[j].key[1] <= g[k].key[1]
               /\ \A c \in Left' : g[k].key[1] <= c.key[1]
    <3>1. CASE k = Len(plan) + 1
      BY <1>0, <1>4, <1>6, <1>7, <2>1, <2>3, <3>1 DEF Picked
    <3>2. CASE k \in 1 .. Len(plan)
      <4>1. plan[k] = Bare(f[k]) /\ plan'[k] = plan[k] /\ g[k] = f[k]
        BY <1>4, <2>1, <2>3, <3>2 DEF Picked
      <4>2. \A j \in 1 .. k - 1 : g[j].key[1] <= g[k].key[1]
        <5> SUFFICES ASSUME NEW j \in 1 .. k - 1 PROVE g[j].key[1] <= g[k].key[1]
          OBVIOUS
        <5>1. j \in 1 .. Len(plan)
          BY <1>4, <3>2
        <5>2. g[j] = f[j] /\ f[j].key[1] <= f[k].key[1]
          BY <2>1, <2>3, <3>2, <5>1 DEF Picked
        <5> QED BY <4>1, <5>2
      <4>3. \A c \in Left' : g[k].key[1] <= c.key[1]
        BY <1>6, <2>1, <3>2, <4>1 DEF Picked
      <4> QED BY <4>1, <4>2, <4>3
    <3> QED BY <1>4, <3>1, <3>2
  <2> QED BY <2>3, <2>4 DEF InKeyOrder, Picked
<1>9. NoWaste'
  <2>1. \A k \in DOMAIN plan' : k = Len(plan) + 1 \/ (k \in DOMAIN plan /\ plan'[k] = plan[k])
    BY <1>4
  <2>2. plan'[Len(plan) + 1].line = best.line /\ plan'[Len(plan) + 1].text = best.text
    BY <1>4 DEF Bare
  <2> QED BY <1>1, <1>2, <2>1, <2>2 DEF NoWaste
<1> QED BY <1>5, <1>8, <1>9 DEF PlanInv

\* An empty plan is in order and has nothing twice.
LEMMA NothingPlanned ==
  ASSUME Len(plan') = 0, PlanShape'
  PROVE  PlanInv'
<1>1. DOMAIN plan' = {}
  BY DEF PlanShape
<1>2. [k \in 1 .. Len(plan') |-> k] \in [1 .. Len(plan') -> keyed']
  OBVIOUS
<1>3. \A f : Picked(f)'
  BY DEF Picked
<1>4. InKeyOrder'
  BY <1>2, <1>3 DEF InKeyOrder
<1> QED BY <1>1, <1>4 DEF PlanInv, NoWaste

LEMMA PlanStep == PlanInv /\ [PlanNext]_planVars => PlanInv'
<1> SUFFICES ASSUME PlanInv, [PlanNext]_planVars PROVE PlanInv'
  OBVIOUS
<1>1. CASE stage' = "asked" /\ keyed' = {} /\ plan' = <<>>
  <2>1. Len(plan') = 0 /\ DOMAIN plan' = {} /\ plan' \in Seq({Bare(c) : c \in keyed'})
    BY <1>1
  <2>2. PlanShape'
    BY <1>1, <2>1 DEF PlanShape
  <2> QED BY <2>1, <2>2, NothingPlanned
<1>2. CASE GiveKeys
  <2>1. plan' = <<>> /\ stage' = "keyed" /\ keyed' = Mutations \union Imports /\ UNCHANGED <<file, hints>>
    BY <1>2 DEF GiveKeys, PlanInv, PlanShape
  <2>2. Len(plan') = 0 /\ plan' \in Seq({Bare(c) : c \in keyed'})
    BY <2>1
  <2>3. Judged'
    BY <2>1, KeyedKinds DEF Judged, IsMutation, IsImport, BlamedLine, Mutable, InScope
  <2>4. AllKeyed'
    <3> SUFFICES ASSUME NEW i \in Lines, NEW n \in 1 .. Base, Mutable(i), n \in DOMAIN file[i].edits
                 PROVE  \E c \in Mutations : c.line = i /\ c.text = file[i].edits[n].text
      BY <2>1 DEF AllKeyed, Mutable, InScope, Lines
    <3>1. <<i, n>> \in Offers
      BY DEF Offers
    <3>2. Mutation(i, n) \in Mutations
      BY <3>1 DEF Mutations
    <3>3. Mutation(i, n).line = i /\ Mutation(i, n).text = file[i].edits[n].text
      BY DEF Mutation
    <3> QED BY <3>2, <3>3
  <2>5. PlanShape'
    BY <2>1, <2>2, <2>3, <2>4 DEF PlanShape
  <2> QED BY <2>2, <2>5, NothingPlanned
<1>3. CASE AddCandidate
  BY <1>3, AddKeeps
<1>b. ASSUME NEW f, NEW blamed, NEW classes, NEW unresolved, NEW max, Begin(f, blamed, classes, unresolved, max) PROVE PlanInv'
  BY <1>1, <1>b DEF Begin, PlanInv, PlanShape
<1>4. CASE UNCHANGED planVars
  <2>1. PlanShape'
    BY <1>4 DEF planVars, PlanInv, PlanShape, Judged, AllKeyed, IsMutation, IsImport, BlamedLine, Mutable, InScope, Lines
  <2>2. InKeyOrder'
    BY <1>4 DEF planVars, PlanInv, InKeyOrder, Picked, Left, Planned
  <2>3. NoWaste'
    BY <1>4 DEF planVars, PlanInv, NoWaste
  <2> QED BY <2>1, <2>2, <2>3 DEF PlanInv
<1> QED BY <1>b, <1>2, <1>3, <1>4 DEF PlanNext

LEMMA PlanHolds == PlanInv => PlanSound
<1> SUFFICES ASSUME PlanInv PROVE PlanSound
  OBVIOUS
<1>0. /\ PlanShape /\ Judged /\ NoWaste /\ DOMAIN plan = 1 .. Len(plan) /\ Len(plan) \in Nat
  BY PlanJudged DEF PlanInv, PlanShape
<1>1. PICK f \in [1 .. Len(plan) -> keyed] : Picked(f)
  BY DEF PlanInv, InKeyOrder
<1>2. ASSUME NEW k \in DOMAIN plan
      PROVE  /\ f[k] \in keyed /\ plan[k].line = f[k].line /\ plan[k].class = f[k].class /\ plan[k].text = f[k].text
             /\ f[k].key[1] \in 0 .. 5 /\ (IsMutation(f[k]) \/ IsImport(f[k]))
             /\ \A j \in 1 .. k - 1 : f[j].key[1] <= f[k].key[1]
  BY <1>0, <1>1, <1>2 DEF Picked, Judged, Bare
<1>3. OracleKept
  BY <1>2 DEF OracleKept, IsMutation, IsImport, Mutable
<1>4. Focused
  <2> SUFFICES ASSUME NEW j \in DOMAIN plan, NEW k \in DOMAIN plan, j < k
               PROVE  /\ ~(plan[j].class # ImportClass /\ ~Blamed(plan[j]) /\ Blamed(plan[k]) /\ InScope(plan[k].line)
                           /\ plan[k].class # ImportClass)
                      /\ ~(~Blamed(plan[j]) /\ plan[j].class \in LateClasses
                           /\ (Blamed(plan[k]) \/ plan[k].class \notin LateClasses))
    BY DEF Focused
  <2>1. f[j].key[1] <= f[k].key[1]
    BY <1>0, <1>2
  <2>2. \A m \in DOMAIN plan : Blamed(plan[m]) <=> \E h \in DOMAIN hints : hints[h] = f[m].line
    BY <1>2 DEF Blamed
  <2>3. ASSUME plan[j].class # ImportClass, ~Blamed(plan[j]) PROVE f[j].key[1] >= 1 /\ (plan[j].class \in LateClasses => f[j].key[1] = 5)
    BY <1>2, <2>2, <2>3 DEF IsMutation, IsImport, BlamedLine
  <2>4. ASSUME Blamed(plan[k]) PROVE f[k].key[1] = 0
    BY <1>2, <2>2, <2>4 DEF IsMutation, IsImport, BlamedLine, Mutable
  <2>5. ASSUME plan[k].class \notin LateClasses PROVE f[k].key[1] \in 0 .. 4
    BY <1>2, <2>5 DEF IsMutation, IsImport
  <2> QED BY <1>2, <2>1, <2>3, <2>4, <2>5, PlanAssumption, SMTT(60)
<1>5. Exhaustive
  BY <1>0 DEF Exhaustive, PlanShape, AllKeyed, Left, Planned
<1> QED BY <1>0, <1>3, <1>4, <1>5 DEF PlanSound

THEOREM PlanSoundCorrect == PlanSpec => []PlanSound
BY PlanStart, PlanStep, PlanHolds, PTL DEF PlanSpec

-----------------------------------------------------------------------------
(* The grounding verifier *)

Overlaps(claim, spans) == {Cardinality(claim \intersect s) : s \in spans} \union {0}

\* The best span of a claim is one of the spans, and none is better.
LEMMA MatchedFacts ==
  ASSUME NEW claim \in SUBSET Tokens, NEW spans
  PROVE  /\ Matched(claim, spans) \in Overlaps(claim, spans) /\ Matched(claim, spans) \in Nat
         /\ \A m \in Overlaps(claim, spans) : Matched(claim, spans) >= m
<1> DEFINE S == Overlaps(claim, spans)
<1>1. IsFiniteSet(claim) /\ Cardinality(claim) \in Nat
  BY GroundAssumption, FS_Subset, FS_CardinalityType
<1>2. \A s : Cardinality(claim \intersect s) \in Nat /\ Cardinality(claim \intersect s) <= Cardinality(claim)
  <2> SUFFICES ASSUME NEW s PROVE Cardinality(claim \intersect s) \in Nat /\ Cardinality(claim \intersect s) <= Cardinality(claim)
    OBVIOUS
  <2>1. claim \intersect s \in SUBSET claim
    OBVIOUS
  <2> QED BY <1>1, <2>1, FS_Subset, FS_CardinalityType
<1>3. S \in SUBSET Nat /\ S # {} /\ \A m \in S : m <= Cardinality(claim)
  <2>1. ASSUME NEW m \in S PROVE m \in Nat /\ m <= Cardinality(claim)
    <3>1. CASE m = 0
      BY <1>1, <3>1
    <3>2. ASSUME NEW s \in spans, m = Cardinality(claim \intersect s)
          PROVE  m \in Nat /\ m <= Cardinality(claim)
      BY <1>2, <3>2
    <3> QED BY <3>1, <3>2 DEF Overlaps
  <2>2. 0 \in S
    BY DEF Overlaps
  <2> QED BY <2>1, <2>2
<1>4. \E x \in S : \A y \in S : x >= y
  BY <1>1, <1>3, GreatestNat
<1>5. Matched(claim, spans) = Max(S)
  BY DEF Matched, Overlaps
<1>6. Max(S) \in S /\ \A y \in S : Max(S) >= y
  BY <1>4 DEF Max
<1> QED BY <1>3, <1>5, <1>6

\* More evidence never makes a verdict worse.
LEMMA MoreEvidence ==
  ASSUME NEW claim \in SUBSET Tokens, NEW spans, NEW more, gate \in Nat
  PROVE  Grade[Verdict(claim, spans \union more)] >= Grade[Verdict(claim, spans)]
<1>1. Matched(claim, spans) \in Nat /\ Matched(claim, spans \union more) \in Nat
  BY MatchedFacts
<1>2. Matched(claim, spans) <= Matched(claim, spans \union more)
  <2>1. Matched(claim, spans) \in Overlaps(claim, spans \union more)
    BY MatchedFacts DEF Overlaps
  <2> QED BY <2>1, MatchedFacts
<1>3. Cardinality(claim) \in Nat /\ Full \in Nat
  BY GroundAssumption, FS_Subset, FS_CardinalityType
<1>4. PICK need \in Nat : need = gate * Cardinality(claim)
  BY <1>3
<1>5. PICK a \in Nat : a = Full * Matched(claim, spans)
  BY <1>1, <1>3
<1>6. PICK b \in Nat : b = Full * Matched(claim, spans \union more)
  BY <1>1, <1>3
<1>7. a <= b
  BY <1>1, <1>2, <1>3, <1>5, <1>6
<1>8. Verdict(claim, spans) = IF a >= need THEN "supported" ELSE IF 2 * a < need THEN "unsupported" ELSE "unverified"
  BY <1>4, <1>5 DEF Verdict
<1>9. Verdict(claim, spans \union more) = IF b >= need THEN "supported" ELSE IF 2 * b < need THEN "unsupported" ELSE "unverified"
  BY <1>4, <1>6 DEF Verdict
<1> QED BY <1>7, <1>8, <1>9 DEF Grade

\* The verdicts of the claims and of what is looked up for them.
DoubtedTokens == UNION {answer[i] : i \in {j \in DOMAIN answer : InDoubt(j)}}
Expanding ==
  /\ expanded = {t \in seen : source[t] # NoBody}
  /\ seen \subseteq DoubtedTokens
  /\ Cardinality(expanded) <= MaxExpansions
  /\ Cardinality(expanded) < MaxExpansions =>
       \A i \in DOMAIN answer : i < turn /\ InDoubt(i) => answer[i] \subseteq seen
Revised ==
  answer = draft \/ (Flagged(draft, evidence) # {} /\ MoreGrounded(answer, draft))
Samples == UNION {[1 .. k -> [score : Scores, true : BOOLEAN]] : k \in Nat}

GroundShape ==
  /\ at \in {"idle", "expanding", "judged", "asked", "given", "calibrated"}
  /\ \E n \in Nat : DOMAIN answer = 1 .. n /\ turn \in 1 .. n + 1
  /\ \A i \in DOMAIN answer : answer[i] \in SUBSET Tokens
  /\ seen \subseteq Tokens /\ (at = "idle" => seen = {} /\ expanded = {} /\ turn = 1)
  /\ at = "judged" => turn \notin DOMAIN answer
  /\ at # "calibrated" => gate = ShippedGate
  /\ at = "asked" => answer = draft /\ turn = 1

GroundInv ==
  /\ GroundShape
  /\ at \in {"expanding", "judged"} => Expanding
  /\ at = "given" => Revised
  /\ at = "calibrated" => sample \in Samples /\ tenths \in Nat /\ gate = Quantile(sample, tenths)

\* The answers and samples of the model are sequences of claims and of scores.
LEMMA AnswerFacts ==
  ASSUME NEW claims \in SeqsUpTo(Claims, MaxClaims)
  PROVE  /\ \E n \in Nat : DOMAIN claims = 1 .. n
         /\ \A i \in DOMAIN claims : claims[i] \in SUBSET Tokens
BY GroundAssumption DEF SeqsUpTo, Claims

LEMMA SampleFacts ==
  ASSUME NEW pairs \in SeqsUpTo([score : Scores, true : BOOLEAN], MaxSample)
  PROVE  pairs \in Samples
BY GroundAssumption, SMTT(60) DEF SeqsUpTo, Samples

LEMMA GroundStart == GroundInit => GroundInv
<1> SUFFICES ASSUME GroundInit PROVE GroundInv
  OBVIOUS
<1>1. DOMAIN answer = 1 .. 0 /\ turn \in 1 .. 0 + 1
  BY DEF GroundInit
<1> QED BY <1>1 DEF GroundInit, GroundInv, GroundShape

\* A look-up finds a body for at most one more symbol, and below the cap passes over none.
LEMMA LookUpKeeps ==
  ASSUME GroundInv, NEW t \in Tokens, LookUp(t)
  PROVE  GroundInv'
<1>1. /\ at = "expanding" /\ turn \in DOMAIN answer /\ InDoubt(turn) /\ t \in answer[turn]
      /\ Cardinality(expanded) < MaxExpansions
      /\ seen' = seen \union {t}
      /\ expanded' = IF source[t] = NoBody THEN expanded ELSE expanded \union {t}
      /\ UNCHANGED <<at, answer, evidence, source, gate, turn>>
      /\ GroundShape /\ Expanding /\ MaxExpansions \in Nat
  BY GroundAssumption DEF LookUp, MayExpand, GroundInv
<1>2. \A i : InDoubt(i)' <=> InDoubt(i)
  BY <1>1 DEF InDoubt, Verdict
<1>3. GroundShape'
  BY <1>1 DEF GroundShape
<1>4. IsFiniteSet(expanded) /\ Cardinality(expanded) \in Nat
  BY <1>1, GroundAssumption, FS_Subset, FS_CardinalityType DEF Expanding, GroundShape
<1>5. Cardinality(expanded') \in Nat /\ Cardinality(expanded') >= Cardinality(expanded)
      /\ Cardinality(expanded') <= Cardinality(expanded) + 1
  <2>1. CASE source[t] = NoBody
    BY <1>1, <1>4, <2>1
  <2>2. CASE source[t] # NoBody
    <3>1. Cardinality(expanded \union {t}) = IF t \in expanded THEN Cardinality(expanded)
                                            ELSE Cardinality(expanded) + 1
      BY <1>4, FS_AddElement
    <3> QED BY <1>1, <1>4, <2>2, <3>1
  <2> QED BY <2>1, <2>2
<1>6. Expanding'
  <2>1. expanded' = {s \in seen' : source'[s] # NoBody}
    BY <1>1 DEF Expanding
  <2>2. seen' \subseteq DoubtedTokens'
    <3>1. DoubtedTokens' = DoubtedTokens
      BY <1>1, <1>2 DEF DoubtedTokens
    <3>2. t \in DoubtedTokens
      BY <1>1 DEF DoubtedTokens
    <3> QED BY <1>1, <3>1, <3>2 DEF Expanding
  <2>3. Cardinality(expanded') <= MaxExpansions
    BY <1>1, <1>4, <1>5
  <2>4. \A i \in DOMAIN answer : i < turn /\ InDoubt(i) => answer[i] \subseteq seen'
    BY <1>1 DEF Expanding
  <2> QED BY <1>1, <1>2, <2>1, <2>2, <2>3, <2>4 DEF Expanding
<1> QED BY <1>1, <1>3, <1>6 DEF GroundInv

\* A claim whose turn is over was not in doubt, or its symbols were looked up, or the cap
\* was reached and stays so.
LEMMA NextClaimKeeps ==
  ASSUME GroundInv, NextClaim
  PROVE  GroundInv'
<1>1. /\ at = "expanding" /\ turn \in DOMAIN answer /\ turn' = turn + 1
      /\ ~InDoubt(turn) \/ \A t \in answer[turn] \ seen : ~(Cardinality(expanded) < MaxExpansions)
      /\ UNCHANGED <<at, answer, evidence, source, gate, seen, expanded>>
      /\ GroundShape /\ Expanding
  BY DEF NextClaim, MayExpand, GroundInv
<1>2. \A i : InDoubt(i)' <=> InDoubt(i)
  BY <1>1 DEF InDoubt, Verdict
<1>3. GroundShape' /\ turn \in Nat /\ DOMAIN answer \subseteq Nat
  BY <1>1 DEF GroundShape
<1>4. Expanding'
  <2>1. DoubtedTokens' = DoubtedTokens
    BY <1>1, <1>2 DEF DoubtedTokens
  <2>2. ASSUME Cardinality(expanded) < MaxExpansions, NEW i \in DOMAIN answer, i < turn + 1, InDoubt(i)
        PROVE  answer[i] \subseteq seen
    <3>1. CASE i = turn
      BY <1>1, <2>2, <3>1
    <3>2. CASE i < turn
      BY <1>1, <2>2, <3>2 DEF Expanding
    <3> QED BY <1>3, <2>2, <3>1, <3>2
  <2> QED BY <1>1, <1>2, <2>1, <2>2 DEF Expanding
<1> QED BY <1>1, <1>3, <1>4 DEF GroundInv

LEMMA GroundStep == GroundInv /\ [GroundNext]_groundVars => GroundInv'
<1> SUFFICES ASSUME GroundInv, [GroundNext]_groundVars PROVE GroundInv'
  OBVIOUS
<1>1. ASSUME NEW claims \in SeqsUpTo(Claims, MaxClaims), NEW spans, NEW bodies, Verify(claims, spans, bodies)
      PROVE GroundInv'
  <2>1. /\ at = "idle" /\ at' = "expanding" /\ answer' = claims /\ seen' = {} /\ expanded' = {} /\ turn' = 1
        /\ gate' = ShippedGate
    BY <1>1 DEF Verify, GroundInv, GroundShape
  <2>2. PICK n \in Nat : DOMAIN answer' = 1 .. n
    BY <2>1, AnswerFacts
  <2>3. GroundShape'
    BY <2>1, <2>2, AnswerFacts DEF GroundShape
  <2>4. Cardinality(expanded') = 0 /\ MaxExpansions \in Nat
    BY <2>1, FS_EmptySet, GroundAssumption
  <2>5. \A i \in DOMAIN answer' : ~(i < turn')
    BY <2>1, <2>2
  <2>6. Expanding'
    BY <2>1, <2>4, <2>5 DEF Expanding
  <2> QED BY <2>1, <2>3, <2>6 DEF GroundInv
<1>2. ASSUME NEW claims \in SeqsUpTo(Claims, MaxClaims), NEW spans, Reply(claims, spans) PROVE GroundInv'
  <2>1. /\ at = "idle" /\ at' = "asked" /\ answer' = claims /\ draft' = claims /\ seen' = {} /\ turn' = 1 /\ gate' = ShippedGate
    BY <1>2 DEF Reply, GroundInv, GroundShape
  <2>2. PICK n \in Nat : DOMAIN answer' = 1 .. n
    BY <2>1, AnswerFacts
  <2>3. GroundShape'
    BY <2>1, <2>2, AnswerFacts DEF GroundShape
  <2> QED BY <2>1, <2>3 DEF GroundInv
<1>3. ASSUME NEW t \in Tokens, LookUp(t) PROVE GroundInv'
  BY <1>3, LookUpKeeps
<1>4. CASE NextClaim
  BY <1>4, NextClaimKeeps
<1>5. CASE Judge
  <2>1. \A i : InDoubt(i)' <=> InDoubt(i)
    BY <1>5 DEF Judge, InDoubt, Verdict
  <2>2. DoubtedTokens' = DoubtedTokens
    BY <1>5, <2>1 DEF Judge, DoubtedTokens
  <2>3. Expanding'
    BY <1>5, <2>1, <2>2 DEF Judge, Expanding, GroundInv
  <2> QED BY <1>5, <2>3 DEF Judge, GroundInv, GroundShape
<1>6. ASSUME NEW claims \in SeqsUpTo(Claims, MaxClaims), Revise(claims) PROVE GroundInv'
  <2>1. /\ at = "asked" /\ at' = "given" /\ answer = draft
        /\ answer' = IF Flagged(draft, evidence) # {} /\ MoreGrounded(claims, draft)
                     THEN claims ELSE draft
        /\ UNCHANGED <<evidence, gate, seen, expanded, turn, draft>> /\ turn = 1 /\ GroundShape
    BY <1>6 DEF Revise, GroundInv, GroundShape
  <2>2. Flagged(draft, evidence)' = Flagged(draft, evidence)
    BY <2>1 DEF Flagged, Verdict
  <2>3. MoreGrounded(answer, draft)' <=> MoreGrounded(answer', draft)
    BY <2>1 DEF MoreGrounded, Supported, Verdict
  <2>4. Revised'
    BY <2>1, <2>2, <2>3 DEF Revised
  <2>5. /\ \E n \in Nat : DOMAIN answer' = 1 .. n
        /\ \A i \in DOMAIN answer' : answer'[i] \in SUBSET Tokens
    <3>1. CASE answer' = claims
      BY <3>1, AnswerFacts
    <3>2. CASE answer' = answer
      BY <2>1, <3>2 DEF GroundShape
    <3> QED BY <2>1, <3>1, <3>2
  <2>6. GroundShape'
    BY <2>1, <2>5 DEF GroundShape
  <2> QED BY <2>1, <2>4, <2>6 DEF GroundInv
<1>7. ASSUME NEW pairs \in SeqsUpTo([score : Scores, true : BOOLEAN], MaxSample), NEW d \in Deltas, Calibrate(pairs, d)
      PROVE GroundInv'
  <2>1. /\ at = "idle" /\ at' = "calibrated" /\ sample' = pairs /\ tenths' = d /\ gate' = Quantile(pairs, d)
        /\ UNCHANGED <<answer, seen, turn>>
    BY <1>7 DEF Calibrate
  <2>2. Quantile(pairs, d) = Quantile(sample', tenths')
    BY <2>1
  <2>3. sample' \in Samples /\ tenths' \in Nat
    BY <2>1, SampleFacts, GroundAssumption
  <2> QED BY <2>1, <2>2, <2>3 DEF GroundInv, GroundShape
<1>8. CASE UNCHANGED groundVars
  <2>1. \A i : InDoubt(i)' <=> InDoubt(i)
    BY <1>8 DEF groundVars, InDoubt, Verdict
  <2>2. DoubtedTokens' = DoubtedTokens
    BY <1>8, <2>1 DEF groundVars, DoubtedTokens
  <2>3. Expanding' <=> Expanding
    BY <1>8, <2>1, <2>2 DEF groundVars, Expanding
  <2> QED BY <1>8, <2>3 DEF groundVars, GroundInv, GroundShape, Revised, Flagged, MoreGrounded, Supported, Verdict
<1> QED BY <1>1, <1>2, <1>3, <1>4, <1>5, <1>6, <1>7, <1>8 DEF GroundNext

\* Of finitely many scored things one has the highest score.
LEMMA Highest ==
  ASSUME NEW P, IsFiniteSet(P), NEW A \in SUBSET P, A # {},
         NEW score, \A k \in P : score[k] \in Nat
  PROVE  \E j \in A : \A k \in A : score[k] <= score[j]
<1> DEFINE Low(j) == {k \in A : score[k] <= score[j]}
<1>1. IsFiniteSet(A) /\ Cardinality(A) \in Nat
  BY FS_Subset, FS_CardinalityType
<1>2. ASSUME NEW j \in A PROVE IsFiniteSet(Low(j)) /\ Cardinality(Low(j)) \in Nat /\ Cardinality(Low(j)) <= Cardinality(A)
  <2>1. Low(j) \in SUBSET A
    OBVIOUS
  <2> HIDE DEF Low
  <2> QED BY <1>1, <2>1, FS_Subset, FS_CardinalityType
<1> DEFINE T == {Cardinality(Low(j)) : j \in A}
<1>3. \E x \in T : \A y \in T : x >= y
  <2>1. T \in SUBSET Nat /\ T # {} /\ \A y \in T : y <= Cardinality(A)
    BY <1>2
  <2> HIDE DEF T
  <2> QED BY <1>1, <2>1, GreatestNat
<1>4. PICK j \in A : \A k \in A : Cardinality(Low(j)) >= Cardinality(Low(k))
  BY <1>3
<1>5. ASSUME NEW k \in A, ~(score[k] <= score[j]) PROVE FALSE
  <2>1. score[k] \in Nat /\ score[j] \in Nat
    OBVIOUS
  <2>2. Low(j) \in SUBSET Low(k) /\ k \in Low(k) /\ k \notin Low(j)
    BY <1>5, <2>1
  <2> HIDE DEF Low
  <2>3. Cardinality(Low(j)) <= Cardinality(Low(k)) /\ (Cardinality(Low(j)) = Cardinality(Low(k)) => Low(j) = Low(k))
    BY <1>2, <2>2, FS_Subset
  <2>4. Cardinality(Low(j)) >= Cardinality(Low(k))
    BY <1>4
  <2> QED BY <1>2, <2>2, <2>3, <2>4
<1> QED BY <1>4, <1>5

\* Every positive example of a sample has a natural score, and there are finitely many.
LEMMA PositiveFacts ==
  ASSUME NEW pairs \in Samples
  PROVE  /\ IsFiniteSet(Positives(pairs)) /\ Cardinality(Positives(pairs)) \in Nat
         /\ \A i \in Positives(pairs) : pairs[i].score \in Nat
<1>1. PICK k \in Nat : pairs \in [1 .. k -> [score : Scores, true : BOOLEAN]]
  BY DEF Samples
<1>2. Positives(pairs) \in SUBSET (1 .. k)
  BY <1>1 DEF Positives
<1>3. IsFiniteSet(1 .. k)
  BY <1>1, FS_Interval
<1>4. \A i \in 1 .. k : pairs[i].score \in Nat
  BY <1>1, GroundAssumption
<1> QED BY <1>2, <1>3, <1>4, FS_Subset, FS_CardinalityType

\* The threshold of a calibration loses at most its share of the positive examples.
LEMMA QuantileCovers ==
  ASSUME NEW pairs \in Samples, NEW d \in Nat
  PROVE  10 * Cardinality({i \in Positives(pairs) : pairs[i].score < Quantile(pairs, d)})
           <= d * Cardinality(Positives(pairs))
<1> DEFINE P == Positives(pairs)
           Low(j) == {k \in P : pairs[k].score <= pairs[j].score}
           Lost == {i \in P : pairs[i].score < Quantile(pairs, d)}
<1>1. IsFiniteSet(P) /\ (\A i \in P : pairs[i].score \in Nat)
  BY PositiveFacts
<1>2. PICK n \in Nat : n = Cardinality(P)
  BY PositiveFacts
<1>3. PICK nd \in Nat : nd = n * d
  BY <1>2
<1>4. PICK q \in Nat : q = nd \div 10 /\ 10 * q <= nd
  BY <1>3
<1>5. Rank(n, d) = IF q < n THEN q ELSE n - 1
  BY <1>3, <1>4 DEF Rank
<1>6. d * n = nd
  BY <1>2, <1>3
<1>7. \A S \in SUBSET P : IsFiniteSet(S) /\ Cardinality(S) \in Nat /\ Cardinality(S) <= n
  BY <1>1, <1>2, FS_Subset, FS_CardinalityType
<1>8. CASE Lost = {}
  <2>1. Cardinality(Lost) = 0
    BY <1>8, FS_EmptySet
  <2> QED BY <1>2, <1>3, <1>6, <2>1
<1>9. CASE Lost # {}
  <2> DEFINE score == [k \in P |-> pairs[k].score]
             Beyond == {j \in P : Cardinality(Low(j)) > Rank(n, d)}
             Gates == {pairs[i].score : i \in Beyond}
  <2>1. Lost \in SUBSET P /\ P # {} /\ \A k \in P : score[k] \in Nat
    BY <1>1, <1>9
  <2>2. n > 0
    BY <1>1, <1>2, <2>1, FS_EmptySet
  <2>3. PICK top \in P : \A k \in P : score[k] <= score[top]
    <3> HIDE DEF P, score
    <3> QED BY <1>1, <2>1, Highest
  <2>4. top \in Beyond
    <3>1. Low(top) = P
      BY <2>3
    <3>2. n > Rank(n, d)
      BY <1>4, <1>5, <2>2
    <3>3. Cardinality(Low(top)) > Rank(n, d)
      BY <1>2, <3>1, <3>2
    <3> HIDE DEF Low, P
    <3> QED BY <2>3, <3>3
  <2>5. Gates \in SUBSET Nat /\ Gates # {}
    BY <1>1, <2>4
  <2>6. Quantile(pairs, d) = Min(Gates)
    BY <1>2, <2>1 DEF Quantile
  <2>7. \A g \in Gates : Min(Gates) <= g
    <3> HIDE DEF Gates
    <3>1. PICK x \in Gates : \A y \in Gates : x <= y
      BY <2>5, LeastNat
    <3> QED BY <2>5, <3>1 DEF Min
  <2>8. Min(Gates) \in Nat
    <3> HIDE DEF Gates
    <3>1. PICK x \in Gates : \A y \in Gates : x <= y
      BY <2>5, LeastNat
    <3> QED BY <2>5, <3>1 DEF Min
  <2>9. PICK j \in Lost : \A k \in Lost : score[k] <= score[j]
    <3> HIDE DEF P, score, Lost
    <3> QED BY <1>1, <1>9, <2>1, Highest
  <2>10. j \notin Beyond
    <3>1. pairs[j].score < Min(Gates) /\ pairs[j].score \in Nat
      BY <1>1, <2>6, <2>9
    <3>2. ASSUME j \in Beyond PROVE FALSE
      <4>1. pairs[j].score \in Gates
        BY <3>2
      <4> HIDE DEF Gates
      <4> QED BY <2>7, <2>8, <3>1, <4>1
    <3> QED BY <3>2
  <2>11. Lost \in SUBSET Low(j) /\ Low(j) \in SUBSET P
    BY <2>9
  <2>12. Cardinality(Lost) <= Cardinality(Low(j)) /\ Cardinality(Low(j)) \in Nat /\ Cardinality(Lost) \in Nat
    <3> HIDE DEF Lost, Low, P
    <3> QED BY <1>7, <2>1, <2>11, FS_Subset
  <2>13. Cardinality(Low(j)) <= Rank(n, d)
    <3>1. ~(Cardinality(Low(j)) > Rank(n, d))
      BY <2>9, <2>10
    <3>2. Rank(n, d) \in Nat
      BY <1>4, <1>5, <2>2
    <3> HIDE DEF Low
    <3> QED BY <2>12, <3>1, <3>2
  <2>14. Cardinality(Lost) <= q
    <3> HIDE DEF Lost, Low
    <3> QED BY <1>4, <1>5, <2>2, <2>12, <2>13
  <2> HIDE DEF Lost
  <2>15. 10 * Cardinality(Lost) <= d * n
    BY <1>3, <1>4, <1>6, <2>12, <2>14
  <2> QED BY <1>2, <2>15 DEF Lost
<1> QED BY <1>8, <1>9

LEMMA GroundHolds == GroundInv => GroundingSound
<1> SUFFICES ASSUME GroundInv PROVE GroundingSound
  OBVIOUS
<1>1. Surgical
  <2> SUFFICES ASSUME at = "judged"
               PROVE  /\ \A i \in DOMAIN answer :
                           Grade[Verdict(answer[i], After)] >= Grade[Verdict(answer[i], evidence)]
                      /\ expanded \subseteq DoubtedTokens
                      /\ Cardinality(expanded) <= MaxExpansions
    BY DEF Surgical, DoubtedTokens
  <2>1. gate \in Nat /\ \A i \in DOMAIN answer : answer[i] \in SUBSET Tokens
    BY GroundAssumption DEF GroundInv, GroundShape
  <2>2. \A i \in DOMAIN answer :
          Grade[Verdict(answer[i], After)] >= Grade[Verdict(answer[i], evidence)]
    BY <2>1, MoreEvidence DEF After
  <2> QED BY <2>2 DEF GroundInv, Expanding
<1>2. Complete
  <2> SUFFICES ASSUME at = "judged", Cardinality(expanded) < MaxExpansions
               PROVE  After = evidence \union Bodies(DoubtedTokens)
    BY DEF Complete, DoubtedTokens
  <2>1. \A i \in DOMAIN answer : InDoubt(i) => answer[i] \subseteq seen
    <3>1. PICK n \in Nat : DOMAIN answer = 1 .. n /\ turn \in 1 .. n + 1
      BY DEF GroundInv, GroundShape
    <3>2. turn = n + 1
      BY <3>1 DEF GroundInv, GroundShape
    <3> QED BY <3>1, <3>2 DEF GroundInv, Expanding
  <2>2. seen = DoubtedTokens
    BY <2>1 DEF GroundInv, Expanding, DoubtedTokens
  <2>3. expanded = {t \in DoubtedTokens : source[t] # NoBody}
    BY <2>2 DEF GroundInv, Expanding
  <2>4. Bodies(expanded) = Bodies(DoubtedTokens)
    BY <2>3 DEF Bodies
  <2> QED BY <2>4 DEF After
<1>3. NeverDegrades
  BY DEF NeverDegrades, GroundInv, Revised, Flagged, Supported
<1>4. Coverage
  <2> SUFFICES ASSUME at = "calibrated"
               PROVE  10 * Cardinality({i \in Positives(sample) : sample[i].score < gate})
                        <= tenths * Cardinality(Positives(sample))
    BY DEF Coverage
  <2>1. sample \in Samples /\ tenths \in Nat /\ gate = Quantile(sample, tenths)
    BY DEF GroundInv
  <2> QED BY <2>1, QuantileCovers
<1> QED BY <1>1, <1>2, <1>3, <1>4 DEF GroundingSound

\* The verifier only gains by what it expands, misses nothing below its cap, never degrades an
\* answer, and calibrates a threshold that covers its share.
THEOREM GroundingSoundCorrect == GroundSpec => []GroundingSound
<1>1. GroundInit => GroundInv
  BY GroundStart
<1>2. GroundInv /\ [GroundNext]_groundVars => GroundInv'
  BY GroundStep
<1>3. GroundInv => GroundingSound
  BY GroundHolds
<1> QED BY <1>1, <1>2, <1>3, PTL DEF GroundSpec

-----------------------------------------------------------------------------
(* Questions to several providers *)

\* A list that names each provider once.
Listed(o) ==
  /\ Len(o) \in Nat \ {0} /\ DOMAIN o = 1 .. Len(o)
  /\ \A i, j \in DOMAIN o : o[i] = o[j] => i = j

LEMMA PolicyListed ==
  ASSUME NEW o \in TryOrders
  PROVE  Listed(o)
<1>1. o # <<>> /\ o \in Seq({o[i] : i \in DOMAIN o}) /\ \A i, j \in DOMAIN o : o[i] = o[j] => i = j
  BY AskAssumption
<1>2. Len(o) \in Nat /\ DOMAIN o = 1 .. Len(o)
  BY <1>1
<1>3. Len(o) # 0
  BY <1>1, EmptySeq
<1> QED BY <1>1, <1>2, <1>3 DEF Listed

LEMMA ListedOnce ==
  ASSUME NEW o, Listed(o), NEW a \in DOMAIN o, NEW b \in DOMAIN o, o[a] = o[b]
  PROVE  a = b
BY DEF Listed

LEMMA PinnedListed ==
  ASSUME NEW o, Listed(o), NEW p
  PROVE  Listed(PinnedFirst(p, o))
<1> DEFINE n == IF p \in {o[k] : k \in DOMAIN o} THEN Len(o) ELSE Len(o) + 1
           f == PinnedFirst(p, o)
           Seen(i) == p \in {o[k] : k \in 1 .. i - 1}
<1>1. n \in Nat \ {0} /\ n \in {Len(o), Len(o) + 1} /\ Len(o) \in Nat /\ DOMAIN o = 1 .. Len(o)
  BY DEF Listed
<1>2. f = [i \in 1 .. n |-> CASE i = 1 -> p [] i > 1 /\ Seen(i) -> o[i] [] OTHER -> o[i - 1]]
  BY DEF PinnedFirst
<1>3. DOMAIN f = 1 .. n /\ Len(f) = n
  BY <1>1, <1>2
<1>4. ASSUME NEW i \in 1 .. n
      PROVE  /\ i = 1 => f[i] = p
             /\ i # 1 /\ Seen(i) => f[i] = o[i] /\ i \in DOMAIN o /\ o[i] # p
             /\ i # 1 /\ ~Seen(i) => f[i] = o[i - 1] /\ i - 1 \in DOMAIN o /\ o[i - 1] # p
  <2>1. i = 1 => f[i] = p
    BY <1>2
  <2>2. CASE i # 1 /\ Seen(i)
    <3>1. PICK k \in 1 .. i - 1 : o[k] = p
      BY <2>2
    <3>2. k \in DOMAIN o /\ k # i
      BY <1>1, <3>1
    <3>3. n = Len(o)
      BY <3>1, <3>2
    <3>4. i \in DOMAIN o /\ o[i] # p
      BY <1>1, <3>1, <3>2, <3>3 DEF Listed
    <3> QED BY <1>1, <1>2, <2>2, <3>4
  <2>3. CASE i # 1 /\ ~Seen(i)
    <3>1. i - 1 \in DOMAIN o /\ i - 1 \in 1 .. i - 1
      BY <1>1, <2>3
    <3>2. o[i - 1] # p
      BY <2>3, <3>1
    <3>3. ~(i > 1 /\ Seen(i))
      BY <2>3
    <3>4. f[i] = o[i - 1]
      <4> HIDE DEF Seen
      <4> QED BY <1>2, <2>3, <3>3
    <3> QED BY <2>3, <3>1, <3>2, <3>4
  <2> QED BY <2>1, <2>2, <2>3
<1>5. ASSUME NEW i \in 1 .. n, NEW j \in 1 .. n, f[i] = f[j], i < j PROVE FALSE
  <2>1. j # 1 /\ i \in Nat /\ j \in Nat
    BY <1>1, <1>5
  <2>2. CASE i = 1
    <3> HIDE DEF f, n
    <3> QED BY <1>4, <1>5, <2>1, <2>2
  <2>3. CASE i # 1 /\ Seen(i) /\ Seen(j)
    <3>1. f[i] = o[i] /\ f[j] = o[j] /\ i \in DOMAIN o /\ j \in DOMAIN o
      <4> HIDE DEF f, n, Seen
      <4> QED BY <1>4, <2>1, <2>3
    <3> HIDE DEF f, n, Seen
    <3>2. o[i] = o[j]
      BY <1>5, <3>1
    <3>3. i = j
      BY <3>1, <3>2, ListedOnce
    <3> QED BY <1>5, <2>1, <3>3
  <2>6. CASE i # 1 /\ ~Seen(i) /\ ~Seen(j)
    <3>1. f[i] = o[i - 1] /\ f[j] = o[j - 1] /\ i - 1 \in DOMAIN o /\ j - 1 \in DOMAIN o
      <4> HIDE DEF f, n, Seen
      <4> QED BY <1>4, <2>1, <2>6
    <3> HIDE DEF f, n, Seen
    <3>2. o[i - 1] = o[j - 1]
      BY <1>5, <3>1
    <3>3. i - 1 = j - 1
      BY <3>1, <3>2, ListedOnce
    <3> QED BY <1>5, <2>1, <3>3
  <2>4. CASE i # 1 /\ ~Seen(i) /\ Seen(j)
    <3>1. f[i] = o[i - 1] /\ f[j] = o[j] /\ i - 1 \in DOMAIN o /\ j \in DOMAIN o
      <4> HIDE DEF f, n, Seen
      <4> QED BY <1>4, <2>1, <2>4
    <3> HIDE DEF f, n, Seen
    <3>2. o[i - 1] = o[j]
      BY <1>5, <3>1
    <3>3. i - 1 = j
      BY <3>1, <3>2, ListedOnce
    <3> QED BY <1>5, <2>1, <3>3
  <2>5. Seen(i) => Seen(j)
    BY <1>1, <1>5
  <2> HIDE DEF Seen, n, f
  <2> QED BY <2>2, <2>3, <2>4, <2>5, <2>6
<1>6. ASSUME NEW i \in 1 .. n, NEW j \in 1 .. n, f[i] = f[j] PROVE i = j
  <2>1. i \in Nat /\ j \in Nat /\ (i < j \/ j < i \/ i = j)
    BY <1>1
  <2> HIDE DEF f, n
  <2> QED BY <1>5, <1>6, <2>1
<1> HIDE DEF f, n
<1>7. Listed(f)
  BY <1>1, <1>3, <1>6 DEF Listed
<1> QED BY <1>7 DEF f

\* A question while it is asked, and when it was answered or given up.
QueryShape(q) ==
  /\ q = [pass |-> q.pass, order |-> q.order, next |-> q.next, replies |-> q.replies,
          err |-> q.err, calls |-> q.calls, spoke |-> q.spoke, text |-> q.text, by |-> q.by,
          conf |-> q.conf]
  /\ q.pass \in {"idle", "consensus", "route", "answered", "failed"}
  /\ q.calls \in Nat
  /\ IF q.pass = "idle" THEN q.order = <<>> /\ q.calls = 0 ELSE Listed(q.order)
  /\ q.pass # "answered" => q.conf = Neutral
  /\ q.conf \in {40, Neutral, 75, Single}
Comparing(q) ==
  /\ policy.consensus /\ q.next \in 1 .. Len(q.order) /\ q.calls = q.next - 1 /\ q.err = "absent"
  /\ \/ q.replies = <<>> /\ q.spoke = {}
     \/ \E k \in 1 .. q.next - 1, t \in AnswerTexts :
          q.replies = <<<<q.order[k], t>>>> /\ q.spoke = {q.order[k]}
Trying(q) ==
  /\ q.next \in 1 .. Len(q.order) /\ q.spoke = {}
  /\ q.calls >= q.next - 1 /\ q.calls <= Len(q.order) + q.next - 1
  /\ q.err = "absent" <=> \A i \in 1 .. q.next - 1 : q.order[i] \notin policy.keyed
Refused(q) ==
  /\ q.spoke = {} /\ q.calls >= Len(q.order) /\ q.calls <= 2 * Len(q.order)
  /\ q.err = "absent" <=> \A i \in DOMAIN q.order : q.order[i] \notin policy.keyed
AnsweredWell(q) ==
  /\ q.by \in q.spoke /\ q.calls <= 2 * Len(q.order)
  /\ \A i, j \in DOMAIN q.order : q.order[i] \in q.spoke /\ q.order[j] = q.by => j <= i
  /\ q.conf < Single => policy.consensus /\ Cardinality(q.spoke) = 2

QueryInv(q) ==
  /\ QueryShape(q)
  /\ q.pass = "consensus" => Comparing(q)
  /\ q.pass = "route" => Trying(q)
  /\ q.pass = "failed" => Refused(q)
  /\ q.pass = "answered" => AnsweredWell(q)

RouteInv == policy.order \in TryOrders /\ QueryInv(query)

LEMMA NoQueryWell == QueryInv(NoQuery)
BY DEF NoQuery, QueryInv, QueryShape, Neutral, Single

LEMMA StartedWell ==
  ASSUME policy.order \in TryOrders, NEW pin
  PROVE  QueryInv(Started(pin))
<1>1. PICK o : Listed(o) /\ o = IF pin = <<>> THEN policy.order ELSE PinnedFirst(pin[1], policy.order)
  BY PolicyListed, PinnedListed
<1>2. PICK pass \in {"consensus", "route"} :
        pass = (IF pin = <<>> /\ policy.consensus THEN "consensus" ELSE "route")
  OBVIOUS
<1>3. Started(pin) = [pass |-> pass, order |-> o, next |-> 1, replies |-> <<>>, err |-> "absent",
            calls |-> 0, spoke |-> {}, text |-> "none", by |-> "none", conf |-> Neutral]
  <2>1. Started(pin) = [NoQuery EXCEPT !.order = o, !.pass = pass]
    BY <1>1, <1>2 DEF Started
  <2> QED BY <2>1 DEF NoQuery
<1>4. QueryShape(Started(pin))
  BY <1>1, <1>3 DEF QueryShape, Neutral, Single
<1>5. pass = "consensus" => Comparing(Started(pin))
  BY <1>1, <1>2, <1>3 DEF Comparing, Listed
<1>6. pass = "route" => Trying(Started(pin))
  BY <1>1, <1>2, <1>3 DEF Trying, Listed
<1> QED BY <1>2, <1>3, <1>4, <1>5, <1>6 DEF QueryInv

LEMMA ShortLists ==
  ASSUME NEW x, NEW y
  PROVE  /\ Append(<<>>, x) = <<x>> /\ Append(<<y>>, x) = <<y, x>>
         /\ Len(<<>>) = 0 /\ Len(<<x>>) = 1 /\ Len(<<y, x>>) = 2
<1>1. <<>> \in Seq({x, y}) /\ <<x>> \in Seq({x, y}) /\ <<y>> \in Seq({x, y}) /\ <<y, x>> \in Seq({x, y})
  OBVIOUS
<1>2. Len(<<>>) = 0 /\ Len(<<x>>) = 1 /\ Len(<<y, x>>) = 2 /\ Len(<<y>>) = 1
  OBVIOUS
<1>3. Append(<<>>, x) = <<x>>
  <2>1. Append(<<>>, x) \in Seq({x, y}) /\ Len(Append(<<>>, x)) = 1 /\ Append(<<>>, x)[1] = x
    BY <1>1, <1>2, AppendProperties
  <2>2. <<x>>[1] = x
    OBVIOUS
  <2> QED BY <1>1, <1>2, <2>1, <2>2, SeqEqual
<1>4. Append(<<y>>, x) = <<y, x>>
  <2>1. Append(<<y>>, x) \in Seq({x, y}) /\ Len(Append(<<y>>, x)) = 2 /\ Append(<<y>>, x)[1] = y
        /\ Append(<<y>>, x)[2] = x
    BY <1>1, <1>2, AppendProperties
  <2>2. <<y, x>>[1] = y /\ <<y, x>>[2] = x
    OBVIOUS
  <2>3. \A i \in 1 .. 2 : Append(<<y>>, x)[i] = <<y, x>>[i]
    <3>1. \A i \in 1 .. 2 : i = 1 \/ i = 2
      OBVIOUS
    <3> QED BY <2>1, <2>2, <3>1
  <2> QED BY <1>1, <1>2, <2>1, <2>3, SeqEqual
<1> QED BY <1>2, <1>3, <1>4

\* What a question has become once its next provider was called.
LEMMA AskingFacts ==
  ASSUME NEW q, QueryShape(q), NEW p, NEW outcome
  PROVE  Asking(q, p, outcome) =
           [pass |-> q.pass, order |-> q.order, next |-> q.next + 1, replies |-> q.replies,
            err |-> q.err, calls |-> q.calls + 1,
            spoke |-> IF outcome \in AnswerTexts THEN q.spoke \cup {p} ELSE q.spoke,
            text |-> q.text, by |-> q.by, conf |-> q.conf]
<1>1. PICK spoke : spoke = IF outcome \in AnswerTexts THEN q.spoke \cup {p} ELSE q.spoke
  OBVIOUS
<1>2. Asking(q, p, outcome) = [q EXCEPT !.calls = q.calls + 1, !.next = q.next + 1, !.spoke = spoke]
  BY <1>1 DEF Asking
<1>3. q = [pass |-> q.pass, order |-> q.order, next |-> q.next, replies |-> q.replies,
          err |-> q.err, calls |-> q.calls, spoke |-> q.spoke, text |-> q.text, by |-> q.by,
          conf |-> q.conf]
  BY DEF QueryShape
<1> QED BY <1>1, <1>2, <1>3

\* An answer is that of the first provider that spoke.
LEMMA SettledWell ==
  ASSUME NEW q, Listed(q.order), q.calls \in Nat, q.calls <= 2 * Len(q.order),
         q = [pass |-> q.pass, order |-> q.order, next |-> q.next, replies |-> q.replies,
          err |-> q.err, calls |-> q.calls, spoke |-> q.spoke, text |-> q.text, by |-> q.by,
          conf |-> q.conf],
         NEW k \in DOMAIN q.order, q.order[k] \in q.spoke,
         \A i \in DOMAIN q.order : q.order[i] \in q.spoke => k <= i,
         NEW text, NEW conf \in {40, 75, Single},
         conf = Single \/ (policy.consensus /\ Cardinality(q.spoke) = 2)
  PROVE  QueryInv(Settled(q, q.order[k], text, conf))
<1>1. PICK r : r = Settled(q, q.order[k], text, conf)
  OBVIOUS
<1>2. r = [pass |-> "answered", order |-> q.order, next |-> q.next, replies |-> q.replies,
          err |-> q.err, calls |-> q.calls, spoke |-> q.spoke, text |-> text, by |-> q.order[k],
          conf |-> conf]
  BY <1>1 DEF Settled
<1>3. QueryShape(r)
  BY <1>2 DEF QueryShape, Single, Neutral
<1>4. AnsweredWell(r)
  <2>1. \A i, j \in DOMAIN r.order : r.order[i] \in r.spoke /\ r.order[j] = r.by => j <= i
    <3> SUFFICES ASSUME NEW i \in DOMAIN q.order, NEW j \in DOMAIN q.order, q.order[i] \in q.spoke,
                        q.order[j] = q.order[k]
                 PROVE  j <= i
      BY <1>2
    <3> QED BY ListedOnce
  <2> QED BY <1>2, <2>1 DEF AnsweredWell, Single
<1>5. QueryInv(r)
  BY <1>2, <1>3, <1>4 DEF QueryInv
<1> QED BY <1>1, <1>5

\* What is known of a question does not depend on anything but the policy.
LEMMA QueryNow ==
  ASSUME NEW r, QueryInv(r), query' = r, policy' = policy
  PROVE  QueryInv(query)'
BY DEF QueryInv, QueryShape, Comparing, Trying, Refused, AnsweredWell

\* Under consensus at most one has answered before the call, and the second ends the question.
LEMMA CompareKeeps ==
  ASSUME RouteInv, NEW outcome, Compare(outcome)
  PROVE  RouteInv'
<1>1. /\ query.pass = "consensus" /\ QueryShape(query) /\ Comparing(query) /\ policy' = policy
      /\ policy.order \in TryOrders
  BY DEF Compare, RouteInv, QueryInv
<1>2. PICK o : o = query.order
  OBVIOUS
<1>3. PICK c \in 1 .. Len(o) : c = query.next /\ query.calls = c - 1
  BY <1>1, <1>2 DEF Comparing
<1>4. Listed(o)
  BY <1>1, <1>2 DEF QueryShape
<1>5. PICK q : q = Asking(query, o[c], outcome)
  OBVIOUS
<1>6. q = [pass |-> "consensus", order |-> o, next |-> c + 1, replies |-> query.replies,
           err |-> "absent", calls |-> c,
           spoke |-> IF outcome \in AnswerTexts THEN query.spoke \cup {o[c]} ELSE query.spoke,
           text |-> query.text, by |-> query.by, conf |-> Neutral]
  <2>1. query.err = "absent" /\ query.conf = Neutral /\ query.calls + 1 = c /\ query.next + 1 = c + 1
    BY <1>1, <1>3, <1>4 DEF Comparing, QueryShape, Listed
  <2> QED BY <1>1, <1>2, <1>5, <2>1, AskingFacts
<1>7. PICK rs : rs = IF outcome \in AnswerTexts THEN Append(query.replies, <<o[c], outcome>>) ELSE query.replies
  OBVIOUS
<1>8. /\ query.replies = <<>> /\ query.spoke = {}
      \/ \E k \in 1 .. c - 1, t \in AnswerTexts :
           query.replies = <<<<o[k], t>>>> /\ query.spoke = {o[k]}
  BY <1>1, <1>2, <1>3 DEF Comparing
<1>9. c = Len(o) <=> c + 1 > Len(o)
  BY <1>3, <1>4 DEF Listed
<1>10. CASE query.replies = <<>> /\ query.spoke = {} /\ outcome \notin AnswerTexts
  <2>1. rs = <<>> /\ Len(rs) = 0
    BY <1>7, <1>10
  <2>2. CASE c # Len(o)
    <3>1. query' = [q EXCEPT !.replies = <<>>]
      BY <1>2, <1>3, <1>5, <1>6, <1>7, <1>9, <2>1, <2>2 DEF Compare
    <3>2. query' = [pass |-> "consensus", order |-> o, next |-> c + 1, replies |-> <<>>,
           err |-> "absent", calls |-> c, spoke |-> {},
           text |-> query.text, by |-> query.by, conf |-> Neutral]
      BY <1>6, <1>10, <3>1
    <3> QED BY <1>1, <1>3, <1>4, <2>2, <3>2
            DEF RouteInv, QueryInv, QueryShape, Comparing, Listed, Neutral, Single
  <2>3. CASE c = Len(o)
    <3>1. query' = [q EXCEPT !.pass = "route", !.next = 1]
      BY <1>2, <1>3, <1>5, <1>6, <1>7, <1>9, <2>1, <2>3 DEF Compare
    <3>2. query' = [pass |-> "route", order |-> o, next |-> 1, replies |-> query.replies,
           err |-> "absent", calls |-> c, spoke |-> {},
           text |-> query.text, by |-> query.by, conf |-> Neutral]
      BY <1>6, <1>10, <3>1
    <3> QED BY <1>1, <1>3, <1>4, <2>3, <3>2
            DEF RouteInv, QueryInv, QueryShape, Trying, Listed, Neutral, Single
  <2> QED BY <2>2, <2>3
<1>11. CASE query.replies = <<>> /\ query.spoke = {} /\ outcome \in AnswerTexts
  <2>1. rs = <<<<o[c], outcome>>>> /\ Len(rs) = 1
    BY <1>7, <1>11, ShortLists
  <2>2. CASE c # Len(o)
    <3>1. query' = [q EXCEPT !.replies = rs]
      BY <1>2, <1>3, <1>5, <1>6, <1>7, <1>9, <2>1, <2>2 DEF Compare
    <3>2. query' = [pass |-> "consensus", order |-> o, next |-> c + 1, replies |-> <<<<o[c], outcome>>>>,
           err |-> "absent", calls |-> c, spoke |-> {o[c]},
           text |-> query.text, by |-> query.by, conf |-> Neutral]
      BY <1>6, <1>11, <2>1, <3>1
    <3>3. Comparing(query)'
      BY <1>1, <1>3, <1>4, <1>11, <2>2, <3>2 DEF Comparing, Listed
    <3> QED BY <1>1, <1>3, <1>4, <3>2, <3>3
            DEF RouteInv, QueryInv, QueryShape, Neutral, Single
  <2>3. CASE c = Len(o)
    <3>1. query' = Settled(q, o[c], outcome, Single)
      BY <1>2, <1>3, <1>5, <1>6, <1>7, <1>9, <2>1, <2>3 DEF Compare
    <3>2. c \in DOMAIN q.order /\ q.order[c] = o[c] /\ q.spoke = {o[c]} /\ Listed(q.order)
          /\ q.calls = c /\ Len(q.order) = Len(o)
      BY <1>3, <1>4, <1>6, <1>11 DEF Listed
    <3>3. \A i \in DOMAIN q.order : q.order[i] \in q.spoke => c <= i
      BY <1>3, <3>2, ListedOnce
    <3>4. q.calls \in Nat /\ q.calls <= 2 * Len(q.order)
      BY <1>3, <1>4, <3>2 DEF Listed
    <3>5. q = [pass |-> q.pass, order |-> q.order, next |-> q.next, replies |-> q.replies,
          err |-> q.err, calls |-> q.calls, spoke |-> q.spoke, text |-> q.text, by |-> q.by,
          conf |-> q.conf]
      BY <1>6
    <3>6. QueryInv(Settled(q, q.order[c], outcome, Single))
      BY <3>2, <3>3, <3>4, <3>5, SettledWell
    <3>7. QueryInv(query)'
      BY <1>1, <3>1, <3>2, <3>6, QueryNow
    <3> QED BY <1>1, <3>7 DEF RouteInv
  <2> QED BY <2>2, <2>3
<1>12. ASSUME NEW k \in 1 .. c - 1, NEW t \in AnswerTexts, query.replies = <<<<o[k], t>>>>,
              query.spoke = {o[k]}
       PROVE  RouteInv'
  <2>1. k \in DOMAIN o /\ k # c /\ k \in 1 .. c /\ c \in DOMAIN o
    BY <1>3, <1>4 DEF Listed
  <2>2. q = [pass |-> q.pass, order |-> q.order, next |-> q.next, replies |-> q.replies,
          err |-> q.err, calls |-> q.calls, spoke |-> q.spoke, text |-> q.text, by |-> q.by,
          conf |-> q.conf] /\ q.order = o /\ q.calls = c
    BY <1>6
  <2>3. c \in Nat /\ c <= 2 * Len(o)
    BY <1>3, <1>4 DEF Listed
  <2>4. CASE outcome \notin AnswerTexts
    <3>1. rs = <<<<o[k], t>>>> /\ Len(rs) = 1 /\ rs[1][1] = o[k] /\ rs[1][2] = t
      BY <1>7, <1>12, <2>4
    <3>2. CASE c # Len(o)
      <4>1. query' = [q EXCEPT !.replies = rs]
        BY <1>2, <1>3, <1>5, <1>6, <1>7, <1>9, <3>1, <3>2 DEF Compare
      <4>2. query' = [pass |-> "consensus", order |-> o, next |-> c + 1, replies |-> <<<<o[k], t>>>>,
             err |-> "absent", calls |-> c, spoke |-> {o[k]},
             text |-> query.text, by |-> query.by, conf |-> Neutral]
        BY <1>6, <1>12, <2>4, <3>1, <4>1
      <4>3. Comparing(query)'
        BY <1>1, <1>3, <1>4, <2>1, <3>2, <4>2, SMTT(60) DEF Comparing, Listed
      <4> QED BY <1>1, <1>3, <1>4, <4>2, <4>3
              DEF RouteInv, QueryInv, QueryShape, Neutral, Single
    <3>3. CASE c = Len(o)
      <4>1. query' = Settled(q, o[k], t, Single)
        BY <1>2, <1>3, <1>5, <1>6, <1>7, <1>9, <3>1, <3>3 DEF Compare
      <4>2. q.spoke = {o[k]}
        BY <1>6, <1>12, <2>4
      <4>3. \A i \in DOMAIN q.order : q.order[i] \in q.spoke => k <= i
        BY <1>4, <2>1, <2>2, <4>2, ListedOnce
      <4>4. QueryInv(Settled(q, q.order[k], t, Single))
        BY <1>4, <2>1, <2>2, <2>3, <4>2, <4>3, SettledWell
      <4>5. QueryInv(query)'
        BY <1>1, <2>2, <4>1, <4>4, QueryNow
      <4> QED BY <1>1, <4>5 DEF RouteInv
    <3> QED BY <3>2, <3>3
  <2>5. CASE outcome \in AnswerTexts
    <3>1. rs = << <<o[k], t>>, <<o[c], outcome>> >> /\ Len(rs) = 2
      BY <1>7, <1>12, <2>5, ShortLists
    <3>2. rs[1][1] = o[k] /\ rs[1][2] = t
      BY <3>1
    <3>3. PICK conf \in {40, 75} : conf = Fused(rs[1][2], rs[2][2])
      BY DEF Fused
    <3>4. query' = Settled(q, o[k], t, conf)
      BY <1>2, <1>3, <1>5, <1>6, <1>7, <1>9, <3>1, <3>2, <3>3, SMTT(60) DEF Compare
    <3>5. q.spoke = {o[k], o[c]} /\ o[k] # o[c]
      BY <1>4, <1>6, <1>12, <2>1, <2>5, ListedOnce
    <3>6. Cardinality(q.spoke) = 2
      <4>1. Cardinality({o[k]}) = 1 /\ IsFiniteSet({o[k]})
        BY FS_Singleton
      <4>2. Cardinality({o[k]} \cup {o[c]}) = 2
        <5>1. o[c] \notin {o[k]}
          BY <3>5
        <5>2. Cardinality({o[k]} \cup {o[c]}) = Cardinality({o[k]}) + 1
          BY <4>1, <5>1, FS_AddElement
        <5> QED BY <4>1, <5>2
      <4>3. q.spoke = {o[k]} \cup {o[c]}
        BY <3>5
      <4> QED BY <4>2, <4>3
    <3>7. \A i \in DOMAIN q.order : q.order[i] \in q.spoke => k <= i
      <4> SUFFICES ASSUME NEW i \in DOMAIN o, o[i] = o[k] \/ o[i] = o[c] PROVE k <= i
        BY <2>2, <3>5
      <4>1. i = k \/ i = c
        BY <1>4, <2>1, ListedOnce
      <4> QED BY <1>3, <2>1, <4>1
    <3>8. QueryInv(Settled(q, q.order[k], t, conf))
      BY <1>1, <1>4, <2>1, <2>2, <2>3, <3>5, <3>6, <3>7, SettledWell DEF Comparing
    <3>9. QueryInv(query)'
      BY <1>1, <2>2, <3>4, <3>8, QueryNow
    <3> QED BY <1>1, <3>9 DEF RouteInv
  <2> QED BY <2>4, <2>5
<1> QED BY <1>8, <1>10, <1>11, <1>12

\* The plain routing: nobody has answered before the call.
LEMMA RouteKeeps ==
  ASSUME RouteInv, NEW outcome, Route(outcome)
  PROVE  RouteInv'
<1>1. /\ query.pass = "route" /\ QueryShape(query) /\ Trying(query) /\ policy' = policy
      /\ policy.order \in TryOrders
  BY DEF Route, RouteInv, QueryInv
<1>2. PICK o : o = query.order
  OBVIOUS
<1>3. PICK c \in 1 .. Len(o) : c = query.next
  BY <1>1, <1>2 DEF Trying
<1>4. Listed(o)
  BY <1>1, <1>2 DEF QueryShape
<1>5. PICK q : q = Asking(query, o[c], outcome)
  OBVIOUS
<1>6. PICK calls \in Nat : calls = query.calls + 1 /\ calls >= c /\ calls <= Len(o) + c
  BY <1>1, <1>2, <1>3, <1>4 DEF QueryShape, Trying, Listed
<1>7. q = [pass |-> "route", order |-> o, next |-> c + 1, replies |-> query.replies,
           err |-> query.err, calls |-> calls,
           spoke |-> IF outcome \in AnswerTexts THEN {o[c]} ELSE {},
           text |-> query.text, by |-> query.by, conf |-> Neutral]
  <2>1. query.conf = Neutral /\ query.spoke = {}
    BY <1>1 DEF Trying, QueryShape
  <2>2. Asking(query, o[c], outcome) =
          [pass |-> query.pass, order |-> query.order, next |-> query.next + 1, replies |-> query.replies,
            err |-> query.err, calls |-> query.calls + 1,
            spoke |-> IF outcome \in AnswerTexts THEN query.spoke \cup {o[c]} ELSE query.spoke,
            text |-> query.text, by |-> query.by, conf |-> query.conf]
    BY <1>1, AskingFacts
  <2> QED BY <1>1, <1>2, <1>3, <1>5, <1>6, <2>1, <2>2
<1>8. outcome \in Possible(o[c])
  BY <1>2, <1>3 DEF Route
<1>9. CASE outcome \in AnswerTexts
  <2>1. query' = Settled(q, o[c], outcome, Single)
    BY <1>2, <1>3, <1>5, <1>9 DEF Route
  <2>2. q = [pass |-> q.pass, order |-> q.order, next |-> q.next, replies |-> q.replies,
          err |-> q.err, calls |-> q.calls, spoke |-> q.spoke, text |-> q.text, by |-> q.by,
          conf |-> q.conf] /\ q.order = o /\ q.calls = calls /\ q.spoke = {o[c]}
    BY <1>7, <1>9
  <2>3. c \in DOMAIN o /\ calls <= 2 * Len(o)
    BY <1>3, <1>4, <1>6 DEF Listed
  <2>4. \A i \in DOMAIN q.order : q.order[i] \in q.spoke => c <= i
    BY <1>3, <1>4, <2>2, <2>3, ListedOnce
  <2>5. QueryInv(Settled(q, q.order[c], outcome, Single))
    BY <1>4, <2>2, <2>3, <2>4, SettledWell
  <2>6. QueryInv(query)'
    BY <1>1, <2>1, <2>2, <2>5, QueryNow
  <2> QED BY <1>1, <2>6 DEF RouteInv
<1>10. CASE outcome \notin AnswerTexts
  <2>1. PICK err : err = IF query.err = "absent" THEN outcome ELSE query.err
    OBVIOUS
  <2>2. PICK pass \in {"route", "failed"} : pass = IF c + 1 > Len(o) THEN "failed" ELSE "route"
    OBVIOUS
  <2>3. query' = [q EXCEPT !.err = err, !.pass = pass]
    BY <1>2, <1>3, <1>5, <1>7, <1>10, <2>1, <2>2 DEF Route
  <2>4. query' = [pass |-> pass, order |-> o, next |-> c + 1, replies |-> query.replies,
           err |-> err, calls |-> calls, spoke |-> {},
           text |-> query.text, by |-> query.by, conf |-> Neutral]
    BY <1>7, <1>10, <2>3
  <2>5. err = "absent" <=> \A i \in 1 .. c : o[i] \notin policy.keyed
    <3>1. query.err = "absent" <=> \A i \in 1 .. c - 1 : o[i] \notin policy.keyed
      BY <1>1, <1>2, <1>3 DEF Trying
    <3>2. outcome = "absent" <=> o[c] \notin policy.keyed
      BY <1>8, <1>10 DEF Possible
    <3>3. \A i : i \in 1 .. c <=> i \in 1 .. c - 1 \/ i = c
      BY <1>3
    <3> QED BY <2>1, <3>1, <3>2, <3>3
  <2>6. CASE pass = "route"
    <3>1. Trying(query)'
      BY <1>1, <1>3, <1>4, <1>6, <2>2, <2>4, <2>5, <2>6 DEF Trying, Listed
    <3> QED BY <1>1, <1>4, <2>4, <2>6, <3>1 DEF RouteInv, QueryInv, QueryShape, Neutral, Single
  <2>7. CASE pass = "failed"
    <3>1. c = Len(o) /\ DOMAIN o = 1 .. c
      BY <1>3, <1>4, <2>2, <2>7 DEF Listed
    <3>2. Refused(query)'
      BY <1>1, <1>3, <1>6, <2>4, <2>5, <3>1 DEF Refused
    <3> QED BY <1>1, <1>4, <2>4, <2>7, <3>2 DEF RouteInv, QueryInv, QueryShape, Neutral, Single
  <2> QED BY <2>6, <2>7
<1> QED BY <1>9, <1>10

LEMMA SmallNumbers ==
  ASSUME NEW n \in Nat
  PROVE  (n >= 1 /\ n <= 3 => n \in 1 .. 3) /\ (n # 0 /\ n + 1 \in 1 .. 3 => n \in {1, 2})
OBVIOUS

\* What up to three agents' beliefs add up to.
Confidences == {40, Neutral, 75, Single}
Pool(confs, n) ==
  IF n = 1 THEN <<4 * confs[1], 400 - 4 * confs[1]>>
  ELSE IF n = 2 THEN <<4 * (confs[1] + confs[2]) - 100, 700 - 4 * (confs[1] + confs[2])>>
  ELSE <<4 * (confs[1] + confs[2] + confs[3]) - 200, 1000 - 4 * (confs[1] + confs[2] + confs[3])>>

LEMMA AppendFacts ==
  ASSUME NEW confs \in Seq(Confidences), NEW conf \in Confidences
  PROVE  /\ Append(confs, conf) \in Seq(Confidences) /\ Len(Append(confs, conf)) = Len(confs) + 1
         /\ Append(confs, conf)[Len(confs) + 1] = conf
         /\ \A i \in 1 .. Len(confs) : Append(confs, conf)[i] = confs[i]
BY AppendProperties

LEMMA ConfidenceOf ==
  ASSUME NEW confs \in Seq(Confidences), NEW i \in 1 .. Len(confs)
  PROVE  confs[i] \in Nat /\ confs[i] >= 40 /\ confs[i] <= 80
<1>1. confs[i] \in Confidences
  OBVIOUS
<1> QED BY <1>1 DEF Confidences, Neutral, Single

\* The sum of the first stays what it is as answers are added.
LEMMA PoolKept ==
  ASSUME NEW confs \in Seq(Confidences), NEW conf \in Confidences, NEW n \in 1 .. 3, n <= Len(confs)
  PROVE  Pool(Append(confs, conf), n) = Pool(confs, n)
<1>1. Len(confs) \in Nat /\ \A i \in 1 .. Len(confs) : Append(confs, conf)[i] = confs[i]
  BY AppendFacts
<1>2. CASE n = 1
  <2>1. Append(confs, conf)[1] = confs[1]
    BY <1>1, <1>2
  <2> QED BY <1>2, <2>1 DEF Pool
<1>3. CASE n = 2
  <2>1. Append(confs, conf)[1] = confs[1] /\ Append(confs, conf)[2] = confs[2]
    BY <1>1, <1>3
  <2> QED BY <1>3, <2>1 DEF Pool
<1>4. CASE n = 3
  <2>1. Append(confs, conf)[1] = confs[1] /\ Append(confs, conf)[2] = confs[2]
        /\ Append(confs, conf)[3] = confs[3]
    BY <1>1, <1>4
  <2> QED BY <1>4, <2>1 DEF Pool
<1> QED BY <1>2, <1>3, <1>4

\* Answers do not conflict, however confident: their evidence is added.
LEMMA NoConflict ==
  ASSUME NEW t \in {400, 600}, NEW a \in Nat, a >= 120, a <= t - 40, NEW conf \in Confidences
  PROVE  /\ ~Conflict(<<a, t - a>>, FromConfidence(conf))
         /\ Combined(<<a, t - a>>, FromConfidence(conf)) = <<a + 4 * conf - 100, t - a + 300 - 4 * conf>>
<1>1. PICK y \in Nat, n \in Nat : y = 4 * conf /\ n = 400 - 4 * conf /\ y + n = 400 /\ <<y, n>> \in {<<160, 240>>, <<200, 200>>, <<300, 100>>, <<320, 80>>}
  BY DEF Confidences, Neutral, Single
<1>2. FromConfidence(conf) = <<y, n>>
  BY <1>1 DEF FromConfidence, Strength, Confidences, Neutral, Single
<1>3. PICK b \in Nat : b = t - a /\ b >= 40
  OBVIOUS
<1>4. Total(<<a, b>>) = t /\ Total(<<y, n>>) = 400
  BY <1>1, <1>3 DEF Total
<1>5. Conflict(<<a, b>>, <<y, n>>) <=> 10 * (a * n + y * b) > 8 * t * 400
  BY <1>4 DEF Conflict
<1>6. ~Conflict(<<a, b>>, <<y, n>>)
  <2>1. CASE y = 160 /\ n = 240
    BY <1>3, <1>5, <2>1
  <2>2. CASE y = 200 /\ n = 200
    BY <1>3, <1>5, <2>2
  <2>3. CASE y = 300 /\ n = 100
    BY <1>3, <1>5, <2>3
  <2>4. CASE y = 320 /\ n = 80
    BY <1>3, <1>5, <2>4
  <2> QED BY <1>1, <2>1, <2>2, <2>3, <2>4
<1>7. Combined(<<a, b>>, <<y, n>>) = <<a + y - 100, b + n - 100>>
  BY <1>1, <1>3 DEF Combined, NotBelow0
<1>8. a + y - 100 = a + 4 * conf - 100 /\ b + n - 100 = t - a + 300 - 4 * conf
  BY <1>1, <1>3 DEF Confidences, Neutral, Single
<1> QED BY <1>2, <1>3, <1>6, <1>7, <1>8

LEMMA TwoAdded ==
  ASSUME NEW c \in Nat, NEW d \in Nat, NEW a \in Nat, a = 4 * c
  PROVE  a + 4 * d - 100 = 4 * (c + d) - 100 /\ 400 - a + 300 - 4 * d = 700 - 4 * (c + d)
OBVIOUS

LEMMA ThreeAdded ==
  ASSUME NEW c \in Nat, NEW d \in Nat, NEW a \in Nat, a = 4 * c - 100
  PROVE  /\ a + 4 * d - 100 = 4 * (c + d) - 200 /\ 600 - a + 300 - 4 * d = 1000 - 4 * (c + d)
         /\ 600 - a = 700 - 4 * c
OBVIOUS

LEMMA TwoBelow ==
  ASSUME NEW top \in Nat, top >= 50, NEW x \in Nat, NEW y \in Nat, x <= top, y <= top, x < 50 \/ y < 50
  PROVE  ~(100 * (4 * (x + y) - 100) >= top * 600)
OBVIOUS

\* Three confidences, none above `top`, and one in doubt.
Doubting(x, y, z, top) ==
  /\ top \in Nat /\ top >= 50 /\ x \in Nat /\ y \in Nat /\ z \in Nat
  /\ x <= top /\ y <= top /\ z <= top /\ (x < 50 \/ y < 50 \/ z < 50)

LEMMA ThreeBelow ==
  ASSUME NEW x, NEW y, NEW z, NEW top, Doubting(x, y, z, top)
  PROVE  ~(100 * (4 * (x + y + z) - 200) >= top * 800)
BY DEF Doubting

LEMMA PoolGrows ==
  ASSUME NEW confs \in Seq(Confidences), NEW conf \in Confidences, Len(confs) \in {1, 2}
  PROVE  /\ ~Conflict(Pool(confs, Len(confs)), FromConfidence(conf))
         /\ Combined(Pool(confs, Len(confs)), FromConfidence(conf)) = Pool(Append(confs, conf), Len(confs) + 1)
<1>0. conf \in Nat
  BY DEF Confidences, Neutral, Single
<1>1. CASE Len(confs) = 1
  <2>1. PICK c \in Nat : c = confs[1] /\ c >= 40 /\ c <= 80
    BY <1>1, ConfidenceOf
  <2>2. Pool(confs, 1) = <<4 * c, 400 - 4 * c>>
    BY <2>1 DEF Pool
  <2>3. Append(confs, conf)[1] = c /\ Append(confs, conf)[2] = conf
    <3>1. Append(confs, conf)[Len(confs) + 1] = conf /\ Append(confs, conf)[1] = confs[1]
      BY <1>1, AppendFacts
    <3>2. Len(confs) + 1 = 2
      BY <1>1
    <3> QED BY <2>1, <3>1, <3>2
  <2>4. Pool(Append(confs, conf), 2) = <<4 * (c + conf) - 100, 700 - 4 * (c + conf)>>
    BY <2>3 DEF Pool
  <2>5. PICK a \in Nat : a = 4 * c /\ a >= 120 /\ a <= 400 - 40
    BY <2>1
  <2>6. /\ ~Conflict(<<a, 400 - a>>, FromConfidence(conf))
        /\ Combined(<<a, 400 - a>>, FromConfidence(conf)) = <<a + 4 * conf - 100, 400 - a + 300 - 4 * conf>>
    BY <2>5, NoConflict
  <2>7. a + 4 * conf - 100 = 4 * (c + conf) - 100 /\ 400 - a + 300 - 4 * conf = 700 - 4 * (c + conf)
    BY <1>0, <2>5, TwoAdded
  <2> QED BY <1>1, <2>2, <2>4, <2>5, <2>6, <2>7
<1>2. CASE Len(confs) = 2
  <2>1. PICK c \in Nat : c = confs[1] + confs[2] /\ c >= 80 /\ c <= 160
    <3>1. confs[1] \in Nat /\ confs[1] >= 40 /\ confs[1] <= 80 /\ confs[2] \in Nat /\ confs[2] >= 40 /\ confs[2] <= 80
      BY <1>2, ConfidenceOf, SMTT(60)
    <3> QED BY <3>1
  <2>2. Pool(confs, 2) = <<4 * c - 100, 700 - 4 * c>>
    BY <2>1 DEF Pool
  <2>3. Append(confs, conf)[1] = confs[1] /\ Append(confs, conf)[2] = confs[2] /\ Append(confs, conf)[3] = conf
    <3>1. 1 \in 1 .. Len(confs) /\ 2 \in 1 .. Len(confs) /\ Len(confs) + 1 = 3
      BY <1>2
    <3>2. Append(confs, conf)[1] = confs[1] /\ Append(confs, conf)[2] = confs[2]
      BY <3>1, AppendFacts
    <3>3. Append(confs, conf)[Len(confs) + 1] = conf
      BY AppendFacts
    <3> QED BY <3>1, <3>2, <3>3
  <2>4. Pool(Append(confs, conf), 3) = <<4 * (c + conf) - 200, 1000 - 4 * (c + conf)>>
    BY <2>1, <2>3 DEF Pool
  <2>5. PICK a \in Nat : a = 4 * c - 100 /\ a >= 120 /\ a <= 600 - 40
    BY <2>1
  <2>6. /\ ~Conflict(<<a, 600 - a>>, FromConfidence(conf))
        /\ Combined(<<a, 600 - a>>, FromConfidence(conf)) = <<a + 4 * conf - 100, 600 - a + 300 - 4 * conf>>
    BY <2>5, NoConflict
  <2>7. a + 4 * conf - 100 = 4 * (c + conf) - 200 /\ 600 - a + 300 - 4 * conf = 1000 - 4 * (c + conf)
        /\ 600 - a = 700 - 4 * c
    BY <1>0, <2>5, ThreeAdded
  <2>8. Len(confs) + 1 = 3
    BY <1>2
  <2>9. Pool(confs, 2) = <<a, 600 - a>>
    BY <2>2, <2>5, <2>7
  <2>10. Combined(<<a, 600 - a>>, FromConfidence(conf)) = Pool(Append(confs, conf), 3)
    BY <2>4, <2>6, <2>7
  <2>11. Pool(confs, Len(confs)) = <<a, 600 - a>>
    BY <1>2, <2>9
  <2>12. Pool(Append(confs, conf), Len(confs) + 1) = Pool(Append(confs, conf), 3)
    BY <2>8
  <2> QED BY <2>6, <2>10, <2>11, <2>12
<1> QED BY <1>1, <1>2

\* One that doubts pulls the sum of up to three below the most confident.
LEMMA PoolDissents ==
  ASSUME NEW confs \in Seq(Confidences), NEW n \in 1 .. 3, n <= Len(confs),
         NEW i \in 1 .. n, NEW j \in 1 .. n, confs[i] < 50, confs[j] >= 50,
         \A k \in 1 .. n : confs[k] <= confs[j]
  PROVE  ~MeanReaches(Pool(confs, n), confs[j])
<1>1. \A k \in 1 .. n : confs[k] \in Nat
  BY ConfidenceOf
<1>2. i # j
  BY <1>1
<1>3. PICK top \in Nat : top = confs[j] /\ top >= 50
  BY <1>1
<1>4. CASE n = 2
  <2>1. PICK x \in Nat, y \in Nat : x = confs[1] /\ y = confs[2] /\ x <= top /\ y <= top /\ (x < 50 \/ y < 50)
    <3>1. confs[1] \in Nat /\ confs[2] \in Nat /\ confs[1] <= top /\ confs[2] <= top
      BY <1>1, <1>3, <1>4
    <3>2. confs[1] < 50 \/ confs[2] < 50
      <4>1. i = 1 \/ i = 2
        BY <1>4
      <4> QED BY <4>1
    <3> QED BY <3>1, <3>2
  <2>2. Pool(confs, n) = <<4 * (x + y) - 100, 700 - 4 * (x + y)>>
    BY <1>4, <2>1 DEF Pool
  <2>3. Total(<<4 * (x + y) - 100, 700 - 4 * (x + y)>>) = 600
    <3>1. PICK c \in Nat : c = x + y
      OBVIOUS
    <3>2. (4 * c - 100) + (700 - 4 * c) = 600
      OBVIOUS
    <3> QED BY <3>1, <3>2 DEF Total
  <2>4. ~(100 * (4 * (x + y) - 100) >= top * 600)
    BY <1>3, <2>1, TwoBelow, ZenonT(90)
  <2> QED BY <1>3, <2>2, <2>3, <2>4 DEF MeanReaches
<1>5. CASE n = 3
  <2>1. PICK x \in Nat, y \in Nat, z \in Nat :
          /\ x = confs[1] /\ y = confs[2] /\ z = confs[3]
          /\ x <= top /\ y <= top /\ z <= top /\ (x < 50 \/ y < 50 \/ z < 50)
    <3>1. confs[1] \in Nat /\ confs[2] \in Nat /\ confs[3] \in Nat
          /\ confs[1] <= top /\ confs[2] <= top /\ confs[3] <= top
      BY <1>1, <1>3, <1>5
    <3>2. confs[1] < 50 \/ confs[2] < 50 \/ confs[3] < 50
      <4>1. i = 1 \/ i = 2 \/ i = 3
        BY <1>5
      <4> QED BY <4>1
    <3> QED BY <3>1, <3>2
  <2>2. Pool(confs, n) = <<4 * (x + y + z) - 200, 1000 - 4 * (x + y + z)>>
    BY <1>5, <2>1 DEF Pool
  <2>3. Total(<<4 * (x + y + z) - 200, 1000 - 4 * (x + y + z)>>) = 800
    <3>1. PICK c \in Nat : c = x + y + z
      OBVIOUS
    <3>2. (4 * c - 200) + (1000 - 4 * c) = 800
      OBVIOUS
    <3> QED BY <3>1, <3>2 DEF Total
  <2>4. ~(100 * (4 * (x + y + z) - 200) >= top * 800)
    <3>1. Doubting(x, y, z, top)
      BY <1>3, <2>1 DEF Doubting
    <3> QED BY <3>1, ThreeBelow
  <2> QED BY <1>3, <2>2, <2>3, <2>4 DEF MeanReaches
<1>6. n # 1
  BY <1>2
<1> QED BY <1>4, <1>5, <1>6

\* Both parameters of a belief nobody informed are equal.
Even(b) == \E x \in Nat : x >= 100 /\ b = <<x, x>>

LEMMA EvenCombines ==
  ASSUME NEW b, Even(b)
  PROVE  /\ ~Conflict(b, FromConfidence(Neutral)) /\ Even(Combined(b, FromConfidence(Neutral)))
<1>1. PICK x \in Nat : x >= 100 /\ b = <<x, x>>
  BY DEF Even
<1>2. FromConfidence(Neutral) = <<200, 200>>
  BY DEF FromConfidence, Neutral, Strength
<1>3. Total(<<x, x>>) = 2 * x /\ Total(<<200, 200>>) = 400
  BY DEF Total
<1>4. ~Conflict(<<x, x>>, <<200, 200>>)
  BY <1>1, <1>3 DEF Conflict
<1>5. PICK y \in Nat : y = x + 200 - 100 /\ y >= 100
  BY <1>1
<1>6. Combined(<<x, x>>, <<200, 200>>) = <<y, y>>
  BY <1>1, <1>5 DEF Combined, NotBelow0
<1> QED BY <1>1, <1>2, <1>4, <1>5, <1>6 DEF Even

LEMMA EvenDecays ==
  ASSUME NEW b, Even(b)
  PROVE  Even(Decayed(b))
<1>1. PICK x \in Nat : x >= 100 /\ b = <<x, x>>
  BY DEF Even
<1>2. PICK y \in Nat : y = (x * 2 + 98 * 100) \div 100 /\ y >= 100
  BY <1>1
<1>3. Decayed(<<x, x>>) = <<y, y>>
  BY <1>2 DEF Decayed
<1> QED BY <1>1, <1>2, <1>3 DEF Even

LEMMA LevelAbove ==
  ASSUME NEW level \in Nat, level > 50
  PROVE  \E extra \in Nat : level = 51 + extra
<1>1. level - 51 \in Nat /\ level = 51 + (level - 51)
  OBVIOUS
<1> QED BY <1>1

\* An even belief reaches no level above an even chance.
LEMMA EvenFails ==
  ASSUME NEW b, Even(b), NEW level \in Nat, level > 50
  PROVE  ~MeanReaches(b, level)
<1>1. PICK x \in Nat : x >= 100 /\ b = <<x, x>>
  BY DEF Even
<1>2. PICK extra \in Nat : level = 51 + extra
  BY LevelAbove
<1>3. PICK more \in Nat : more = extra * (x + x)
  OBVIOUS
<1>4. level * (x + x) = 51 * (x + x) + more
  BY <1>2, <1>3
<1>5. Total(<<x, x>>) = x + x
  BY DEF Total
<1>6. ~(100 * x >= 51 * (x + x) + more)
  BY <1>1, <1>3
<1> QED BY <1>1, <1>4, <1>5, <1>6 DEF MeanReaches

AgentItems == UNION {{l[i] : i \in DOMAIN l} : l \in AgentLists}

ProgramShape ==
  /\ program = [stage |-> program.stage, left |-> program.left, iter |-> program.iter,
                count |-> program.count, level |-> program.level, ok |-> program.ok]
  /\ belief = [at |-> belief.at, agents |-> belief.agents, ttl |-> belief.ttl, text |-> belief.text,
               confs |-> belief.confs, fused |-> belief.fused, stated |-> belief.stated,
               heard |-> belief.heard]
  /\ belief.agents \in Seq(AgentItems) /\ program.left \in Seq(AgentItems)
  /\ belief.confs \in Seq(Confidences)
Unheard ==
  ~belief.heard => Even(belief.at) /\ (program.level > 50 => ~program.ok)
Stating ==
  /\ ~belief.stated /\ program.left # <<>>
  /\ Len(belief.confs) + Len(program.left) = Len(belief.agents)
  /\ Len(belief.confs) \in 1 .. 3 => belief.at = Pool(belief.confs, Len(belief.confs))
Stated ==
  /\ belief.agents # <<>> /\ Len(belief.confs) >= Len(belief.agents)
  /\ Len(belief.agents) <= 3 => belief.fused = Pool(belief.confs, Len(belief.agents))

AskInv ==
  /\ RouteInv /\ ProgramShape /\ Unheard
  /\ program.stage = "believe" => Stating
  /\ belief.stated => Stated

\* A list of agents is one of the lists of a program.
LEMMA AgentsTyped ==
  ASSUME NEW agents \in AgentLists
  PROVE  agents \in Seq(AgentItems) /\ agents # <<>>
<1>1. agents # <<>> /\ agents \in Seq({agents[i] : i \in DOMAIN agents})
  BY AskAssumption
<1>2. {agents[i] : i \in DOMAIN agents} \subseteq AgentItems
  BY DEF AgentItems
<1>3. Len(agents) \in Nat /\ agents \in [1 .. Len(agents) -> {agents[i] : i \in DOMAIN agents}]
  BY <1>1
<1>4. agents \in [1 .. Len(agents) -> AgentItems]
  BY <1>2, <1>3
<1> QED BY <1>1, <1>3, <1>4

LEMMA AskStart == AskInit => AskInv
<1> SUFFICES ASSUME AskInit PROVE AskInv
  OBVIOUS
<1>1. policy.order \in TryOrders /\ query = NoQuery /\ belief = NoBelief /\ program = NoProgram
  BY DEF AskInit
<1>2. RouteInv
  BY <1>1, NoQueryWell DEF RouteInv
<1>3. ProgramShape
  BY <1>1 DEF ProgramShape, NoBelief, NoProgram
<1>4. Even(<<100, 100>>)
  BY DEF Even
<1>5. Unheard
  BY <1>1, <1>4 DEF Unheard, NoBelief, NoProgram
<1> QED BY <1>1, <1>2, <1>3, <1>5 DEF AskInv, NoBelief, NoProgram

\* Statements that ask: a belief starts, or evolves, from a question to its first agent.
LEMMA BelieveKeeps ==
  ASSUME AskInv, NEW agents \in AgentLists, NEW ttl, Believe(agents, ttl)
  PROVE  AskInv'
<1>1. /\ belief' = [NoBelief EXCEPT !.agents = agents, !.ttl = ttl]
      /\ program' = [program EXCEPT !.stage = "believe", !.left = agents, !.count = @ + 1,
                                    !.level = 0, !.ok = FALSE]
      /\ query' = Started(PinOf(<<agents[1]>>)) /\ policy' = policy
      /\ ProgramShape /\ policy.order \in TryOrders
  BY DEF Believe, AskInv, RouteInv
<1>2. RouteInv'
  BY <1>1, StartedWell, QueryNow DEF RouteInv
<1>3. belief' = [at |-> <<100, 100>>, agents |-> agents, ttl |-> ttl, text |-> "none", confs |-> <<>>,
                 fused |-> <<100, 100>>, stated |-> FALSE, heard |-> FALSE]
  BY <1>1 DEF NoBelief
<1>4. program' = [stage |-> "believe", left |-> agents, iter |-> program.iter, count |-> program.count + 1,
                  level |-> 0, ok |-> FALSE]
  BY <1>1 DEF ProgramShape
<1>5. ProgramShape'
  BY <1>3, <1>4, AgentsTyped DEF ProgramShape
<1>6. Even(<<100, 100>>)
  BY DEF Even
<1>7. Unheard'
  BY <1>3, <1>4, <1>6 DEF Unheard
<1>8. Stating'
  <2>1. Len(agents) \in Nat /\ agents # <<>>
    BY AgentsTyped
  <2> QED BY <1>3, <1>4, <2>1 DEF Stating
<1> QED BY <1>2, <1>3, <1>5, <1>7, <1>8 DEF AskInv

\* One more agent's answer: the sum goes on, and silence leaves the belief even.
LEMMA FuseKeeps ==
  ASSUME AskInv, Fuse
  PROVE  AskInv'
<1>1. /\ program.stage = "believe" /\ ProgramShape /\ Unheard /\ Stating /\ QueryShape(query)
      /\ query.pass \in {"answered", "failed"} /\ policy' = policy /\ policy.order \in TryOrders
  BY DEF Fuse, Asked, AskInv, RouteInv, QueryInv
<1>2. PICK conf \in Confidences : conf = query.conf /\ (query.pass # "answered" => conf = Neutral)
  BY <1>1 DEF QueryShape, Confidences
<1>3. PICK b : b = FromConfidence(conf)
  OBVIOUS
<1>4. PICK on : on = IF belief.confs = <<>> THEN b
                     ELSE IF Conflict(belief.at, b) THEN Murphy(belief.at, b) ELSE Combined(belief.at, b)
  OBVIOUS
<1>5. PICK rest \in Seq(AgentItems) : rest = Tail(program.left) /\ Len(rest) = Len(program.left) - 1
                                      /\ Len(program.left) \in Nat
  <2>1. program.left \in Seq(AgentItems) /\ program.left # <<>>
    BY <1>1 DEF ProgramShape, Stating
  <2>2. Tail(program.left) \in Seq(AgentItems) /\ Len(Tail(program.left)) = Len(program.left) - 1
    BY <2>1, HeadTailProperties
  <2>3. Len(program.left) \in Nat
    BY <2>1
  <2> QED BY <2>2, <2>3
<1>6. PICK confs \in Seq(Confidences) : confs = Append(belief.confs, conf) /\ Len(confs) = Len(belief.confs) + 1
  BY <1>1, AppendFacts DEF ProgramShape
<1>7. PICK at2 : at2 = IF rest = <<>> /\ belief.ttl = 0 THEN Decayed(on) ELSE on
  OBVIOUS
<1>8. belief' = [belief EXCEPT
       !.confs = confs, !.text = query.text, !.fused = on,
       !.heard = belief.heard \/ query.pass = "answered", !.stated = (rest = <<>>), !.at = at2]
  BY <1>2, <1>3, <1>4, <1>5, <1>6, <1>7 DEF Fuse
<1>9. belief' = [at |-> at2, agents |-> belief.agents, ttl |-> belief.ttl, text |-> query.text,
                 confs |-> confs, fused |-> on, stated |-> (rest = <<>>),
                 heard |-> (belief.heard \/ query.pass = "answered")]
  BY <1>1, <1>8 DEF ProgramShape
<1>10. PICK point : point = IF rest = <<>> THEN "idle" ELSE "believe"
  OBVIOUS
<1>11. program' = [stage |-> point, left |-> rest, iter |-> program.iter, count |-> program.count,
                   level |-> program.level, ok |-> program.ok]
  <2>1. program' = [program EXCEPT !.left = rest, !.stage = point]
    BY <1>1, <1>5, <1>10 DEF Fuse
  <2> QED BY <1>1, <2>1 DEF ProgramShape
<1>12. RouteInv'
  <2>1. query' = NoQuery \/ \E pin : query' = Started(pin)
    BY <1>5 DEF Fuse
  <2> QED BY <1>1, <2>1, NoQueryWell, StartedWell, QueryNow DEF RouteInv
<1>13. ProgramShape'
  BY <1>1, <1>9, <1>11 DEF ProgramShape
<1>14. Unheard'
  <2> SUFFICES ASSUME ~belief.heard, query.pass # "answered"
               PROVE  Even(at2) /\ (program.level > 50 => ~program.ok)
    BY <1>9, <1>11 DEF Unheard
  <2>1. Even(belief.at) /\ (program.level > 50 => ~program.ok) /\ conf = Neutral
    BY <1>1, <1>2 DEF Unheard
  <2>2. Even(b)
    <3>1. b = <<200, 200>>
      BY <1>3, <2>1 DEF FromConfidence, Neutral, Strength
    <3> QED BY <3>1 DEF Even
  <2>3. Even(on)
    BY <1>3, <1>4, <2>1, <2>2, EvenCombines
  <2> QED BY <1>7, <2>1, <2>3, EvenDecays
<1>15. Len(confs) \in 1 .. 3 => on = Pool(confs, Len(confs))
  <2> SUFFICES ASSUME Len(confs) \in 1 .. 3 PROVE on = Pool(confs, Len(confs))
    OBVIOUS
  <2>1. Len(belief.confs) \in Nat /\ belief.confs \in Seq(Confidences)
    BY <1>1 DEF ProgramShape
  <2>2. CASE belief.confs = <<>>
    <3>1. Len(confs) = 1 /\ on = b
      BY <1>4, <1>6, <2>2
    <3>2. confs[1] = conf
      <4>1. Len(belief.confs) + 1 = 1
        BY <2>2
      <4>2. confs[Len(belief.confs) + 1] = conf
        BY <1>6, <2>1, AppendFacts
      <4> QED BY <4>1, <4>2
    <3>3. b = <<4 * conf, 400 - 4 * conf>>
      BY <1>3 DEF FromConfidence, Strength, Confidences, Neutral, Single
    <3> QED BY <3>1, <3>2, <3>3 DEF Pool
  <2>3. CASE belief.confs # <<>>
    <3>1. Len(belief.confs) \in {1, 2}
      <4>1. Len(belief.confs) # 0
        BY <2>1, <2>3, EmptySeq
      <4>2. Len(belief.confs) + 1 \in 1 .. 3
        BY <1>6
      <4>3. PICK n \in Nat : n = Len(belief.confs)
        BY <2>1
      <4>4. n \in {1, 2}
        BY <4>1, <4>2, <4>3, SmallNumbers
      <4> QED BY <4>3, <4>4
    <3>2. belief.at = Pool(belief.confs, Len(belief.confs))
      BY <1>1, <3>1 DEF Stating
    <3>3. ~Conflict(belief.at, b) /\ Combined(belief.at, b) = Pool(confs, Len(confs))
      BY <1>3, <1>6, <2>1, <3>1, <3>2, PoolGrows
    <3> QED BY <1>4, <2>3, <3>3
  <2> QED BY <2>2, <2>3
<1>16. Len(belief.confs) + Len(program.left) = Len(belief.agents) /\ Len(belief.confs) \in Nat
       /\ Len(belief.agents) \in Nat
  BY <1>1 DEF Stating, ProgramShape
<1>17. CASE rest # <<>>
  <2>1. at2 = on /\ Len(confs) + Len(rest) = Len(belief.agents)
    <3>1. PICK l \in Nat, c \in Nat : l = Len(program.left) /\ c = Len(belief.confs)
      BY <1>5, <1>16
    <3>2. Len(rest) = l - 1 /\ Len(confs) = c + 1 /\ c + l = Len(belief.agents)
      BY <1>5, <1>6, <1>16, <3>1
    <3>3. (c + 1) + (l - 1) = c + l
      OBVIOUS
    <3> QED BY <1>7, <1>17, <3>2, <3>3
  <2>2. Len(confs) \in 1 .. 3 => at2 = Pool(confs, Len(confs))
    BY <1>15, <2>1
  <2>3. /\ belief'.stated = FALSE /\ program'.left = rest /\ belief'.confs = confs
        /\ belief'.agents = belief.agents /\ belief'.at = at2
    BY <1>9, <1>11, <1>17
  <2>4. Stating'
    BY <1>17, <2>1, <2>2, <2>3 DEF Stating
  <2> QED BY <1>9, <1>12, <1>13, <1>14, <1>17, <2>4 DEF AskInv
<1>18. CASE rest = <<>>
  <2>1. Len(rest) = 0
    BY <1>18
  <2>2. Len(confs) = Len(belief.agents) /\ Len(confs) >= 1
    <3>1. Len(program.left) = 1
      BY <1>5, <2>1
    <3> QED BY <1>6, <1>16, <3>1
  <2>3. belief.agents # <<>>
    <3>1. Len(belief.agents) # 0
      BY <1>16, <2>2
    <3> QED BY <3>1
  <2>4. Stated'
    <3>1. Len(belief.agents) <= 3 => on = Pool(confs, Len(belief.agents))
      <4>1. PICK n \in Nat : n = Len(confs) /\ n = Len(belief.agents) /\ n >= 1
        BY <1>16, <2>2
      <4>2. n <= 3 => n \in 1 .. 3
        BY <4>1, SmallNumbers
      <4> QED BY <1>15, <4>1, <4>2
    <3>2. belief'.agents = belief.agents /\ belief'.confs = confs /\ belief'.fused = on
      BY <1>9
    <3> QED BY <1>16, <2>2, <2>3, <3>1, <3>2 DEF Stated
  <2> QED BY <1>10, <1>11, <1>12, <1>13, <1>14, <1>18, <2>4 DEF AskInv
<1> QED BY <1>17, <1>18

\* An answer while the belief evolves: the statement's own answers stay, silence leaves it even.
LEMMA EvolveStepKeeps ==
  ASSUME AskInv, EvolveStep
  PROVE  AskInv'
<1>1. /\ program.stage = "evolve" /\ ProgramShape /\ Unheard /\ QueryShape(query)
      /\ policy' = policy /\ policy.order \in TryOrders
      /\ belief.stated => Stated
  BY DEF EvolveStep, AskInv, RouteInv, QueryInv
<1>2. PICK conf \in Confidences : conf = query.conf /\ (query.pass # "answered" => conf = Neutral)
  BY <1>1 DEF QueryShape, Confidences
<1>3. PICK on : on = IF Conflict(belief.at, FromConfidence(conf)) THEN belief.at
                     ELSE Combined(belief.at, FromConfidence(conf))
  OBVIOUS
<1>4. PICK confs \in Seq(Confidences) : confs = Append(belief.confs, conf) /\ Len(confs) = Len(belief.confs) + 1
  BY <1>1, AppendFacts DEF ProgramShape
<1>5. belief' = [belief EXCEPT !.at = on, !.heard = belief.heard \/ query.pass = "answered", !.confs = confs]
  BY <1>2, <1>3, <1>4 DEF EvolveStep
<1>6. belief' = [at |-> on, agents |-> belief.agents, ttl |-> belief.ttl, text |-> belief.text,
                 confs |-> confs, fused |-> belief.fused, stated |-> belief.stated,
                 heard |-> (belief.heard \/ query.pass = "answered")]
  BY <1>1, <1>5 DEF ProgramShape
<1>7. PICK point \in {"idle", "evolve"} : \E iter : program' = [program EXCEPT !.stage = point, !.iter = iter]
  BY <1>1 DEF EvolveStep
<1>13. PICK iter : program' = [program EXCEPT !.stage = point, !.iter = iter]
  BY <1>7
<1>8. program' = [stage |-> point, left |-> program.left, iter |-> iter, count |-> program.count,
                  level |-> program.level, ok |-> program.ok]
  BY <1>1, <1>13 DEF ProgramShape
<1>9. RouteInv'
  <2>1. query' = NoQuery \/ \E pin : query' = Started(pin)
    BY DEF EvolveStep
  <2> QED BY <1>1, <2>1, NoQueryWell, StartedWell, QueryNow DEF RouteInv
<1>10. ProgramShape'
  BY <1>1, <1>6, <1>8 DEF ProgramShape
<1>11. Unheard'
  <2> SUFFICES ASSUME ~belief.heard, query.pass # "answered"
               PROVE  Even(on) /\ (program.level > 50 => ~program.ok)
    BY <1>6, <1>8 DEF Unheard
  <2>1. Even(belief.at) /\ (program.level > 50 => ~program.ok) /\ conf = Neutral
    BY <1>1, <1>2 DEF Unheard
  <2> QED BY <1>3, <2>1, EvenCombines
<1>12. belief.stated => Stated'
  <2> SUFFICES ASSUME belief.stated PROVE Stated'
    OBVIOUS
  <2>1. Stated /\ Len(belief.confs) \in Nat /\ Len(belief.agents) \in Nat
        /\ belief.confs \in Seq(Confidences)
    BY <1>1 DEF ProgramShape
  <2>2. Len(belief.agents) # 0
    BY <1>1, <2>1, EmptySeq DEF Stated, ProgramShape
  <2>3. Len(belief.agents) <= 3 => Pool(confs, Len(belief.agents)) = Pool(belief.confs, Len(belief.agents))
    BY <1>4, <2>1, <2>2, PoolKept DEF Stated
  <2> QED BY <1>4, <1>6, <2>1, <2>3 DEF Stated
<1> QED BY <1>6, <1>7, <1>8, <1>9, <1>10, <1>11, <1>12 DEF AskInv

\* A check of a belief that nobody informed fails above an even chance.
LEMMA ChecksKeep ==
  ASSUME AskInv, NEW level \in Int, NEW good, level > 50 => (good => MeanReaches(belief.at, level)),
         Checks(level, good)
  PROVE  AskInv'
<1>1. /\ program.stage = "idle" /\ belief.stated /\ UNCHANGED <<policy, query, belief>>
      /\ program' = [program EXCEPT !.count = @ + 1, !.level = level, !.ok = good]
      /\ ProgramShape /\ Unheard /\ Stated /\ RouteInv
  BY DEF Checks, AskInv
<1>2. program' = [stage |-> "idle", left |-> program.left, iter |-> program.iter,
                  count |-> program.count + 1, level |-> level, ok |-> good]
  BY <1>1 DEF ProgramShape
<1>3. RouteInv'
  BY <1>1, QueryNow DEF RouteInv
<1>4. ProgramShape'
  BY <1>1, <1>2 DEF ProgramShape
<1>5. Unheard'
  <2> SUFFICES ASSUME ~belief.heard PROVE Even(belief.at) /\ (level > 50 => ~good)
    BY <1>1, <1>2 DEF Unheard
  <2>1. Even(belief.at)
    BY <1>1 DEF Unheard
  <2>2. level > 50 => level \in Nat
    OBVIOUS
  <2> QED BY <2>1, <2>2, EvenFails
<1> QED BY <1>1, <1>2, <1>3, <1>4, <1>5 DEF AskInv, Stated

LEMMA AskStep == AskInv /\ [AskNext]_askVars => AskInv'
<1> SUFFICES ASSUME AskInv, [AskNext]_askVars PROVE AskInv'
  OBVIOUS
<1>1. ASSUME NEW outcome, Compare(outcome) \/ Route(outcome) PROVE AskInv'
  <2>1. RouteInv'
    BY <1>1, CompareKeeps, RouteKeeps DEF AskInv
  <2> QED BY <1>1, <2>1 DEF Compare, Route, AskInv, ProgramShape, Unheard, Stating, Stated
<1>2. CASE Generate \/ Generated \/ Unknown \/ Evolve
  <2>1. policy' = policy /\ UNCHANGED belief /\ RouteInv /\ ProgramShape /\ program.stage # "believe"
    BY <1>2 DEF Generate, Generated, Unknown, Evolve, AskInv
  <2>2. RouteInv'
    <3>1. query' = NoQuery \/ query' = query \/ \E pin : query' = Started(pin)
      BY <1>2 DEF Generate, Generated, Unknown, Evolve
    <3> QED BY <2>1, <3>1, NoQueryWell, StartedWell, QueryNow DEF RouteInv
  <2>3. \E point \in {"generate", "idle", "error", "evolve"} : \E iter, count :
          program' = [stage |-> point, left |-> program.left, iter |-> iter,
                      count |-> count, level |-> program.level, ok |-> program.ok]
    BY <1>2, <2>1 DEF Generate, Generated, Unknown, Evolve, ProgramShape
  <2>4. ProgramShape' /\ (Unheard => Unheard') /\ program'.stage # "believe"
    BY <2>1, <2>3 DEF ProgramShape, Unheard
  <2> QED BY <2>1, <2>2, <2>4 DEF AskInv, Stated
<1>3. CASE Fuse
  BY <1>3, FuseKeeps
<1>4. CASE EvolveStep
  BY <1>4, EvolveStepKeeps
<1>5. ASSUME NEW agents \in AgentLists, NEW ttl \in Ttls, Believe(agents, ttl) PROVE AskInv'
  BY <1>5, BelieveKeeps
<1>6. ASSUME NEW level \in Thresholds, Resolve(level) PROVE AskInv'
  <2>1. level \in Int
    BY AskAssumption
  <2> QED BY <1>6, <2>1, ChecksKeep DEF Resolve
<1>7. ASSUME NEW risk \in Thresholds, Guard(risk) PROVE AskInv'
  <2>1. 100 - risk \in Int
    BY AskAssumption
  <2>2. PICK good : good = (MeanReaches(belief.at, 100 - risk) /\ Variance(belief.at) <= GuardVariance)
    OBVIOUS
  <2>3. Checks(100 - risk, good)
    BY <1>7, <2>2 DEF Guard
  <2> QED BY <2>1, <2>2, <2>3, ChecksKeep
<1>8. CASE UNCHANGED askVars
  <2>1. RouteInv'
    BY <1>8, QueryNow DEF askVars, RouteInv, AskInv
  <2> QED BY <1>8, <2>1 DEF askVars, AskInv, ProgramShape, Unheard, Stating, Stated
<1> QED BY <1>1, <1>2, <1>3, <1>4, <1>5, <1>6, <1>7, <1>8 DEF AskNext

LEMMA AskHolds == AskInv => InquirySound
<1> SUFFICES ASSUME AskInv PROVE InquirySound
  OBVIOUS
<1>1. RouterSound
  <2>1. QueryInv(query)
    BY DEF AskInv, RouteInv
  <2>2. query.calls <= 2 * Len(query.order)
    <3>1. CASE query.pass = "idle"
      BY <2>1, <3>1 DEF QueryInv, QueryShape
    <3>2. CASE query.pass # "idle"
      BY <2>1, <3>2 DEF QueryInv, QueryShape, Comparing, Trying, Refused, AnsweredWell, Listed
    <3> QED BY <3>1, <3>2
  <2> QED BY <2>1, <2>2 DEF RouterSound, QueryInv, Refused, AnsweredWell
<1>2. SilenceNeverPasses
  BY DEF SilenceNeverPasses, AskInv, Unheard
<1>3. DissentShows
  <2> SUFFICES ASSUME belief.stated, Len(belief.agents) <= 3,
                      NEW i \in 1 .. Len(belief.agents), NEW j \in 1 .. Len(belief.agents),
                      belief.confs[i] < 50, belief.confs[j] >= 50,
                      \A k \in 1 .. Len(belief.agents) : belief.confs[k] <= belief.confs[j]
               PROVE  ~MeanReaches(belief.fused, belief.confs[j])
    BY DEF DissentShows
  <2>1. Stated /\ belief.confs \in Seq(Confidences) /\ Len(belief.agents) \in Nat
    BY DEF AskInv, ProgramShape
  <2>2. PICK n \in 1 .. 3 : n = Len(belief.agents) /\ n <= Len(belief.confs)
    <3>1. Len(belief.agents) >= 1 /\ Len(belief.agents) <= 3
      BY <2>1
    <3>2. PICK n \in Nat : n = Len(belief.agents)
      BY <2>1
    <3>3. n \in 1 .. 3
      BY <3>1, <3>2, SmallNumbers
    <3>4. n <= Len(belief.confs)
      BY <2>1, <3>2 DEF Stated
    <3> QED BY <3>2, <3>3, <3>4
  <2> QED BY <2>1, <2>2, PoolDissents DEF Stated
<1> QED BY <1>1, <1>2, <1>3 DEF InquirySound

\* The router loses no answer and blames a provider it asked, silence convinces no check, and
\* the doubt of one of three shows.
THEOREM InquirySoundCorrect == AskSpec => []InquirySound
<1>1. AskInit => AskInv
  BY AskStart
<1>2. AskInv /\ [AskNext]_askVars => AskInv'
  BY AskStep
<1>3. AskInv => InquirySound
  BY AskHolds
<1> QED BY <1>1, <1>2, <1>3, PTL DEF AskSpec

-----------------------------------------------------------------------------
(* What is forwarded of a conversation *)

\* The pieces of a sequence of sequences, joined one after another.
Joins(f, ss, n, T) ==
  /\ f \in [0 .. n -> Seq(T)]
  /\ f[0] = <<>>
  /\ \A i \in 1 .. n : f[i] = f[i - 1] \o ss[i]
Flattens(f, ss, T) == Joins(f, ss, Len(ss), T) /\ FlattenSeq(ss) = f[Len(ss)]

LEMMA JoinsExist ==
  ASSUME NEW T, NEW ss \in Seq(Seq(T)), NEW n \in 0 .. Len(ss)
  PROVE  \E f : Joins(f, ss, n, T)
<1> DEFINE Bad == {k \in 0 .. Len(ss) : ~ \E f : Joins(f, ss, k, T)}
<1>1. SUFFICES ASSUME Bad # {} PROVE FALSE
  OBVIOUS
<1>2. Bad \in SUBSET Nat
  OBVIOUS
<1>3. PICK k \in Bad : \A j \in Bad : k <= j
  BY <1>1, <1>2, LeastNat
<1>4. k # 0
  <2>1. Joins([i \in 0 .. 0 |-> <<>>], ss, 0, T)
    BY DEF Joins
  <2> QED BY <2>1
<1>5. k \in 1 .. Len(ss) /\ k - 1 \in 0 .. Len(ss) /\ k - 1 \notin Bad
  <2>1. Len(ss) \in Nat /\ k \in 0 .. Len(ss)
    BY <1>3
  <2>2. k \in 1 .. Len(ss) /\ k - 1 \in 0 .. Len(ss) /\ ~(k <= k - 1)
    BY <1>4, <2>1
  <2> QED BY <1>3, <2>2
<1>6. PICK f : Joins(f, ss, k - 1, T)
  BY <1>5
<1>7. ss[k] \in Seq(T) /\ f[k - 1] \in Seq(T)
  BY <1>5, <1>6 DEF Joins
<1> DEFINE g == [i \in 0 .. k |-> IF i = k THEN f[k - 1] \o ss[k] ELSE f[i]]
<1>8. f[k - 1] \o ss[k] \in Seq(T)
  BY <1>7, ConcatProperties
<1>9. Joins(g, ss, k, T)
  <2>1. g \in [0 .. k -> Seq(T)]
    BY <1>5, <1>6, <1>8 DEF Joins
  <2>2. g[0] = <<>>
    BY <1>5, <1>6 DEF Joins
  <2>3. ASSUME NEW i \in 1 .. k PROVE g[i] = g[i - 1] \o ss[i]
    <3>1. CASE i = k
      <4>1. k - 1 # k /\ k - 1 \in 0 .. k /\ k \in 0 .. k
        BY <1>5
      <4> QED BY <3>1, <4>1
    <3>2. CASE i # k
      <4>1. i \in 1 .. (k - 1) /\ i - 1 \in 0 .. k /\ i - 1 # k /\ i \in 0 .. k
        BY <1>5, <3>2
      <4>2. f[i] = f[i - 1] \o ss[i]
        BY <1>6, <4>1 DEF Joins
      <4> QED BY <3>2, <4>1, <4>2
    <3> QED BY <3>1, <3>2
  <2> QED BY <2>1, <2>2, <2>3 DEF Joins
<1> QED BY <1>9

\* FlattenSeq joins them.
LEMMA Unfolded ==
  ASSUME NEW ss, Len(ss) # 0, NEW h,
         h = CHOOSE h2 : h2 = [i \in 1 .. Len(ss) |-> IF i = 1 THEN ss[i] ELSE h2[i - 1] \o ss[i]]
  PROVE  FlattenSeq(ss) = h[Len(ss)]
BY Zenon DEF FlattenSeq

LEMMA FlattenJoins ==
  ASSUME NEW T, NEW ss \in Seq(Seq(T))
  PROVE  \E f : Flattens(f, ss, T)
<1>0. Len(ss) \in Nat
  OBVIOUS
<1>1. PICK f : Joins(f, ss, Len(ss), T)
  BY <1>0, JoinsExist
<1>2. CASE Len(ss) = 0
  <2>1. ss = <<>> /\ FlattenSeq(ss) = ss
    <3>1. FlattenSeq(ss) = ss
      BY <1>2 DEF FlattenSeq
    <3>2. ss = <<>>
      BY <1>2, EmptySeq
    <3> QED BY <3>1, <3>2
  <2> QED BY <1>1, <1>2, <2>1 DEF Flattens, Joins
<1>3. CASE Len(ss) # 0
  <2> DEFINE h == CHOOSE h2 : h2 = [i \in 1 .. Len(ss) |-> IF i = 1 THEN ss[i] ELSE h2[i - 1] \o ss[i]]
             f1 == [i \in 1 .. Len(ss) |-> f[i]]
  <2>1. f1 = [i \in 1 .. Len(ss) |-> IF i = 1 THEN ss[i] ELSE f1[i - 1] \o ss[i]]
    <3>1. ASSUME NEW i \in 1 .. Len(ss) PROVE f[i] = IF i = 1 THEN ss[i] ELSE f1[i - 1] \o ss[i]
      <4>1. f[i] = f[i - 1] \o ss[i] /\ ss[i] \in Seq(T)
        <5>1. f[i] = f[i - 1] \o ss[i]
          BY <1>1 DEF Joins
        <5>2. ss[i] \in Seq(T)
          BY ElementOfSeq
        <5> QED BY <5>1, <5>2
      <4>2. CASE i = 1
        <5>1. f[i - 1] = <<>>
          BY <1>1, <4>2 DEF Joins
        <5>2. <<>> \o ss[i] = ss[i]
          BY <4>1, ConcatEmptySeq
        <5> QED BY <4>1, <4>2, <5>1, <5>2
      <4>3. CASE i # 1
        <5>1. i - 1 \in 1 .. Len(ss)
          BY <1>0, <4>3
        <5> QED BY <4>1, <4>3, <5>1
      <4> QED BY <4>2, <4>3
    <3> QED BY <3>1
  <2>2. h = [i \in 1 .. Len(ss) |-> IF i = 1 THEN ss[i] ELSE h[i - 1] \o ss[i]]
    BY <2>1
  <2> HIDE DEF h, f1
  <2>3. \A i \in 1 .. Len(ss) : h[i] = IF i = 1 THEN ss[i] ELSE h[i - 1] \o ss[i]
    BY <2>2
  <2> DEFINE Bad == {i \in 1 .. Len(ss) : h[i] # f[i]}
  <2>4. Bad = {}
    <3>1. SUFFICES ASSUME Bad # {} PROVE FALSE
      OBVIOUS
    <3>2. PICK k \in Bad : \A j \in Bad : k <= j
      <4>1. Bad \in SUBSET Nat
        BY <1>0
      <4> QED BY <3>1, <4>1, LeastNat
    <3>3. k \in 1 .. Len(ss) /\ f[k] = f[k - 1] \o ss[k] /\ h[k] # f[k] /\ ss[k] \in Seq(T)
      <4>1. k \in 1 .. Len(ss) /\ h[k] # f[k]
        BY <3>2
      <4>2. f[k] = f[k - 1] \o ss[k]
        BY <1>1, <4>1 DEF Joins
      <4>3. ss[k] \in Seq(T)
        BY <4>1, ElementOfSeq
      <4> QED BY <4>1, <4>2, <4>3
    <3>4. CASE k = 1
      <4>1. f[k - 1] = <<>>
        BY <1>1, <3>4 DEF Joins
      <4>2. <<>> \o ss[k] = ss[k]
        BY <3>3, ConcatEmptySeq
      <4> QED BY <2>3, <3>3, <3>4, <4>1, <4>2
    <3>5. CASE k # 1
      <4>1. k - 1 \in 1 .. Len(ss) /\ k - 1 \notin Bad
        BY <1>0, <3>2, <3>3, <3>5
      <4> QED BY <2>3, <3>3, <3>5, <4>1
    <3> QED BY <3>4, <3>5
  <2>5. FlattenSeq(ss) = h[Len(ss)]
    BY <1>3, Unfolded DEF h
  <2>6. h[Len(ss)] = f[Len(ss)]
    BY <1>0, <1>3, <2>4
  <2> QED BY <1>1, <2>5, <2>6 DEF Flattens
<1> QED BY <1>2, <1>3

\* Induction on the places of a sequence.
LEMMA StepUp ==
  ASSUME NEW n \in Nat, NEW S \in SUBSET (0 .. n), 0 \in S,
         \A i \in 1 .. n : i - 1 \in S => i \in S
  PROVE  \A i \in 0 .. n : i \in S
<1> DEFINE Bad == (0 .. n) \ S
<1>1. SUFFICES ASSUME Bad # {} PROVE FALSE
  OBVIOUS
<1>2. PICK k \in Bad : \A j \in Bad : k <= j
  <2>1. Bad \in SUBSET Nat
    OBVIOUS
  <2> QED BY <1>1, <2>1, LeastNat
<1>3. k \in 1 .. n /\ k - 1 \in 0 .. n /\ ~(k <= k - 1)
  BY <1>2
<1>4. k - 1 \in S
  BY <1>2, <1>3
<1> QED BY <1>2, <1>3, <1>4

LEMMA FunSeq ==
  ASSUME NEW T, NEW n \in Nat, NEW f \in [1 .. n -> T]
  PROVE  f \in Seq(T) /\ Len(f) = n /\ DOMAIN f = 1 .. n
<1>1. f \in Seq(T)
  BY SeqDef
<1>2. DOMAIN f = 1 .. n /\ DOMAIN f = 1 .. Len(f) /\ Len(f) \in Nat
  BY <1>1, LenProperties
<1>3. Len(f) = n
  BY <1>2
<1> QED BY <1>1, <1>2, <1>3

LEMMA FlattenType ==
  ASSUME NEW T, NEW ss \in Seq(Seq(T))
  PROVE  FlattenSeq(ss) \in Seq(T)
<1>1. PICK f : Flattens(f, ss, T)
  BY FlattenJoins
<1>2. Len(ss) \in 0 .. Len(ss)
  <2>1. Len(ss) \in Nat
    BY LenProperties
  <2> QED BY <2>1
<1> QED BY <1>1, <1>2 DEF Flattens, Joins

LEMMA FlattenEmpty == FlattenSeq(<<>>) = <<>>
BY DEF FlattenSeq

LEMMA FlattenConcat ==
  ASSUME NEW T, NEW a \in Seq(Seq(T)), NEW b \in Seq(Seq(T))
  PROVE  FlattenSeq(a \o b) = FlattenSeq(a) \o FlattenSeq(b)
<1>1. PICK f : Flattens(f, a, T)
  BY FlattenJoins
<1>2. PICK g : Flattens(g, b, T)
  BY FlattenJoins
<1>3. PICK la, lb \in Nat : la = Len(a) /\ lb = Len(b)
  BY LenProperties
<1>4. /\ a \o b \in Seq(Seq(T)) /\ Len(a \o b) = la + lb
      /\ \A i \in 1 .. la : (a \o b)[i] = a[i]
      /\ \A j \in 1 .. lb : (a \o b)[la + j] = b[j]
  <2>1. /\ a \o b \in Seq(Seq(T)) /\ Len(a \o b) = la + lb
        /\ \A i \in 1 .. la + lb : (a \o b)[i] = IF i <= la THEN a[i] ELSE b[i - la]
    BY <1>3, ConcatProperties
  <2>2. ASSUME NEW i \in 1 .. la PROVE i \in 1 .. la + lb /\ i <= la
    BY <1>3
  <2>3. ASSUME NEW j \in 1 .. lb PROVE (a \o b)[la + j] = b[j]
    <3>1. la + j \in 1 .. la + lb /\ ~(la + j <= la) /\ (la + j) - la = j
      BY <1>3
    <3>2. (a \o b)[la + j] = b[(la + j) - la]
      BY <2>1, <3>1
    <3> QED BY <3>1, <3>2
  <2>4. ASSUME NEW i \in 1 .. la PROVE (a \o b)[i] = a[i]
    BY <2>1, <2>2
  <2> QED BY <2>1, <2>3, <2>4
<1>5. PICK h : Flattens(h, a \o b, T)
  BY <1>4, FlattenJoins
<1>51. \A i \in 1 .. la + lb : h[i] = h[i - 1] \o (a \o b)[i]
  BY <1>4, <1>5 DEF Flattens, Joins
<1> DEFINE A == {i \in 0 .. la : h[i] = f[i]}
           B == {j \in 0 .. lb : h[la + j] = f[la] \o g[j]}
<1>6. \A i \in 0 .. la : i \in A
  <2>1. 0 \in A
    BY <1>1, <1>3, <1>5 DEF Flattens, Joins
  <2>2. ASSUME NEW i \in 1 .. la, i - 1 \in A PROVE i \in A
    <3>1. i \in 1 .. la + lb /\ i \in 1 .. Len(a) /\ i \in 0 .. la
      BY <1>3
    <3>2. h[i] = h[i - 1] \o (a \o b)[i] /\ f[i] = f[i - 1] \o a[i]
      BY <1>1, <1>4, <1>5, <3>1 DEF Flattens, Joins
    <3> QED BY <1>4, <2>2, <3>1, <3>2
  <2> HIDE DEF A
  <2>3. A \in SUBSET (0 .. la)
    BY DEF A
  <2> QED BY <1>3, <2>1, <2>2, <2>3, StepUp
<1>7. h[la] = f[la] /\ f[la] \in Seq(T)
  <2>1. la \in 0 .. la
    BY <1>3
  <2> QED BY <1>1, <1>3, <1>6, <2>1 DEF Flattens, Joins
<1>8. \A j \in 0 .. lb : j \in B
  <2>1. 0 \in B
    <3>1. g[0] = <<>> /\ 0 \in 0 .. lb /\ la + 0 = la
      BY <1>2, <1>3 DEF Flattens, Joins
    <3>2. f[la] \o <<>> = f[la]
      BY <1>7, ConcatEmptySeq
    <3> QED BY <1>7, <3>1, <3>2
  <2>2. ASSUME NEW j \in 1 .. lb, j - 1 \in B PROVE j \in B
    <3>1. la + j \in 1 .. la + lb /\ j \in 1 .. Len(b) /\ j \in 0 .. lb /\ (la + j) - 1 = la + (j - 1)
          /\ j - 1 \in 0 .. lb
      BY <1>3
    <3>2. h[la + j] = h[(la + j) - 1] \o (a \o b)[la + j]
      <4>1. PICK k : k = la + j
        OBVIOUS
      <4>2. h[k] = h[k - 1] \o (a \o b)[k]
        BY <1>51, <3>1, <4>1
      <4> QED BY <4>1, <4>2
    <3>3. g[j] = g[j - 1] \o b[j] /\ g[j - 1] \in Seq(T)
      BY <1>2, <1>3, <3>1 DEF Flattens, Joins
    <3>4. b[j] \in Seq(T)
      BY <3>1, ElementOfSeq
    <3>5. h[la + (j - 1)] = f[la] \o g[j - 1]
      BY <2>2
    <3>6. h[la + j] = (f[la] \o g[j - 1]) \o b[j]
      BY <1>4, <3>1, <3>2, <3>5
    <3>7. (f[la] \o g[j - 1]) \o b[j] = f[la] \o (g[j - 1] \o b[j])
      <4>1. f[la] \in Seq(T) /\ g[j - 1] \in Seq(T) /\ b[j] \in Seq(T)
        BY <1>7, <3>3, <3>4
      <4>2. \A u, v, w \in Seq(T) : (u \o v) \o w = u \o (v \o w)
        BY ConcatAssociative, SMTT(60)
      <4> QED BY <4>1, <4>2, Zenon
    <3>8. h[la + j] = f[la] \o g[j]
      BY <3>3, <3>6, <3>7
    <3> QED BY <3>1, <3>8
  <2> HIDE DEF B
  <2>3. B \in SUBSET (0 .. lb)
    BY DEF B
  <2> QED BY <1>3, <2>1, <2>2, <2>3, StepUp
<1>9. h[la + lb] = f[la] \o g[lb]
  <2>1. lb \in 0 .. lb
    BY <1>3
  <2> QED BY <1>8, <2>1
<1> QED BY <1>1, <1>2, <1>3, <1>4, <1>5, <1>9 DEF Flattens

LEMMA FlattenOne ==
  ASSUME NEW T, NEW s \in Seq(T)
  PROVE  FlattenSeq(<<s>>) = s
<1>1. <<s>> \in Seq(Seq(T)) /\ Len(<<s>>) = 1 /\ <<s>>[1] = s
  OBVIOUS
<1>2. PICK f : Flattens(f, <<s>>, T)
  BY <1>1, FlattenJoins
<1>3. f[1] = f[1 - 1] \o <<s>>[1] /\ f[0] = <<>> /\ FlattenSeq(<<s>>) = f[1]
  <2>1. 1 \in 1 .. Len(<<s>>)
    BY <1>1
  <2> QED BY <1>1, <1>2, <2>1 DEF Flattens, Joins
<1>4. f[1 - 1] = <<>>
  BY <1>3
<1>5. <<>> \o s = s
  BY ConcatEmptySeq
<1>6. <<s>>[1] = s
  BY <1>1
<1> QED BY <1>3, <1>4, <1>5, <1>6, Zenon

\* What a function makes of the elements of a sequence, one after another.
LEMMA EachPieces ==
  ASSUME NEW T, NEW U, NEW s \in Seq(T), NEW g \in [T -> Seq(U)]
  PROVE  /\ [i \in DOMAIN s |-> g[s[i]]] \in Seq(Seq(U)) /\ Len([i \in DOMAIN s |-> g[s[i]]]) = Len(s)
         /\ DOMAIN s = 1 .. Len(s) /\ Len(s) \in Nat
         /\ Each(s, g) \in Seq(U)
<1>1. DOMAIN s = 1 .. Len(s) /\ Len(s) \in Nat /\ \A i \in 1 .. Len(s) : s[i] \in T
  BY LenProperties, ElementOfSeq
<1>2. [i \in DOMAIN s |-> g[s[i]]] \in [1 .. Len(s) -> Seq(U)]
  BY <1>1
<1>3. [i \in DOMAIN s |-> g[s[i]]] \in Seq(Seq(U)) /\ Len([i \in DOMAIN s |-> g[s[i]]]) = Len(s)
  BY <1>1, <1>2, FunSeq
<1>4. Each(s, g) \in Seq(U)
  BY <1>3, FlattenType DEF Each
<1> QED BY <1>1, <1>3, <1>4

LEMMA EachEmpty ==
  ASSUME NEW g
  PROVE  Each(<<>>, g) = <<>>
<1>1. [i \in DOMAIN <<>> |-> g[<<>>[i]]] = <<>>
  OBVIOUS
<1> QED BY <1>1, FlattenEmpty DEF Each

LEMMA EachOne ==
  ASSUME NEW T, NEW U, NEW e \in T, NEW g \in [T -> Seq(U)]
  PROVE  Each(<<e>>, g) = g[e]
<1>1. [i \in DOMAIN <<e>> |-> g[<<e>>[i]]] = <<g[e]>>
  OBVIOUS
<1>2. g[e] \in Seq(U)
  OBVIOUS
<1> QED BY <1>1, <1>2, FlattenOne DEF Each

LEMMA EachConcat ==
  ASSUME NEW T, NEW U, NEW s \in Seq(T), NEW t \in Seq(T), NEW g \in [T -> Seq(U)]
  PROVE  Each(s \o t, g) = Each(s, g) \o Each(t, g)
<1>1. PICK ms : ms = [i \in DOMAIN s |-> g[s[i]]]
  OBVIOUS
<1>2. PICK mt : mt = [i \in DOMAIN t |-> g[t[i]]]
  OBVIOUS
<1>3. PICK mc : mc = [i \in DOMAIN (s \o t) |-> g[(s \o t)[i]]]
  OBVIOUS
<1>4. PICK ls, lt \in Nat : ls = Len(s) /\ lt = Len(t)
  BY LenProperties
<1>5. /\ s \o t \in Seq(T) /\ Len(s \o t) = ls + lt
      /\ \A i \in 1 .. ls + lt : (s \o t)[i] = IF i <= ls THEN s[i] ELSE t[i - ls]
  BY <1>4, ConcatProperties
<1>6. ms \in Seq(Seq(U)) /\ Len(ms) = ls /\ \A i \in 1 .. ls : ms[i] = g[s[i]]
  BY <1>1, <1>4, EachPieces
<1>7. mt \in Seq(Seq(U)) /\ Len(mt) = lt /\ \A i \in 1 .. lt : mt[i] = g[t[i]]
  BY <1>2, <1>4, EachPieces
<1>8. mc \in Seq(Seq(U)) /\ Len(mc) = ls + lt /\ \A i \in 1 .. ls + lt : mc[i] = g[(s \o t)[i]]
  BY <1>3, <1>5, EachPieces
<1>9. /\ ms \o mt \in Seq(Seq(U)) /\ Len(ms \o mt) = ls + lt
      /\ \A i \in 1 .. ls + lt : (ms \o mt)[i] = IF i <= ls THEN ms[i] ELSE mt[i - ls]
  <2>1. /\ ms \o mt \in Seq(Seq(U)) /\ Len(ms \o mt) = Len(ms) + Len(mt)
        /\ \A i \in 1 .. Len(ms) + Len(mt) : (ms \o mt)[i] = IF i <= Len(ms) THEN ms[i] ELSE mt[i - Len(ms)]
    BY <1>6, <1>7, ConcatProperties, ZenonT(60)
  <2>2. Len(ms) = ls /\ Len(mt) = lt
    BY <1>6, <1>7
  <2> QED BY <2>1, <2>2
<1>10. ASSUME NEW i \in 1 .. ls + lt PROVE mc[i] = (ms \o mt)[i]
  <2>1. CASE i <= ls
    <3>1. i \in 1 .. ls
      BY <1>4, <2>1
    <3>2. (s \o t)[i] = s[i] /\ (ms \o mt)[i] = ms[i]
      BY <1>5, <1>9, <2>1
    <3>3. mc[i] = g[s[i]] /\ ms[i] = g[s[i]]
      BY <1>6, <1>8, <3>1, <3>2
    <3> QED BY <3>2, <3>3
  <2>2. CASE ~(i <= ls)
    <3>1. i - ls \in 1 .. lt
      BY <1>4, <2>2
    <3>2. (s \o t)[i] = t[i - ls] /\ (ms \o mt)[i] = mt[i - ls]
      BY <1>5, <1>9, <2>2
    <3>3. mc[i] = g[t[i - ls]] /\ mt[i - ls] = g[t[i - ls]]
      BY <1>7, <1>8, <3>1, <3>2
    <3> QED BY <3>2, <3>3
  <2> QED BY <2>1, <2>2
<1>11. mc = ms \o mt
  <2>1. Len(mc) = Len(ms \o mt) /\ \A i \in 1 .. Len(mc) : mc[i] = (ms \o mt)[i]
    BY <1>8, <1>9, <1>10
  <2> QED BY <1>8, <1>9, <2>1, SeqEqual
<1>12. FlattenSeq(mc) = FlattenSeq(ms) \o FlattenSeq(mt)
  BY <1>6, <1>7, <1>11, FlattenConcat
<1>13. Each(s, g) = FlattenSeq(ms) /\ Each(t, g) = FlattenSeq(mt) /\ Each(s \o t, g) = FlattenSeq(mc)
  BY <1>1, <1>2, <1>3 DEF Each
<1> QED BY <1>12, <1>13

\* The elements of what was joined are those of the pieces.
LEMMA EachFlatten ==
  ASSUME NEW T, NEW U, NEW ss \in Seq(Seq(T)), NEW g \in [T -> Seq(U)]
  PROVE  Each(FlattenSeq(ss), g) = FlattenSeq([i \in DOMAIN ss |-> Each(ss[i], g)])
<1>1. PICK n \in Nat : n = Len(ss) /\ DOMAIN ss = 1 .. n
  BY LenProperties
<1>2. \A i \in 1 .. n : ss[i] \in Seq(T)
  BY <1>1, ElementOfSeq
<1>3. PICK gs : gs = [i \in DOMAIN ss |-> Each(ss[i], g)]
  OBVIOUS
<1>4. gs \in [1 .. n -> Seq(U)] /\ \A i \in 1 .. n : gs[i] = Each(ss[i], g)
  <2>1. \A i \in 1 .. n : Each(ss[i], g) \in Seq(U)
    BY <1>2, EachPieces
  <2> QED BY <1>1, <1>3, <2>1
<1>5. gs \in Seq(Seq(U)) /\ Len(gs) = n
  BY <1>1, <1>4, FunSeq
<1>6. PICK f : Flattens(f, ss, T)
  BY FlattenJoins
<1>7. PICK h : Flattens(h, gs, U)
  BY <1>5, FlattenJoins
<1> DEFINE A == {i \in 0 .. n : Each(f[i], g) = h[i]}
<1>8. 0 \in A
  BY <1>1, <1>6, <1>7, EachEmpty DEF Flattens, Joins
<1>9. ASSUME NEW i \in 1 .. n, i - 1 \in A PROVE i \in A
  <2>1. i \in 0 .. n /\ i - 1 \in 0 .. n
    BY <1>1
  <2>2. f[i] = f[i - 1] \o ss[i] /\ f[i - 1] \in Seq(T)
    BY <1>1, <1>6, <2>1 DEF Flattens, Joins
  <2>3. h[i] = h[i - 1] \o gs[i]
    BY <1>5, <1>7, <2>1 DEF Flattens, Joins
  <2>4. ss[i] \in Seq(T)
    BY <1>2
  <2>5. Each(f[i], g) = Each(f[i - 1], g) \o Each(ss[i], g)
    <3>1. f[i - 1] \in Seq(T)
      BY <2>2
    <3>2. Each(f[i - 1] \o ss[i], g) = Each(f[i - 1], g) \o Each(ss[i], g)
      BY <2>4, <3>1, EachConcat, SMTT(60)
    <3> QED BY <2>2, <3>2, Zenon
  <2>6. Each(f[i - 1], g) = h[i - 1]
    BY <1>9
  <2> QED BY <1>4, <2>1, <2>3, <2>5, <2>6
<1> HIDE DEF A
<1>10. A \in SUBSET (0 .. n)
  BY DEF A
<1>11. \A i \in 0 .. n : i \in A
  BY <1>1, <1>8, <1>9, <1>10, StepUp
<1>12. Each(f[n], g) = h[n]
  <2>1. n \in 0 .. n
    BY <1>1
  <2> QED BY <1>11, <2>1 DEF A
<1> QED BY <1>1, <1>3, <1>5, <1>6, <1>7, <1>12 DEF Flattens

\* Lengths add up, piece by piece.
AddUp(a, b, c, n) ==
  /\ Len(a) = n /\ Len(b) = n /\ Len(c) = n
  /\ \A i \in 1 .. n : Len(a[i]) = Len(b[i]) + Len(c[i])
LEMMA FlattenLengths ==
  ASSUME NEW T, NEW n \in Nat, NEW a \in Seq(Seq(T)), NEW b \in Seq(Seq(T)), NEW c \in Seq(Seq(T)),
         AddUp(a, b, c, n)
  PROVE  Len(FlattenSeq(a)) = Len(FlattenSeq(b)) + Len(FlattenSeq(c))
<1>0. /\ Len(a) = n /\ Len(b) = n /\ Len(c) = n
      /\ \A i \in 1 .. n : Len(a[i]) = Len(b[i]) + Len(c[i])
  BY DEF AddUp
<1>1. PICK f : Flattens(f, a, T)
  BY FlattenJoins
<1>2. PICK g : Flattens(g, b, T)
  BY FlattenJoins
<1>3. PICK h : Flattens(h, c, T)
  BY FlattenJoins
<1> DEFINE A == {i \in 0 .. n : Len(f[i]) = Len(g[i]) + Len(h[i])}
<1>4. 0 \in A
  <2>1. f[0] = <<>> /\ g[0] = <<>> /\ h[0] = <<>>
    BY <1>1, <1>2, <1>3 DEF Flattens, Joins
  <2>2. PICK e : e = <<>> /\ Len(e) = 0
    OBVIOUS
  <2>3. f[0] = e /\ g[0] = e /\ h[0] = e
    BY <2>1, <2>2
  <2>4. Len(f[0]) = Len(g[0]) + Len(h[0])
    BY <2>2, <2>3
  <2>5. 0 \in 0 .. n
    OBVIOUS
  <2> QED BY <2>4, <2>5, Zenon
<1>5. ASSUME NEW i \in 1 .. n, i - 1 \in A PROVE i \in A
  <2>1. i \in 0 .. n /\ i - 1 \in 0 .. n
    OBVIOUS
  <2>2. PICK p, q : p = f[i - 1] /\ q = a[i] /\ p \in Seq(T) /\ q \in Seq(T) /\ f[i] = p \o q
    BY <1>0, <1>1, <2>1, ElementOfSeq DEF Flattens, Joins
  <2>3. PICK r, s : r = g[i - 1] /\ s = b[i] /\ r \in Seq(T) /\ s \in Seq(T) /\ g[i] = r \o s
    BY <1>0, <1>2, <2>1, ElementOfSeq DEF Flattens, Joins
  <2>4. PICK t, u : t = h[i - 1] /\ u = c[i] /\ t \in Seq(T) /\ u \in Seq(T) /\ h[i] = t \o u
    BY <1>0, <1>3, <2>1, ElementOfSeq DEF Flattens, Joins
  <2>5. Len(f[i]) = Len(p) + Len(q) /\ Len(g[i]) = Len(r) + Len(s) /\ Len(h[i]) = Len(t) + Len(u)
    BY <2>2, <2>3, <2>4, ConcatProperties
  <2>6. Len(r) \in Nat /\ Len(s) \in Nat /\ Len(t) \in Nat /\ Len(u) \in Nat
    BY <2>3, <2>4, LenProperties
  <2>7. Len(p) = Len(r) + Len(t) /\ Len(q) = Len(s) + Len(u)
    BY <1>0, <1>5, <2>2, <2>3, <2>4
  <2>8. (Len(r) + Len(t)) + (Len(s) + Len(u)) = (Len(r) + Len(s)) + (Len(t) + Len(u))
    BY <2>6
  <2>10. Len(f[i]) = Len(g[i]) + Len(h[i])
    BY <2>5, <2>7, <2>8
  <2> QED BY <2>1, <2>10
<1> HIDE DEF A
<1>6. A \in SUBSET (0 .. n)
  BY DEF A
<1>7. \A i \in 0 .. n : i \in A
  BY <1>4, <1>5, <1>6, StepUp
<1>8. n \in A
  BY <1>7
<1> QED BY <1>0, <1>1, <1>2, <1>3, <1>8 DEF A, Flattens

\* Where all pieces but one are empty.
LEMMA FlattenOnePiece ==
  ASSUME NEW T, NEW ss \in Seq(Seq(T)), NEW m \in 1 .. Len(ss),
         \A i \in 1 .. Len(ss) : i # m => ss[i] = <<>>
  PROVE  FlattenSeq(ss) = ss[m]
<1>1. PICK n \in Nat : n = Len(ss)
  BY LenProperties
<1>2. PICK f : Flattens(f, ss, T)
  BY FlattenJoins
<1>3. ss[m] \in Seq(T) /\ m \in 1 .. n
  BY <1>1, ElementOfSeq
<1> DEFINE A == {i \in 0 .. n : f[i] = IF i < m THEN <<>> ELSE ss[m]}
<1>4. 0 \in A
  BY <1>1, <1>2, <1>3 DEF Flattens, Joins
<1>5. ASSUME NEW i \in 1 .. n, i - 1 \in A PROVE i \in A
  <2>1. i \in 0 .. n /\ i - 1 \in 0 .. n
    BY <1>1
  <2>2. f[i] = f[i - 1] \o ss[i] /\ f[i - 1] = IF i - 1 < m THEN <<>> ELSE ss[m]
    BY <1>1, <1>2, <1>5, <2>1 DEF Flattens, Joins
  <2>3. CASE i < m
    <3>1. i - 1 < m /\ i # m
      BY <1>3, <2>3
    <3>2. f[i] = <<>> \o <<>>
      BY <1>1, <2>2, <3>1
    <3> QED BY <2>1, <2>3, <3>2
  <2>4. CASE i = m
    <3>1. i - 1 < m
      BY <1>3, <2>4
    <3>2. f[i] = <<>> \o ss[m]
      BY <2>2, <2>4, <3>1
    <3>3. f[i] = ss[m] /\ ~(i < m)
      BY <1>3, <2>4, <3>2, ConcatEmptySeq
    <3> QED BY <2>1, <3>3
  <2>5. CASE i > m
    <3>1. ~(i - 1 < m) /\ ~(i < m) /\ i # m
      BY <1>3, <2>5
    <3>2. f[i] = ss[m] \o <<>>
      BY <1>1, <2>2, <3>1
    <3>3. f[i] = ss[m]
      BY <1>3, <3>2, ConcatEmptySeq
    <3> QED BY <2>1, <3>1, <3>3
  <2> QED BY <1>3, <2>3, <2>4, <2>5
<1> HIDE DEF A
<1>6. A \in SUBSET (0 .. n)
  BY DEF A
<1>7. \A i \in 0 .. n : i \in A
  BY <1>1, <1>4, <1>5, <1>6, StepUp
<1>8. n \in A /\ ~(n < m)
  BY <1>1, <1>3, <1>7
<1> QED BY <1>1, <1>2, <1>8 DEF A, Flattens

LEMMA FlattenNothing ==
  ASSUME NEW T, NEW ss \in Seq(Seq(T)), \A i \in 1 .. Len(ss) : ss[i] = <<>>
  PROVE  FlattenSeq(ss) = <<>>
<1>1. CASE Len(ss) = 0
  <2>1. ss = <<>>
    BY <1>1, EmptySeq
  <2> QED BY <2>1, FlattenEmpty
<1>2. CASE Len(ss) # 0
  <2>1. 1 \in 1 .. Len(ss)
    BY <1>2, LenProperties
  <2>2. FlattenSeq(ss) = ss[1]
    BY <2>1, FlattenOnePiece
  <2> QED BY <2>1, <2>2
<1> QED BY <1>1, <1>2

LEMMA OneElement ==
  ASSUME NEW T, NEW s \in Seq(T), Len(s) = 1
  PROVE  s = <<s[1]>> /\ s[1] \in T
OBVIOUS

\* Parts the client sent, as they are or what is left of them; messages made of them.
OldParts == {p \in AllParts : p.kind # "digest"}
Roles    == {m.role : m \in Messages} \union {"user"}
Forms    == {m.form : m \in Messages} \union {"string"}
Plain    == [role : Roles, form : Forms, parts : Seq(OldParts)]
Talks    == [role : Roles, form : Forms, parts : Seq(AllParts)]
Pieces(m, newest) ==
  [j \in DOMAIN m.parts |-> IF IsHeavy(m.parts[j], newest) THEN Trace(m.parts[j]) ELSE <<m.parts[j]>>]

LEMMA PartKinds == ClientParts \subseteq OldParts /\ OldParts \subseteq AllParts /\ Digest \in AllParts
<1>1. ClientParts \subseteq OldParts
  BY DEF ClientParts, OldParts, AllParts
<1>2. OldParts \subseteq AllParts
  BY DEF OldParts
<1>3. FALSE \in BOOLEAN
  OBVIOUS
<1>4. Digest \in AllParts
  BY <1>3 DEF Digest, Part, AllParts
<1> QED BY <1>1, <1>2, <1>4

LEMMA PlainTalks == Plain \subseteq Talks
<1>1. Seq(OldParts) \subseteq Seq(AllParts)
  BY PartKinds, SeqMonotonic
<1> QED BY <1>1 DEF Plain, Talks

LEMMA MessagesPlain ==
  ASSUME NEW m \in Messages
  PROVE  m \in Plain /\ m \in Talks /\ m.parts \in Seq(ClientParts) /\ m.parts \in Seq(OldParts)
<1>1. m \in [role : STRING, form : STRING, parts : Seq(ClientParts)]
  BY TalkAssumption
<1>2. m.parts \in Seq(OldParts)
  BY <1>1, PartKinds, SeqMonotonic
<1>3. m \in Plain
  <2>1. m.role \in Roles /\ m.form \in Forms
    BY DEF Roles, Forms
  <2> QED BY <1>1, <1>2, <2>1 DEF Plain
<1> QED BY <1>1, <1>2, <1>3, PlainTalks

LEMMA TraceShape ==
  ASSUME NEW p \in ClientParts
  PROVE  /\ Trace(p) \in Seq(OldParts) /\ Trace(p) \in Seq(AllParts)
         /\ p.kind = "result" => Trace(p) = <<[p EXCEPT !.rest = "marker"]>>
         /\ p.kind # "result" /\ p.note => Trace(p) = <<[p EXCEPT !.rest = "none"]>>
         /\ p.kind # "result" /\ ~p.note => Trace(p) = <<>>
<1>1. [p EXCEPT !.rest = "marker"] \in OldParts /\ [p EXCEPT !.rest = "none"] \in OldParts
  BY DEF ClientParts, OldParts, AllParts
<1>2. /\ <<[p EXCEPT !.rest = "marker"]>> \in Seq(OldParts) /\ <<[p EXCEPT !.rest = "none"]>> \in Seq(OldParts)
      /\ <<>> \in Seq(OldParts)
  BY <1>1
<1>3. Trace(p) \in Seq(OldParts)
  BY <1>2 DEF Trace
<1>4. Trace(p) \in Seq(AllParts)
  BY <1>3, PartKinds, SeqMonotonic
<1> QED BY <1>3, <1>4, Zenon DEF Trace

LEMMA PiecesShape ==
  ASSUME NEW m \in Messages, NEW newest \in BOOLEAN
  PROVE  /\ Pieces(m, newest) \in Seq(Seq(OldParts)) /\ Pieces(m, newest) \in Seq(Seq(AllParts))
         /\ Len(Pieces(m, newest)) = Len(m.parts) /\ DOMAIN m.parts = 1 .. Len(m.parts)
         /\ DOMAIN Pieces(m, newest) = 1 .. Len(m.parts)
         /\ Len(m.parts) \in Nat /\ \A j \in 1 .. Len(m.parts) : m.parts[j] \in ClientParts
<1>1. m.parts \in Seq(ClientParts)
  BY MessagesPlain
<1>2. DOMAIN m.parts = 1 .. Len(m.parts) /\ Len(m.parts) \in Nat
      /\ \A j \in 1 .. Len(m.parts) : m.parts[j] \in ClientParts
  BY <1>1, LenProperties, ElementOfSeq
<1>3. ASSUME NEW j \in 1 .. Len(m.parts)
      PROVE  (IF IsHeavy(m.parts[j], newest) THEN Trace(m.parts[j]) ELSE <<m.parts[j]>>) \in Seq(OldParts)
  <2>1. Trace(m.parts[j]) \in Seq(OldParts)
    BY <1>2, TraceShape
  <2>2. m.parts[j] \in OldParts
    BY <1>2, PartKinds
  <2>3. <<m.parts[j]>> \in Seq(OldParts)
    BY <2>2
  <2> QED BY <2>1, <2>3
<1>4. Pieces(m, newest) \in [1 .. Len(m.parts) -> Seq(OldParts)]
  BY <1>2, <1>3 DEF Pieces
<1>5. Pieces(m, newest) \in Seq(Seq(OldParts)) /\ Len(Pieces(m, newest)) = Len(m.parts)
      /\ DOMAIN Pieces(m, newest) = 1 .. Len(m.parts)
  BY <1>2, <1>4, FunSeq
<1>6. Seq(OldParts) \subseteq Seq(AllParts)
  BY PartKinds, SeqMonotonic
<1>7. Pieces(m, newest) \in Seq(Seq(AllParts))
  BY <1>5, <1>6, SeqMonotonic
<1> QED BY <1>2, <1>5, <1>7

LEMMA KeptShape ==
  ASSUME NEW m \in Messages, NEW newest \in BOOLEAN
  PROVE  /\ Kept(m, newest) \in Plain
         /\ Kept(m, newest).parts = FlattenSeq(Pieces(m, newest))
         /\ Kept(m, newest).role = m.role /\ Kept(m, newest).form = m.form
<1>1. m \in Plain
  BY MessagesPlain
<1>2. FlattenSeq(Pieces(m, newest)) \in Seq(OldParts)
  BY PiecesShape, FlattenType
<1>3. Kept(m, newest) = [m EXCEPT !.parts = FlattenSeq(Pieces(m, newest))]
  BY Zenon DEF Kept, Pieces
<1> QED BY <1>1, <1>2, <1>3 DEF Plain

\* What a function tells of a text that is blank, or of a heavy part and its trace.
Blank(g) == \A p \in ClientParts : p.kind = "text" /\ p.rest = "none" /\ ~p.note => g[p] = <<>>
Unmoved(g) ==
  \A p \in ClientParts : p.rest = "heavy" /\ p.kind \in {"text", "result"} => Each(Trace(p), g) = g[p]

LEMMA KeptEach ==
  ASSUME NEW m \in Messages, NEW newest \in BOOLEAN, NEW U, NEW g \in [AllParts -> Seq(U)]
  PROVE  /\ Each(Kept(m, newest).parts, g)
              = FlattenSeq([j \in DOMAIN m.parts |-> Each(Pieces(m, newest)[j], g)])
         /\ Unmoved(g) => Each(Kept(m, newest).parts, g) = Each(m.parts, g)
<1>1. Each(Kept(m, newest).parts, g)
        = FlattenSeq([j \in DOMAIN Pieces(m, newest) |-> Each(Pieces(m, newest)[j], g)])
  BY KeptShape, PiecesShape, EachFlatten
<1>2. DOMAIN Pieces(m, newest) = DOMAIN m.parts
  BY PiecesShape
<1>3. ASSUME Unmoved(g), NEW j \in DOMAIN m.parts
      PROVE  Each(Pieces(m, newest)[j], g) = g[m.parts[j]]
  <2>1. PICK p \in ClientParts : p = m.parts[j]
    BY <1>3, PiecesShape
  <2>2. p \in AllParts
    BY PartKinds
  <2>3. CASE IsHeavy(p, newest)
    <3>1. Pieces(m, newest)[j] = Trace(p)
      BY <1>3, <2>1, <2>3 DEF Pieces
    <3>2. p.rest = "heavy" /\ p.kind \in {"text", "result"}
      BY <2>3 DEF IsHeavy
    <3> QED BY <1>3, <2>1, <3>1, <3>2 DEF Unmoved
  <2>4. CASE ~IsHeavy(p, newest)
    <3>1. Pieces(m, newest)[j] = <<p>>
      BY <1>3, <2>1, <2>4 DEF Pieces
    <3> QED BY <2>1, <2>2, <3>1, EachOne
  <2> QED BY <2>3, <2>4
<1>4. ASSUME Unmoved(g) PROVE Each(Kept(m, newest).parts, g) = Each(m.parts, g)
  <2>1. [j \in DOMAIN m.parts |-> Each(Pieces(m, newest)[j], g)] = [j \in DOMAIN m.parts |-> g[m.parts[j]]]
    BY <1>3, <1>4
  <2> QED BY <1>1, <1>2, <2>1 DEF Each
<1> QED BY <1>1, <1>2, <1>4

\* What is dropped held nothing but heavy text.
LEMMA DroppedEmpty ==
  ASSUME NEW m \in Messages, NEW newest \in BOOLEAN, NEW U, NEW g \in [AllParts -> Seq(U)],
         Blank(g), ContentIsEmpty(Kept(m, newest))
  PROVE  Each(Kept(m, newest).parts, g) = <<>>
<1>1. CASE Kept(m, newest).parts = <<>>
  BY <1>1, EachEmpty
<1>2. CASE Kept(m, newest).parts # <<>>
  <2>1. m.form = "string" /\ Kept(m, newest).parts[1].rest = "none" /\ ~Kept(m, newest).parts[1].note
    BY <1>2, KeptShape DEF ContentIsEmpty
  <2>2. Len(m.parts) = 1 /\ m.parts[1].kind = "text"
    BY <2>1, TalkAssumption
  <2>3. PICK p \in ClientParts : p = m.parts[1]
    BY <2>2, PiecesShape
  <2>4. p \in AllParts /\ p.kind = "text"
    BY <2>2, <2>3, PartKinds
  <2>5. Pieces(m, newest) = <<Pieces(m, newest)[1]>> /\ Pieces(m, newest)[1] \in Seq(AllParts)
    <3>1. Pieces(m, newest) \in Seq(Seq(AllParts)) /\ Len(Pieces(m, newest)) = 1
      BY <2>2, PiecesShape
    <3>2. \A s \in Seq(Seq(AllParts)) : Len(s) = 1 => s = <<s[1]>> /\ s[1] \in Seq(AllParts)
      BY OneElement
    <3> QED BY <3>1, <3>2, Zenon
  <2>6. Kept(m, newest).parts = Pieces(m, newest)[1]
    BY <2>5, KeptShape, FlattenOne
  <2>7. Pieces(m, newest)[1] = IF IsHeavy(p, newest) THEN Trace(p) ELSE <<p>>
    <3>1. 1 \in DOMAIN m.parts
      BY <2>2, PiecesShape
    <3> QED BY <2>3, <3>1 DEF Pieces
  <2>8. ~IsHeavy(p, newest)
    <3>1. SUFFICES ASSUME IsHeavy(p, newest) PROVE FALSE
      OBVIOUS
    <3>2. Kept(m, newest).parts = Trace(p)
      BY <2>6, <2>7, <3>1
    <3>3. CASE p.note
      <4>1. Trace(p) = <<[p EXCEPT !.rest = "none"]>>
        BY <2>3, <2>4, <3>3, TraceShape
      <4>2. [p EXCEPT !.rest = "none"].note = p.note
        BY <2>3 DEF ClientParts
      <4>3. Kept(m, newest).parts[1] = [p EXCEPT !.rest = "none"]
        BY <3>2, <4>1
      <4> QED BY <2>1, <3>3, <4>2, <4>3, Zenon
    <3>4. CASE ~p.note
      BY <1>2, <2>3, <2>4, <3>2, <3>4, TraceShape
    <3> QED BY <3>3, <3>4
  <2>9. Kept(m, newest).parts = <<p>>
    BY <2>6, <2>7, <2>8
  <2>10. p.rest = "none" /\ ~p.note
    <3>1. Kept(m, newest).parts[1] = p
      BY <2>9
    <3> QED BY <2>1, <3>1, Zenon
  <2>11. g[p] = <<>>
    BY <2>3, <2>4, <2>10 DEF Blank
  <2>12. Each(<<p>>, g) = g[p]
    BY <2>4, EachOne
  <2> QED BY <2>9, <2>11, <2>12
<1> QED BY <1>1, <1>2

LEMMA SurvivorShape ==
  ASSUME NEW messages \in Seq(Messages), NEW i \in DOMAIN messages
  PROVE  /\ messages[i] \in Messages /\ messages[i] \in Talks /\ (i = Len(messages)) \in BOOLEAN
         /\ Survivor(messages, i) \in Seq(Plain) /\ Survivor(messages, i) \in Seq(Talks)
<1>1. messages[i] \in Messages
  BY LenProperties, ElementOfSeq
<1>2. messages[i] \in Plain /\ messages[i] \in Talks
  BY <1>1, MessagesPlain
<1>3. (i = Len(messages)) \in BOOLEAN
  BY Zenon
<1>4. Kept(messages[i], i = Len(messages)) \in Plain
  BY <1>1, <1>3, KeptShape
<1>5. Survivor(messages, i) \in Seq(Plain)
  <2>1. <<messages[i]>> \in Seq(Plain) /\ <<Kept(messages[i], i = Len(messages))>> \in Seq(Plain)
        /\ <<>> \in Seq(Plain)
    BY <1>2, <1>4
  <2> QED BY <2>1 DEF Survivor
<1>6. Survivor(messages, i) \in Seq(Talks)
  BY <1>5, PlainTalks, SeqMonotonic
<1> QED BY <1>1, <1>2, <1>3, <1>5, <1>6

LEMMA SurvivingShape ==
  ASSUME NEW messages \in Seq(Messages)
  PROVE  /\ [i \in DOMAIN messages |-> Survivor(messages, i)] \in Seq(Seq(Plain))
         /\ [i \in DOMAIN messages |-> Survivor(messages, i)] \in Seq(Seq(Talks))
         /\ DOMAIN messages = 1 .. Len(messages) /\ Len(messages) \in Nat
         /\ Surviving(messages) \in Seq(Plain) /\ Surviving(messages) \in Seq(Talks)
<1>1. DOMAIN messages = 1 .. Len(messages) /\ Len(messages) \in Nat
  BY LenProperties
<1>2. [i \in DOMAIN messages |-> Survivor(messages, i)] \in [1 .. Len(messages) -> Seq(Plain)]
  BY <1>1, SurvivorShape
<1>3. [i \in DOMAIN messages |-> Survivor(messages, i)] \in [1 .. Len(messages) -> Seq(Talks)]
  BY <1>1, SurvivorShape
<1>4. /\ [i \in DOMAIN messages |-> Survivor(messages, i)] \in Seq(Seq(Plain))
      /\ [i \in DOMAIN messages |-> Survivor(messages, i)] \in Seq(Seq(Talks))
  BY <1>1, <1>2, <1>3, FunSeq
<1>5. Surviving(messages) \in Seq(Plain) /\ Surviving(messages) \in Seq(Talks)
  BY <1>4, FlattenType DEF Surviving
<1> QED BY <1>1, <1>4, <1>5

\* What is told of every message and of its survivor alike is told of all that survive.
LEMMA SurvivingEach ==
  ASSUME NEW messages \in Seq(Messages), NEW U, NEW h \in [Talks -> Seq(U)],
         \A i \in DOMAIN messages : Each(Survivor(messages, i), h) = h[messages[i]]
  PROVE  Each(Surviving(messages), h) = Each(messages, h)
<1>1. PICK ss : ss = [i \in DOMAIN messages |-> Survivor(messages, i)]
  OBVIOUS
<1>2. ss \in Seq(Seq(Talks)) /\ DOMAIN ss = DOMAIN messages
  BY <1>1, SurvivingShape
<1>3. Each(FlattenSeq(ss), h) = FlattenSeq([i \in DOMAIN ss |-> Each(ss[i], h)])
  BY <1>2, EachFlatten, SMTT(60)
<1>4. [i \in DOMAIN ss |-> Each(ss[i], h)] = [i \in DOMAIN messages |-> h[messages[i]]]
  BY <1>1, <1>2
<1> QED BY <1>1, <1>3, <1>4 DEF Surviving, Each

\* The parts of messages, taken one message after another.
PerMessage(g) == [m \in Talks |-> Each(m.parts, g)]
LEMMA PartsEach ==
  ASSUME NEW messages \in Seq(Talks), NEW U, NEW g \in [AllParts -> Seq(U)]
  PROVE  /\ PerMessage(g) \in [Talks -> Seq(U)]
         /\ Each(Parts(messages), g) = Each(messages, PerMessage(g))
         /\ Parts(messages) \in Seq(AllParts)
<1>1. \A m \in Talks : m.parts \in Seq(AllParts)
  BY DEF Talks
<1>2. PerMessage(g) \in [Talks -> Seq(U)]
  <2>1. \A m \in Talks : Each(m.parts, g) \in Seq(U)
    BY <1>1, EachPieces
  <2> QED BY <2>1 DEF PerMessage
<1>3. DOMAIN messages = 1 .. Len(messages) /\ Len(messages) \in Nat
      /\ \A i \in 1 .. Len(messages) : messages[i] \in Talks
  BY LenProperties, ElementOfSeq
<1>4. PICK ss : ss = [i \in DOMAIN messages |-> messages[i].parts]
  OBVIOUS
<1>5. ss \in [1 .. Len(messages) -> Seq(AllParts)]
  BY <1>1, <1>3, <1>4
<1>6. ss \in Seq(Seq(AllParts)) /\ DOMAIN ss = DOMAIN messages
  BY <1>3, <1>5, FunSeq
<1>7. Each(FlattenSeq(ss), g) = FlattenSeq([i \in DOMAIN ss |-> Each(ss[i], g)])
  BY <1>6, EachFlatten, SMTT(60)
<1>8. [i \in DOMAIN ss |-> Each(ss[i], g)] = [i \in DOMAIN messages |-> PerMessage(g)[messages[i]]]
  BY <1>3, <1>4, <1>6 DEF PerMessage
<1>9. Parts(messages) = FlattenSeq(ss)
  BY <1>4 DEF Parts
<1>10. FlattenSeq(ss) \in Seq(AllParts)
  BY <1>6, FlattenType
<1> QED BY <1>2, <1>7, <1>8, <1>9, <1>10 DEF Each

\* A survivor says of blank texts and traces what the message said.
LEMMA SurvivorEach ==
  ASSUME NEW messages \in Seq(Messages), NEW i \in DOMAIN messages,
         NEW U, NEW g \in [AllParts -> Seq(U)], Blank(g)
  PROVE  /\ messages[i].role = "system" => Each(Survivor(messages, i), PerMessage(g)) = Each(messages[i].parts, g)
         /\ messages[i].role # "system" =>
              Each(Survivor(messages, i), PerMessage(g)) = Each(Kept(messages[i], i = Len(messages)).parts, g)
         /\ Unmoved(g) => Each(Survivor(messages, i), PerMessage(g)) = PerMessage(g)[messages[i]]
<1>1. PICK m \in Messages, newest \in BOOLEAN : m = messages[i] /\ newest = (i = Len(messages)) /\ m \in Talks
  BY SurvivorShape
<1>2. PICK k : k = Kept(m, newest)
  OBVIOUS
<1>3. k \in Talks
  <2>1. k \in Plain
    BY <1>1, <1>2, KeptShape
  <2> QED BY <2>1, PlainTalks
<1>4. PerMessage(g) \in [Talks -> Seq(U)]
  <2>1. <<>> \in Seq(Talks)
    OBVIOUS
  <2> QED BY <2>1, PartsEach
<1>5. PerMessage(g)[m] = Each(m.parts, g) /\ PerMessage(g)[k] = Each(k.parts, g)
  BY <1>1, <1>3 DEF PerMessage
<1>6. Survivor(messages, i) = IF m.role = "system" THEN <<m>> ELSE IF ContentIsEmpty(k) THEN <<>> ELSE <<k>>
  BY <1>1, <1>2 DEF Survivor
<1>7. Each(<<m>>, PerMessage(g)) = PerMessage(g)[m] /\ Each(<<k>>, PerMessage(g)) = PerMessage(g)[k]
      /\ Each(<<>>, PerMessage(g)) = <<>>
  BY <1>1, <1>3, <1>4, EachOne, EachEmpty
<1>8. m.role = "system" => Each(Survivor(messages, i), PerMessage(g)) = Each(m.parts, g)
  BY <1>5, <1>6, <1>7
<1>9. ASSUME m.role # "system" PROVE Each(Survivor(messages, i), PerMessage(g)) = Each(k.parts, g)
  <2>1. CASE ContentIsEmpty(k)
    <3>1. Each(k.parts, g) = <<>>
      BY <1>1, <1>2, <2>1, DroppedEmpty
    <3> QED BY <1>6, <1>7, <1>9, <2>1, <3>1
  <2>2. CASE ~ContentIsEmpty(k)
    BY <1>5, <1>6, <1>7, <1>9, <2>2
  <2> QED BY <2>1, <2>2
<1>10. Unmoved(g) => Each(k.parts, g) = Each(m.parts, g)
  BY <1>1, <1>2, KeptEach
<1> QED BY <1>1, <1>2, <1>5, <1>8, <1>9, <1>10

\* Where the digest goes: the last user turn, if any is left.
LEMMA LastUser ==
  ASSUME NEW rest \in Seq(Talks), UserTurns(rest) # {}
  PROVE  /\ Max(UserTurns(rest)) \in DOMAIN rest /\ Max(UserTurns(rest)) \in UserTurns(rest)
         /\ rest[Max(UserTurns(rest))].role = "user"
<1>1. DOMAIN rest = 1 .. Len(rest) /\ Len(rest) \in Nat
  BY LenProperties
<1>2. UserTurns(rest) \in SUBSET Nat /\ \A y \in UserTurns(rest) : y <= Len(rest)
  BY <1>1 DEF UserTurns
<1>3. \E x \in UserTurns(rest) : \A y \in UserTurns(rest) : x >= y
  BY <1>1, <1>2, GreatestNat
<1>4. Max(UserTurns(rest)) \in UserTurns(rest)
  BY <1>3 DEF Max
<1> QED BY <1>4 DEF UserTurns

Carrier == [role |-> "user", form |-> "string", parts |-> <<Digest>>]
Tagged(m) == [m EXCEPT !.parts = <<Digest>> \o @]

LEMMA CarrierShape == Carrier \in Talks /\ <<Digest>> \in Seq(AllParts) /\ Carrier.parts = <<Digest>>
<1>1. PICK d \in Seq(AllParts) : d = <<Digest>>
  <2>1. <<Digest>> \in Seq(AllParts)
    BY PartKinds
  <2> QED BY <2>1
<1>2. Carrier = [role |-> "user", form |-> "string", parts |-> d]
  BY <1>1 DEF Carrier
<1>3. Carrier \in Talks
  <2>1. \A r \in Roles, f \in Forms, ps \in Seq(AllParts) : [role |-> r, form |-> f, parts |-> ps] \in Talks
    BY DEF Talks
  <2>2. "user" \in Roles /\ "string" \in Forms
    BY DEF Roles, Forms
  <2> QED BY <1>1, <1>2, <2>1, <2>2, Zenon
<1> QED BY <1>1, <1>2, <1>3

LEMMA TaggedShape ==
  ASSUME NEW m \in Talks
  PROVE  Tagged(m) \in Talks /\ Tagged(m).parts = <<Digest>> \o m.parts /\ Tagged(m).role = m.role
         /\ <<Digest>> \in Seq(AllParts) /\ m.parts \in Seq(AllParts)
<1>1. <<Digest>> \in Seq(AllParts) /\ m.parts \in Seq(AllParts)
  BY CarrierShape DEF Talks
<1>2. PICK d \in Seq(AllParts) : d = <<Digest>> \o m.parts
  BY <1>1, ConcatProperties
<1>3. Tagged(m) = [m EXCEPT !.parts = d]
  BY <1>2, Zenon DEF Tagged
<1>4. [m EXCEPT !.parts = d] \in Talks /\ [m EXCEPT !.parts = d].parts = d /\ [m EXCEPT !.parts = d].role = m.role
  BY DEF Talks
<1> QED BY <1>1, <1>2, <1>3, <1>4

LEMMA CompressedShape ==
  ASSUME NEW messages \in Seq(Messages)
  PROVE  LET rest == Surviving(messages) IN
         /\ rest \in Seq(Talks) /\ Compressed(messages) \in Seq(Talks)
         /\ UserTurns(rest) # {} =>
              /\ DOMAIN Compressed(messages) = DOMAIN rest
              /\ \A i \in DOMAIN rest : Compressed(messages)[i] =
                   IF i = Max(UserTurns(rest)) THEN Tagged(rest[i]) ELSE rest[i]
         /\ UserTurns(rest) = {} /\ HeavyContext(messages) # <<>> => Compressed(messages) = Append(rest, Carrier)
         /\ UserTurns(rest) = {} /\ HeavyContext(messages) = <<>> => Compressed(messages) = rest
<1>1. PICK rest \in Seq(Talks) : rest = Surviving(messages)
  BY SurvivingShape
<1>2. DOMAIN rest = 1 .. Len(rest) /\ Len(rest) \in Nat /\ \A i \in DOMAIN rest : rest[i] \in Talks
  BY LenProperties, ElementOfSeq
<1>3. Compressed(messages) =
        IF UserTurns(rest) # {} THEN [rest EXCEPT ![Max(UserTurns(rest))].parts = <<Digest>> \o @]
        ELSE IF HeavyContext(messages) = <<>> THEN rest ELSE Append(rest, Carrier)
  BY <1>1 DEF Compressed, Carrier
<1>4. ASSUME UserTurns(rest) # {}
      PROVE  /\ DOMAIN Compressed(messages) = DOMAIN rest
             /\ \A i \in DOMAIN rest : Compressed(messages)[i] =
                   IF i = Max(UserTurns(rest)) THEN Tagged(rest[i]) ELSE rest[i]
             /\ Compressed(messages) \in Seq(Talks)
  <2>1. PICK k \in DOMAIN rest : k = Max(UserTurns(rest))
    BY <1>4, LastUser
  <2>2. Compressed(messages) = [rest EXCEPT ![k].parts = <<Digest>> \o @]
    BY <1>3, <1>4, <2>1
  <2>3. [rest EXCEPT ![k].parts = <<Digest>> \o @] = [rest EXCEPT ![k] = Tagged(rest[k])]
    BY Zenon DEF Tagged
  <2>4. Compressed(messages) = [i \in DOMAIN rest |-> IF i = k THEN Tagged(rest[i]) ELSE rest[i]]
    BY <1>2, <2>2, <2>3
  <2>5. Compressed(messages) \in [1 .. Len(rest) -> Talks]
    BY <1>2, <2>4, TaggedShape
  <2>6. Compressed(messages) \in Seq(Talks)
    BY <1>2, <2>5, FunSeq
  <2> QED BY <2>1, <2>4, <2>6
<1>5. Carrier \in Talks
  BY CarrierShape
<1>6. Append(rest, Carrier) \in Seq(Talks)
  BY <1>5
<1>7. Compressed(messages) \in Seq(Talks)
  BY <1>3, <1>4, <1>6
<1> QED BY <1>1, <1>3, <1>4, <1>7

\* What does not see the digest is told of all that survive.
LEMMA CompressedEach ==
  ASSUME NEW messages \in Seq(Messages), NEW U, NEW h \in [Talks -> Seq(U)],
         \A m \in Talks : m.role = "user" => h[Tagged(m)] = h[m],
         h[Carrier] = <<>>
  PROVE  Each(Compressed(messages), h) = Each(Surviving(messages), h)
<1>1. PICK rest \in Seq(Talks) : rest = Surviving(messages)
  BY SurvivingShape
<1>2. DOMAIN rest = 1 .. Len(rest) /\ Len(rest) \in Nat /\ \A i \in DOMAIN rest : rest[i] \in Talks
  BY LenProperties, ElementOfSeq
<1>3. CASE UserTurns(rest) # {}
  <2>1. PICK out : out = Compressed(messages)
    OBVIOUS
  <2>2. DOMAIN out = DOMAIN rest /\ \A i \in DOMAIN rest : out[i] =
          IF i = Max(UserTurns(rest)) THEN Tagged(rest[i]) ELSE rest[i]
    BY <1>1, <1>3, <2>1, CompressedShape
  <2>3. rest[Max(UserTurns(rest))].role = "user"
    BY <1>3, LastUser
  <2>4. ASSUME NEW i \in DOMAIN rest PROVE h[out[i]] = h[rest[i]]
    BY <1>2, <2>2, <2>3
  <2>5. [i \in DOMAIN out |-> h[out[i]]] = [i \in DOMAIN rest |-> h[rest[i]]]
    BY <2>2, <2>4
  <2> QED BY <1>1, <2>1, <2>5 DEF Each
<1>4. CASE UserTurns(rest) = {} /\ HeavyContext(messages) # <<>>
  <2>1. Compressed(messages) = Append(rest, Carrier)
    BY <1>1, <1>4, CompressedShape
  <2>2. Carrier \in Talks /\ <<Carrier>> \in Seq(Talks)
    <3>1. Carrier \in Talks
      BY CarrierShape
    <3> QED BY <3>1
  <2>3. Append(rest, Carrier) = rest \o <<Carrier>>
    BY <2>2, AppendIsConcat
  <2>4. Each(rest \o <<Carrier>>, h) = Each(rest, h) \o Each(<<Carrier>>, h)
    <3>1. \A s, t \in Seq(Talks) : Each(s \o t, h) = Each(s, h) \o Each(t, h)
      BY EachConcat
    <3> QED BY <2>2, <3>1, Zenon
  <2>5. Each(<<Carrier>>, h) = <<>>
    BY <2>2, EachOne
  <2>6. Each(rest, h) \in Seq(U)
    BY EachPieces
  <2>7. Each(rest, h) \o <<>> = Each(rest, h)
    BY <2>6, ConcatEmptySeq
  <2> QED BY <1>1, <2>1, <2>3, <2>4, <2>5, <2>7
<1>5. CASE UserTurns(rest) = {} /\ HeavyContext(messages) = <<>>
  BY <1>1, <1>5, CompressedShape
<1> QED BY <1>3, <1>4, <1>5

\* Of the parts: what the digest, blank texts and traces do not change is forwarded as it came.
LEMMA PartsForwarded ==
  ASSUME NEW messages \in Seq(Messages), NEW U, NEW g \in [AllParts -> Seq(U)],
         Blank(g), g[Digest] = <<>>
  PROVE  /\ Each(Parts(Compressed(messages)), g) = Each(Surviving(messages), PerMessage(g))
         /\ Unmoved(g) => Each(Parts(Compressed(messages)), g) = Each(Parts(messages), g)
<1>1. messages \in Seq(Talks)
  <2>1. Messages \subseteq Talks
    BY MessagesPlain
  <2> QED BY <2>1, SeqMonotonic
<1>2. PerMessage(g) \in [Talks -> Seq(U)] /\ Each(Parts(messages), g) = Each(messages, PerMessage(g))
  BY <1>1, PartsEach
<1>3. Compressed(messages) \in Seq(Talks)
  BY CompressedShape
<1>4. Each(Parts(Compressed(messages)), g) = Each(Compressed(messages), PerMessage(g))
  BY <1>3, PartsEach
<1>5. Each(<<Digest>>, g) = <<>>
  BY PartKinds, EachOne
<1>6. ASSUME NEW m \in Talks PROVE PerMessage(g)[Tagged(m)] = PerMessage(g)[m]
  <2>1. Tagged(m) \in Talks /\ Tagged(m).parts = <<Digest>> \o m.parts
        /\ <<Digest>> \in Seq(AllParts) /\ m.parts \in Seq(AllParts)
    BY TaggedShape
  <2>2. Each(Tagged(m).parts, g) = Each(<<Digest>>, g) \o Each(m.parts, g)
    <3>1. \A s, t \in Seq(AllParts) : Each(s \o t, g) = Each(s, g) \o Each(t, g)
      BY EachConcat
    <3>2. Each(<<Digest>> \o m.parts, g) = Each(<<Digest>>, g) \o Each(m.parts, g)
      BY <2>1, <3>1, Zenon
    <3> QED BY <2>1, <3>2
  <2>3. Each(m.parts, g) \in Seq(U)
    BY <2>1, EachPieces
  <2>4. <<>> \o Each(m.parts, g) = Each(m.parts, g)
    BY <2>3, ConcatEmptySeq
  <2>5. Each(Tagged(m).parts, g) = Each(m.parts, g)
    BY <1>5, <2>2, <2>4
  <2> QED BY <2>1, <2>5 DEF PerMessage
<1>7. PerMessage(g)[Carrier] = <<>>
  BY <1>5, CarrierShape DEF PerMessage
<1>8. Each(Compressed(messages), PerMessage(g)) = Each(Surviving(messages), PerMessage(g))
  BY <1>2, <1>6, <1>7, CompressedEach
<1>9. ASSUME Unmoved(g) PROVE Each(Surviving(messages), PerMessage(g)) = Each(messages, PerMessage(g))
  <2>1. \A i \in DOMAIN messages : Each(Survivor(messages, i), PerMessage(g)) = PerMessage(g)[messages[i]]
    BY <1>9, SurvivorEach
  <2> QED BY <1>2, <2>1, SurvivingEach
<1> QED BY <1>2, <1>4, <1>8, <1>9

LEMMA LightFacts ==
  /\ LightOf \in [AllParts -> Seq(AllParts)] /\ Blank(LightOf) /\ Unmoved(LightOf) /\ LightOf[Digest] = <<>>
<1>1. LightOf \in [AllParts -> Seq(AllParts)]
  BY DEF LightOf
<1>2. ClientParts \subseteq AllParts /\ Digest \in AllParts
  BY PartKinds
<1>3. Blank(LightOf)
  BY <1>2 DEF Blank, LightOf
<1>4. LightOf[Digest] = <<>>
  BY <1>2 DEF LightOf, Digest, Part
<1>5. ASSUME NEW p \in ClientParts, p.rest = "heavy", p.kind \in {"text", "result"}
      PROVE  Each(Trace(p), LightOf) = LightOf[p]
  <2>1. LightOf[p] = <<>>
    BY <1>2, <1>5 DEF LightOf
  <2>2. ASSUME NEW q \in AllParts, q.rest # "light" PROVE Each(<<q>>, LightOf) = <<>>
    <3>1. Each(<<q>>, LightOf) = LightOf[q]
      BY <1>1, EachOne
    <3>2. LightOf[q] = <<>>
      BY <2>2 DEF LightOf
    <3> QED BY <3>1, <3>2
  <2>3. /\ [p EXCEPT !.rest = "marker"] \in AllParts /\ [p EXCEPT !.rest = "marker"].rest # "light"
        /\ [p EXCEPT !.rest = "none"] \in AllParts /\ [p EXCEPT !.rest = "none"].rest # "light"
    BY DEF ClientParts, AllParts
  <2>4. Each(<<>>, LightOf) = <<>>
    BY EachEmpty
  <2> QED BY <2>1, <2>2, <2>3, <2>4, Zenon DEF Trace
<1> QED BY <1>1, <1>3, <1>4, <1>5 DEF Unmoved

LEMMA NotesFacts ==
  /\ NotesOf \in [AllParts -> Seq({"note"})] /\ Blank(NotesOf) /\ Unmoved(NotesOf) /\ NotesOf[Digest] = <<>>
<1>1. NotesOf \in [AllParts -> Seq({"note"})]
  <2>1. <<"note">> \in Seq({"note"}) /\ <<>> \in Seq({"note"})
    OBVIOUS
  <2>2. \A p \in AllParts : (IF p.note THEN <<"note">> ELSE <<>>) \in Seq({"note"})
    BY <2>1, Zenon
  <2> QED BY <2>2 DEF NotesOf
<1>2. ClientParts \subseteq AllParts /\ Digest \in AllParts
  BY PartKinds
<1>3. Blank(NotesOf)
  BY <1>2 DEF Blank, NotesOf
<1>4. NotesOf[Digest] = <<>>
  <2>1. ~Digest.note
    BY DEF Digest, Part
  <2> QED BY <1>2, <2>1, Zenon DEF NotesOf
<1>5. ASSUME NEW p \in ClientParts, p.rest = "heavy", p.kind \in {"text", "result"}
      PROVE  Each(Trace(p), NotesOf) = NotesOf[p]
  <2>1. NotesOf[p] = IF p.note THEN <<"note">> ELSE <<>>
    BY <1>2 DEF NotesOf
  <2>2. ASSUME NEW q \in AllParts, q.note = p.note PROVE Each(<<q>>, NotesOf) = NotesOf[p]
    <3>1. NotesOf[q] = IF q.note THEN <<"note">> ELSE <<>>
      BY DEF NotesOf
    <3>2. NotesOf[q] = NotesOf[p]
      BY <2>1, <2>2, <3>1
    <3> QED BY <1>1, <3>2, EachOne
  <2>3. /\ [p EXCEPT !.rest = "marker"] \in AllParts /\ [p EXCEPT !.rest = "marker"].note = p.note
        /\ [p EXCEPT !.rest = "none"] \in AllParts /\ [p EXCEPT !.rest = "none"].note = p.note
    BY DEF ClientParts, AllParts
  <2>4. Each(<<>>, NotesOf) = <<>>
    BY EachEmpty
  <2>5. Each(<<[p EXCEPT !.rest = "marker"]>>, NotesOf) = NotesOf[p]
        /\ Each(<<[p EXCEPT !.rest = "none"]>>, NotesOf) = NotesOf[p]
    BY <2>2, <2>3
  <2> QED BY <2>1, <2>4, <2>5, Zenon DEF Trace
<1> QED BY <1>1, <1>3, <1>4, <1>5 DEF Unmoved

LEMMA PairedFacts ==
  /\ PairedOf \in [AllParts -> Seq({"result", "other"})] /\ Blank(PairedOf) /\ Unmoved(PairedOf) /\ PairedOf[Digest] = <<>>
<1>1. PairedOf \in [AllParts -> Seq({"result", "other"})]
  <2>1. PICK K : K = {"result", "other"}
    OBVIOUS
  <2>2. \A k \in K : <<k>> \in Seq(K)
    OBVIOUS
  <2>3. <<>> \in Seq(K)
    OBVIOUS
  <2> QED BY <2>1, <2>2, <2>3 DEF PairedOf
<1>2. ClientParts \subseteq AllParts /\ Digest \in AllParts
  BY PartKinds
<1>3. Blank(PairedOf)
  BY <1>2 DEF Blank, PairedOf
<1>4. PairedOf[Digest] = <<>>
  BY <1>2 DEF PairedOf, Digest, Part
<1>5. ASSUME NEW p \in ClientParts, p.rest = "heavy", p.kind \in {"text", "result"}
      PROVE  Each(Trace(p), PairedOf) = PairedOf[p]
  <2>1. ASSUME NEW q \in AllParts, q.kind = p.kind PROVE Each(<<q>>, PairedOf) = PairedOf[p]
    <3>1. PairedOf[q] = PairedOf[p]
      BY <1>2, <2>1 DEF PairedOf
    <3> QED BY <1>1, <3>1, EachOne
  <2>2. /\ [p EXCEPT !.rest = "marker"] \in AllParts /\ [p EXCEPT !.rest = "marker"].kind = p.kind
        /\ [p EXCEPT !.rest = "none"] \in AllParts /\ [p EXCEPT !.rest = "none"].kind = p.kind
    BY DEF ClientParts, AllParts
  <2>3. Each(<<>>, PairedOf) = <<>>
    BY EachEmpty
  <2>4. Each(<<[p EXCEPT !.rest = "marker"]>>, PairedOf) = PairedOf[p]
        /\ Each(<<[p EXCEPT !.rest = "none"]>>, PairedOf) = PairedOf[p]
    BY <2>1, <2>2
  <2>5. p.kind # "result" => PairedOf[p] = <<>>
    BY <1>2, <1>5 DEF PairedOf
  <2> QED BY <2>3, <2>4, <2>5, Zenon DEF Trace
<1> QED BY <1>1, <1>3, <1>4, <1>5 DEF Unmoved

LEMMA HeavyFacts ==
  /\ HeavyOf \in [AllParts -> Seq(AllParts)] /\ Blank(HeavyOf) /\ HeavyOf[Digest] = <<>>
  /\ \A p \in ClientParts : Each(Trace(p), HeavyOf) = <<>>
  /\ \A p \in ClientParts : Each(<<p>>, HeavyOf) = HeavyOf[p] /\ (p.rest = "heavy" => HeavyOf[p] = <<p>>)
<1>1. HeavyOf \in [AllParts -> Seq(AllParts)]
  BY DEF HeavyOf
<1>2. ClientParts \subseteq AllParts /\ Digest \in AllParts
  BY PartKinds
<1>3. Blank(HeavyOf)
  BY <1>2 DEF Blank, HeavyOf
<1>4. HeavyOf[Digest] = <<>>
  BY <1>2 DEF HeavyOf, Digest, Part
<1>5. ASSUME NEW p \in ClientParts PROVE Each(Trace(p), HeavyOf) = <<>>
  <2>1. ASSUME NEW q \in AllParts, q.rest # "heavy" PROVE Each(<<q>>, HeavyOf) = <<>>
    <3>1. Each(<<q>>, HeavyOf) = HeavyOf[q]
      BY <1>1, EachOne
    <3>2. HeavyOf[q] = <<>>
      BY <2>1 DEF HeavyOf
    <3> QED BY <3>1, <3>2
  <2>2. /\ [p EXCEPT !.rest = "marker"] \in AllParts /\ [p EXCEPT !.rest = "marker"].rest # "heavy"
        /\ [p EXCEPT !.rest = "none"] \in AllParts /\ [p EXCEPT !.rest = "none"].rest # "heavy"
    BY DEF ClientParts, AllParts
  <2>3. Each(<<>>, HeavyOf) = <<>>
    BY EachEmpty
  <2> QED BY <2>1, <2>2, <2>3, Zenon DEF Trace
<1>6. ASSUME NEW p \in ClientParts
      PROVE  Each(<<p>>, HeavyOf) = HeavyOf[p] /\ (p.rest = "heavy" => HeavyOf[p] = <<p>>)
  <2>1. p \in AllParts
    BY <1>2
  <2>2. Each(<<p>>, HeavyOf) = HeavyOf[p]
    BY <1>1, <2>1, EachOne
  <2>3. p.rest = "heavy" => HeavyOf[p] = <<p>>
    BY <2>1 DEF HeavyOf
  <2> QED BY <2>2, <2>3
<1> QED BY <1>1, <1>3, <1>4, <1>5, <1>6

LEMMA DigestFacts ==
  /\ DigestsOf \in [AllParts -> Seq(AllParts)] /\ DigestsOf[Digest] = <<Digest>>
  /\ \A p \in OldParts : DigestsOf[p] = <<>>
<1>1. Digest \in AllParts /\ OldParts \subseteq AllParts /\ Digest.kind = "digest"
  <2>1. Digest.kind = "digest"
    BY DEF Digest, Part
  <2> QED BY <2>1, PartKinds
<1>2. DigestsOf \in [AllParts -> Seq(AllParts)]
  BY DEF DigestsOf
<1> QED BY <1>1, <1>2 DEF DigestsOf, OldParts

\* What is heavy in a message is either extracted or still there.
LEMMA ExtractedShape ==
  ASSUME NEW m \in Messages, NEW newest \in BOOLEAN
  PROVE  /\ Extracted(m, newest) \in Seq(ClientParts)
         /\ m.role = "system" => Extracted(m, newest) = <<>>
         /\ m.role # "system" =>
              Len(Each(m.parts, HeavyOf)) = Len(Each(Kept(m, newest).parts, HeavyOf)) + Len(Extracted(m, newest))
<1>1. PICK n \in Nat : n = Len(m.parts) /\ DOMAIN m.parts = 1 .. n /\ \A j \in 1 .. n : m.parts[j] \in ClientParts
  BY PiecesShape
<1>2. PICK es : es = [j \in DOMAIN m.parts |->
          IF m.role # "system" /\ IsHeavy(m.parts[j], newest) THEN <<m.parts[j]>> ELSE <<>>]
  OBVIOUS
<1>3. es \in [1 .. n -> Seq(ClientParts)]
  BY <1>1, <1>2
<1>4. es \in Seq(Seq(ClientParts)) /\ Len(es) = n
  BY <1>3, FunSeq
<1>5. Extracted(m, newest) = FlattenSeq(es)
  BY <1>2 DEF Extracted
<1>6. Extracted(m, newest) \in Seq(ClientParts)
  BY <1>4, <1>5, FlattenType
<1>7. ASSUME m.role = "system" PROVE Extracted(m, newest) = <<>>
  <2>1. \A j \in 1 .. Len(es) : es[j] = <<>>
    BY <1>1, <1>2, <1>4, <1>7
  <2> QED BY <1>4, <1>5, <2>1, FlattenNothing
<1>8. ASSUME m.role # "system"
      PROVE  Len(Each(m.parts, HeavyOf)) = Len(Each(Kept(m, newest).parts, HeavyOf)) + Len(Extracted(m, newest))
  <2>1. PICK as : as = [j \in DOMAIN m.parts |-> HeavyOf[m.parts[j]]]
    OBVIOUS
  <2>2. PICK bs : bs = [j \in DOMAIN m.parts |-> Each(Pieces(m, newest)[j], HeavyOf)]
    OBVIOUS
  <2>3. as \in Seq(Seq(AllParts)) /\ Len(as) = n
    <3>1. as \in [1 .. n -> Seq(AllParts)]
      BY <1>1, <2>1, HeavyFacts, PartKinds
    <3> QED BY <3>1, FunSeq
  <2>4. ASSUME NEW j \in 1 .. n
        PROVE  Each(Pieces(m, newest)[j], HeavyOf) = IF IsHeavy(m.parts[j], newest) THEN <<>> ELSE HeavyOf[m.parts[j]]
    <3>1. Pieces(m, newest)[j] = IF IsHeavy(m.parts[j], newest) THEN Trace(m.parts[j]) ELSE <<m.parts[j]>>
      BY <1>1 DEF Pieces
    <3> QED BY <1>1, <3>1, HeavyFacts
  <2>5. bs \in Seq(Seq(AllParts)) /\ Len(bs) = n
    <3>1. \A j \in 1 .. n : m.parts[j] \in AllParts
      BY <1>1, PartKinds
    <3>2. \A j \in 1 .. n : HeavyOf[m.parts[j]] \in Seq(AllParts)
      BY <3>1, HeavyFacts
    <3>3. ASSUME NEW j \in 1 .. n PROVE Each(Pieces(m, newest)[j], HeavyOf) \in Seq(AllParts)
      <4>1. <<>> \in Seq(AllParts)
        OBVIOUS
      <4> QED BY <2>4, <3>2, <4>1, Zenon
    <3>4. bs \in [1 .. n -> Seq(AllParts)]
      BY <1>1, <2>2, <3>3
    <3> QED BY <3>4, FunSeq
  <2>6. Each(Kept(m, newest).parts, HeavyOf) = FlattenSeq(bs)
    BY <2>2, HeavyFacts, KeptEach
  <2>7. Each(m.parts, HeavyOf) = FlattenSeq(as)
    BY <2>1 DEF Each
  <2>8. ASSUME NEW j \in 1 .. n PROVE Len(as[j]) = Len(bs[j]) + Len(es[j])
    <3>1. PICK p \in ClientParts : p = m.parts[j]
      BY <1>1
    <3>2. as[j] = HeavyOf[p] /\ bs[j] = (IF IsHeavy(p, newest) THEN <<>> ELSE HeavyOf[p])
          /\ es[j] = IF IsHeavy(p, newest) THEN <<p>> ELSE <<>>
      BY <1>1, <1>2, <1>8, <2>1, <2>2, <2>4, <3>1
    <3>3. CASE IsHeavy(p, newest)
      <4>1. HeavyOf[p] = <<p>>
        BY <3>1, <3>3, HeavyFacts DEF IsHeavy
      <4> QED BY <3>2, <3>3, <4>1
    <3>4. CASE ~IsHeavy(p, newest)
      <4>1. as[j] \in Seq(AllParts)
        BY <2>3, ElementOfSeq
      <4>2. Len(as[j]) \in Nat
        BY <4>1, LenProperties
      <4>3. bs[j] = as[j] /\ es[j] = <<>>
        BY <3>2, <3>4
      <4> QED BY <4>2, <4>3
    <3> QED BY <3>3, <3>4
  <2>9. es \in Seq(Seq(AllParts))
    <3>1. Seq(ClientParts) \subseteq Seq(AllParts)
      BY PartKinds, SeqMonotonic
    <3> QED BY <1>4, <3>1, SeqMonotonic
  <2>10. Len(FlattenSeq(as)) = Len(FlattenSeq(bs)) + Len(FlattenSeq(es))
    <3>1. AddUp(as, bs, es, n)
      BY <1>4, <2>3, <2>5, <2>8 DEF AddUp
    <3> QED BY <1>1, <2>3, <2>5, <2>9, <3>1, FlattenLengths, ZenonT(60)
  <2> QED BY <1>5, <2>6, <2>7, <2>10
<1> QED BY <1>6, <1>7, <1>8

LEMMA HeavyTold ==
  ASSUME NEW messages \in Seq(Messages)
  PROVE  /\ [i \in DOMAIN messages |-> Extracted(messages[i], i = Len(messages))] \in Seq(Seq(ClientParts))
         /\ Len(Each(Parts(messages), HeavyOf))
              = Len(Each(Parts(Compressed(messages)), HeavyOf)) + Len(HeavyContext(messages))
<1>1. PICK n \in Nat : n = Len(messages) /\ DOMAIN messages = 1 .. n
  BY LenProperties
<1>2. PICK as : as = [i \in DOMAIN messages |-> Each(messages[i].parts, HeavyOf)]
  OBVIOUS
<1>3. PICK bs : bs = [i \in DOMAIN messages |-> Each(Survivor(messages, i), PerMessage(HeavyOf))]
  OBVIOUS
<1>4. PICK es : es = [i \in DOMAIN messages |-> Extracted(messages[i], i = Len(messages))]
  OBVIOUS
<1>5. ASSUME NEW i \in 1 .. n
      PROVE  /\ Each(messages[i].parts, HeavyOf) \in Seq(AllParts)
             /\ Each(Survivor(messages, i), PerMessage(HeavyOf)) \in Seq(AllParts)
             /\ Extracted(messages[i], i = Len(messages)) \in Seq(ClientParts)
             /\ Len(as[i]) = Len(bs[i]) + Len(es[i])
  <2>1. PICK m \in Messages, newest \in BOOLEAN : m = messages[i] /\ newest = (i = Len(messages))
    BY <1>1, SurvivorShape
  <2>2. m.parts \in Seq(AllParts) /\ Kept(m, newest).parts \in Seq(AllParts)
    <3>1. m \in Talks /\ Kept(m, newest) \in Talks
      BY <2>1, MessagesPlain, KeptShape, PlainTalks
    <3> QED BY <3>1 DEF Talks
  <2>3. Each(m.parts, HeavyOf) \in Seq(AllParts) /\ Each(Kept(m, newest).parts, HeavyOf) \in Seq(AllParts)
    BY <2>2, HeavyFacts, EachPieces
  <2>4. /\ m.role = "system" => Each(Survivor(messages, i), PerMessage(HeavyOf)) = Each(m.parts, HeavyOf)
        /\ m.role # "system" =>
             Each(Survivor(messages, i), PerMessage(HeavyOf)) = Each(Kept(m, newest).parts, HeavyOf)
    BY <1>1, <2>1, HeavyFacts, SurvivorEach, SMTT(60)
  <2>5. /\ Extracted(m, newest) \in Seq(ClientParts)
        /\ m.role = "system" => Extracted(m, newest) = <<>>
        /\ m.role # "system" =>
             Len(Each(m.parts, HeavyOf)) = Len(Each(Kept(m, newest).parts, HeavyOf)) + Len(Extracted(m, newest))
    BY <2>1, ExtractedShape
  <2>6. as[i] = Each(m.parts, HeavyOf) /\ bs[i] = Each(Survivor(messages, i), PerMessage(HeavyOf))
        /\ es[i] = Extracted(m, newest)
    BY <1>1, <1>2, <1>3, <1>4, <2>1
  <2>7. Len(Each(m.parts, HeavyOf)) \in Nat
    BY <2>3, LenProperties
  <2>8. Len(as[i]) = Len(bs[i]) + Len(es[i])
    <3>1. CASE m.role = "system"
      <4>1. bs[i] = as[i] /\ es[i] = <<>>
        BY <2>4, <2>5, <2>6, <3>1
      <4>2. Len(as[i]) \in Nat
        BY <2>6, <2>7
      <4> QED BY <4>1, <4>2
    <3>2. CASE m.role # "system"
      BY <2>4, <2>5, <2>6, <3>2
    <3> QED BY <3>1, <3>2
  <2>9. Each(Survivor(messages, i), PerMessage(HeavyOf)) \in Seq(AllParts)
    BY <2>3, <2>4
  <2> QED BY <2>1, <2>3, <2>5, <2>8, <2>9
<1>6. as \in Seq(Seq(AllParts)) /\ Len(as) = n
  <2>1. as \in [1 .. n -> Seq(AllParts)]
    BY <1>1, <1>2, <1>5
  <2> QED BY <2>1, FunSeq
<1>7. bs \in Seq(Seq(AllParts)) /\ Len(bs) = n
  <2>1. bs \in [1 .. n -> Seq(AllParts)]
    BY <1>1, <1>3, <1>5
  <2> QED BY <2>1, FunSeq
<1>8. es \in Seq(Seq(ClientParts)) /\ Len(es) = n
  <2>1. es \in [1 .. n -> Seq(ClientParts)]
    BY <1>1, <1>4, <1>5
  <2> QED BY <2>1, FunSeq
<1>9. es \in Seq(Seq(AllParts))
  <2>1. Seq(ClientParts) \subseteq Seq(AllParts)
    BY PartKinds, SeqMonotonic
  <2> QED BY <1>8, <2>1, SeqMonotonic
<1>10. AddUp(as, bs, es, n)
  BY <1>5, <1>6, <1>7, <1>8 DEF AddUp
<1>11. Len(FlattenSeq(as)) = Len(FlattenSeq(bs)) + Len(FlattenSeq(es))
  BY <1>6, <1>7, <1>9, <1>10, FlattenLengths
<1>12. HeavyContext(messages) = FlattenSeq(es)
  BY <1>4 DEF HeavyContext
<1>13. messages \in Seq(Talks)
  <2>1. Messages \subseteq Talks
    BY MessagesPlain
  <2> QED BY <2>1, SeqMonotonic
<1>14. Each(Parts(messages), HeavyOf) = FlattenSeq(as)
  <2>1. Each(Parts(messages), HeavyOf) = Each(messages, PerMessage(HeavyOf))
    BY <1>13, HeavyFacts, PartsEach
  <2>2. \A i \in DOMAIN messages : messages[i] \in Talks
    BY <1>13, LenProperties, ElementOfSeq
  <2>3. [i \in DOMAIN messages |-> PerMessage(HeavyOf)[messages[i]]] = as
    BY <1>2, <2>2 DEF PerMessage
  <2> QED BY <2>1, <2>3 DEF Each
<1>15. Each(Parts(Compressed(messages)), HeavyOf) = FlattenSeq(bs)
  <2>1. Each(Parts(Compressed(messages)), HeavyOf) = Each(Surviving(messages), PerMessage(HeavyOf))
    BY HeavyFacts, PartsForwarded
  <2>2. PICK ss : ss = [i \in DOMAIN messages |-> Survivor(messages, i)]
    OBVIOUS
  <2>3. ss \in Seq(Seq(Talks)) /\ DOMAIN ss = DOMAIN messages
    BY <2>2, SurvivingShape
  <2>4. PerMessage(HeavyOf) \in [Talks -> Seq(AllParts)]
    BY <1>13, HeavyFacts, PartsEach
  <2>5. Each(FlattenSeq(ss), PerMessage(HeavyOf)) = FlattenSeq([i \in DOMAIN ss |-> Each(ss[i], PerMessage(HeavyOf))])
    BY <2>3, <2>4, EachFlatten
  <2>6. [i \in DOMAIN ss |-> Each(ss[i], PerMessage(HeavyOf))] = bs
    BY <1>3, <2>2, <2>3
  <2> QED BY <2>1, <2>2, <2>5, <2>6 DEF Surviving
<1> QED BY <1>4, <1>8, <1>11, <1>12, <1>14, <1>15

SystemOf == [m \in Talks |-> IF m.role = "system" THEN <<m>> ELSE <<>>]
LEMMA SystemsKept ==
  ASSUME NEW messages \in Seq(Messages)
  PROVE  Systems(Compressed(messages)) = Systems(messages)
<1>1. SystemOf \in [Talks -> Seq(Talks)]
  BY DEF SystemOf
<1>2. messages \in Seq(Talks)
  <2>1. Messages \subseteq Talks
    BY MessagesPlain
  <2> QED BY <2>1, SeqMonotonic
<1>3. ASSUME NEW ms \in Seq(Talks) PROVE Systems(ms) = Each(ms, SystemOf)
  <2>1. \A i \in DOMAIN ms : ms[i] \in Talks
    BY LenProperties, ElementOfSeq
  <2>2. [i \in DOMAIN ms |-> SystemOf[ms[i]]] = [i \in DOMAIN ms |-> IF ms[i].role = "system" THEN <<ms[i]>> ELSE <<>>]
    BY <2>1 DEF SystemOf
  <2> QED BY <2>2 DEF Systems, Each
<1>4. Compressed(messages) \in Seq(Talks)
  BY CompressedShape
<1>5. ASSUME NEW m \in Talks, m.role = "user" PROVE SystemOf[Tagged(m)] = SystemOf[m]
  <2>1. Tagged(m) \in Talks /\ Tagged(m).role = "user"
    BY <1>5, TaggedShape
  <2> QED BY <1>5, <2>1 DEF SystemOf
<1>6. SystemOf[Carrier] = <<>>
  <2>1. Carrier.role = "user"
    BY DEF Carrier
  <2> QED BY <2>1, CarrierShape DEF SystemOf
<1>7. Each(Compressed(messages), SystemOf) = Each(Surviving(messages), SystemOf)
  BY <1>1, <1>5, <1>6, CompressedEach
<1>8. ASSUME NEW i \in DOMAIN messages
      PROVE  Each(Survivor(messages, i), SystemOf) = SystemOf[messages[i]]
  <2>1. PICK m \in Messages, newest \in BOOLEAN : m = messages[i] /\ newest = (i = Len(messages)) /\ m \in Talks
    BY SurvivorShape
  <2>2. PICK k : k = Kept(m, newest)
    OBVIOUS
  <2>3. k \in Talks /\ k.role = m.role
    BY <2>1, <2>2, KeptShape, PlainTalks
  <2>4. Survivor(messages, i) = IF m.role = "system" THEN <<m>> ELSE IF ContentIsEmpty(k) THEN <<>> ELSE <<k>>
    BY <2>1, <2>2 DEF Survivor
  <2>5. Each(<<m>>, SystemOf) = SystemOf[m] /\ Each(<<k>>, SystemOf) = SystemOf[k] /\ Each(<<>>, SystemOf) = <<>>
    BY <1>1, <2>1, <2>3, EachOne, EachEmpty
  <2>6. m.role # "system" => SystemOf[m] = <<>> /\ SystemOf[k] = <<>>
    BY <2>1, <2>3 DEF SystemOf
  <2> QED BY <2>1, <2>4, <2>5, <2>6, Zenon
<1>9. Each(Surviving(messages), SystemOf) = Each(messages, SystemOf)
  BY <1>1, <1>8, SurvivingEach
<1> QED BY <1>2, <1>3, <1>4, <1>7, <1>9

LEMMA NothingLostHolds ==
  ASSUME conv \in Seq(Messages)
  PROVE  NothingLost
<1>1. Each(Parts(Compressed(conv)), LightOf) = Each(Parts(conv), LightOf)
  BY LightFacts, PartsForwarded
<1>2. Each(Parts(Compressed(conv)), NotesOf) = Each(Parts(conv), NotesOf)
  BY NotesFacts, PartsForwarded
<1>3. Each(Parts(Compressed(conv)), PairedOf) = Each(Parts(conv), PairedOf)
  BY PairedFacts, PartsForwarded
<1> QED BY <1>1, <1>2, <1>3, HeavyTold, SystemsKept DEF NothingLost

\* What the client sent holds no digest.
LEMMA PlainDigestless ==
  ASSUME NEW m \in Plain
  PROVE  Each(m.parts, DigestsOf) = <<>> /\ m.parts \in Seq(AllParts)
<1>1. m.parts \in Seq(OldParts)
  BY DEF Plain
<1>2. m.parts \in Seq(AllParts)
  BY <1>1, PartKinds, SeqMonotonic
<1>3. PICK n \in Nat : n = Len(m.parts) /\ DOMAIN m.parts = 1 .. n /\ \A j \in 1 .. n : m.parts[j] \in OldParts
  BY <1>1, LenProperties, ElementOfSeq
<1>4. PICK ds : ds = [j \in DOMAIN m.parts |-> DigestsOf[m.parts[j]]]
  OBVIOUS
<1>5. ds \in Seq(Seq(AllParts)) /\ Len(ds) = n
  BY <1>2, <1>3, <1>4, DigestFacts, EachPieces
<1>6. \A j \in 1 .. Len(ds) : ds[j] = <<>>
  BY <1>3, <1>4, <1>5, DigestFacts
<1>7. FlattenSeq(ds) = <<>>
  BY <1>5, <1>6, FlattenNothing
<1> QED BY <1>2, <1>4, <1>7 DEF Each

LEMMA TaggedDigest ==
  ASSUME NEW m \in Plain
  PROVE  Each(Tagged(m).parts, DigestsOf) = <<Digest>> /\ Tagged(m).parts[1] = Digest
<1>1. m \in Talks
  BY PlainTalks
<1>2. Tagged(m).parts = <<Digest>> \o m.parts /\ <<Digest>> \in Seq(AllParts) /\ m.parts \in Seq(AllParts)
  BY <1>1, TaggedShape
<1>3. \A s, t \in Seq(AllParts) : Each(s \o t, DigestsOf) = Each(s, DigestsOf) \o Each(t, DigestsOf)
  BY DigestFacts, EachConcat
<1>4. Each(<<Digest>> \o m.parts, DigestsOf) = Each(<<Digest>>, DigestsOf) \o Each(m.parts, DigestsOf)
  BY <1>2, <1>3, Zenon
<1>5. Each(<<Digest>>, DigestsOf) = <<Digest>>
  <2>1. Each(<<Digest>>, DigestsOf) = DigestsOf[Digest]
    BY DigestFacts, PartKinds, EachOne
  <2> QED BY <2>1, DigestFacts
<1>6. Each(m.parts, DigestsOf) = <<>>
  BY PlainDigestless
<1>7. <<Digest>> \o <<>> = <<Digest>>
  BY <1>2, ConcatEmptySeq
<1>8. (<<Digest>> \o m.parts)[1] = Digest
  BY <1>2
<1> QED BY <1>2, <1>4, <1>5, <1>6, <1>7, <1>8

LEMMA CarrierDigest == Each(Carrier.parts, DigestsOf) = <<Digest>> /\ Carrier.parts[1] = Digest
<1>1. Each(<<Digest>>, DigestsOf) = DigestsOf[Digest]
  BY DigestFacts, PartKinds, EachOne
<1>2. <<Digest>>[1] = Digest
  OBVIOUS
<1> QED BY <1>1, <1>2, CarrierShape, DigestFacts

\* One digest, where everything but one message is as the client sent it.
LEMMA OneDigest ==
  ASSUME NEW out \in Seq(Talks), NEW k \in DOMAIN out,
         Each(out[k].parts, DigestsOf) = <<Digest>>,
         \A i \in DOMAIN out : i # k => out[i] \in Plain
  PROVE  Len(Each(Parts(out), DigestsOf)) = 1
<1>1. PICK n \in Nat : n = Len(out) /\ DOMAIN out = 1 .. n /\ \A i \in 1 .. n : out[i] \in Talks
  BY LenProperties, ElementOfSeq
<1>2. PerMessage(DigestsOf) \in [Talks -> Seq(AllParts)]
      /\ Each(Parts(out), DigestsOf) = Each(out, PerMessage(DigestsOf))
  BY DigestFacts, PartsEach
<1>3. PICK ds : ds = [i \in DOMAIN out |-> PerMessage(DigestsOf)[out[i]]]
  OBVIOUS
<1>4. ds \in Seq(Seq(AllParts)) /\ Len(ds) = n
  BY <1>1, <1>2, <1>3, EachPieces
<1>5. \A i \in 1 .. n : ds[i] = Each(out[i].parts, DigestsOf)
  BY <1>1, <1>3 DEF PerMessage
<1>6. \A i \in 1 .. Len(ds) : i # k => ds[i] = <<>>
  BY <1>1, <1>4, <1>5, PlainDigestless
<1>7. k \in 1 .. Len(ds)
  BY <1>1, <1>4
<1>8. FlattenSeq(ds) = ds[k]
  BY <1>4, <1>6, <1>7, FlattenOnePiece
<1>9. ds[k] = <<Digest>>
  BY <1>1, <1>5
<1>10. Each(Parts(out), DigestsOf) = <<Digest>>
  BY <1>2, <1>3, <1>8, <1>9 DEF Each
<1> QED BY <1>10

LEMMA DigestPlacedHolds ==
  ASSUME conv \in Seq(Messages)
  PROVE  DigestPlaced
<1>1. SUFFICES ASSUME HeavyContext(conv) # <<>>
               PROVE  LET out == Compressed(conv) IN
                      /\ Len(Each(Parts(out), DigestsOf)) = 1
                      /\ UserTurns(out) # {} /\ out[Max(UserTurns(out))].parts[1] = Digest
  BY DEF DigestPlaced
<1>2. PICK rest : rest = Surviving(conv) /\ rest \in Seq(Plain) /\ rest \in Seq(Talks)
  BY SurvivingShape
<1>3. PICK n \in Nat : n = Len(rest) /\ DOMAIN rest = 1 .. n /\ \A i \in 1 .. n : rest[i] \in Plain /\ rest[i] \in Talks
  BY <1>2, LenProperties, ElementOfSeq
<1>4. PICK out \in Seq(Talks) : out = Compressed(conv)
  BY CompressedShape
<1>5. CASE UserTurns(rest) # {}
  <2>1. PICK k \in DOMAIN rest : k = Max(UserTurns(rest)) /\ rest[k].role = "user" /\ k \in UserTurns(rest)
    BY <1>2, <1>5, LastUser
  <2>2. DOMAIN out = DOMAIN rest /\ \A i \in DOMAIN rest : out[i] = IF i = k THEN Tagged(rest[i]) ELSE rest[i]
    BY <1>2, <1>4, <1>5, <2>1, CompressedShape
  <2>3. k \in 1 .. n /\ rest[k] \in Plain
    BY <1>3, <2>1
  <2>4. out[k] = Tagged(rest[k]) /\ \A i \in DOMAIN out : i # k => out[i] \in Plain
    BY <1>3, <2>1, <2>2
  <2>5. Each(out[k].parts, DigestsOf) = <<Digest>> /\ out[k].parts[1] = Digest
    BY <2>3, <2>4, TaggedDigest
  <2>6. Len(Each(Parts(out), DigestsOf)) = 1
    BY <1>4, <2>1, <2>2, <2>4, <2>5, OneDigest
  <2>7. \A i \in DOMAIN rest : out[i].role = rest[i].role
    BY <1>3, <2>2, TaggedShape
  <2>8. UserTurns(out) = UserTurns(rest)
    BY <2>2, <2>7 DEF UserTurns
  <2> QED BY <1>4, <1>5, <2>1, <2>5, <2>6, <2>8
<1>6. CASE UserTurns(rest) = {}
  <2>1. out = Append(rest, Carrier)
    BY <1>1, <1>2, <1>4, <1>6, CompressedShape
  <2>2. Carrier \in Talks /\ Carrier.role = "user"
    <3>1. Carrier.role = "user"
      BY DEF Carrier
    <3> QED BY <3>1, CarrierShape
  <2>3. Len(out) = n + 1 /\ out[n + 1] = Carrier /\ \A i \in 1 .. n : out[i] = rest[i]
    BY <1>2, <1>3, <2>1, <2>2, AppendProperties
  <2>4. DOMAIN out = 1 .. n + 1
    BY <1>4, <2>3, LenProperties
  <2>5. PICK k \in DOMAIN out : k = n + 1
    BY <1>3, <2>4
  <2>6. \A i \in DOMAIN out : i # k => i \in 1 .. n
    BY <1>3, <2>4, <2>5
  <2>7. out[k] = Carrier
    BY <2>3, <2>5
  <2>8. \A i \in DOMAIN out : i # k => out[i] \in Plain
    BY <1>3, <2>3, <2>6
  <2>9. Len(Each(Parts(out), DigestsOf)) = 1
    <3>1. Each(out[k].parts, DigestsOf) = <<Digest>>
      BY <2>7, CarrierDigest
    <3> QED BY <1>4, <2>5, <2>8, <3>1, OneDigest
  <2>10. UserTurns(out) = {k}
    <3>1. k \in UserTurns(out)
      BY <2>2, <2>5, <2>7 DEF UserTurns
    <3>2. ASSUME NEW i \in DOMAIN out, i # k PROVE out[i].role # "user"
      <4>1. i \in 1 .. n /\ out[i] = rest[i]
        BY <2>3, <2>6, <3>2
      <4> QED BY <1>3, <1>6, <4>1 DEF UserTurns
    <3> QED BY <3>1, <3>2 DEF UserTurns
  <2>11. Max(UserTurns(out)) = k
    <3>1. k \in Nat
      BY <1>3, <2>5
    <3>2. \E x \in {k} : \A y \in {k} : x >= y
      BY <3>1
    <3>3. Max({k}) \in {k}
      BY <3>2 DEF Max
    <3> QED BY <2>10, <3>3
  <2> QED BY <1>4, <2>7, <2>9, <2>10, <2>11, CarrierDigest
<1> QED BY <1>5, <1>6

\* The numbers from one to another, in order.
Interval(a, b) == [t \in 1 .. ((b + 1) - a) |-> (a + t) - 1]

LEMMA IntervalShape ==
  ASSUME NEW a \in Nat, NEW b \in Nat, a <= b + 1
  PROVE  /\ Interval(a, b) \in Seq(Int) /\ Len(Interval(a, b)) = (b + 1) - a
         /\ (b + 1) - a \in Nat /\ DOMAIN Interval(a, b) = 1 .. ((b + 1) - a)
         /\ \A t \in 1 .. ((b + 1) - a) : Interval(a, b)[t] = (a + t) - 1
<1>1. PICK n \in Nat : n = (b + 1) - a
  OBVIOUS
<1>2. PICK f : f = Interval(a, b)
  OBVIOUS
<1>3. f = [t \in 1 .. n |-> (a + t) - 1]
  BY <1>1, <1>2 DEF Interval
<1>4. f \in [1 .. n -> Int]
  BY <1>3
<1>5. f \in Seq(Int) /\ Len(f) = n /\ DOMAIN f = 1 .. n
  BY <1>1, <1>4, FunSeq
<1> QED BY <1>1, <1>2, <1>3, <1>5

LEMMA SameSeq ==
  ASSUME NEW T, NEW s \in Seq(T), NEW t \in Seq(T), NEW n \in Nat, Len(s) = n, Len(t) = n,
         \A i \in 1 .. n : s[i] = t[i]
  PROVE  s = t
BY SeqEqual

LEMMA IntervalFacts ==
  ASSUME NEW a \in Nat \ {0}, NEW b \in Nat, a <= b
  PROVE  /\ Interval(a, b) # <<>> /\ Interval(a, b)[1] = a /\ Last(Interval(a, b)) = b
         /\ Range(Interval(a, b)) = a .. b
         /\ Append(Interval(a, b), b + 1) = Interval(a, b + 1)
         /\ <<a>> = Interval(a, a)
<1>1. PICK n \in Nat : n = (b + 1) - a /\ n >= 1 /\ (a + n) - 1 = b
  OBVIOUS
<1>2. PICK f \in Seq(Int) : f = Interval(a, b) /\ Len(f) = n /\ DOMAIN f = 1 .. n
                            /\ \A t \in 1 .. n : f[t] = (a + t) - 1
  BY <1>1, IntervalShape
<1>3. f # <<>> /\ f[1] = a /\ Last(f) = b
  <2>1. f[1] = (a + 1) - 1 /\ f[n] = (a + n) - 1
    BY <1>1, <1>2
  <2>2. f # <<>>
    BY <1>1, <1>2
  <2> QED BY <1>1, <1>2, <2>1, <2>2 DEF Last
<1>4. Range(f) = a .. b
  <2>1. ASSUME NEW t \in 1 .. n PROVE f[t] \in a .. b
    BY <1>1, <1>2
  <2>2. ASSUME NEW j \in a .. b PROVE \E t \in 1 .. n : f[t] = j
    <3>1. (j + 1) - a \in 1 .. n /\ (a + ((j + 1) - a)) - 1 = j
      BY <1>1
    <3> QED BY <1>2, <3>1
  <2>3. Range(f) = {f[t] : t \in 1 .. n}
    BY <1>2 DEF Range
  <2>4. a .. b \subseteq {f[t] : t \in 1 .. n}
    BY <2>2
  <2>5. {f[t] : t \in 1 .. n} \subseteq a .. b
    BY <2>1
  <2> QED BY <2>3, <2>4, <2>5
<1>5. Append(f, b + 1) = Interval(a, b + 1)
  <2>1. PICK g \in Seq(Int) : g = Interval(a, b + 1) /\ Len(g) = n + 1
                              /\ \A t \in 1 .. n + 1 : g[t] = (a + t) - 1
    <3>1. PICK d \in Nat : d = b + 1 /\ (d + 1) - a = n + 1 /\ a <= d + 1
      BY <1>1
    <3>2. /\ Interval(a, d) \in Seq(Int) /\ Len(Interval(a, d)) = (d + 1) - a
          /\ \A t \in 1 .. ((d + 1) - a) : Interval(a, d)[t] = (a + t) - 1
      BY <3>1, IntervalShape
    <3> QED BY <3>1, <3>2
  <2>2. PICK h : h = Append(f, b + 1) /\ h \in Seq(Int) /\ Len(h) = n + 1 /\ h[n + 1] = b + 1
                 /\ \A t \in 1 .. n : h[t] = f[t]
    <3>1. PICK d \in Int : d = b + 1
      OBVIOUS
    <3>2. /\ Append(f, d) \in Seq(Int) /\ Len(Append(f, d)) = Len(f) + 1
          /\ \A t \in 1 .. Len(f) : Append(f, d)[t] = f[t]
          /\ Append(f, d)[Len(f) + 1] = d
      BY <1>2, <3>1, AppendProperties, SMTT(60)
    <3> QED BY <1>2, <3>1, <3>2
  <2>3. ASSUME NEW t \in 1 .. n + 1 PROVE h[t] = g[t]
    <3>1. CASE t = n + 1
      <4>1. g[t] = (a + t) - 1 /\ (a + t) - 1 = b + 1
        BY <1>1, <2>1, <3>1
      <4> QED BY <2>2, <3>1, <4>1
    <3>2. CASE t # n + 1
      <4>1. t \in 1 .. n
        BY <1>1, <3>2
      <4> QED BY <1>2, <2>1, <2>2, <4>1
    <3> QED BY <3>1, <3>2
  <2>4. n + 1 \in Nat
    BY <1>1
  <2>5. h = g
    BY <2>1, <2>2, <2>3, <2>4, SameSeq, SMTT(60)
  <2> QED BY <2>1, <2>2, <2>5
<1>6. <<a>> = Interval(a, a)
  <2>1. PICK g \in Seq(Int) : g = Interval(a, a) /\ Len(g) = 1 /\ g[1] = a
    <3>1. (a + 1) - a = 1 /\ a <= a + 1 /\ (a + 1) - 1 = a
      OBVIOUS
    <3>2. /\ Interval(a, a) \in Seq(Int) /\ Len(Interval(a, a)) = (a + 1) - a
          /\ \A t \in 1 .. ((a + 1) - a) : Interval(a, a)[t] = (a + t) - 1
      BY <3>1, IntervalShape
    <3> QED BY <3>1, <3>2
  <2> QED BY <2>1
<1> QED BY <1>2, <1>3, <1>4, <1>5, <1>6

\* The first so many numbers, and those after them.
LEMMA Continued ==
  ASSUME NEW a \in Nat \ {0}, NEW b \in Nat, a <= b
  PROVE  Interval(1, a - 1) \o Interval(a, b) = Interval(1, b)
<1>1. PICK m \in Nat, n \in Nat : m = a - 1 /\ n = (b + 1) - a /\ m + n = b
  OBVIOUS
<1>2. PICK f \in Seq(Int) : f = Interval(1, a - 1) /\ Len(f) = m /\ \A t \in 1 .. m : f[t] = t
  <2>1. PICK g : g = Interval(1, m)
    OBVIOUS
  <2>2. (m + 1) - 1 = m /\ 1 <= m + 1 /\ \A t \in 1 .. m : (1 + t) - 1 = t
    BY <1>1
  <2>3. g \in Seq(Int) /\ Len(g) = m /\ \A t \in 1 .. m : g[t] = (1 + t) - 1
    <3>1. /\ Interval(1, m) \in Seq(Int) /\ Len(Interval(1, m)) = (m + 1) - 1
          /\ \A t \in 1 .. ((m + 1) - 1) : Interval(1, m)[t] = (1 + t) - 1
      BY <1>1, <2>2, IntervalShape
    <3> QED BY <2>1, <2>2, <3>1
  <2> QED BY <1>1, <2>1, <2>2, <2>3
<1>3. PICK g \in Seq(Int) : g = Interval(a, b) /\ Len(g) = n /\ \A t \in 1 .. n : g[t] = (a + t) - 1
  <2>1. /\ Interval(a, b) \in Seq(Int) /\ Len(Interval(a, b)) = (b + 1) - a
        /\ \A t \in 1 .. ((b + 1) - a) : Interval(a, b)[t] = (a + t) - 1
    <3>1. a <= b + 1
      OBVIOUS
    <3> QED BY <3>1, IntervalShape
  <2> QED BY <1>1, <2>1
<1>4. PICK h \in Seq(Int) : h = Interval(1, b) /\ Len(h) = m + n /\ \A t \in 1 .. m + n : h[t] = t
  <2>1. (b + 1) - 1 = m + n /\ 1 <= b + 1 /\ \A t \in 1 .. m + n : (1 + t) - 1 = t
    BY <1>1
  <2>2. /\ Interval(1, b) \in Seq(Int) /\ Len(Interval(1, b)) = (b + 1) - 1
        /\ \A t \in 1 .. ((b + 1) - 1) : Interval(1, b)[t] = (1 + t) - 1
    BY <2>1, IntervalShape
  <2> QED BY <2>1, <2>2
<1>5. PICK c \in Seq(Int) : c = f \o g /\ Len(c) = m + n
                            /\ \A t \in 1 .. m + n : c[t] = IF t <= m THEN f[t] ELSE g[t - m]
  <2>1. /\ f \o g \in Seq(Int) /\ Len(f \o g) = Len(f) + Len(g)
        /\ \A t \in 1 .. Len(f) + Len(g) : (f \o g)[t] = IF t <= Len(f) THEN f[t] ELSE g[t - Len(f)]
    BY ConcatProperties, SMTT(60)
  <2> QED BY <1>2, <1>3, <2>1
<1>6. ASSUME NEW t \in 1 .. m + n PROVE c[t] = h[t]
  <2>1. CASE t <= m
    <3>1. t \in 1 .. m
      BY <1>1, <2>1
    <3> QED BY <1>2, <1>4, <1>5, <2>1, <3>1
  <2>2. CASE ~(t <= m)
    <3>1. t - m \in 1 .. n /\ (a + (t - m)) - 1 = t
      BY <1>1, <2>2
    <3>2. g[t - m] = (a + (t - m)) - 1
      BY <1>3, <3>1
    <3> QED BY <1>4, <1>5, <2>2, <3>1, <3>2
  <2> QED BY <2>1, <2>2
<1>7. m + n \in Nat
  BY <1>1
<1>8. c = h
  BY <1>4, <1>5, <1>6, <1>7, SameSeq, ZenonT(60)
<1> QED BY <1>2, <1>3, <1>4, <1>5, <1>8

\* The planned runs, position by position.
Grow(S, i, runs) ==
  IF i \notin S THEN runs
  ELSE IF runs # <<>> /\ Last(Last(runs)) = i - 1
  THEN Front(runs) \o << Append(Last(runs), i) >>
  ELSE Append(runs, <<i>>)
Grown(r, S, n) == DOMAIN r = 0 .. n /\ r[0] = <<>> /\ \A i \in 1 .. n : r[i] = Grow(S, i, r[i - 1])

LEMMA GrownExist ==
  ASSUME NEW S, NEW n \in Nat
  PROVE  \E r : Grown(r, S, n)
<1> DEFINE Good == {k \in 0 .. n : \E r : Grown(r, S, k)}
<1>1. 0 \in Good
  <2>1. Grown([i \in 0 .. 0 |-> <<>>], S, 0)
    BY DEF Grown
  <2> QED BY <2>1
<1>2. ASSUME NEW k \in 1 .. n, k - 1 \in Good PROVE k \in Good
  <2>1. PICK r : Grown(r, S, k - 1)
    BY <1>2
  <2> DEFINE q == [i \in 0 .. k |-> IF i = k THEN Grow(S, k, r[k - 1]) ELSE r[i]]
  <2>2. DOMAIN q = 0 .. k
    OBVIOUS
  <2>3. q[0] = <<>>
    BY <2>1 DEF Grown
  <2>4. ASSUME NEW i \in 1 .. k PROVE q[i] = Grow(S, i, q[i - 1])
    <3>1. i - 1 \in 0 .. k /\ i - 1 # k /\ i \in 0 .. k
      OBVIOUS
    <3>2. q[i - 1] = r[i - 1]
      BY <3>1
    <3>3. CASE i = k
      BY <3>1, <3>2, <3>3
    <3>4. CASE i # k
      <4>1. i \in 1 .. (k - 1)
        BY <3>4
      <4>2. r[i] = Grow(S, i, r[i - 1])
        BY <2>1, <4>1 DEF Grown
      <4> QED BY <3>1, <3>2, <3>4, <4>2
    <3> QED BY <3>3, <3>4
  <2> HIDE DEF q
  <2>5. Grown(q, S, k)
    BY <2>2, <2>3, <2>4 DEF Grown
  <2> QED BY <2>5
<1> HIDE DEF Good
<1>3. Good \in SUBSET (0 .. n)
  BY DEF Good
<1>4. n \in Good
  BY <1>1, <1>2, <1>3, StepUp
<1> QED BY <1>4 DEF Good

LEMMA PlannedChosen ==
  ASSUME NEW items
  PROVE  \E h : /\ h = CHOOSE h2 : h2 = [i \in 0 .. Len(items) |->
                         IF i = 0 THEN <<>>
                         ELSE IF i \notin Selected(items) THEN h2[i - 1]
                         ELSE IF h2[i - 1] # <<>> /\ Last(Last(h2[i - 1])) = i - 1
                         THEN Front(h2[i - 1]) \o << Append(Last(h2[i - 1]), i) >>
                         ELSE Append(h2[i - 1], <<i>>)]
                /\ PlannedRuns(items) = h[Len(items)]
BY Zenon DEF PlannedRuns

LEMMA PlannedGrown ==
  ASSUME NEW items, Len(items) \in Nat
  PROVE  \E r : Grown(r, Selected(items), Len(items)) /\ PlannedRuns(items) = r[Len(items)]
<1> DEFINE S == Selected(items)
           Eqn(r) == r = [i \in 0 .. Len(items) |->
                         IF i = 0 THEN <<>>
                         ELSE IF i \notin S THEN r[i - 1]
                         ELSE IF r[i - 1] # <<>> /\ Last(Last(r[i - 1])) = i - 1
                         THEN Front(r[i - 1]) \o << Append(Last(r[i - 1]), i) >>
                         ELSE Append(r[i - 1], <<i>>)]
<1>1. PICK h : h = (CHOOSE h2 : Eqn(h2)) /\ PlannedRuns(items) = h[Len(items)]
  BY PlannedChosen
<1>2. PICK r : Grown(r, S, Len(items))
  BY GrownExist
<1> DEFINE q == [i \in 0 .. Len(items) |-> r[i]]
<1>3. Eqn(q)
  <2>1. ASSUME NEW i \in 0 .. Len(items)
        PROVE  q[i] = IF i = 0 THEN <<>>
                      ELSE IF i \notin S THEN q[i - 1]
                      ELSE IF q[i - 1] # <<>> /\ Last(Last(q[i - 1])) = i - 1
                      THEN Front(q[i - 1]) \o << Append(Last(q[i - 1]), i) >>
                      ELSE Append(q[i - 1], <<i>>)
    <3>1. CASE i = 0
      BY <1>2, <3>1 DEF Grown
    <3>2. CASE i # 0
      <4>1. i \in 1 .. Len(items) /\ i - 1 \in 0 .. Len(items)
        BY <3>2
      <4>2. r[i] = Grow(S, i, r[i - 1]) /\ q[i] = r[i] /\ q[i - 1] = r[i - 1]
        BY <1>2, <4>1 DEF Grown
      <4> QED BY <3>2, <4>2, Zenon DEF Grow
    <3> QED BY <3>1, <3>2
  <2> QED BY <2>1, Zenon
<1>4. Eqn(h)
  <2> HIDE DEF Eqn
  <2> QED BY <1>1, <1>3, Zenon
<1>5. Grown(h, S, Len(items))
  <2>1. DOMAIN h = 0 .. Len(items)
    BY <1>4, Zenon
  <2>2. 0 \in 0 .. Len(items)
    OBVIOUS
  <2>3. h[0] = <<>>
    BY <1>4, <2>2, Zenon
  <2>4. ASSUME NEW i \in 1 .. Len(items) PROVE h[i] = Grow(S, i, h[i - 1])
    <3>1. i \in 0 .. Len(items) /\ i # 0
      OBVIOUS
    <3> QED BY <1>4, <3>1, Zenon DEF Grow
  <2> QED BY <2>1, <2>3, <2>4 DEF Grown
<1> QED BY <1>1, <1>5

\* Runs as long as they can be: of the chosen positions up to one, every run an interval, with
\* something left out between any two.
Covers(R, A, B, m, S, i) ==
  /\ R \in Seq(Seq(Int)) /\ Len(R) = m /\ A \in [1 .. m -> Nat \ {0}] /\ B \in [1 .. m -> Nat]
  /\ \A k \in 1 .. m : A[k] <= B[k] /\ B[k] <= i /\ A[k] .. B[k] \subseteq S /\ R[k] = Interval(A[k], B[k])
  /\ \A k, l \in 1 .. m : k < l => B[k] + 1 < A[l]
  /\ \A j \in S : j <= i => \E k \in 1 .. m : j \in A[k] .. B[k]
Covered(R, S, i) == \E m \in Nat : \E A, B : Covers(R, A, B, m, S, i)

\* A position that was not chosen changes nothing.
LEMMA CoversSkip ==
  ASSUME NEW S \in SUBSET (Nat \ {0}), NEW i \in Nat \ {0}, i \notin S, NEW R, Covered(R, S, i - 1)
  PROVE  Covered(R, S, i)
<1>1. PICK m \in Nat : \E A, B : Covers(R, A, B, m, S, i - 1)
  BY DEF Covered
<1>2. PICK A, B : Covers(R, A, B, m, S, i - 1)
  BY <1>1
<1>3. ASSUME NEW k \in 1 .. m PROVE B[k] <= i
  BY <1>2, <1>3 DEF Covers
<1>4. ASSUME NEW j \in S, j <= i PROVE \E k \in 1 .. m : j \in A[k] .. B[k]
  <2>1. j <= i - 1
    BY <1>4
  <2> QED BY <1>2, <2>1 DEF Covers
<1>5. Covers(R, A, B, m, S, i)
  BY <1>2, <1>3, <1>4 DEF Covers
<1> QED BY <1>5 DEF Covered

\* One after the last run makes that run longer.
LEMMA SpansJoin ==
  ASSUME NEW S \in SUBSET (Nat \ {0}), NEW i \in Nat \ {0}, i \in S, NEW R, Covered(R, S, i - 1),
         R # <<>>, Last(Last(R)) = i - 1
  PROVE  Covered(Front(R) \o << Append(Last(R), i) >>, S, i)
<1>1. PICK m \in Nat : \E A, B : Covers(R, A, B, m, S, i - 1)
  BY DEF Covered
<1>2. PICK A, B : Covers(R, A, B, m, S, i - 1)
  BY <1>1
<1>3. /\ R \in Seq(Seq(Int)) /\ Len(R) = m /\ A \in [1 .. m -> Nat \ {0}] /\ B \in [1 .. m -> Nat]
      /\ \A k \in 1 .. m : A[k] <= B[k] /\ B[k] <= i - 1 /\ A[k] .. B[k] \subseteq S /\ R[k] = Interval(A[k], B[k])
      /\ \A k, l \in 1 .. m : k < l => B[k] + 1 < A[l]
      /\ \A j \in S : j <= i - 1 => \E k \in 1 .. m : j \in A[k] .. B[k]
  BY <1>2 DEF Covers
<1>4. m \in 1 .. m
  <2>1. m # 0
    BY <1>3, EmptySeq
  <2> QED BY <2>1
<1>5. PICK a \in Nat \ {0}, b \in Nat : a = A[m] /\ b = B[m] /\ a <= b /\ b <= i - 1 /\ R[m] = Interval(a, b)
                                        /\ a .. b \subseteq S
  BY <1>3, <1>4
<1>6. b = i - 1
  <2>1. Last(R) = Interval(a, b)
    BY <1>3, <1>5 DEF Last
  <2>2. Last(Interval(a, b)) = b
    BY <1>5, IntervalFacts
  <2> QED BY <2>1, <2>2
<1>7. b + 1 = i
  BY <1>6
<1>8. Append(Last(R), i) = Interval(a, i) /\ Interval(a, i) \in Seq(Int)
  <2>1. Append(Interval(a, b), b + 1) = Interval(a, b + 1)
    BY <1>5, IntervalFacts
  <2>2. Last(R) = Interval(a, b)
    BY <1>3, <1>5 DEF Last
  <2>3. a <= i + 1
    BY <1>5
  <2> QED BY <1>7, <2>1, <2>2, <2>3, IntervalShape
<1>9. PICK Q : Q = Front(R) \o << Append(Last(R), i) >>
  OBVIOUS
<1>10. Q \in Seq(Seq(Int)) /\ Len(Q) = m /\ Q[m] = Interval(a, i) /\ \A k \in 1 .. m : k # m => Q[k] = R[k]
  <2>1. PICK F : F = Front(R) /\ F \in Seq(Seq(Int)) /\ Len(F) = m - 1 /\ \A k \in 1 .. (m - 1) : F[k] = R[k]
    <3>1. PICK e \in Nat : e = m - 1 /\ e <= Len(R) /\ (e + 1) - 1 = e
      BY <1>3, <1>4
    <3>2. \A k \in 1 .. e : R[k] \in Seq(Int) /\ (1 + k) - 1 = k
      BY <1>3, <3>1, ElementOfSeq
    <3>3. SubSeq(R, 1, e) = [k \in 1 .. e |-> R[k]]
      BY <1>3, <3>1
    <3>4. [k \in 1 .. e |-> R[k]] \in [1 .. e -> Seq(Int)]
      BY <3>2
    <3>5. SubSeq(R, 1, e) \in Seq(Seq(Int)) /\ Len(SubSeq(R, 1, e)) = e
      BY <3>1, <3>3, <3>4, FunSeq
    <3>6. Front(R) = SubSeq(R, 1, e)
      BY <1>3, <3>1 DEF Front
    <3> QED BY <3>1, <3>3, <3>5, <3>6, ZenonT(60)
  <2>2. PICK e : e = <<Interval(a, i)>> /\ e \in Seq(Seq(Int)) /\ Len(e) = 1 /\ e[1] = Interval(a, i)
    <3>1. PICK x \in Seq(Int) : x = Interval(a, i)
      BY <1>8
    <3>2. <<x>> \in Seq(Seq(Int)) /\ Len(<<x>>) = 1 /\ <<x>>[1] = x
      BY <3>1
    <3> QED BY <3>1, <3>2
  <2>3. /\ F \o e \in Seq(Seq(Int)) /\ Len(F \o e) = Len(F) + Len(e)
        /\ \A k \in 1 .. Len(F) + Len(e) : (F \o e)[k] = IF k <= Len(F) THEN F[k] ELSE e[k - Len(F)]
    BY <2>1, <2>2, ConcatProperties
  <2>4. Q = F \o e
    BY <1>8, <1>9, <2>1, <2>2
  <2>5. Len(F) + Len(e) = m /\ ~(m <= Len(F)) /\ m - Len(F) = 1
    BY <1>4, <2>1, <2>2
  <2>6. Q[m] = e[1]
    BY <1>4, <2>3, <2>4, <2>5
  <2>7. ASSUME NEW k \in 1 .. m, k # m PROVE Q[k] = R[k]
    <3>1. k \in 1 .. (m - 1) /\ k <= m - 1
      BY <2>7
    <3> QED BY <2>1, <2>3, <2>4, <2>5, <3>1
  <2> QED BY <2>2, <2>3, <2>4, <2>5, <2>6, <2>7
<1> DEFINE C == [k \in 1 .. m |-> IF k = m THEN i ELSE B[k]]
<1>11. C \in [1 .. m -> Nat] /\ C[m] = i /\ \A k \in 1 .. m : k # m => C[k] = B[k]
  BY <1>3, <1>4
<1> HIDE DEF C
<1>12. ASSUME NEW k \in 1 .. m
       PROVE  A[k] <= C[k] /\ C[k] <= i /\ A[k] .. C[k] \subseteq S /\ Q[k] = Interval(A[k], C[k])
  <2>1. CASE k = m
    <3>1. a <= i /\ a .. i \subseteq S
      <4>1. \A j \in a .. i : j \in a .. b \/ j = i
        BY <1>7
      <4> QED BY <1>5, <4>1
    <3> QED BY <1>5, <1>10, <1>11, <2>1, <3>1
  <2>2. CASE k # m
    <3>1. B[k] <= i - 1 /\ B[k] \in Nat
      BY <1>3
    <3>2. B[k] <= i
      BY <3>1
    <3> QED BY <1>3, <1>10, <1>11, <2>2, <3>2
  <2> QED BY <2>1, <2>2
<1>13. ASSUME NEW k \in 1 .. m, NEW l \in 1 .. m, k < l PROVE C[k] + 1 < A[l]
  <2>1. k # m
    BY <1>13
  <2> QED BY <1>3, <1>11, <1>13, <2>1
<1>14. ASSUME NEW j \in S, j <= i PROVE \E k \in 1 .. m : j \in A[k] .. C[k]
  <2>1. CASE j = i
    <3>1. j \in a .. i
      BY <1>5, <2>1
    <3> QED BY <1>4, <1>5, <1>11, <3>1
  <2>2. CASE j # i
    <3>1. j <= i - 1
      BY <1>14, <2>2
    <3>2. PICK k \in 1 .. m : j \in A[k] .. B[k]
      BY <1>3, <3>1
    <3>3. CASE k = m
      <4>1. j \in a .. i
        BY <1>5, <1>7, <3>2, <3>3
      <4> QED BY <1>4, <1>5, <1>11, <4>1
    <3>4. CASE k # m
      BY <1>11, <3>2, <3>4
    <3> QED BY <3>3, <3>4
  <2> QED BY <2>1, <2>2
<1>15. Covers(Q, A, C, m, S, i)
  BY <1>3, <1>10, <1>11, <1>12, <1>13, <1>14 DEF Covers
<1> QED BY <1>9, <1>15 DEF Covered

\* One after a gap begins a run.
LEMMA SpansNew ==
  ASSUME NEW S \in SUBSET (Nat \ {0}), NEW i \in Nat \ {0}, i \in S, NEW R, Covered(R, S, i - 1),
         ~(R # <<>> /\ Last(Last(R)) = i - 1)
  PROVE  Covered(Append(R, <<i>>), S, i)
<1>1. PICK m \in Nat : \E A, B : Covers(R, A, B, m, S, i - 1)
  BY DEF Covered
<1>2. PICK A, B : Covers(R, A, B, m, S, i - 1)
  BY <1>1
<1>3. /\ R \in Seq(Seq(Int)) /\ Len(R) = m /\ A \in [1 .. m -> Nat \ {0}] /\ B \in [1 .. m -> Nat]
      /\ \A k \in 1 .. m : A[k] <= B[k] /\ B[k] <= i - 1 /\ A[k] .. B[k] \subseteq S /\ R[k] = Interval(A[k], B[k])
      /\ \A k, l \in 1 .. m : k < l => B[k] + 1 < A[l]
      /\ \A j \in S : j <= i - 1 => \E k \in 1 .. m : j \in A[k] .. B[k]
  BY <1>2 DEF Covers
<1>4. PICK n \in Nat : n = m + 1
  OBVIOUS
<1>5. ASSUME NEW k \in 1 .. m PROVE B[k] + 1 < i
  <2>1. m \in 1 .. m /\ R # <<>>
    BY <1>3
  <2>2. PICK a \in Nat \ {0}, b \in Nat : a = A[m] /\ b = B[m] /\ a <= b /\ b <= i - 1 /\ R[m] = Interval(a, b)
    BY <1>3, <2>1, SMTT(60)
  <2>3. Last(Last(R)) = b
    <3>1. Last(R) = Interval(a, b)
      BY <1>3, <2>2 DEF Last
    <3>2. a \in Nat \ {0} /\ b \in Nat /\ a <= b
      BY <2>2
    <3>3. Last(Interval(a, b)) = b
      BY <3>2, IntervalFacts
    <3> QED BY <3>1, <3>3, Zenon
  <2>4. b + 1 < i
    BY <2>1, <2>2, <2>3
  <2>5. CASE k = m
    BY <2>2, <2>4, <2>5
  <2>6. CASE k # m
    <3>1. k < m
      BY <2>6
    <3>2. B[k] + 1 < a /\ B[k] \in Nat
      BY <1>3, <2>1, <2>2, <3>1
    <3> QED BY <2>2, <2>4, <3>2
  <2> QED BY <2>5, <2>6
<1>6. PICK Q : Q = Append(R, <<i>>)
  OBVIOUS
<1>7. <<i>> = Interval(i, i) /\ <<i>> \in Seq(Int)
  BY IntervalFacts
<1>8. Q \in Seq(Seq(Int)) /\ Len(Q) = n /\ Q[n] = Interval(i, i) /\ \A k \in 1 .. m : Q[k] = R[k]
  <2>1. /\ Append(R, <<i>>) \in Seq(Seq(Int)) /\ Len(Append(R, <<i>>)) = Len(R) + 1
        /\ \A k \in 1 .. Len(R) : Append(R, <<i>>)[k] = R[k]
        /\ Append(R, <<i>>)[Len(R) + 1] = <<i>>
    BY <1>3, <1>7, AppendProperties
  <2> QED BY <1>3, <1>4, <1>6, <1>7, <2>1
<1> DEFINE C == [k \in 1 .. n |-> IF k = n THEN i ELSE A[k]]
           D == [k \in 1 .. n |-> IF k = n THEN i ELSE B[k]]
<1>9. n \in 1 .. n /\ \A k \in 1 .. n : k # n => k \in 1 .. m
  BY <1>4
<1>10. C \in [1 .. n -> Nat \ {0}] /\ D \in [1 .. n -> Nat]
  BY <1>3, <1>9
<1>11. C[n] = i /\ D[n] = i /\ \A k \in 1 .. n : k # n => C[k] = A[k] /\ D[k] = B[k]
  BY <1>9
<1> HIDE DEF C, D
<1>12. ASSUME NEW k \in 1 .. n
       PROVE  C[k] <= D[k] /\ D[k] <= i /\ C[k] .. D[k] \subseteq S /\ Q[k] = Interval(C[k], D[k])
  <2>1. CASE k = n
    <3>1. i <= i /\ i .. i \subseteq S
      <4>1. \A j \in i .. i : j = i
        OBVIOUS
      <4> QED BY <4>1
    <3> QED BY <1>8, <1>11, <2>1, <3>1
  <2>2. CASE k # n
    <3>1. k \in 1 .. m /\ C[k] = A[k] /\ D[k] = B[k]
      BY <1>9, <1>11, <2>2
    <3>2. B[k] <= i - 1 /\ B[k] \in Nat
      BY <1>3, <3>1
    <3>3. B[k] <= i
      BY <3>2
    <3> QED BY <1>3, <1>8, <3>1, <3>3
  <2> QED BY <2>1, <2>2
<1>13. ASSUME NEW k \in 1 .. n, NEW l \in 1 .. n, k < l PROVE D[k] + 1 < C[l]
  <2>1. k # n /\ k \in 1 .. m
    BY <1>9, <1>13
  <2>2. D[k] = B[k]
    BY <1>11, <2>1
  <2>3. CASE l = n
    BY <1>5, <1>11, <2>1, <2>2, <2>3
  <2>4. CASE l # n
    <3>1. l \in 1 .. m /\ C[l] = A[l]
      BY <1>9, <1>11, <2>4
    <3> QED BY <1>3, <1>13, <2>1, <2>2, <3>1
  <2> QED BY <2>3, <2>4
<1>14. ASSUME NEW j \in S, j <= i PROVE \E k \in 1 .. n : j \in C[k] .. D[k]
  <2>1. CASE j = i
    <3>1. j \in i .. i
      BY <2>1
    <3> QED BY <1>9, <1>11, <3>1
  <2>2. CASE j # i
    <3>1. j <= i - 1
      BY <1>14, <2>2
    <3>2. PICK k \in 1 .. m : j \in A[k] .. B[k]
      BY <1>3, <3>1
    <3>3. k \in 1 .. n /\ k # n
      BY <1>4
    <3> QED BY <1>11, <3>2, <3>3
  <2> QED BY <2>1, <2>2
<1>15. Covers(Q, C, D, n, S, i)
  BY <1>8, <1>10, <1>12, <1>13, <1>14 DEF Covers
<1> QED BY <1>6, <1>15 DEF Covered

LEMMA PlannedSpans ==
  ASSUME NEW items, Len(items) \in Nat, Selected(items) \in SUBSET (Nat \ {0})
  PROVE  Covered(PlannedRuns(items), Selected(items), Len(items))
<1>1. PICK S \in SUBSET (Nat \ {0}), n \in Nat : S = Selected(items) /\ n = Len(items)
  OBVIOUS
<1>2. PICK r : Grown(r, S, n) /\ PlannedRuns(items) = r[n]
  BY <1>1, PlannedGrown
<1>3. r[0] = <<>> /\ \A i \in 1 .. n : r[i] = Grow(S, i, r[i - 1])
  BY <1>2 DEF Grown
<1> DEFINE Good == {i \in 0 .. n : Covered(r[i], S, i)}
<1>4. 0 \in Good
  <2>1. Covers(<<>>, [k \in 1 .. 0 |-> 1], [k \in 1 .. 0 |-> 0], 0, S, 0)
    BY DEF Covers
  <2>2. Covered(<<>>, S, 0)
    BY <2>1 DEF Covered
  <2>3. 0 \in 0 .. n
    OBVIOUS
  <2> QED BY <1>3, <2>2, <2>3
<1>5. ASSUME NEW i \in 1 .. n, i - 1 \in Good PROVE i \in Good
  <2>1. i \in Nat \ {0} /\ i \in 0 .. n
    OBVIOUS
  <2>2. PICK R : R = r[i - 1] /\ Covered(R, S, i - 1)
    BY <1>5
  <2>3. r[i] = Grow(S, i, R)
    BY <1>3, <2>2
  <2>4. CASE i \notin S
    <3>1. Covered(R, S, i)
      BY <2>1, <2>2, <2>4, CoversSkip
    <3> QED BY <2>1, <2>3, <2>4, <3>1 DEF Grow
  <2>5. CASE i \in S /\ R # <<>> /\ Last(Last(R)) = i - 1
    <3>1. Covered(Front(R) \o << Append(Last(R), i) >>, S, i)
      BY <2>1, <2>2, <2>5, SpansJoin
    <3>2. Grow(S, i, R) = Front(R) \o << Append(Last(R), i) >>
      BY <2>5, Zenon DEF Grow
    <3> QED BY <2>1, <2>3, <3>1, <3>2
  <2>6. CASE i \in S /\ ~(R # <<>> /\ Last(Last(R)) = i - 1)
    <3>1. Covered(Append(R, <<i>>), S, i)
      BY <2>1, <2>2, <2>6, SpansNew
    <3>2. Grow(S, i, R) = Append(R, <<i>>)
      BY <2>6, Zenon DEF Grow
    <3> QED BY <2>1, <2>3, <3>1, <3>2
  <2> QED BY <2>4, <2>5, <2>6, Zenon
<1> HIDE DEF Good
<1>6. Good \in SUBSET (0 .. n)
  BY DEF Good
<1>7. n \in Good
  <2>1. n \in Nat /\ n \in 0 .. n
    BY <1>1
  <2>2. \A i \in 0 .. n : i \in Good
    BY <1>4, <1>5, <1>6, <2>1, StepUp
  <2> QED BY <2>1, <2>2
<1> QED BY <1>1, <1>2, <1>7 DEF Good

\* What may be folded is earlier assistant text, with only messages before it.
LEMMA SelectedShape ==
  ASSUME NEW items \in Seq(Items), UserItems(items) # {}
  PROVE  /\ Len(items) \in Nat /\ DOMAIN items = 1 .. Len(items) /\ Selected(items) \in SUBSET (1 .. Len(items))
         /\ Selected(items) \in SUBSET (Nat \ {0})
         /\ \A i \in Selected(items) :
              /\ items[i].role = "assistant" /\ i < Max(UserItems(items))
              /\ \A j \in 1 .. i : items[j].kind = "message"
<1>1. PICK n \in Nat : n = Len(items) /\ DOMAIN items = 1 .. n
  BY LenProperties
<1>2. UserItems(items) \in SUBSET Nat /\ (\A y \in UserItems(items) : y <= n) /\ UserItems(items) \subseteq 1 .. n
  BY <1>1 DEF UserItems
<1>3. \E x \in UserItems(items) : \A y \in UserItems(items) : x >= y
  BY <1>2, GreatestNat
<1>4. PICK M \in 1 .. n : M = Max(UserItems(items))
  <2>1. Max(UserItems(items)) \in UserItems(items)
    BY <1>3 DEF Max
  <2> QED BY <1>2, <2>1
<1>5. PICK T \in SUBSET Nat : T = {M} \cup Structural(items) /\ M \in T
  <2>1. Structural(items) \in SUBSET Nat
    BY <1>1 DEF Structural
  <2>2. M \in Nat
    BY <1>4
  <2>3. {M} \cup Structural(items) \in SUBSET Nat
    BY <2>1, <2>2
  <2> QED BY <2>3
<1>6. \E x \in T : \A y \in T : x <= y
  BY <1>5, LeastNat
<1>7. PICK e \in Nat : e = SafeEnd(items) /\ \A y \in T : e <= y
  <2>1. Min(T) \in T /\ \A y \in T : Min(T) <= y
    BY <1>6, Zenon DEF Min
  <2>2. SafeEnd(items) = Min(T)
    BY <1>4, <1>5 DEF SafeEnd
  <2> QED BY <1>5, <2>1, <2>2
<1>8. ASSUME NEW i \in Selected(items)
      PROVE  /\ i \in 1 .. n /\ items[i].role = "assistant" /\ i < M
             /\ \A j \in 1 .. i : items[j].kind = "message"
  <2>1. i \in 1 .. (e - 1) /\ items[i].role = "assistant"
    BY <1>7 DEF Selected
  <2>2. e <= M
    BY <1>5, <1>7
  <2>3. i < M /\ i \in 1 .. n
    BY <1>4, <2>1, <2>2
  <2>4. ASSUME NEW j \in 1 .. i PROVE items[j].kind = "message"
    <3>1. j \in 1 .. n /\ ~(e <= j)
      BY <1>1, <1>7, <2>1, <2>3
    <3>2. j \notin Structural(items)
      BY <1>5, <1>7, <3>1
    <3> QED BY <1>1, <3>1, <3>2 DEF Structural
  <2> QED BY <2>1, <2>3, <2>4
<1>9. Selected(items) \in SUBSET (1 .. n)
  BY <1>8
<1>10. Selected(items) \in SUBSET (Nat \ {0})
  BY <1>9
<1> QED BY <1>1, <1>4, <1>8, <1>9, <1>10

\* A run's items, and at most one run for each.
Apart(R, A, B, m, S, n) ==
  /\ DOMAIN R = 1 .. m /\ R \in Seq(Seq(Int)) /\ Len(R) = m
  /\ \A k \in 1 .. m : /\ A[k] \in Nat \ {0} /\ B[k] \in Nat /\ A[k] <= B[k] /\ B[k] <= n
                       /\ A[k] .. B[k] \subseteq S /\ R[k] = Interval(A[k], B[k])
                       /\ R[k][1] = A[k] /\ Last(R[k]) = B[k] /\ Range(R[k]) = A[k] .. B[k]
  /\ \A k, l \in 1 .. m : k < l => B[k] + 1 < A[l]
  /\ \A k, l \in 1 .. m : \A i \in A[k] .. B[k] : i \in A[l] .. B[l] => k = l
LEMMA RunsNotJoined ==
  ASSUME NEW S \in SUBSET (Nat \ {0}), NEW n \in Nat, NEW R, NEW A, NEW B, NEW m \in Nat, Covers(R, A, B, m, S, n)
  PROVE  Apart(R, A, B, m, S, n)
<1>1. /\ R \in Seq(Seq(Int)) /\ Len(R) = m /\ A \in [1 .. m -> Nat \ {0}] /\ B \in [1 .. m -> Nat]
      /\ \A k \in 1 .. m : A[k] <= B[k] /\ B[k] <= n /\ A[k] .. B[k] \subseteq S /\ R[k] = Interval(A[k], B[k])
      /\ \A k, l \in 1 .. m : k < l => B[k] + 1 < A[l]
  BY DEF Covers
<1>2. DOMAIN R = 1 .. m
  BY <1>1, LenProperties
<1>3. ASSUME NEW k \in 1 .. m
      PROVE  /\ A[k] \in Nat \ {0} /\ B[k] \in Nat /\ A[k] <= B[k] /\ B[k] <= n
             /\ A[k] .. B[k] \subseteq S /\ R[k] = Interval(A[k], B[k])
             /\ R[k][1] = A[k] /\ Last(R[k]) = B[k] /\ Range(R[k]) = A[k] .. B[k]
  <2>1. PICK a \in Nat \ {0}, b \in Nat : a = A[k] /\ b = B[k] /\ a <= b
    BY <1>1
  <2>2. R[k] = Interval(a, b)
    BY <1>1, <2>1
  <2>3. Interval(a, b)[1] = a /\ Last(Interval(a, b)) = b /\ Range(Interval(a, b)) = a .. b
    BY <2>1, IntervalFacts
  <2> QED BY <1>1, <2>1, <2>2, <2>3
<1>4. ASSUME NEW k \in 1 .. m, NEW l \in 1 .. m, NEW i \in A[k] .. B[k], i \in A[l] .. B[l] PROVE k = l
  <2>1. A[k] \in Nat /\ B[k] \in Nat /\ A[l] \in Nat /\ B[l] \in Nat
    BY <1>1
  <2>2. ~(k < l)
    BY <1>1, <1>4, <2>1
  <2>3. ~(l < k)
    BY <1>1, <1>4, <2>1
  <2> QED BY <2>2, <2>3
<1> QED BY <1>1, <1>2, <1>3, <1>4 DEF Apart

\* What one item becomes.
Standing == [of : Seq(Int), item : Items \union {"fingerprint"}]
InPlace(items, i) ==
  LET runs == PlannedRuns(items)
      Run(j) == {k \in DOMAIN runs : j \in Range(runs[k])} IN
  CASE Run(i) = {} -> <<[of |-> <<i>>, item |-> items[i]]>>
    [] \E k \in Run(i) : i = runs[k][1] ->
         <<[of |-> runs[CHOOSE k \in Run(i) : TRUE], item |-> "fingerprint"]>>
    [] OTHER -> <<>>

LEMMA RebuiltPlaces ==
  ASSUME NEW items
  PROVE  Rebuilt(items) = FlattenSeq([i \in DOMAIN items |-> InPlace(items, i)])
BY Zenon DEF Rebuilt, InPlace

PlacedAt(items, i, A, B, m) ==
  /\ (\A k \in 1 .. m : i \notin A[k] .. B[k]) => InPlace(items, i) = <<[of |-> <<i>>, item |-> items[i]]>>
  /\ \A k \in 1 .. m : i = A[k] =>
       InPlace(items, i) = <<[of |-> PlannedRuns(items)[k], item |-> "fingerprint"]>>
  /\ \A k \in 1 .. m : i \in A[k] .. B[k] /\ i # A[k] => InPlace(items, i) = <<>>
LEMMA PlaceShape ==
  ASSUME NEW items \in Seq(Items), NEW i \in 1 .. Len(items), NEW S \in SUBSET (Nat \ {0}), NEW n \in Nat,
         NEW A, NEW B, NEW m \in Nat, Covers(PlannedRuns(items), A, B, m, S, n)
  PROVE  PlacedAt(items, i, A, B, m)
<1>1. PICK R : R = PlannedRuns(items)
  OBVIOUS
<1>2. /\ DOMAIN R = 1 .. m
      /\ \A k \in 1 .. m : /\ A[k] \in Nat \ {0} /\ B[k] \in Nat /\ A[k] <= B[k]
                           /\ R[k][1] = A[k] /\ Range(R[k]) = A[k] .. B[k]
      /\ \A k, l \in 1 .. m : \A j \in A[k] .. B[k] : j \in A[l] .. B[l] => k = l
  <2>1. Covers(R, A, B, m, S, n)
    BY <1>1
  <2>2. Apart(R, A, B, m, S, n)
    BY <2>1, RunsNotJoined
  <2> QED BY <2>2 DEF Apart
<1>3. PICK X : X = {k \in DOMAIN R : i \in Range(R[k])}
  OBVIOUS
<1>4. InPlace(items, i) =
        CASE X = {} -> <<[of |-> <<i>>, item |-> items[i]]>>
          [] \E k \in X : i = R[k][1] -> <<[of |-> R[CHOOSE k \in X : TRUE], item |-> "fingerprint"]>>
          [] OTHER -> <<>>
  BY <1>1, <1>3, Zenon DEF InPlace
<1>5. X = {k \in 1 .. m : i \in A[k] .. B[k]}
  BY <1>2, <1>3
<1>6. ASSUME \A k \in 1 .. m : i \notin A[k] .. B[k]
      PROVE  InPlace(items, i) = <<[of |-> <<i>>, item |-> items[i]]>>
  <2>1. X = {}
    BY <1>5, <1>6
  <2>2. ~ \E k \in X : i = R[k][1]
    BY <2>1
  <2> QED BY <1>4, <2>1, <2>2, Zenon
<1>7. ASSUME NEW k \in 1 .. m, i \in A[k] .. B[k]
      PROVE  X = {k}
  BY <1>2, <1>5, <1>7
<1>8. ASSUME NEW k \in 1 .. m, i = A[k]
      PROVE  InPlace(items, i) = <<[of |-> R[k], item |-> "fingerprint"]>>
  <2>1. i \in A[k] .. B[k]
    BY <1>2, <1>8
  <2>2. X = {k} /\ X # {}
    BY <1>7, <2>1
  <2>3. \E l \in X : i = R[l][1]
    BY <1>2, <1>8, <2>2
  <2>4. (CHOOSE l \in X : TRUE) = k
    BY <2>2
  <2>5. InPlace(items, i) = <<[of |-> R[CHOOSE l \in X : TRUE], item |-> "fingerprint"]>>
    BY <1>4, <2>2, <2>3, Zenon
  <2> QED BY <2>4, <2>5, Zenon
<1>9. ASSUME NEW k \in 1 .. m, i \in A[k] .. B[k], i # A[k]
      PROVE  InPlace(items, i) = <<>>
  <2>1. X = {k} /\ X # {}
    BY <1>7, <1>9
  <2>2. ~ \E l \in X : i = R[l][1]
    BY <1>2, <1>9, <2>1
  <2> QED BY <1>4, <2>1, <2>2, Zenon
<1> QED BY <1>1, <1>6, <1>8, <1>9 DEF PlacedAt

OfEntry == [e \in Standing |-> e.of]

LEMMA EntryOf ==
  /\ OfEntry \in [Standing -> Seq(Int)]
  /\ \A e \in Standing : Each(<<e>>, OfEntry) = e.of
  /\ Each(<<>>, OfEntry) = <<>>
<1>1. OfEntry \in [Standing -> Seq(Int)]
  BY DEF OfEntry, Standing
<1>2. ASSUME NEW e \in Standing PROVE Each(<<e>>, OfEntry) = e.of
  <2>1. Each(<<e>>, OfEntry) = OfEntry[e]
    BY <1>1, EachOne
  <2> QED BY <2>1 DEF OfEntry
<1> QED BY <1>1, <1>2, EachEmpty

\* The items that what was rebuilt stands for, place by place.
Stood(items, i) == Each(InPlace(items, i), OfEntry)

StoodAt(items, i, A, B, m) ==
  /\ InPlace(items, i) \in Seq(Standing)
  /\ (\A k \in 1 .. m : i \notin A[k] .. B[k]) => Stood(items, i) = <<i>>
  /\ \A k \in 1 .. m : i = A[k] => Stood(items, i) = Interval(A[k], B[k])
  /\ \A k \in 1 .. m : i \in A[k] .. B[k] /\ i # A[k] => Stood(items, i) = <<>>
LEMMA StoodShape ==
  ASSUME NEW items \in Seq(Items), NEW i \in 1 .. Len(items), NEW S \in SUBSET (Nat \ {0}), NEW n \in Nat,
         NEW A, NEW B, NEW m \in Nat, Covers(PlannedRuns(items), A, B, m, S, n)
  PROVE  StoodAt(items, i, A, B, m)
<1>1. PICK R : R = PlannedRuns(items) /\ Covers(R, A, B, m, S, n)
  OBVIOUS
<1>2. /\ R \in Seq(Seq(Int)) /\ DOMAIN R = 1 .. m /\ Len(R) = m
      /\ \A k \in 1 .. m : /\ A[k] \in Nat \ {0} /\ B[k] \in Nat /\ A[k] <= B[k]
                           /\ R[k] = Interval(A[k], B[k])
      /\ \A j, l \in 1 .. m : \A x \in A[j] .. B[j] : x \in A[l] .. B[l] => j = l
  <2>1. Apart(R, A, B, m, S, n)
    BY <1>1, RunsNotJoined
  <2> QED BY <2>1 DEF Apart
<1>3. \A k \in 1 .. m : R[k] \in Seq(Int)
  BY <1>2, ElementOfSeq
<1>4. items[i] \in Items
  BY LenProperties, ElementOfSeq
<1>5. /\ (\A k \in 1 .. m : i \notin A[k] .. B[k]) => InPlace(items, i) = <<[of |-> <<i>>, item |-> items[i]]>>
      /\ \A k \in 1 .. m : i = A[k] => InPlace(items, i) = <<[of |-> R[k], item |-> "fingerprint"]>>
      /\ \A k \in 1 .. m : i \in A[k] .. B[k] /\ i # A[k] => InPlace(items, i) = <<>>
  <2>1. PlacedAt(items, i, A, B, m)
    BY <1>1, PlaceShape
  <2> QED BY <1>1, <2>1 DEF PlacedAt
<1>6. CASE \A k \in 1 .. m : i \notin A[k] .. B[k]
  <2>0. PICK s \in Seq(Int) : s = <<i>>
    <3>1. i \in Int
      BY LenProperties
    <3>2. <<i>> \in Seq(Int)
      BY <3>1
    <3> QED BY <3>2
  <2>1. PICK e : e = [of |-> <<i>>, item |-> items[i]] /\ e.of = <<i>> /\ e = [of |-> s, item |-> items[i]]
    BY <2>0
  <2>2. e \in Standing
    BY <1>4, <2>0, <2>1 DEF Standing
  <2>3. InPlace(items, i) = <<e>>
    BY <1>5, <1>6, <2>1
  <2>4. Stood(items, i) = <<i>>
    BY <2>1, <2>2, <2>3, EntryOf DEF Stood
  <2>5. InPlace(items, i) \in Seq(Standing)
    BY <2>2, <2>3
  <2>6. ASSUME NEW k \in 1 .. m PROVE i # A[k]
    <3>1. A[k] \in A[k] .. B[k]
      BY <1>2
    <3> QED BY <1>6, <3>1
  <2> QED BY <1>6, <2>4, <2>5, <2>6 DEF StoodAt
<1>7. CASE \E k \in 1 .. m : i \in A[k] .. B[k]
  <2>1. PICK k \in 1 .. m : i \in A[k] .. B[k]
    BY <1>7
  <2>2. \A l \in 1 .. m : i \in A[l] .. B[l] => l = k
    BY <1>2, <2>1
  <2>3. \A l \in 1 .. m : i = A[l] => l = k
    BY <1>2, <2>2
  <2>4. CASE i = A[k]
    <3>1. PICK e : e = [of |-> R[k], item |-> "fingerprint"]
      OBVIOUS
    <3>2. e \in Standing /\ e.of = R[k]
      BY <1>3, <3>1 DEF Standing
    <3>3. InPlace(items, i) = <<e>>
      BY <1>5, <2>4, <3>1
    <3>4. Stood(items, i) = R[k]
      BY <3>1, <3>2, <3>3, EntryOf DEF Stood
    <3>5. InPlace(items, i) \in Seq(Standing)
      BY <3>2, <3>3
    <3> QED BY <1>2, <2>1, <2>2, <2>3, <2>4, <3>4, <3>5 DEF StoodAt
  <2>5. CASE i # A[k]
    <3>1. InPlace(items, i) = <<>>
      BY <1>5, <2>1, <2>5
    <3>2. Stood(items, i) = <<>>
      BY <3>1, EntryOf DEF Stood
    <3>3. InPlace(items, i) \in Seq(Standing)
      BY <3>1
    <3> QED BY <2>1, <2>2, <2>3, <2>5, <3>2, <3>3 DEF StoodAt
  <2> QED BY <2>4, <2>5
<1> QED BY <1>6, <1>7

\* One by one, they cover the input up to the end of the run that is under way.
LEMMA StoodInOrder ==
  ASSUME NEW items \in Seq(Items), NEW S \in SUBSET (Nat \ {0}), NEW n \in Nat, n = Len(items),
         NEW A, NEW B, NEW m \in Nat, Covers(PlannedRuns(items), A, B, m, S, n)
  PROVE  FlattenSeq([i \in DOMAIN items |-> Stood(items, i)]) = Interval(1, n)
<1>1. PICK R : R = PlannedRuns(items) /\ Covers(R, A, B, m, S, n)
  OBVIOUS
<1>2. /\ \A k \in 1 .. m : A[k] \in Nat \ {0} /\ B[k] \in Nat /\ A[k] <= B[k] /\ B[k] <= n
      /\ \A k, l \in 1 .. m : k < l => B[k] + 1 < A[l]
      /\ \A k, l \in 1 .. m : \A j \in A[k] .. B[k] : j \in A[l] .. B[l] => k = l
  <2>1. Apart(R, A, B, m, S, n)
    BY <1>1, RunsNotJoined
  <2> QED BY <2>1 DEF Apart
<1>3. DOMAIN items = 1 .. n
  BY LenProperties
<1>4. PICK qs : qs = [i \in DOMAIN items |-> Stood(items, i)]
  OBVIOUS
<1>5. ASSUME NEW i \in 1 .. n
      PROVE  /\ qs[i] \in Seq(Int)
             /\ (\A k \in 1 .. m : i \notin A[k] .. B[k]) => qs[i] = <<i>>
             /\ \A k \in 1 .. m : i = A[k] => qs[i] = Interval(A[k], B[k])
             /\ \A k \in 1 .. m : i \in A[k] .. B[k] /\ i # A[k] => qs[i] = <<>>
  <2>1. qs[i] = Stood(items, i)
    BY <1>3, <1>4
  <2>2. StoodAt(items, i, A, B, m)
    BY StoodShape
  <2>3. InPlace(items, i) \in Seq(Standing)
    BY <2>2 DEF StoodAt
  <2>4. Each(InPlace(items, i), OfEntry) \in Seq(Int)
    BY <2>3, EntryOf, EachPieces
  <2>5. qs[i] \in Seq(Int)
    BY <2>1, <2>4 DEF Stood
  <2> QED BY <2>1, <2>2, <2>5 DEF StoodAt
<1>6. qs \in Seq(Seq(Int)) /\ Len(qs) = n
  <2>1. \A i \in 1 .. n : Stood(items, i) \in Seq(Int)
    BY <1>3, <1>4, <1>5
  <2>2. qs \in [1 .. n -> Seq(Int)]
    BY <1>3, <1>4, <2>1
  <2> QED BY <2>2, FunSeq
<1>7. PICK f : Flattens(f, qs, Int)
  BY <1>6, FlattenJoins
<1>8. f[0] = <<>> /\ \A i \in 1 .. n : f[i] = f[i - 1] \o qs[i]
  BY <1>6, <1>7 DEF Flattens, Joins
<1> DEFINE Ends(i, b) == \/ b = i /\ \A k \in 1 .. m : i \notin A[k] .. B[k]
                         \/ \E k \in 1 .. m : i \in A[k] .. B[k] /\ b = B[k]
           Good == {i \in 0 .. n : \A b \in Nat : Ends(i, b) => f[i] = Interval(1, b)}
<1>9. Interval(1, 0) = <<>>
  BY DEF Interval
<1>10. 0 \in Good
  <2>1. \A k \in 1 .. m : 0 \notin A[k] .. B[k]
    BY <1>2
  <2>2. \A b \in Nat : Ends(0, b) => b = 0
    BY <2>1
  <2> HIDE DEF Ends
  <2> QED BY <1>8, <1>9, <2>2
<1>11. ASSUME NEW i \in 1 .. n, i - 1 \in Good PROVE i \in Good
  <2>1. i - 1 \in 0 .. n /\ i \in 0 .. n /\ i \in Nat \ {0} /\ i - 1 \in Nat
    OBVIOUS
  <2>2. \A b \in Nat : Ends(i - 1, b) => f[i - 1] = Interval(1, b)
    BY <1>11
  <2>3. f[i] = f[i - 1] \o qs[i]
    BY <1>8
  <2>4. ASSUME \A k \in 1 .. m : i \in A[k] .. B[k] => i = A[k]
        PROVE  f[i - 1] = Interval(1, i - 1)
    <3>1. Ends(i - 1, i - 1)
      <4>1. ASSUME NEW k \in 1 .. m, i - 1 \in A[k] .. B[k] PROVE B[k] = i - 1
        <5>1. PICK a \in Nat \ {0}, b \in Nat : a = A[k] /\ b = B[k] /\ a <= b
          BY <1>2
        <5>2. i - 1 \in a .. b
          BY <4>1, <5>1
        <5>3. i \notin a .. b
          BY <2>4, <5>1, <5>2
        <5> QED BY <5>1, <5>2, <5>3
      <4> QED BY <4>1
    <3> QED BY <2>1, <2>2, <3>1
  <2>5. ASSUME NEW b \in Nat, Ends(i, b) PROVE f[i] = Interval(1, b)
    <3>1. CASE b = i /\ \A k \in 1 .. m : i \notin A[k] .. B[k]
      <4>1. f[i - 1] = Interval(1, i - 1) /\ qs[i] = <<i>>
        BY <1>5, <2>4, <3>1
      <4>2. <<i>> = Interval(i, i)
        BY <2>1, IntervalFacts
      <4>3. Interval(1, i - 1) \o Interval(i, i) = Interval(1, i)
        <5>1. i <= i
          OBVIOUS
        <5> QED BY <2>1, <5>1, Continued
      <4> QED BY <2>3, <3>1, <4>1, <4>2, <4>3
    <3>2. CASE \E k \in 1 .. m : i \in A[k] .. B[k] /\ b = B[k]
      <4>1. PICK k \in 1 .. m : i \in A[k] .. B[k] /\ b = B[k]
        BY <3>2
      <4>2. PICK a \in Nat \ {0} : a = A[k] /\ a <= b /\ i \in a .. b
        BY <1>2, <4>1
      <4>3. CASE i = a
        <5>1. \A l \in 1 .. m : i \in A[l] .. B[l] => l = k
          BY <1>2, <4>1
        <5>2. f[i - 1] = Interval(1, i - 1)
          BY <2>4, <4>2, <4>3, <5>1
        <5>3. qs[i] = Interval(a, b)
          BY <1>5, <4>1, <4>2, <4>3
        <5>4. Interval(1, a - 1) \o Interval(a, b) = Interval(1, b)
          BY <4>2, Continued
        <5> QED BY <2>3, <4>3, <5>2, <5>3, <5>4
      <4>4. CASE i # a
        <5>1. i - 1 \in A[k] .. B[k]
          BY <4>1, <4>2, <4>4
        <5>2. f[i - 1] = Interval(1, b)
          BY <2>2, <4>1, <5>1
        <5>3. qs[i] = <<>>
          BY <1>5, <4>1, <4>2, <4>4
        <5>4. Interval(1, b) \in Seq(Int)
          <6>1. 1 <= b + 1
            OBVIOUS
          <6> QED BY <6>1, IntervalShape
        <5> QED BY <2>3, <5>2, <5>3, <5>4, ConcatEmptySeq
      <4> QED BY <4>3, <4>4
    <3> QED BY <2>5, <3>1, <3>2
  <2> HIDE DEF Ends
  <2> QED BY <2>1, <2>5
<1> HIDE DEF Good
<1>12. Good \in SUBSET (0 .. n)
  BY DEF Good
<1>13. n \in Good
  <2>1. \A i \in 0 .. n : i \in Good
    BY <1>10, <1>11, <1>12, StepUp
  <2>2. n \in 0 .. n
    OBVIOUS
  <2> QED BY <2>1, <2>2
<1>14. Ends(n, n)
  <2>1. ASSUME NEW k \in 1 .. m, n \in A[k] .. B[k] PROVE B[k] = n
    <3>1. PICK a \in Nat \ {0}, b \in Nat : a = A[k] /\ b = B[k] /\ b <= n
      BY <1>2
    <3> QED BY <2>1, <3>1
  <2> QED BY <2>1
<1>15. f[n] = Interval(1, n)
  <2> HIDE DEF Ends
  <2> QED BY <1>13, <1>14 DEF Good
<1> QED BY <1>4, <1>6, <1>7, <1>15 DEF Flattens

LEMMA RunsWholeHolds ==
  ASSUME input \in Seq(Items)
  PROVE  RunsWhole
<1>1. SUFFICES ASSUME Plannable(input)
               PROVE  LET out == Rebuilt(input)  runs == PlannedRuns(input) IN
                      /\ FlattenSeq([k \in DOMAIN out |-> out[k].of]) = [i \in DOMAIN input |-> i]
                      /\ \A k \in DOMAIN runs : \A i \in Range(runs[k]) :
                           /\ input[i].role = "assistant" /\ i < Max(UserItems(input))
                           /\ \A j \in 1..i : input[j].kind = "message"
                      /\ \A k \in 1..(Len(runs) - 1) : Last(runs[k]) + 1 < runs[k + 1][1]
  BY DEF RunsWhole
<1>2. UserItems(input) # {}
  BY <1>1 DEF Plannable
<1>3. PICK n \in Nat, S \in SUBSET (Nat \ {0}) :
        /\ n = Len(input) /\ S = Selected(input) /\ DOMAIN input = 1 .. n
        /\ \A i \in S : /\ input[i].role = "assistant" /\ i < Max(UserItems(input))
                        /\ \A j \in 1 .. i : input[j].kind = "message"
  BY <1>2, SelectedShape
<1>4. PICK R : R = PlannedRuns(input) /\ Covered(R, S, n)
  BY <1>3, PlannedSpans
<1>5. PICK m \in Nat : \E A, B : Covers(R, A, B, m, S, n)
  BY <1>4 DEF Covered
<1>6. PICK A, B : Covers(R, A, B, m, S, n)
  BY <1>5
<1>7. /\ DOMAIN R = 1 .. m /\ Len(R) = m
      /\ \A k \in 1 .. m : /\ A[k] .. B[k] \subseteq S
                           /\ R[k][1] = A[k] /\ Last(R[k]) = B[k] /\ Range(R[k]) = A[k] .. B[k]
      /\ \A k, l \in 1 .. m : k < l => B[k] + 1 < A[l]
  <2>1. Apart(R, A, B, m, S, n)
    BY <1>6, RunsNotJoined
  <2> QED BY <2>1 DEF Apart
<1>8. \A k \in DOMAIN R : \A i \in Range(R[k]) :
        /\ input[i].role = "assistant" /\ i < Max(UserItems(input))
        /\ \A j \in 1 .. i : input[j].kind = "message"
  BY <1>3, <1>7
<1>9. ASSUME NEW k \in 1 .. (Len(R) - 1) PROVE Last(R[k]) + 1 < R[k + 1][1]
  <2>1. k \in 1 .. m /\ k + 1 \in 1 .. m /\ k < k + 1
    BY <1>7
  <2>2. PICK l \in 1 .. m : l = k + 1
    BY <2>1
  <2>3. B[k] + 1 < A[l]
    BY <1>7, <2>1, <2>2
  <2>4. Last(R[k]) = B[k] /\ R[l][1] = A[l]
    BY <1>7, <2>1, <2>2
  <2> QED BY <2>2, <2>3, <2>4
<1>10. PICK ps : ps = [i \in DOMAIN input |-> InPlace(input, i)]
  OBVIOUS
<1>11. Covers(PlannedRuns(input), A, B, m, S, n)
  BY <1>4, <1>6
<1>12. ps \in Seq(Seq(Standing)) /\ DOMAIN ps = DOMAIN input
  <2>1. \A i \in 1 .. n : InPlace(input, i) \in Seq(Standing)
    <3>1. \A i \in 1 .. n : StoodAt(input, i, A, B, m)
      BY <1>3, <1>11, StoodShape
    <3> QED BY <3>1 DEF StoodAt
  <2>2. ps \in [1 .. n -> Seq(Standing)]
    BY <1>3, <1>10, <2>1
  <2> QED BY <1>3, <2>2, FunSeq
<1>13. PICK out : out = Rebuilt(input) /\ out = FlattenSeq(ps) /\ out \in Seq(Standing)
  BY <1>10, <1>12, RebuiltPlaces, FlattenType
<1>14. Each(out, OfEntry) = FlattenSeq([i \in DOMAIN ps |-> Each(ps[i], OfEntry)])
  <2>1. Each(FlattenSeq(ps), OfEntry) = FlattenSeq([i \in DOMAIN ps |-> Each(ps[i], OfEntry)])
    BY <1>12, EntryOf, EachFlatten
  <2> QED BY <1>13, <2>1
<1>15. [i \in DOMAIN ps |-> Each(ps[i], OfEntry)] = [i \in DOMAIN input |-> Stood(input, i)]
  BY <1>10, <1>12 DEF Stood
<1>16. FlattenSeq([i \in DOMAIN input |-> Stood(input, i)]) = Interval(1, n)
  BY <1>3, <1>11, StoodInOrder
<1>17. [k \in DOMAIN out |-> out[k].of] = [k \in DOMAIN out |-> OfEntry[out[k]]]
  <2>1. \A k \in DOMAIN out : out[k] \in Standing
    BY <1>13, LenProperties, ElementOfSeq
  <2> QED BY <2>1 DEF OfEntry
<1>18. Interval(1, n) = [i \in DOMAIN input |-> i]
  <2>1. (n + 1) - 1 = n /\ \A t \in 1 .. n : (1 + t) - 1 = t
    OBVIOUS
  <2> QED BY <1>3, <2>1 DEF Interval
<1>19. FlattenSeq([k \in DOMAIN out |-> out[k].of]) = [i \in DOMAIN input |-> i]
  BY <1>14, <1>15, <1>16, <1>17, <1>18 DEF Each
<1> QED BY <1>4, <1>8, <1>9, <1>13, <1>19

-----------------------------------------------------------------------------
TalkTypeOK == conv \in Seq(Messages) /\ input \in Seq(Items)

\* Whatever is sent, the forwarded conversation loses nothing but heavy text, tells of what it
\* absorbed once and in the last user turn, and a rebuilt input stands for the original.
THEOREM TalkSoundCorrect == TalkSpec => []TalkSound
<1>1. TalkInit => TalkTypeOK
  BY DEF TalkInit, TalkTypeOK
<1>2. TalkTypeOK /\ [TalkNext]_talkVars => TalkTypeOK'
  <2>1. SUFFICES ASSUME TalkTypeOK, [TalkNext]_talkVars PROVE TalkTypeOK'
    OBVIOUS
  <2>2. ASSUME NEW m \in Messages, NewMessage(m) PROVE TalkTypeOK'
    BY <2>1, <2>2 DEF TalkTypeOK, NewMessage
  <2>3. ASSUME NEW e \in Items, NewItem(e) PROVE TalkTypeOK'
    BY <2>1, <2>3 DEF TalkTypeOK, NewItem
  <2>4. CASE UNCHANGED talkVars
    BY <2>1, <2>4 DEF TalkTypeOK, talkVars
  <2> QED BY <2>1, <2>2, <2>3, <2>4 DEF TalkNext
<1>3. TalkTypeOK => TalkSound
  BY NothingLostHolds, DigestPlacedHolds, RunsWholeHolds DEF TalkTypeOK, TalkSound
<1> QED BY <1>1, <1>2, <1>3, PTL DEF TalkSpec

-----------------------------------------------------------------------------
(* The edits of a line *)

\* The texts and tokens of a line, given or edited.
Texts ==
  STRING \cup {"<", "<=", ">", ">=", "==", "!=", "===", "!==", "=", "&&", "||", "and", "or",
    "+", "-", "*", "/", "+=", "-=", "*=", "/=", "^", "&", "|", "..", "..=", "<<", ">>",
    "-lt", "-le", "-gt", "-ge", "-eq", "-ne", "-z", "-n", "-a", "-o", "-f", "-e", "-d",
    "True", "False", "true", "false", "TRUE", "FALSE", "min", "max", "floor", "ceil",
    "first", "last", "any", "all", "starts_with", "ends_with", "break", "continue",
    "!", "(", ")", ",", ";", "", "op", "int", "word", "not", "return"}
Unsigned == Texts \ Signs
Toks ==
  {t \in [k : Texts, v : Texts, n : Nat, sp : BOOLEAN] :
     t.k = "word" => t.v \notin Signs}

\* Two lines that differ in texts which hide nothing, or in numbers.
Matching(l, m) ==
  /\ Len(l) = Len(m)
  /\ \A i \in 1 .. Len(l) :
       /\ l[i].sp = m[i].sp
       /\ l[i].v = m[i].v \/ (l[i].v \notin Signs /\ m[i].v \notin Signs)

LEMMA LineShape ==
  ASSUME NEW l \in Seq(Toks)
  PROVE  /\ Len(l) \in Nat /\ DOMAIN l = 1 .. Len(l) /\ l \in [1 .. Len(l) -> Toks]
         /\ \A i \in 1 .. Len(l) :
              /\ l[i] \in [k : Texts, v : Texts, n : Nat, sp : BOOLEAN]
              /\ l[i].k = "word" => l[i].v \notin Signs
<1>1. Len(l) \in Nat /\ DOMAIN l = 1 .. Len(l) /\ l \in [1 .. Len(l) -> Toks]
  BY LenProperties
<1>2. \A i \in 1 .. Len(l) : l[i] \in Toks
  BY <1>1
<1> QED BY <1>1, <1>2 DEF Toks

\* They have the same signs in the same places.
LEMMA SameSigns ==
  ASSUME NEW l \in Seq(Toks), NEW m \in Seq(Toks), Matching(l, m), NEW i \in Int
  PROVE  /\ \A S \in SUBSET Signs : Is(l, i, S) <=> Is(m, i, S)
         /\ Joined(l, i) <=> Joined(m, i)
         /\ i \in 1 .. Len(l) => (Spaced(l, i) <=> Spaced(m, i))
<1>1. Len(l) \in Nat /\ Len(m) = Len(l) /\ DOMAIN l = 1 .. Len(l) /\ DOMAIN m = 1 .. Len(l)
  BY LineShape DEF Matching
<1>2. CASE i \notin 1 .. Len(l)
  <2>1. TokAt(l, i) = TokAt(m, i)
    BY <1>1, <1>2 DEF TokAt
  <2> QED BY <1>2, <2>1 DEF Is, Joined
<1>3. CASE i \in 1 .. Len(l)
  <2>1. TokAt(l, i) = l[i] /\ TokAt(m, i) = m[i]
    BY <1>1, <1>3 DEF TokAt
  <2>2. l[i].sp = m[i].sp /\ (l[i].v = m[i].v \/ (l[i].v \notin Signs /\ m[i].v \notin Signs))
    BY <1>3 DEF Matching
  <2>3. Joined(l, i) <=> Joined(m, i)
    BY <2>1, <2>2 DEF Joined
  <2>4. ASSUME NEW S \in SUBSET Signs PROVE Is(l, i, S) <=> Is(m, i, S)
    BY <2>1, <2>2 DEF Is
  <2>5. Spaced(l, i) <=> Spaced(m, i)
    <3>1. CASE i < Len(l)
      <4>1. i + 1 \in 1 .. Len(l)
        BY <1>1, <1>3, <3>1
      <4>2. l[i + 1].sp = m[i + 1].sp
        BY <4>1 DEF Matching
      <4> QED BY <1>1, <2>2, <3>1, <4>2 DEF Spaced
    <3>2. CASE ~(i < Len(l))
      BY <1>1, <3>2 DEF Spaced
    <3> QED BY <3>1, <3>2
  <2> QED BY <2>3, <2>4, <2>5
<1> QED BY <1>2, <1>3

\* How far a token that ends at the tokens E hides, given what it begins.
HiddenUpTo(g, i, n, E, comment, quote, second, tick, string) ==
  LET closed == IF E = {} THEN n ELSE Min(E) IN
  CASE comment -> n
    [] quote /\ g = "rust" -> IF second THEN i + 2 ELSE i - 1
    [] tick -> IF g \in {"javascript", "go"} THEN closed ELSE i - 1
    [] string -> closed
    [] OTHER -> i - 1

LEMMA SameHides ==
  ASSUME NEW l \in Seq(Toks), NEW m \in Seq(Toks), Matching(l, m), NEW i \in 1 .. Len(l), NEW g
  PROVE  Hides(g, l, i) = Hides(g, m, i)
<1>1. Len(l) \in Nat /\ Len(m) = Len(l) /\ i \in Int /\ i - 1 \in Int /\ i + 2 \in Int
  BY LineShape DEF Matching
<1>2. \A j \in Int, S \in SUBSET Signs : Is(l, j, S) <=> Is(m, j, S)
  BY SameSigns
<1>3. Comments(g, l, i) <=> Comments(g, m, i)
  <2>1. {"#"} \in SUBSET Signs /\ {"//"} \in SUBSET Signs /\ {"$", "{"} \in SUBSET Signs
    BY DEF Signs
  <2>2. (Is(l, i, {"#"}) <=> Is(m, i, {"#"})) /\ (Is(l, i, {"//"}) <=> Is(m, i, {"//"}))
          /\ (Is(l, i - 1, {"$", "{"}) <=> Is(m, i - 1, {"$", "{"}))
    BY <1>1, <1>2, <2>1
  <2>3. Joined(l, i) <=> Joined(m, i)
    BY <1>1, SameSigns
  <2> QED BY <2>2, <2>3, Zenon DEF Comments
<1>4. {"'"} \in SUBSET Signs /\ {"tick"} \in SUBSET Signs /\ {"dq", "'"} \in SUBSET Signs
  BY DEF Signs
<1>5. (Is(l, i, {"'"}) <=> Is(m, i, {"'"})) /\ (Is(l, i + 2, {"'"}) <=> Is(m, i + 2, {"'"}))
        /\ (Is(l, i, {"tick"}) <=> Is(m, i, {"tick"})) /\ (Is(l, i, {"dq", "'"}) <=> Is(m, i, {"dq", "'"}))
  BY <1>1, <1>2, <1>4
<1>6. ASSUME l[i].v \in Signs
      PROVE  {j \in (i + 1) .. Len(l) : l[j].v = l[i].v} = {j \in (i + 1) .. Len(m) : m[j].v = m[i].v}
  <2>1. m[i].v = l[i].v
    BY <1>6 DEF Matching
  <2>2. \A j \in (i + 1) .. Len(l) : j \in 1 .. Len(l)
    BY <1>1
  <2>3. ASSUME NEW j \in (i + 1) .. Len(l) PROVE l[j].v = l[i].v <=> m[j].v = m[i].v
    BY <1>6, <2>1, <2>2 DEF Matching
  <2> QED BY <1>1, <2>3
<1>7. CASE l[i].v \in Signs
  <2>1. PICK E : /\ E = {j \in (i + 1) .. Len(l) : l[j].v = l[i].v}
                 /\ E = {j \in (i + 1) .. Len(m) : m[j].v = m[i].v}
    BY <1>6, <1>7
  <2>2. PICK n : n = Len(l) /\ n = Len(m)
    BY <1>1
  <2>3. PICK o \in BOOLEAN : (o <=> Comments(g, l, i)) /\ (o <=> Comments(g, m, i))
    BY <1>3
  <2>4. PICK q \in BOOLEAN : (q <=> Is(l, i, {"'"})) /\ (q <=> Is(m, i, {"'"}))
    BY <1>5
  <2>5. PICK u \in BOOLEAN : (u <=> Is(l, i + 2, {"'"})) /\ (u <=> Is(m, i + 2, {"'"}))
    BY <1>5
  <2>6. PICK t \in BOOLEAN : (t <=> Is(l, i, {"tick"})) /\ (t <=> Is(m, i, {"tick"}))
    BY <1>5
  <2>7. PICK d \in BOOLEAN : (d <=> Is(l, i, {"dq", "'"})) /\ (d <=> Is(m, i, {"dq", "'"}))
    BY <1>5
  <2>8. Hides(g, l, i) = HiddenUpTo(g, i, n, E, o, q, u, t, d)
    BY <2>1, <2>2, <2>3, <2>4, <2>5, <2>6, <2>7 DEF Hides, HiddenUpTo
  <2>9. Hides(g, m, i) = HiddenUpTo(g, i, n, E, o, q, u, t, d)
    <3>1. E = {j \in (i + 1) .. Len(m) : m[j].v = m[i].v} /\ n = Len(m)
      BY <2>1, <2>2
    <3>2. /\ o <=> Comments(g, m, i)
          /\ q <=> Is(m, i, {"'"})
          /\ u <=> Is(m, i + 2, {"'"})
          /\ t <=> Is(m, i, {"tick"})
          /\ d <=> Is(m, i, {"dq", "'"})
      BY <2>3, <2>4, <2>5, <2>6, <2>7
    <3> QED BY <3>1, <3>2 DEF Hides, HiddenUpTo
  <2> QED BY <2>8, <2>9
<1>8. CASE l[i].v \notin Signs
  <2>1. i \in DOMAIN l
    BY LineShape
  <2>2. ~Is(l, i, {"'"}) /\ ~Is(l, i, {"tick"}) /\ ~Is(l, i, {"dq", "'"})
    BY <1>8, <2>1 DEF Is, TokAt, Signs
  <2>3. ~Is(m, i, {"'"}) /\ ~Is(m, i, {"tick"}) /\ ~Is(m, i, {"dq", "'"})
    BY <1>5, <2>2
  <2>4. Hides(g, l, i) = IF Comments(g, l, i) THEN Len(l) ELSE i - 1
    BY <2>2, Zenon DEF Hides
  <2>5. Hides(g, m, i) = IF Comments(g, m, i) THEN Len(m) ELSE i - 1
    BY <2>3, Zenon DEF Hides
  <2> QED BY <1>1, <1>3, <2>4, <2>5
<1> QED BY <1>7, <1>8

\* How far what is hidden reaches, token by token.
Reaching(r, H, n) ==
  /\ DOMAIN r = 0 .. n /\ r[0] = 0
  /\ \A i \in 1 .. n : r[i] = IF i <= r[i - 1] THEN r[i - 1] ELSE H[i]

LEMMA ReachingExist ==
  ASSUME NEW H, NEW n \in Nat
  PROVE  \E r : Reaching(r, H, n)
<1> DEFINE Good == {k \in 0 .. n : \E r : Reaching(r, H, k)}
<1>1. 0 \in Good
  <2>1. Reaching([i \in 0 .. 0 |-> 0], H, 0)
    BY DEF Reaching
  <2> QED BY <2>1
<1>2. ASSUME NEW k \in 1 .. n, k - 1 \in Good PROVE k \in Good
  <2>1. PICK r : Reaching(r, H, k - 1)
    BY <1>2
  <2> DEFINE Up(j, a) == IF j <= a THEN a ELSE H[j]
             q == [i \in 0 .. k |-> IF i = k THEN Up(k, r[k - 1]) ELSE r[i]]
  <2>2. DOMAIN q = 0 .. k
    OBVIOUS
  <2>3. q[0] = 0
    BY <2>1 DEF Reaching
  <2>4. ASSUME NEW i \in 1 .. k PROVE q[i] = Up(i, q[i - 1])
    <3>1. i - 1 \in 0 .. k /\ i - 1 # k /\ i \in 0 .. k
      OBVIOUS
    <3>2. q[i - 1] = r[i - 1]
      BY <3>1
    <3> HIDE DEF Up
    <3>3. CASE i = k
      BY <3>1, <3>2, <3>3
    <3>4. CASE i # k
      <4>1. i \in 1 .. (k - 1)
        BY <3>4
      <4>2. r[i] = Up(i, r[i - 1])
        BY <2>1, <4>1 DEF Reaching, Up
      <4> QED BY <3>1, <3>2, <3>4, <4>2
    <3> QED BY <3>3, <3>4
  <2> HIDE DEF q
  <2>5. Reaching(q, H, k)
    BY <2>2, <2>3, <2>4 DEF Reaching
  <2> QED BY <2>5
<1> HIDE DEF Good
<1>3. Good \in SUBSET (0 .. n)
  BY DEF Good
<1>4. n \in Good
  BY <1>1, <1>2, <1>3, StepUp
<1> QED BY <1>4 DEF Good

LEMMA HiddenChosen ==
  ASSUME NEW g, NEW l
  PROVE  \E h : /\ h = CHOOSE h2 : h2 = [i \in 0 .. Len(l) |->
                         IF i = 0 THEN 0 ELSE IF i <= h2[i - 1] THEN h2[i - 1] ELSE Hides(g, l, i)]
                /\ Hidden(g, l) = {i \in DOMAIN l : i <= h[i]}
BY Zenon DEF Hidden

LEMMA HiddenReaches ==
  ASSUME NEW g, NEW l, Len(l) \in Nat
  PROVE  \E r : /\ Reaching(r, [i \in 1 .. Len(l) |-> Hides(g, l, i)], Len(l))
                /\ Hidden(g, l) = {i \in DOMAIN l : i <= r[i]}
<1> DEFINE H == [i \in 1 .. Len(l) |-> Hides(g, l, i)]
           Eqn(r) == r = [i \in 0 .. Len(l) |->
                       IF i = 0 THEN 0 ELSE IF i <= r[i - 1] THEN r[i - 1] ELSE Hides(g, l, i)]
<1>1. PICK h : h = (CHOOSE h2 : Eqn(h2)) /\ Hidden(g, l) = {i \in DOMAIN l : i <= h[i]}
  BY HiddenChosen
<1>2. PICK r : Reaching(r, H, Len(l))
  BY ReachingExist
<1> DEFINE q == [i \in 0 .. Len(l) |-> r[i]]
<1>3. Eqn(q)
  <2>1. ASSUME NEW i \in 0 .. Len(l)
        PROVE  q[i] = IF i = 0 THEN 0 ELSE IF i <= q[i - 1] THEN q[i - 1] ELSE Hides(g, l, i)
    <3>1. CASE i = 0
      BY <1>2, <3>1 DEF Reaching
    <3>2. CASE i # 0
      <4>1. i \in 1 .. Len(l) /\ i - 1 \in 0 .. Len(l)
        BY <3>2
      <4>2. q[i] = r[i] /\ q[i - 1] = r[i - 1] /\ H[i] = Hides(g, l, i)
        BY <4>1
      <4>3. r[i] = IF i <= r[i - 1] THEN r[i - 1] ELSE H[i]
        BY <1>2, <4>1 DEF Reaching
      <4> QED BY <3>2, <4>2, <4>3, Zenon
    <3> QED BY <3>1, <3>2
  <2> QED BY <2>1, Zenon
<1>4. Eqn(h)
  <2> HIDE DEF Eqn
  <2> QED BY <1>1, <1>3, Zenon
<1>5. Reaching(h, H, Len(l))
  <2>1. DOMAIN h = 0 .. Len(l)
    BY <1>4, Zenon
  <2>2. h[0] = 0
    <3>1. 0 \in 0 .. Len(l)
      OBVIOUS
    <3> QED BY <1>4, <3>1
  <2>3. ASSUME NEW i \in 1 .. Len(l) PROVE h[i] = IF i <= h[i - 1] THEN h[i - 1] ELSE H[i]
    <3>1. i \in 0 .. Len(l) /\ i # 0 /\ H[i] = Hides(g, l, i)
      OBVIOUS
    <3>2. h[i] = IF i = 0 THEN 0 ELSE IF i <= h[i - 1] THEN h[i - 1] ELSE Hides(g, l, i)
      BY <1>4, <3>1
    <3> QED BY <3>1, <3>2, Zenon
  <2> QED BY <2>1, <2>2, <2>3 DEF Reaching
<1> QED BY <1>1, <1>5

LEMMA SameHidden ==
  ASSUME NEW l \in Seq(Toks), NEW m \in Seq(Toks), Matching(l, m), NEW g
  PROVE  Hidden(g, l) = Hidden(g, m) /\ Code(g, l) = Code(g, m)
<1>1. PICK n \in Nat : n = Len(l) /\ n = Len(m) /\ DOMAIN l = 1 .. n /\ DOMAIN m = 1 .. n
  BY LineShape DEF Matching
<1>2. PICK H : H = [i \in 1 .. n |-> Hides(g, l, i)] /\ H = [i \in 1 .. n |-> Hides(g, m, i)]
  <2>1. \A i \in 1 .. n : Hides(g, l, i) = Hides(g, m, i)
    BY <1>1, SameHides
  <2> QED BY <2>1
<1>3. PICK r : Reaching(r, H, n) /\ Hidden(g, l) = {i \in 1 .. n : i <= r[i]}
  <2>1. \E r : /\ Reaching(r, [i \in 1 .. Len(l) |-> Hides(g, l, i)], Len(l))
               /\ Hidden(g, l) = {i \in DOMAIN l : i <= r[i]}
    BY <1>1, HiddenReaches
  <2>2. PICK r : Reaching(r, H, n) /\ Hidden(g, l) = {i \in DOMAIN l : i <= r[i]}
    BY <1>1, <1>2, <2>1, Zenon
  <2> QED BY <1>1, <2>2
<1>4. PICK q : Reaching(q, H, n) /\ Hidden(g, m) = {i \in 1 .. n : i <= q[i]}
  <2>1. \E s : /\ Reaching(s, [i \in 1 .. Len(m) |-> Hides(g, m, i)], Len(m))
               /\ Hidden(g, m) = {i \in DOMAIN m : i <= s[i]}
    BY <1>1, HiddenReaches
  <2>2. PICK s : Reaching(s, H, n) /\ Hidden(g, m) = {i \in DOMAIN m : i <= s[i]}
    BY <1>1, <1>2, <2>1, Zenon
  <2> QED BY <1>1, <2>2
<1> DEFINE S == {i \in 0 .. n : r[i] = q[i]}
<1>5. 0 \in S /\ S \in SUBSET (0 .. n)
  BY <1>3, <1>4 DEF Reaching
<1>6. ASSUME NEW i \in 1 .. n, i - 1 \in S PROVE i \in S
  <2>1. r[i - 1] = q[i - 1]
    BY <1>6
  <2>2. r[i] = IF i <= r[i - 1] THEN r[i - 1] ELSE H[i]
    BY <1>3 DEF Reaching
  <2>3. q[i] = IF i <= q[i - 1] THEN q[i - 1] ELSE H[i]
    BY <1>4 DEF Reaching
  <2> QED BY <2>1, <2>2, <2>3
<1> HIDE DEF S
<1>7. \A i \in 0 .. n : i \in S
  BY <1>5, <1>6, StepUp
<1>8. \A i \in 1 .. n : r[i] = q[i]
  BY <1>7 DEF S
<1>9. Hidden(g, l) = Hidden(g, m)
  BY <1>3, <1>4, <1>8
<1> QED BY <1>1, <1>9 DEF Code

\* The edit m of l changes no token of a literal or a comment.
Rewritten(g, l, m) ==
  /\ m \in Seq(Toks) /\ Matching(l, m)
  /\ \A i \in Hidden(g, l) : m[i] = l[i]

LEMMA OneSaid ==
  ASSUME NEW t
  PROVE  Lead(<<t>>, TRUE)[1] = [t EXCEPT !.sp = TRUE]
<1>1. <<t>> # <<>> /\ DOMAIN <<t>> = {1} /\ <<t>>[1] = t
  OBVIOUS
<1>2. Lead(<<t>>, TRUE) = [<<t>> EXCEPT ![1].sp = TRUE]
  BY <1>1 DEF Lead
<1> QED BY <1>1, <1>2

LEMMA SaidAlike ==
  ASSUME NEW g, NEW l \in Seq(Toks), NEW m, Rewritten(g, l, m)
  PROVE  Said(g, m) = Said(g, l)
<1>1. PICK h : h = Hidden(g, l) /\ h = Hidden(g, m)
  BY SameHidden DEF Rewritten
<1>2. \A i \in h : m[i] = l[i]
  BY <1>1 DEF Rewritten
<1>3. Said(g, l) = [i \in h |-> IF i - 1 \in h THEN l[i] ELSE Lead(<<l[i]>>, TRUE)[1]]
  BY <1>1, Zenon DEF Said
<1>4. Said(g, m) = [i \in h |-> IF i - 1 \in h THEN m[i] ELSE Lead(<<m[i]>>, TRUE)[1]]
  BY <1>1, Zenon DEF Said
<1>5. \A i \in h : (IF i - 1 \in h THEN l[i] ELSE Lead(<<l[i]>>, TRUE)[1])
                     = (IF i - 1 \in h THEN m[i] ELSE Lead(<<m[i]>>, TRUE)[1])
  BY <1>2, Zenon
<1> QED BY <1>3, <1>4, <1>5

\* Some of the code of a line, another text instead of one of its own.
LEMMA RetextFacts ==
  ASSUME NEW l \in Seq(Toks), NEW i \in 1 .. Len(l), NEW v \in Unsigned, l[i].v \notin Signs
  PROVE  /\ Retext(l, i, v) \in Seq(Toks) /\ Matching(l, Retext(l, i, v))
         /\ Len(Retext(l, i, v)) = Len(l)
         /\ Retext(l, i, v)[i] = [l[i] EXCEPT !.v = v]
         /\ \A j \in (1 .. Len(l)) \ {i} : Retext(l, i, v)[j] = l[j]
         /\ Retext(Retext(l, i, v), i, l[i].v) = l
<1>1. PICK n \in Nat : n = Len(l) /\ DOMAIN l = 1 .. n /\ l \in [1 .. n -> Toks]
  BY LineShape
<1> DEFINE m == Retext(l, i, v)
<1>2. m = [l EXCEPT ![i] = [l[i] EXCEPT !.v = v]]
  BY <1>1 DEF Retext
<1>3. l[i] \in [k : Texts, v : Texts, n : Nat, sp : BOOLEAN]
  BY LineShape
<1>4. [l[i] EXCEPT !.v = v] \in Toks
  BY <1>3 DEF Toks, Unsigned
<1>5. m \in [1 .. n -> Toks]
  BY <1>1, <1>2, <1>4
<1>6. m \in Seq(Toks) /\ Len(m) = n
  <2>1. m \in Seq(Toks)
    BY <1>1, <1>5
  <2> QED BY <1>1, <1>5, <2>1, LenProperties
<1>7. m[i] = [l[i] EXCEPT !.v = v] /\ \A j \in (1 .. n) \ {i} : m[j] = l[j]
  BY <1>1, <1>2
<1>8. m[i].v = v /\ m[i].sp = l[i].sp
  BY <1>3, <1>7
<1>9. Matching(l, m)
  BY <1>1, <1>6, <1>7, <1>8 DEF Matching, Unsigned
<1>10. Retext(m, i, l[i].v) = l
  <2>1. Retext(m, i, l[i].v) = [m EXCEPT ![i] = [m[i] EXCEPT !.v = l[i].v]]
    BY <1>1, <1>5 DEF Retext
  <2>2. [m[i] EXCEPT !.v = l[i].v] = l[i]
    BY <1>3, <1>7
  <2>3. Retext(m, i, l[i].v) \in [1 .. n -> Toks]
    BY <1>1, <1>5, <2>1, <2>2
  <2>4. \A j \in 1 .. n : Retext(m, i, l[i].v)[j] = l[j]
    BY <1>1, <1>5, <1>7, <2>1, <2>2
  <2> QED BY <1>1, <2>3, <2>4
<1> QED BY <1>1, <1>6, <1>7, <1>9, <1>10

LEMMA RetextKeeps ==
  ASSUME NEW g, NEW l \in Seq(Toks), NEW i \in Code(g, l), NEW v \in Unsigned, l[i].v \notin Signs
  PROVE  Rewritten(g, l, Retext(l, i, v))
<1>1. i \in 1 .. Len(l) /\ i \notin Hidden(g, l)
  BY LineShape DEF Code
<1>2. Hidden(g, l) \in SUBSET (1 .. Len(l))
  BY LineShape, Zenon DEF Hidden
<1>3. /\ Retext(l, i, v) \in Seq(Toks) /\ Matching(l, Retext(l, i, v))
      /\ \A j \in (1 .. Len(l)) \ {i} : Retext(l, i, v)[j] = l[j]
  <2>1. PICK k \in 1 .. Len(l) : k = i
    BY <1>1
  <2>2. l[k].v \notin Signs
    BY <2>1
  <2>3. /\ Retext(l, k, v) \in Seq(Toks) /\ Matching(l, Retext(l, k, v))
        /\ Len(Retext(l, k, v)) = Len(l)
        /\ Retext(l, k, v)[k] = [l[k] EXCEPT !.v = v]
        /\ \A j \in (1 .. Len(l)) \ {k} : Retext(l, k, v)[j] = l[j]
        /\ Retext(Retext(l, k, v), k, l[k].v) = l
    BY <2>2, RetextFacts
  <2> QED BY <2>1, <2>3
<1>4. \A j \in Hidden(g, l) : j \in (1 .. Len(l)) \ {i}
  BY <1>1, <1>2
<1> QED BY <1>3, <1>4, Zenon DEF Rewritten

LEMMA OthersAre ==
  ASSUME NEW l, NEW I, NEW alts, NEW m
  PROVE  m \in Others(l, I, alts) <=>
           \E i \in I : \E a \in alts : a[1] = l[i].v /\ m = Retext(l, i, a[2])
BY DEF Others

\* The alternatives of a table of texts hide nothing, nor do the texts.
Harmless(alts) == \A a \in alts : a[1] \notin Signs /\ a[2] \in Unsigned

LEMMA OthersRewrite ==
  ASSUME NEW g, NEW l \in Seq(Toks), NEW I \in SUBSET Code(g, l), NEW alts, Harmless(alts),
         NEW m \in Others(l, I, alts)
  PROVE  Rewritten(g, l, m)
<1>1. PICK i \in I : \E a \in alts : a[1] = l[i].v /\ m = Retext(l, i, a[2])
  BY OthersAre
<1>2. PICK a \in alts : a[1] = l[i].v /\ m = Retext(l, i, a[2])
  BY <1>1
<1>3. PICK v : v = a[2] /\ v \in Unsigned /\ l[i].v \notin Signs
  BY <1>2 DEF Harmless
<1>4. Rewritten(g, l, Retext(l, i, v))
  BY <1>3, RetextKeeps
<1> QED BY <1>2, <1>3, <1>4

LEMMA BothFacts ==
  ASSUME NEW u \in Unsigned, NEW v \in Unsigned
  PROVE  Harmless(Both(u, v)) /\ \A a \in Both(u, v) : <<a[2], a[1]>> \in Both(u, v)
BY DEF Both, Harmless, Unsigned

LEMMA PlainTexts ==
  /\ {"<", "<=", ">", ">=", "==", "!=", "===", "!==", "=", "&&", "||", "and", "or"} \in SUBSET Unsigned
  /\ {"+", "-", "*", "/", "+=", "-=", "*=", "/=", "^", "&", "|", "..", "..="} \in SUBSET Unsigned
  /\ {"<<", ">>", "true", "false", "True", "False", "TRUE", "FALSE"} \in SUBSET Unsigned
  /\ {"-lt", "-le", "-gt", "-ge", "-eq", "-ne", "-z", "-n", "-a", "-o", "-f", "-e", "-d"} \in SUBSET Unsigned
  /\ {"min", "max", "floor", "ceil", "first", "last", "any", "all"} \in SUBSET Unsigned
  /\ {"starts_with", "ends_with", "break", "continue"} \in SUBSET Unsigned
<1>1. {"<", "<=", ">", ">=", "==", "!=", "===", "!==", "=", "&&", "||", "and", "or"} \in SUBSET Unsigned
  BY DEF Unsigned, Texts, Signs
<1>2. {"+", "-", "*", "/", "+=", "-=", "*=", "/=", "^", "&", "|", "..", "..="} \in SUBSET Unsigned
  BY DEF Unsigned, Texts, Signs
<1>3. {"<<", ">>", "true", "false", "True", "False", "TRUE", "FALSE"} \in SUBSET Unsigned
  BY DEF Unsigned, Texts, Signs
<1>4. {"-lt", "-le", "-gt", "-ge", "-eq", "-ne", "-z", "-n", "-a", "-o", "-f", "-e", "-d"} \in SUBSET Unsigned
  BY DEF Unsigned, Texts, Signs
<1>5. {"min", "max", "floor", "ceil", "first", "last", "any", "all"} \in SUBSET Unsigned
  BY DEF Unsigned, Texts, Signs
<1>6. {"starts_with", "ends_with", "break", "continue"} \in SUBSET Unsigned
  BY DEF Unsigned, Texts, Signs
<1> QED BY <1>1, <1>2, <1>3, <1>4, <1>5, <1>6

LEMMA HarmlessTables ==
  /\ Harmless(CompareAlts) /\ Harmless({<<"=", "==">>}) /\ Harmless(Both("&&", "||"))
  /\ Harmless(Both("and", "or")) /\ Harmless(SumAlts) /\ Harmless(AssignAlts)
  /\ Harmless({a \in Bits \X Bits : a[1] # a[2]}) /\ Harmless(TestAlts)
  /\ Harmless(Both("=", "!=")) /\ Harmless(PairAlts) /\ Harmless(FlowAlts)
<1>1. \A S : (\A alts \in S : Harmless(alts)) => Harmless(UNION S)
  BY DEF Harmless
<1>2. \A a, b : Harmless(a) /\ Harmless(b) => Harmless(a \cup b)
  BY DEF Harmless
<1>3. Harmless(CompareAlts)
  <2>1. /\ Harmless(Both("<", "<=")) /\ Harmless(Both("<", ">")) /\ Harmless(Both("<=", ">="))
        /\ Harmless(Both(">", ">=")) /\ Harmless(Both("==", "!=")) /\ Harmless(Both("===", "!=="))
    BY BothFacts, PlainTexts
  <2> QED BY <1>1, <2>1, Zenon DEF CompareAlts
<1>4. Harmless({<<"=", "==">>}) /\ Harmless(Both("&&", "||")) /\ Harmless(Both("and", "or"))
        /\ Harmless(Both("=", "!="))
  <2>1. {<<"=", "==">>} \in SUBSET Both("=", "==")
    BY DEF Both
  <2>2. Harmless(Both("=", "=="))
    BY BothFacts, PlainTexts
  <2>3. Harmless({<<"=", "==">>})
    BY <2>1, <2>2 DEF Harmless
  <2> QED BY <2>3, BothFacts, PlainTexts
<1>5. Harmless(SumAlts)
  <2>1. Harmless(Both("+", "-")) /\ Harmless(Both("+", "*")) /\ Harmless(Both("*", "/"))
    BY BothFacts, PlainTexts
  <2> QED BY <1>1, <2>1, Zenon DEF SumAlts
<1>6. Harmless(AssignAlts)
  BY <1>2, BothFacts, PlainTexts DEF AssignAlts
<1>7. Harmless({a \in Bits \X Bits : a[1] # a[2]})
  <2>1. Bits \in SUBSET Unsigned
    BY PlainTexts DEF Bits
  <2> QED BY <2>1 DEF Harmless, Unsigned
<1>8. Harmless(TestAlts)
  <2>1. /\ Harmless(Both("-lt", "-le")) /\ Harmless(Both("-lt", "-gt")) /\ Harmless(Both("-le", "-ge"))
        /\ Harmless(Both("-gt", "-ge")) /\ Harmless(Both("-eq", "-ne")) /\ Harmless(Both("-z", "-n"))
        /\ Harmless(Both("-a", "-o")) /\ Harmless(Both("-f", "-e")) /\ Harmless(Both("-f", "-d"))
        /\ Harmless(Both("-d", "-e"))
    BY BothFacts, PlainTexts
  <2>2. Harmless({<<"-f", "-e">>, <<"-f", "-d">>, <<"-d", "-e">>})
    BY <2>1 DEF Harmless, Both
  <2> QED BY <1>1, <2>1, <2>2, Zenon DEF TestAlts
<1>9. Harmless(PairAlts)
  <2>1. /\ Harmless(Both("min", "max")) /\ Harmless(Both("floor", "ceil")) /\ Harmless(Both("any", "all"))
        /\ Harmless(Both("first", "last")) /\ Harmless(Both("starts_with", "ends_with"))
    BY BothFacts, PlainTexts
  <2> QED BY <1>1, <2>1, Zenon DEF PairAlts
<1>10. Harmless(FlowAlts)
  BY BothFacts, PlainTexts DEF FlowAlts
<1> QED BY <1>3, <1>4, <1>5, <1>6, <1>7, <1>8, <1>9, <1>10

LEMMA RenamedShape ==
  ASSUME NEW l \in Seq(Toks), NEW I, NEW a \in Unsigned, NEW b \in Unsigned
  PROVE  /\ Renamed(l, I, a, b) \in Seq(Toks) /\ Matching(l, Renamed(l, I, a, b))
         /\ \A i \in 1 .. Len(l) : i \notin I => Renamed(l, I, a, b)[i] = l[i]
<1>1. PICK n \in Nat : n = Len(l) /\ DOMAIN l = 1 .. n /\ l \in [1 .. n -> Toks]
  BY LineShape
<1>2. PICK m : m = Renamed(l, I, a, b)
  OBVIOUS
<1>3. m = [i \in 1 .. n |-> IF i \in I /\ l[i].v = a THEN [l[i] EXCEPT !.v = b]
                            ELSE IF i \in I /\ l[i].v = b THEN [l[i] EXCEPT !.v = a] ELSE l[i]]
  BY <1>1, <1>2, Zenon DEF Renamed
<1>4. ASSUME NEW i \in 1 .. n
      PROVE  /\ m[i] \in Toks /\ m[i].sp = l[i].sp
             /\ m[i].v = l[i].v \/ (l[i].v \notin Signs /\ m[i].v \notin Signs)
             /\ i \notin I => m[i] = l[i]
  <2>1. l[i] \in [k : Texts, v : Texts, n : Nat, sp : BOOLEAN] /\ (l[i].k = "word" => l[i].v \notin Signs)
    BY <1>1, LineShape
  <2>2. \A t \in Unsigned : /\ [l[i] EXCEPT !.v = t] \in Toks /\ [l[i] EXCEPT !.v = t].sp = l[i].sp
                         /\ [l[i] EXCEPT !.v = t].v = t
    BY <2>1 DEF Toks, Unsigned
  <2>3. l[i] \in Toks
    BY <1>1
  <2>4. CASE i \in I /\ l[i].v = a
    <3>1. m[i] = [l[i] EXCEPT !.v = b]
      BY <1>3, <2>4
    <3> QED BY <2>2, <2>4, <3>1 DEF Unsigned
  <2>5. CASE i \in I /\ l[i].v # a /\ l[i].v = b
    <3>1. m[i] = [l[i] EXCEPT !.v = a]
      BY <1>3, <2>5
    <3> QED BY <2>2, <2>5, <3>1 DEF Unsigned
  <2>6. CASE ~(i \in I /\ l[i].v \in {a, b})
    <3>1. m[i] = l[i]
      BY <1>3, <2>6
    <3> QED BY <2>3, <3>1
  <2> QED BY <2>4, <2>5, <2>6
<1>5. m \in Seq(Toks) /\ Len(m) = n
  <2>1. m \in [1 .. n -> Toks]
    BY <1>3, <1>4
  <2>2. m \in Seq(Toks)
    BY <1>1, <2>1
  <2> QED BY <1>1, <2>1, <2>2, LenProperties
<1>6. Matching(l, m)
  BY <1>1, <1>4, <1>5 DEF Matching
<1> QED BY <1>1, <1>2, <1>4, <1>5, <1>6

LEMMA RenamedKeeps ==
  ASSUME NEW g, NEW l \in Seq(Toks), NEW I, I \cap Hidden(g, l) = {}, NEW a \in Unsigned, NEW b \in Unsigned
  PROVE  Rewritten(g, l, Renamed(l, I, a, b))
<1>1. \A i \in Hidden(g, l) : i \in 1 .. Len(l) /\ i \notin I
  BY LineShape DEF Hidden
<1>2. PICK m : m = Renamed(l, I, a, b)
  OBVIOUS
<1>3. m \in Seq(Toks) /\ Matching(l, m) /\ \A i \in 1 .. Len(l) : i \notin I => m[i] = l[i]
  BY <1>2, RenamedShape
<1> QED BY <1>1, <1>2, <1>3 DEF Rewritten

\* The classes that write another text in the place of a token, or of several.
Replacing == {"comparison", "logic", "arithmetic", "shell-test", "api-swap", "ident-swap"}

LEMMA ReplacingKeeps ==
  ASSUME NEW g, NEW l \in Seq(Toks), NEW closes, NEW class \in Replacing,
         NEW m \in EditsOf(class, g, l, closes)
  PROVE  Rewritten(g, l, m)
<1> DEFINE c == Code(g, l)
<1>0. \A alts : \A I \in SUBSET c : Harmless(alts) /\ m \in Others(l, I, alts) => Rewritten(g, l, m)
  BY OthersRewrite
<1> HIDE DEF c
<1>1. CASE class = "comparison"
  <2>1. m \in Comparison(g, l, c)
    BY <1>1 DEF EditsOf, c
  <2>2. m \in Others(l, {i \in c : Compares(g, l, i)}, CompareAlts) \/ m \in Others(l, c, {<<"=", "==">>})
    BY <2>1 DEF Comparison
  <2> QED BY <1>0, <2>2, HarmlessTables
<1>2. CASE class = "logic"
  <2>1. m \in Logic(g, l, c)
    BY <1>2 DEF EditsOf, c
  <2>2. m \in Others(l, c, Both("&&", "||")) \/ m \in Others(l, c, Both("and", "or"))
    BY <2>1 DEF Logic
  <2> QED BY <1>0, <2>2, HarmlessTables
<1>3. CASE class = "arithmetic"
  <2>1. m \in Arithmetic(g, l, c) \/ m \in Bitwise(g, l, c)
    BY <1>3 DEF EditsOf, c
  <2>2. CASE m \in Arithmetic(g, l, c)
    <3>1. m \in Others(l, {i \in c : Binary(l, i)}, SumAlts) \/ m \in Others(l, c, AssignAlts)
      BY <2>2 DEF Arithmetic
    <3> QED BY <1>0, <3>1, HarmlessTables
  <2>3. CASE m \in Bitwise(g, l, c)
    <3>1. PICK I \in SUBSET c : m \in Others(l, I, {a \in Bits \X Bits : a[1] # a[2]})
      BY <2>3 DEF Bitwise
    <3> QED BY <1>0, <3>1, HarmlessTables
  <2> QED BY <2>1, <2>2, <2>3
<1>4. CASE class = "shell-test"
  <2>1. m \in ShellTest(g, l, c)
    BY <1>4 DEF EditsOf, c
  <2>2. \/ m \in Others(l, {i \in c : l[i].sp /\ (TokAt(l, i + 1).sp \/ Is(l, i + 1, {"]"}))}, TestAlts)
        \/ m \in Others(l, {i \in c : Spaced(l, i)}, Both("=", "!="))
    BY <2>1 DEF ShellTest
  <2> QED BY <1>0, <2>2, HarmlessTables
<1>5. CASE class = "api-swap"
  <2>1. m \in ApiSwap(g, l, c)
    BY <1>5 DEF EditsOf, c
  <2>2. m \in Others(l, {i \in c : Is(l, i + 1, {"("})}, PairAlts) \/ m \in Others(l, c, FlowAlts)
    BY <2>1 DEF ApiSwap
  <2> QED BY <1>0, <2>2, HarmlessTables
<1>6. CASE class = "ident-swap"
  <2>1. m \in IdentSwap(g, l, c)
    BY <1>6 DEF EditsOf, c
  <2> DEFINE Named == {l[i].v : i \in FirstOf(l, NamesOf(l, c))}
  <2>2. PICK p \in Named \X Named : m = Renamed(l, NamesOf(l, c), p[1], p[2])
    BY <2>1 DEF IdentSwap
  <2>3. \A i \in NamesOf(l, c) : i \in 1 .. Len(l) /\ l[i].k = "word" /\ i \notin Hidden(g, l)
    BY LineShape DEF NamesOf, Code, c
  <2>4. \A i \in NamesOf(l, c) : l[i].v \in Unsigned
    BY <2>3, LineShape DEF Unsigned
  <2>5. p[1] \in Unsigned /\ p[2] \in Unsigned
    BY <2>2, <2>4 DEF FirstOf
  <2>6. NamesOf(l, c) \cap Hidden(g, l) = {}
    BY <2>3
  <2> QED BY <2>2, <2>5, <2>6, RenamedKeeps
<1> QED BY <1>1, <1>2, <1>3, <1>4, <1>5, <1>6 DEF Replacing

\* A line with one token rewritten, in kind, number or text, and everything else as it was.
OneChanged(g, l, f, i) ==
  /\ Rewritten(g, l, f) /\ Code(g, f) = Code(g, l) /\ i \in Code(g, l) /\ i \in 1 .. Len(l)
  /\ Len(f) = Len(l) /\ f[i].sp = l[i].sp /\ f[i].k = l[i].k
  /\ \A j \in Int : j # i => TokAt(f, j) = TokAt(l, j)

LEMMA ChangedAt ==
  ASSUME NEW g, NEW l \in Seq(Toks), NEW f, f # l, NEW i, OneChanged(g, l, f, i)
  PROVE  FirstChange(f, l) = i /\ f[i] # l[i]
<1>1. PICK n \in Nat : /\ n = Len(l) /\ n = Len(f) /\ DOMAIN l = 1 .. n /\ DOMAIN f = 1 .. n
                       /\ l \in [1 .. n -> Toks] /\ f \in [1 .. n -> Toks]
  BY LineShape DEF OneChanged, Rewritten
<1>2. ASSUME NEW j \in 1 .. n, j # i PROVE f[j] = l[j]
  <2>1. j \in Int /\ j \in DOMAIN l /\ j \in DOMAIN f
    BY <1>1
  <2>2. TokAt(f, j) = TokAt(l, j)
    BY <1>2, <2>1 DEF OneChanged
  <2> QED BY <2>1, <2>2 DEF TokAt
<1>3. i \in 1 .. n /\ f[i] # l[i]
  BY <1>1, <1>2 DEF OneChanged
<1>4. {j \in DOMAIN l : j \notin DOMAIN f \/ f[j] # l[j]} = {i}
  BY <1>1, <1>2, <1>3
<1>5. FirstChange(f, l) = Min({i})
  BY <1>4 DEF FirstChange
<1>6. Min({i}) = i
  BY <1>3 DEF Min
<1> QED BY <1>3, <1>5, <1>6

\* f is l with the token i turned into another text of the table, as it can be turned back.
Turned(g, l, f, i, alts) ==
  /\ OneChanged(g, l, f, i)
  /\ \E a \in alts : a[1] = l[i].v /\ a[2] = f[i].v
  /\ \A J, back : (i \in J /\ <<f[i].v, l[i].v>> \in back) => l \in Others(f, J, back)

\* What was turned into another text can be turned back.
LEMMA TurnedBack ==
  ASSUME NEW g, NEW l \in Seq(Toks), NEW I \in SUBSET Code(g, l), NEW alts, Harmless(alts),
         NEW f \in Others(l, I, alts)
  PROVE  \E i \in I : Turned(g, l, f, i, alts)
<1>1. PICK i \in I : \E a \in alts : a[1] = l[i].v /\ f = Retext(l, i, a[2])
  BY OthersAre
<1>2. PICK a \in alts : a[1] = l[i].v /\ f = Retext(l, i, a[2])
  BY <1>1
<1>3. PICK v : v = a[2] /\ v \in Unsigned /\ l[i].v \notin Signs
  BY <1>2 DEF Harmless
<1>4. PICK k \in 1 .. Len(l) : k = i /\ k \in Code(g, l)
  BY LineShape DEF Code
<1>5. /\ f \in Seq(Toks) /\ Len(f) = Len(l) /\ f[i] = [l[i] EXCEPT !.v = v]
      /\ \A j \in (1 .. Len(l)) \ {i} : f[j] = l[j]
      /\ Retext(f, i, l[i].v) = l
  <2>1. l[k].v \notin Signs
    BY <1>3, <1>4
  <2>2. /\ Retext(l, k, v) \in Seq(Toks) /\ Matching(l, Retext(l, k, v))
        /\ Len(Retext(l, k, v)) = Len(l)
        /\ Retext(l, k, v)[k] = [l[k] EXCEPT !.v = v]
        /\ \A j \in (1 .. Len(l)) \ {k} : Retext(l, k, v)[j] = l[j]
        /\ Retext(Retext(l, k, v), k, l[k].v) = l
    BY <1>3, <2>1, RetextFacts
  <2> QED BY <1>2, <1>3, <1>4, <2>2
<1>6. l[i] \in [k : Texts, v : Texts, n : Nat, sp : BOOLEAN]
  BY <1>4, LineShape
<1>7. f[i].v = v /\ f[i].sp = l[i].sp /\ f[i].k = l[i].k
  BY <1>5, <1>6
<1>8. Rewritten(g, l, f)
  BY <1>2, <1>3, RetextKeeps
<1>9. Code(g, f) = Code(g, l)
  BY <1>5, <1>8, SameHidden DEF Rewritten
<1>10. \A j \in Int : j # i => TokAt(f, j) = TokAt(l, j)
  <2>1. DOMAIN f = 1 .. Len(l) /\ DOMAIN l = 1 .. Len(l)
    BY <1>5, LineShape
  <2> QED BY <1>5, <2>1 DEF TokAt
<1>11. OneChanged(g, l, f, i)
  BY <1>4, <1>5, <1>7, <1>8, <1>9, <1>10 DEF OneChanged
<1>12. ASSUME NEW J, NEW back, i \in J, <<f[i].v, l[i].v>> \in back
       PROVE  l \in Others(f, J, back)
  <2>1. PICK b \in back : b = <<f[i].v, l[i].v>>
    BY <1>12
  <2>2. b[1] = f[i].v /\ b[2] = l[i].v
    BY <2>1
  <2>3. l = Retext(f, i, b[2])
    BY <1>5, <2>2
  <2> QED BY <1>12, <2>2, <2>3, OthersAre
<1>13. Turned(g, l, f, i, alts)
  BY <1>2, <1>3, <1>7, <1>11, <1>12 DEF Turned
<1> QED BY <1>13

\* Tokens nearby are the same.
LEMMA NearbySame ==
  ASSUME NEW g, NEW l \in Seq(Toks), NEW f, NEW i, OneChanged(g, l, f, i)
  PROVE  /\ i \in Int /\ f \in Seq(Toks)
         /\ \A S : \A j \in Int : j # i => (Is(f, j, S) <=> Is(l, j, S))
         /\ \A j \in Int : Joined(f, j) <=> Joined(l, j)
         /\ Binary(f, i) <=> Binary(l, i)
         /\ Spaced(f, i) <=> Spaced(l, i)
<1>1. i \in 1 .. Len(l) /\ Len(l) \in Nat /\ i \in Int
  BY LineShape DEF OneChanged
<1>2. f \in Seq(Toks) /\ Matching(l, f)
  BY DEF OneChanged, Rewritten
<1>3. \A S : \A j \in Int : j # i => (Is(f, j, S) <=> Is(l, j, S))
  BY DEF OneChanged, Is
<1>4. \A j \in Int : Joined(f, j) <=> Joined(l, j)
  BY <1>2, SameSigns
<1>5. Spaced(f, i) <=> Spaced(l, i)
  BY <1>1, <1>2, SameSigns
<1>6. Binary(f, i) <=> Binary(l, i)
  <2>1. i - 1 \in Int /\ i - 1 # i
    BY <1>1
  <2>2. TokAt(f, i - 1) = TokAt(l, i - 1)
    BY <2>1 DEF OneChanged
  <2> QED BY <2>2 DEF Binary, Ident, Word, Is
<1> QED BY <1>1, <1>2, <1>3, <1>4, <1>5, <1>6

\* What a line is put together from.
LEMMA IsThere ==
  ASSUME NEW l \in Seq(Toks), NEW i, NEW S, "" \notin S, Is(l, i, S)
  PROVE  i \in 1 .. Len(l) /\ l[i].v \in S
<1>1. DOMAIN l = 1 .. Len(l)
  BY LineShape
<1>2. CASE i \in DOMAIN l
  BY <1>1, <1>2 DEF Is, TokAt
<1>3. CASE i \notin DOMAIN l
  BY <1>3 DEF Is, TokAt, Tok
<1> QED BY <1>2, <1>3

LEMMA CutShape ==
  ASSUME NEW l \in Seq(Toks), NEW a \in Int, NEW b \in Int, 1 <= a, b <= Len(l)
  PROVE  Cut(l, a, b) \in Seq(Toks)
<1>1. Len(l) \in Nat /\ l \in [1 .. Len(l) -> Toks]
  BY LineShape
<1>2. \A j \in a .. b : l[j] \in Toks
  <2>1. \A j \in a .. b : j \in 1 .. Len(l)
    BY <1>1
  <2> QED BY <1>1, <2>1
<1>3. SubSeq(l, a, b) \in Seq(Toks)
  BY <1>2, SubSeqProperties
<1> QED BY <1>3 DEF Cut

LEMMA EndsShape ==
  ASSUME NEW l \in Seq(Toks), NEW i \in 1 .. Len(l)
  PROVE  Upto(l, i) \in Seq(Toks) /\ Behind(l, i) \in Seq(Toks)
<1>1. Len(l) \in Nat /\ i - 1 \in Int /\ i + 1 \in Int /\ 1 <= i + 1 /\ i - 1 <= Len(l)
  BY LineShape
<1> QED BY <1>1, CutShape DEF Upto, Behind, Cut

LEMMA LeadShape ==
  ASSUME NEW s \in Seq(Toks), NEW sp \in BOOLEAN
  PROVE  Lead(s, sp) \in Seq(Toks)
<1>1. CASE s = <<>>
  BY <1>1 DEF Lead
<1>2. CASE s # <<>>
  <2>1. PICK n \in Nat : n = Len(s) /\ DOMAIN s = 1 .. n /\ s \in [1 .. n -> Toks]
    BY LineShape
  <2>2. n >= 1
    BY <1>2, <2>1, EmptySeq
  <2>3. s[1] \in [k : Texts, v : Texts, n : Nat, sp : BOOLEAN] /\ (s[1].k = "word" => s[1].v \notin Signs)
    BY <2>1, <2>2, LineShape
  <2>4. [s[1] EXCEPT !.sp = sp] \in Toks
    BY <2>3 DEF Toks
  <2>5. Lead(s, sp) = [s EXCEPT ![1] = [s[1] EXCEPT !.sp = sp]]
    BY <1>2, <2>1, <2>2 DEF Lead
  <2>6. Lead(s, sp) \in [1 .. n -> Toks]
    BY <2>1, <2>4, <2>5
  <2> QED BY <2>1, <2>6
<1> QED BY <1>1, <1>2

LEMMA OpShape ==
  ASSUME NEW v \in Unsigned \cup {"!", "(", ")", ",", ";", ""}, NEW sp \in BOOLEAN
  PROVE  Op(v, sp) \in Toks
<1>1. "op" \in Texts /\ {"!", "(", ")", ",", ";", ""} \in SUBSET Texts
  <2>1. "op" \in Texts
    BY DEF Texts
  <2>2. "!" \in Texts /\ "(" \in Texts /\ ")" \in Texts
    BY ZenonT(60) DEF Texts
  <2>3. "," \in Texts /\ ";" \in Texts /\ "" \in Texts
    BY ZenonT(60) DEF Texts
  <2> QED BY <2>1, <2>2, <2>3
<1>2. v \in Texts
  BY <1>1 DEF Unsigned
<1> QED BY <1>1, <1>2 DEF Op, Tok, Toks

LEMMA OneShape == PlusOne \in Seq(Toks) /\ MinusOne \in Seq(Toks)
<1>1. Op("+", TRUE) \in Toks /\ Op("-", TRUE) \in Toks
  BY OpShape, PlainTexts
<1>2. "int" \in Texts /\ "" \in Texts
  BY DEF Texts
<1>3. Tok("int", "", 1, TRUE) \in Toks
  BY <1>2 DEF Tok, Toks
<1>4. \A x \in Toks, y \in Toks : <<x, y>> \in Seq(Toks)
  OBVIOUS
<1> QED BY <1>1, <1>3, <1>4, Zenon DEF PlusOne, MinusOne

LEMMA JoinShape ==
  ASSUME NEW s \in Seq(Toks), NEW t \in Seq(Toks)
  PROVE  s \o t \in Seq(Toks)
BY ConcatProperties

LEMMA MatchThere ==
  ASSUME NEW l \in Seq(Toks), NEW c \in SUBSET (1 .. Len(l)), NEW i \in Int, Match(l, c, i) # 0
  PROVE  Match(l, c, i) \in c /\ Match(l, c, i) \in i .. Len(l)
<1> DEFINE ends == {j \in c \cap (i .. Len(l)) : Is(l, j, Closes) /\ Depth(l, c, i, j) = 0}
<1>1. Len(l) \in Nat
  BY LineShape
<1>2. ends # {} /\ Match(l, c, i) = Min(ends)
  BY DEF Match
<1>3. ends \in SUBSET Nat /\ ends \in SUBSET c /\ ends \in SUBSET (i .. Len(l))
  BY <1>1
<1> HIDE DEF ends
<1>4. PICK x \in ends : \A y \in ends : x <= y
  BY <1>2, <1>3, LeastNat
<1>5. Min(ends) \in ends
  BY <1>4, Zenon DEF Min
<1> QED BY <1>2, <1>3, <1>5

LEMMA CodeThere ==
  ASSUME NEW g, NEW l \in Seq(Toks)
  PROVE  Code(g, l) \in SUBSET (1 .. Len(l))
BY LineShape DEF Code

\* The places of a line a fault of each kind may take.
LEMMA SitesOf ==
  ASSUME NEW l, NEW f \in Sites(l)
  PROVE  \E c, spaced :
    /\ c = Code("rust", l) /\ spaced = {i \in c : Spaced(l, i)}
    /\ \/ f.kind = "cmp" /\ f.text \in Others(l, spaced, CompareAlts)
       \/ f.kind = "logic" /\ f.text \in Others(l, spaced, Both("&&", "||"))
       \/ f.kind = "arith" /\ f.text \in Others(l, spaced, SumAlts) \cup Others(l, spaced, SeedAssign)
       \/ f.kind = "range" /\ f.text \in Others(l, c, Both("..", "..="))
       \/ f.kind = "shift" /\ f.text \in Others(l, spaced, Both("<<", ">>"))
       \/ f.kind = "const" /\ f.text \in SeedConst(l, c)
       \/ f.kind = "bool" /\ f.text \in Others(l, c, Both("true", "false"))
       \/ f.kind = "neg" /\ f.text \in SeedNegation(l, c)
       \/ f.kind = "offbyone" /\ f.text \in SeedLength(l, c)
       \/ f.kind = "minmax" /\ f.text \in SeedPairs(l, c)
       \/ f.kind = "flow" /\ f.text \in Others(l, c, FlowAlts)
       \/ f.kind = "idswap" /\ f.text \in SeedNames(l, c)
       \/ f.kind = "argswap" /\ f.text \in SeedArgs(l, c)
<1>1. \A kind, texts : f \in Kind(kind, texts) => f.kind = kind /\ f.text \in texts
  BY DEF Kind
<1> QED BY <1>1 DEF Sites

LEMMA SeedTables ==
  /\ Harmless(Both("..", "..=")) /\ Harmless(Both("<<", ">>")) /\ Harmless(Both("true", "false"))
  /\ Harmless(Both("min", "max")) /\ Harmless(Both("floor", "ceil")) /\ Harmless(SeedAssign)
<1>1. Harmless(SeedAssign)
  <2>1. Harmless(Both("+=", "-=")) /\ Harmless(Both("+=", "=")) /\ Harmless(Both("*=", "/="))
    BY BothFacts, PlainTexts
  <2> QED BY <2>1 DEF Harmless, SeedAssign, Both
<1> QED BY <1>1, BothFacts, PlainTexts

\* A literal with another number.
LEMMA NumberFacts ==
  ASSUME NEW g, NEW l \in Seq(Toks), NEW i \in Code(g, l), NEW m \in Nat
  PROVE  /\ OneChanged(g, l, [l EXCEPT ![i].n = m], i)
         /\ [l EXCEPT ![i].n = m][i].n = m
         /\ [[l EXCEPT ![i].n = m] EXCEPT ![i].n = l[i].n] = l
<1>1. PICK n \in Nat : n = Len(l) /\ DOMAIN l = 1 .. n /\ l \in [1 .. n -> Toks]
  BY LineShape
<1>2. PICK f : f = [l EXCEPT ![i].n = m]
  OBVIOUS
<1>3. i \in 1 .. n /\ i \notin Hidden(g, l) /\ Hidden(g, l) \in SUBSET (1 .. n)
  BY <1>1 DEF Code, Hidden
<1>4. /\ l[i] \in [k : Texts, v : Texts, n : Nat, sp : BOOLEAN]
      /\ l[i].k = "word" => l[i].v \notin Signs
  BY <1>1, <1>3, LineShape
<1>5. PICK t : t = [l[i] EXCEPT !.n = m]
  OBVIOUS
<1>6. t \in Toks /\ t.n = m /\ t.k = l[i].k /\ t.v = l[i].v /\ t.sp = l[i].sp /\ [t EXCEPT !.n = l[i].n] = l[i]
  BY <1>4, <1>5 DEF Toks
<1>7. f = [l EXCEPT ![i] = t]
  BY <1>1, <1>2, <1>3, <1>5
<1>8. f \in [1 .. n -> Toks] /\ f[i] = t /\ \A j \in (1 .. n) \ {i} : f[j] = l[j]
  BY <1>1, <1>3, <1>6, <1>7
<1>9. f \in Seq(Toks) /\ Len(f) = n /\ DOMAIN f = 1 .. n
  <2>1. f \in Seq(Toks)
    BY <1>1, <1>8
  <2> QED BY <1>1, <1>8, <2>1, LenProperties
<1>10. \A j \in 1 .. n : f[j].v = l[j].v /\ f[j].sp = l[j].sp
  BY <1>3, <1>6, <1>8
<1>11. Matching(l, f)
  BY <1>1, <1>9, <1>10 DEF Matching
<1>12. Rewritten(g, l, f)
  BY <1>3, <1>8, <1>9, <1>11 DEF Rewritten
<1>13. Code(g, f) = Code(g, l)
  BY <1>9, <1>11, SameHidden
<1>14. \A j \in Int : j # i => TokAt(f, j) = TokAt(l, j)
  BY <1>1, <1>8, <1>9 DEF TokAt
<1>15. OneChanged(g, l, f, i)
  BY <1>1, <1>3, <1>6, <1>8, <1>9, <1>12, <1>13, <1>14 DEF OneChanged
<1>16. [f EXCEPT ![i].n = l[i].n] = l
  <2>1. [f EXCEPT ![i].n = l[i].n] = [f EXCEPT ![i] = [t EXCEPT !.n = l[i].n]]
    BY <1>8, <1>9
  <2>2. [f EXCEPT ![i] = l[i]] \in [1 .. n -> Toks] /\ \A j \in 1 .. n : [f EXCEPT ![i] = l[i]][j] = l[j]
    BY <1>1, <1>3, <1>8
  <2>3. [f EXCEPT ![i] = l[i]] = l
    BY <1>1, <2>2
  <2> QED BY <1>6, <2>1, <2>3, Zenon
<1> QED BY <1>2, <1>6, <1>8, <1>15, <1>16, Zenon

LEMMA ConstShape ==
  ASSUME NEW l \in Seq(Toks), NEW f \in SeedConst(l, Code("rust", l))
  PROVE  \E i \in Literals(l, Code("rust", l)), m \in Nat : f = [l EXCEPT ![i].n = m]
<1>1. PICK i \in Literals(l, Code("rust", l)) :
        \E m \in {l[i].n + 1} \cup (IF l[i].n >= 1 THEN {l[i].n - 1} ELSE {})
                   \cup (IF l[i].n \in 1 .. 64 THEN {2 * l[i].n} ELSE {}) : f = [l EXCEPT ![i].n = m]
  BY ZenonT(60) DEF SeedConst
<1>2. i \in 1 .. Len(l)
  BY CodeThere DEF Literals
<1>3. PICK n \in Nat : n = l[i].n
  BY <1>2, LineShape
<1>4. PICK m \in {n + 1} \cup (IF n >= 1 THEN {n - 1} ELSE {}) \cup (IF n \in 1 .. 64 THEN {2 * n} ELSE {}) :
        f = [l EXCEPT ![i].n = m]
  BY <1>1, <1>3
<1>5. m \in Nat
  BY <1>4
<1> QED BY <1>4, <1>5

LEMMA NegationShape ==
  ASSUME NEW l \in Seq(Toks), NEW f \in SeedNegation(l, Code("rust", l))
  PROVE  f \in Seq(Toks)
<1> DEFINE first == IF Is(l, 1, {"if"}) THEN 1
                    ELSE IF Is(l, 1, {"}"}) /\ Is(l, 2, {"else"}) /\ Is(l, 3, {"if"}) THEN 3 ELSE 0
           cond == Cut(l, first + 1, Len(l) - 1)
           wrapped == Cut(l, 1, first) \o <<Op("!", TRUE), Op("(", FALSE)>> \o Lead(cond, FALSE)
                        \o <<Op(")", FALSE), l[Len(l)]>>
<1>1. Len(l) \in Nat /\ \A j \in 1 .. Len(l) : l[j] \in Toks /\ l[j].sp \in BOOLEAN
  <2>1. \A j \in 1 .. Len(l) : l[j] \in Toks
    BY LineShape
  <2> QED BY <2>1, LineShape
<1>2. \/ \E i \in Code("rust", l) : f = Upto(l, i) \o Lead(Behind(l, i), l[i].sp)
      \/ first # 0 /\ Is(l, Len(l), {"{"}) /\ f = wrapped
  BY Zenon DEF SeedNegation
<1>3. CASE \E i \in Code("rust", l) : f = Upto(l, i) \o Lead(Behind(l, i), l[i].sp)
  <2>1. PICK i \in 1 .. Len(l) : f = Upto(l, i) \o Lead(Behind(l, i), l[i].sp)
    BY <1>3, CodeThere
  <2>2. l[i].sp \in BOOLEAN
    BY <1>1
  <2> QED BY <2>1, <2>2, EndsShape, LeadShape, JoinShape
<1>4. CASE first # 0 /\ Is(l, Len(l), {"{"}) /\ f = wrapped
  <2>1. first \in 1 .. Len(l)
    BY <1>4, IsThere
  <2>2. Len(l) \in 1 .. Len(l)
    BY <1>4, IsThere
  <2> HIDE DEF first
  <2>3. first + 1 \in Int /\ 1 <= first + 1 /\ Len(l) - 1 \in Int /\ Len(l) - 1 <= Len(l)
    BY <1>1, <2>1
  <2>4. Cut(l, 1, first) \in Seq(Toks)
    BY <1>1, <2>1, CutShape
  <2>5. cond \in Seq(Toks)
    BY <2>3, CutShape
  <2>6. Lead(cond, FALSE) \in Seq(Toks)
    BY <2>5, LeadShape
  <2>7. Op("!", TRUE) \in Toks /\ Op("(", FALSE) \in Toks /\ Op(")", FALSE) \in Toks /\ l[Len(l)] \in Toks
    BY <1>1, <2>2, OpShape
  <2>8. \A x \in Toks, y \in Toks : <<x, y>> \in Seq(Toks)
    OBVIOUS
  <2> HIDE DEF cond
  <2> QED BY <1>4, <2>4, <2>6, <2>7, <2>8, JoinShape
<1> QED BY <1>2, <1>3, <1>4

LEMMA LengthShape ==
  ASSUME NEW l \in Seq(Toks), NEW f \in SeedLength(l, Code("rust", l))
  PROVE  f \in Seq(Toks)
<1>1. PICK i \in Code("rust", l), one \in {PlusOne, MinusOne} :
        Is(l, i + 2, {")"}) /\ f = Cut(l, 1, i + 2) \o one \o Behind(l, i + 2)
  BY SMTT(60) DEF SeedLength
<1>2. PICK e \in 1 .. Len(l) : e = i + 2
  BY <1>1, IsThere
<1>3. Len(l) \in Nat
  BY LineShape
<1>4. Cut(l, 1, e) \in Seq(Toks) /\ Behind(l, e) \in Seq(Toks) /\ one \in Seq(Toks)
  BY <1>3, CutShape, EndsShape, OneShape
<1> QED BY <1>1, <1>2, <1>4, JoinShape

LEMMA NamesShape ==
  ASSUME NEW l \in Seq(Toks), NEW f \in SeedNames(l, Code("rust", l))
  PROVE  f \in Seq(Toks)
<1> DEFINE I == {i \in Code("rust", l) : l[i].k = "word" /\ l[i].v \notin RustKeywords /\ ~Is(l, i - 1, {"::"})}
           two == {i \in FirstOf(l, I) : Cardinality({k \in FirstOf(l, I) : k < i}) < 2}
<1>1. f = Renamed(l, DOMAIN l, l[Min(two)].v, l[Max(two)].v) /\ ~(Cardinality(two) < 2)
  BY DEF SeedNames
<1>2. two \in SUBSET I
  BY DEF FirstOf
<1>3. I \in SUBSET (1 .. Len(l)) /\ \A i \in I : l[i].k = "word"
  BY CodeThere
<1>4. \A i \in I : l[i].v \in Unsigned
  BY <1>3, LineShape DEF Unsigned
<1> HIDE DEF two, I
<1>5. two # {}
  BY <1>1, FS_EmptySet, SMTT(60)
<1>6. two \in SUBSET Nat /\ Len(l) \in Nat /\ \A y \in two : y <= Len(l)
  BY <1>2, <1>3, LineShape
<1>7. Min(two) \in two
  <2>1. PICK x \in two : \A y \in two : x <= y
    BY <1>5, <1>6, LeastNat
  <2> QED BY <2>1, Zenon DEF Min
<1>8. Max(two) \in two
  <2>1. PICK x \in two : \A y \in two : x >= y
    BY <1>5, <1>6, GreatestNat
  <2> QED BY <2>1, Zenon DEF Max
<1>9. PICK a \in Unsigned, b \in Unsigned : f = Renamed(l, DOMAIN l, a, b)
  BY <1>1, <1>2, <1>4, <1>7, <1>8
<1> QED BY <1>9, RenamedShape

LEMMA ArgsShape ==
  ASSUME NEW l \in Seq(Toks), NEW f \in SeedArgs(l, Code("rust", l))
  PROVE  f \in Seq(Toks)
<1>1. PICK i, e, m :
        /\ i \in Code("rust", l) /\ e = Match(l, Code("rust", l), i) /\ e # 0 /\ m \in (i + 2) .. (e - 2)
        /\ f = Cut(l, 1, i) \o Lead(Cut(l, m + 1, e - 1), FALSE) \o <<l[m]>>
                 \o Lead(Cut(l, i + 1, m - 1), TRUE) \o Cut(l, e, Len(l))
  BY DEF SeedArgs
<1>2. Code("rust", l) \in SUBSET (1 .. Len(l)) /\ Len(l) \in Nat /\ \A j \in 1 .. Len(l) : l[j] \in Toks
  BY CodeThere, LineShape
<1>3. i \in 1 .. Len(l) /\ e \in 1 .. Len(l)
  <2>1. i \in Int
    BY <1>1, <1>2
  <2> QED BY <1>1, <1>2, <2>1, MatchThere
<1>4. /\ m \in 1 .. Len(l) /\ m + 1 \in Int /\ m - 1 \in Int /\ e - 1 \in Int /\ i + 1 \in Int
      /\ 1 <= i + 1 /\ 1 <= m + 1 /\ e - 1 <= Len(l) /\ m - 1 <= Len(l)
  BY <1>1, <1>2, <1>3
<1>5. Cut(l, 1, i) \in Seq(Toks) /\ Cut(l, m + 1, e - 1) \in Seq(Toks)
        /\ Cut(l, i + 1, m - 1) \in Seq(Toks) /\ Cut(l, e, Len(l)) \in Seq(Toks)
  BY <1>2, <1>3, <1>4, CutShape
<1>6. l[m] \in Toks
  BY <1>2, <1>4
<1>7. <<l[m]>> \in Seq(Toks)
  BY <1>6
<1>8. PICK p \in Seq(Toks), q \in Seq(Toks), r \in Seq(Toks), s \in Seq(Toks), t \in Seq(Toks) :
        f = p \o q \o r \o s \o t
  BY <1>1, <1>5, <1>7, LeadShape
<1> QED BY <1>8, JoinShape

\* A line with a fault in it is a line.
LEMMA SiteShape ==
  ASSUME NEW l \in Seq(Toks), NEW f \in Sites(l)
  PROVE  f.text \in Seq(Toks)
<1> DEFINE c == Code("rust", l)
           spaced == {i \in c : Spaced(l, i)}
<1>1. ASSUME NEW I \in SUBSET c, NEW alts, Harmless(alts), f.text \in Others(l, I, alts)
      PROVE  f.text \in Seq(Toks)
  BY <1>1, OthersRewrite DEF Rewritten
<1>2. CASE \/ f.text \in Others(l, spaced, CompareAlts) \/ f.text \in Others(l, spaced, Both("&&", "||"))
           \/ f.text \in Others(l, spaced, SumAlts) \/ f.text \in Others(l, spaced, SeedAssign)
           \/ f.text \in Others(l, c, Both("..", "..=")) \/ f.text \in Others(l, spaced, Both("<<", ">>"))
           \/ f.text \in Others(l, c, Both("true", "false")) \/ f.text \in Others(l, c, FlowAlts)
  <2>1. c \in SUBSET c /\ spaced \in SUBSET c
    OBVIOUS
  <2> HIDE DEF c, spaced
  <2> QED BY <1>1, <1>2, <2>1, HarmlessTables, SeedTables
<1>3. CASE f.text \in SeedPairs(l, c)
  <2>1. PICK I \in SUBSET c, J \in SUBSET c :
          f.text \in Others(l, I, Both("min", "max")) \/ f.text \in Others(l, J, Both("floor", "ceil"))
    BY <1>3 DEF SeedPairs
  <2> HIDE DEF c
  <2> QED BY <1>1, <2>1, SeedTables
<1>4. CASE f.text \in SeedConst(l, c)
  <2>1. PICK i \in Literals(l, c), m \in Nat : f.text = [l EXCEPT ![i].n = m]
    BY <1>4, ConstShape
  <2>2. i \in Code("rust", l)
    BY DEF Literals
  <2>3. OneChanged("rust", l, [l EXCEPT ![i].n = m], i)
    BY <2>2, NumberFacts
  <2> QED BY <2>1, <2>3, Zenon DEF OneChanged, Rewritten
<1>5. CASE f.text \in SeedNegation(l, c) \/ f.text \in SeedLength(l, c) \/ f.text \in SeedNames(l, c)
             \/ f.text \in SeedArgs(l, c)
  BY <1>5, NegationShape, LengthShape, NamesShape, ArgsShape
<1> QED BY <1>2, <1>3, <1>4, <1>5, SitesOf

\* What turns the alternatives of a table back.
LEMMA BackTables ==
  /\ \A a \in CompareAlts : <<a[2], a[1]>> \in CompareAlts
  /\ \A a \in SumAlts : <<a[2], a[1]>> \in SumAlts
  /\ \A a \in SeedAssign : a[2] # "=" => <<a[2], a[1]>> \in AssignAlts
  /\ \A a \in Both("min", "max") \cup Both("floor", "ceil") : <<a[2], a[1]>> \in PairAlts
  /\ \A a \in Both("true", "false") : <<a[2], a[1]>> \in TruthAlts
  /\ \A u, v : \A a \in Both(u, v) : <<a[2], a[1]>> \in Both(u, v)
<1>1. \A u, v : \A a \in Both(u, v) : <<a[2], a[1]>> \in Both(u, v)
  BY DEF Both
<1>2. \A a \in CompareAlts : <<a[2], a[1]>> \in CompareAlts
  BY <1>1 DEF CompareAlts
<1>3. \A a \in SumAlts : <<a[2], a[1]>> \in SumAlts
  BY <1>1 DEF SumAlts
<1>4. \A a \in SeedAssign : a[2] # "=" => <<a[2], a[1]>> \in AssignAlts
  BY DEF SeedAssign, AssignAlts, Both
<1>5. \A a \in Both("min", "max") \cup Both("floor", "ceil") : <<a[2], a[1]>> \in PairAlts
  BY <1>1 DEF PairAlts
<1>6. \A a \in Both("true", "false") : <<a[2], a[1]>> \in TruthAlts
  BY <1>1 DEF TruthAlts
<1> QED BY <1>1, <1>2, <1>3, <1>4, <1>5, <1>6

LEMMA TurnedWith ==
  ASSUME NEW g, NEW l, NEW f, NEW i, NEW alts, Turned(g, l, f, i, alts),
         NEW back, \A a \in alts : <<a[2], a[1]>> \in back
  PROVE  OneChanged(g, l, f, i) /\ \A J : i \in J => l \in Others(f, J, back)
<1>1. PICK a \in alts : a[1] = l[i].v /\ a[2] = f[i].v
  BY DEF Turned
<1>2. <<f[i].v, l[i].v>> \in back
  BY <1>1
<1> QED BY <1>2 DEF Turned

LEMMA BackOffered ==
  ASSUME NEW l, NEW f, NEW closes, NEW class \in Classes, ~Oracle(f),
         l \in EditsOf(class, "rust", f, closes)
  PROVE  l \in Offered("rust", f, closes)
BY DEF Offered

\* A number moved by one can be moved back.
LEMMA ConstReached ==
  ASSUME NEW l \in Seq(Toks), NEW f \in SeedConst(l, Code("rust", l)), NEW closes, ~Oracle(f), f # l,
         LET i == FirstChange(f, l) IN ~(f[i].n > MaxShifted \/ f[i].n \notin {l[i].n - 1, l[i].n + 1})
  PROVE  l \in Offered("rust", f, closes)
<1>1. PICK i \in Literals(l, Code("rust", l)), m \in Nat : f = [l EXCEPT ![i].n = m]
  BY ConstShape
<1>2. i \in Code("rust", l)
  BY DEF Literals
<1>3. /\ OneChanged("rust", l, [l EXCEPT ![i].n = m], i)
      /\ [l EXCEPT ![i].n = m][i].n = m
      /\ [[l EXCEPT ![i].n = m] EXCEPT ![i].n = l[i].n] = l
  BY <1>2, NumberFacts
<1>4. OneChanged("rust", l, f, i) /\ f[i].n = m /\ [f EXCEPT ![i].n = l[i].n] = l
  BY <1>1, <1>3, Zenon
<1>5. FirstChange(f, l) = i
  BY <1>4, ChangedAt
<1>6. m <= MaxShifted /\ m \in {l[i].n - 1, l[i].n + 1}
  <2>1. ~(m > MaxShifted) /\ m \in {l[i].n - 1, l[i].n + 1}
    BY <1>4, <1>5, Zenon
  <2> QED BY <2>1, EditAssumption
<1>7. /\ i \in Int /\ f \in Seq(Toks) /\ i \in 1 .. Len(l) /\ i \in Code("rust", f)
      /\ \A S : \A j \in Int : j # i => (Is(f, j, S) <=> Is(l, j, S))
      /\ \A j \in Int : Joined(f, j) <=> Joined(l, j)
  BY <1>4, NearbySame DEF OneChanged
<1>8. i \in Literals(f, Code("rust", f))
  <2>1. /\ l[i].k = "int"
        /\ ~(Is(l, i - 1, {".", "..", "..="}) /\ Joined(l, i))
        /\ ~(Is(l, i + 1, {".", "..", "..="}) /\ Joined(l, i + 1))
    BY <1>1 DEF Literals
  <2>2. f[i].k = "int"
    BY <1>4, <2>1 DEF OneChanged
  <2>3. i - 1 \in Int /\ i + 1 \in Int /\ i - 1 # i /\ i + 1 # i
    BY <1>7
  <2>4. /\ ~(Is(f, i - 1, {".", "..", "..="}) /\ Joined(f, i))
        /\ ~(Is(f, i + 1, {".", "..", "..="}) /\ Joined(f, i + 1))
    BY <1>7, <2>1, <2>3
  <2> QED BY <1>4, <1>6, <1>7, <2>2, <2>4 DEF Literals
<1>9. PICK n \in Nat, d \in {1, -1} : n = l[i].n /\ m + d = n
  <2>1. l[i].n \in Nat
    BY <1>7, LineShape
  <2> QED BY <1>6, <2>1
<1>10. l = [f EXCEPT ![i].n = @ + d]
  <2>1. DOMAIN f = 1 .. Len(f) /\ Len(f) = Len(l)
    BY <1>4, <1>7, LineShape DEF OneChanged
  <2>2. f[i] \in [k : Texts, v : Texts, n : Nat, sp : BOOLEAN]
    BY <1>7, <2>1, LineShape
  <2>3. [f EXCEPT ![i].n = @ + d] = [f EXCEPT ![i].n = n]
    BY <1>4, <1>7, <1>9, <2>1, <2>2
  <2> QED BY <1>4, <1>9, <2>3
<1>11. l \in OffByOne("rust", f, Code("rust", f))
  <2>1. PICK p : p = <<i, d>> /\ p[1] = i /\ p[2] = d
    <3>1. <<i, d>>[1] = i /\ <<i, d>>[2] = d
      OBVIOUS
    <3> QED BY <3>1
  <2>2. p \in {q \in Literals(f, Code("rust", f)) \X {1, -1} : f[q[1]].n + q[2] >= 0}
    BY <1>4, <1>8, <1>9, <2>1
  <2>3. l = [f EXCEPT ![p[1]].n = @ + p[2]]
    BY <1>10, <2>1
  <2>4. l \in {[f EXCEPT ![q[1]].n = @ + q[2]] :
                 q \in {q \in Literals(f, Code("rust", f)) \X {1, -1} : f[q[1]].n + q[2] >= 0}}
    BY <2>2, <2>3
  <2> QED BY <2>4, Zenon DEF OffByOne
<1>12. l \in EditsOf("off-by-one", "rust", f, closes) /\ "off-by-one" \in Classes
  BY <1>11 DEF EditsOf, Classes
<1> QED BY <1>12, BackOffered

\* Faults of one token: not those that wrap, add or move text, nor one in a sign that has no
\* operand before it and is no operator to the edits.
Plainly(f, l) ==
  /\ f.kind \notin {"neg", "offbyone", "idswap", "argswap"}
  /\ f.kind = "arith" =>
       Is(f.text, FirstChange(f.text, l), {"-=", "+=", "/="}) \/ Binary(l, FirstChange(f.text, l))

LEMMA TextReached ==
  ASSUME NEW l \in Seq(Toks), NEW f, NEW closes, ~Oracle(f), f # l,
         NEW c, c = Code("rust", l), NEW spaced, spaced = {i \in c : Spaced(l, i)},
         \/ f \in Others(l, spaced, CompareAlts)
         \/ f \in Others(l, spaced, Both("&&", "||"))
         \/ f \in Others(l, c, Both("..", "..="))
         \/ f \in Others(l, c, Both("true", "false"))
         \/ f \in Others(l, c, FlowAlts)
         \/ f \in SeedPairs(l, c)
         \/ f \in Others(l, spaced, SumAlts) /\ (Is(f, FirstChange(f, l), {"-=", "+=", "/="}) \/ Binary(l, FirstChange(f, l)))
         \/ f \in Others(l, spaced, SeedAssign) /\ ~Is(f, FirstChange(f, l), {"="})
  PROVE  l \in Offered("rust", f, closes)
<1>1. c \in SUBSET c /\ spaced \in SUBSET c
  OBVIOUS
<1>2. ASSUME NEW I \in SUBSET c, NEW alts, Harmless(alts), f \in Others(l, I, alts)
      PROVE  \E i \in I : Turned("rust", l, f, i, alts)
  <2>1. I \in SUBSET Code("rust", l)
    OBVIOUS
  <2> QED BY <1>2, <2>1, TurnedBack
<1>3. ASSUME NEW i, OneChanged("rust", l, f, i)
      PROVE  /\ i \in Int /\ i \in Code("rust", f) /\ FirstChange(f, l) = i
             /\ \A S : \A j \in Int : j # i => (Is(f, j, S) <=> Is(l, j, S))
             /\ Binary(f, i) <=> Binary(l, i)
             /\ Spaced(f, i) <=> Spaced(l, i)
  <2>1. i \in Code("rust", f)
    BY <1>3 DEF OneChanged
  <2>2. FirstChange(f, l) = i
    BY <1>3, ChangedAt
  <2>3. /\ i \in Int
        /\ \A S : \A j \in Int : j # i => (Is(f, j, S) <=> Is(l, j, S))
        /\ Binary(f, i) <=> Binary(l, i)
        /\ Spaced(f, i) <=> Spaced(l, i)
    BY <1>3, NearbySame, ZenonT(60)
  <2> QED BY <2>1, <2>2, <2>3
<1> DEFINE d == Code("rust", f)
<1> HIDE DEF d
<1>4. CASE f \in Others(l, spaced, CompareAlts)
  <2>1. PICK i \in spaced :
          OneChanged("rust", l, f, i) /\ \A J : i \in J => l \in Others(f, J, CompareAlts)
    <3>1. PICK i \in spaced : Turned("rust", l, f, i, CompareAlts)
      BY <1>1, <1>2, <1>4, HarmlessTables
    <3>2. \A a \in CompareAlts : <<a[2], a[1]>> \in CompareAlts
      BY BackTables
    <3> QED BY <3>1, <3>2, TurnedWith
  <2>2. Compares("rust", f, i)
    BY <1>3, <2>1 DEF Compares
  <2>3. i \in {j \in d : Compares("rust", f, j)}
    BY <1>3, <2>1, <2>2 DEF d
  <2>4. l \in Comparison("rust", f, d)
    BY <2>1, <2>3 DEF Comparison
  <2>5. l \in EditsOf("comparison", "rust", f, closes) /\ "comparison" \in Classes
    BY <2>4 DEF EditsOf, Classes, d
  <2> QED BY <2>5, BackOffered
<1>5. CASE f \in Others(l, spaced, Both("&&", "||"))
  <2>1. PICK i \in spaced :
          OneChanged("rust", l, f, i) /\ \A J : i \in J => l \in Others(f, J, Both("&&", "||"))
    <3>1. PICK i \in spaced : Turned("rust", l, f, i, Both("&&", "||"))
      BY <1>1, <1>2, <1>5, HarmlessTables
    <3>2. \A a \in Both("&&", "||") : <<a[2], a[1]>> \in Both("&&", "||")
      BY BackTables
    <3> QED BY <3>1, <3>2, TurnedWith
  <2>2. i \in d
    BY <1>3, <2>1 DEF d
  <2>3. l \in Logic("rust", f, d)
    BY <2>1, <2>2 DEF Logic
  <2>4. l \in EditsOf("logic", "rust", f, closes) /\ "logic" \in Classes
    BY <2>3 DEF EditsOf, Classes, d
  <2> QED BY <2>4, BackOffered
<1>6. CASE f \in Others(l, c, Both("..", "..="))
  <2>1. PICK i \in c :
          OneChanged("rust", l, f, i) /\ \A J : i \in J => l \in Others(f, J, Both("..", "..="))
    <3>1. PICK i \in c : Turned("rust", l, f, i, Both("..", "..="))
      BY <1>1, <1>2, <1>6, SeedTables
    <3>2. \A a \in Both("..", "..=") : <<a[2], a[1]>> \in Both("..", "..=")
      BY BackTables
    <3> QED BY <3>1, <3>2, TurnedWith
  <2>2. i \in d
    BY <1>3, <2>1 DEF d
  <2>3. l \in Others(f, d, Both("..", "..="))
    BY <2>1, <2>2
  <2>4. l \in OffByOne("rust", f, d)
    BY <2>3, Zenon DEF OffByOne
  <2>5. l \in EditsOf("off-by-one", "rust", f, closes) /\ "off-by-one" \in Classes
    BY <2>4 DEF EditsOf, Classes, d
  <2> QED BY <2>5, BackOffered
<1>7. CASE f \in Others(l, c, Both("true", "false"))
  <2>1. PICK i \in c :
          OneChanged("rust", l, f, i) /\ \A J : i \in J => l \in Others(f, J, TruthAlts)
    <3>1. PICK i \in c : Turned("rust", l, f, i, Both("true", "false"))
      BY <1>1, <1>2, <1>7, SeedTables
    <3>2. \A a \in Both("true", "false") : <<a[2], a[1]>> \in TruthAlts
      BY BackTables
    <3> QED BY <3>1, <3>2, TurnedWith
  <2>2. i \in d
    BY <1>3, <2>1 DEF d
  <2>3. l \in Others(f, d, TruthAlts)
    BY <2>1, <2>2
  <2>4. l \in Boolean("rust", f, d)
    BY <2>3, Zenon DEF Boolean
  <2>5. l \in EditsOf("boolean", "rust", f, closes) /\ "boolean" \in Classes
    BY <2>4 DEF EditsOf, Classes, d
  <2> QED BY <2>5, BackOffered
<1>8. CASE f \in Others(l, c, FlowAlts)
  <2>1. PICK i \in c :
          OneChanged("rust", l, f, i) /\ \A J : i \in J => l \in Others(f, J, FlowAlts)
    <3>1. PICK i \in c : Turned("rust", l, f, i, FlowAlts)
      BY <1>1, <1>2, <1>8, HarmlessTables
    <3>2. \A a \in FlowAlts : <<a[2], a[1]>> \in FlowAlts
      BY BackTables DEF FlowAlts
    <3> QED BY <3>1, <3>2, TurnedWith
  <2>2. i \in d
    BY <1>3, <2>1 DEF d
  <2>3. l \in ApiSwap("rust", f, d)
    BY <2>1, <2>2 DEF ApiSwap
  <2>4. l \in EditsOf("api-swap", "rust", f, closes) /\ "api-swap" \in Classes
    BY <2>3 DEF EditsOf, Classes, d
  <2> QED BY <2>4, BackOffered
<1>9. CASE f \in SeedPairs(l, c)
  <2>1. PICK I, alts : /\ I \in SUBSET {i \in c : Is(l, i + 1, {"("})} /\ f \in Others(l, I, alts)
                       /\ alts \in {Both("min", "max"), Both("floor", "ceil")}
    BY <1>9 DEF SeedPairs
  <2>2. PICK i \in I :
          OneChanged("rust", l, f, i) /\ \A J : i \in J => l \in Others(f, J, PairAlts)
    <3>1. PICK i \in I : Turned("rust", l, f, i, alts)
      BY <1>2, <2>1, SeedTables
    <3>2. \A a \in alts : <<a[2], a[1]>> \in PairAlts
      BY <2>1, BackTables
    <3> QED BY <3>1, <3>2, TurnedWith
  <2>3. Is(f, i + 1, {"("})
    <3>1. i + 1 \in Int /\ i + 1 # i
      BY <1>3, <2>2
    <3> QED BY <1>3, <2>1, <2>2, <3>1
  <2>4. i \in {j \in d : Is(f, j + 1, {"("})}
    BY <1>3, <2>2, <2>3 DEF d
  <2>5. l \in ApiSwap("rust", f, d)
    BY <2>2, <2>4 DEF ApiSwap
  <2>6. l \in EditsOf("api-swap", "rust", f, closes) /\ "api-swap" \in Classes
    BY <2>5 DEF EditsOf, Classes, d
  <2> QED BY <2>6, BackOffered
<1>10. CASE f \in Others(l, spaced, SumAlts) /\ (Is(f, FirstChange(f, l), {"-=", "+=", "/="}) \/ Binary(l, FirstChange(f, l)))
  <2>1. PICK i \in spaced : /\ OneChanged("rust", l, f, i) /\ f[i].v \in {"+", "-", "*", "/"}
                            /\ \A J : i \in J => l \in Others(f, J, SumAlts)
    <3>1. PICK i \in spaced : Turned("rust", l, f, i, SumAlts)
      BY <1>1, <1>2, <1>10, HarmlessTables
    <3>2. \A a \in SumAlts : <<a[2], a[1]>> \in SumAlts
      BY BackTables
    <3>3. \A a \in SumAlts : a[2] \in {"+", "-", "*", "/"}
      BY DEF SumAlts, Both
    <3>4. f[i].v \in {"+", "-", "*", "/"}
      BY <3>1, <3>3 DEF Turned
    <3> QED BY <3>1, <3>2, <3>4, TurnedWith
  <2>2. i \in {j \in d : Binary(f, j)}
    <3>1. i \in DOMAIN f
      BY <2>1, LineShape DEF OneChanged, Rewritten
    <3>2. ~Is(f, i, {"-=", "+=", "/="})
      BY <2>1, <3>1 DEF Is, TokAt
    <3> QED BY <1>3, <1>10, <2>1, <3>2 DEF d
  <2>3. l \in Others(f, {j \in d : Binary(f, j)}, SumAlts)
    BY <2>1, <2>2
  <2>4. l \in Arithmetic("rust", f, d)
    BY <2>3 DEF Arithmetic
  <2>5. l \in EditsOf("arithmetic", "rust", f, closes) /\ "arithmetic" \in Classes
    BY <2>4 DEF EditsOf, Classes, d
  <2> QED BY <2>5, BackOffered
<1>11. CASE f \in Others(l, spaced, SeedAssign) /\ ~Is(f, FirstChange(f, l), {"="})
  <2>1. PICK i \in spaced : Turned("rust", l, f, i, SeedAssign)
    BY <1>1, <1>2, <1>11, SeedTables
  <2>2. PICK a \in SeedAssign : a[1] = l[i].v /\ a[2] = f[i].v
    BY <2>1 DEF Turned
  <2>3. ~Is(f, i, {"="})
    BY <1>3, <1>11, <2>1 DEF Turned
  <2>4. f[i].v # "="
    <3>1. i \in DOMAIN f
      BY <2>1, LineShape DEF Turned, OneChanged, Rewritten
    <3> QED BY <2>3, <3>1 DEF Is, TokAt
  <2>5. <<f[i].v, l[i].v>> \in AssignAlts
    BY <2>2, <2>4, BackTables
  <2>6. i \in d
    BY <1>3, <2>1 DEF Turned, d
  <2>7. l \in Others(f, d, AssignAlts)
    BY <2>1, <2>5, <2>6 DEF Turned
  <2>8. l \in Arithmetic("rust", f, d)
    BY <2>7 DEF Arithmetic
  <2>9. l \in EditsOf("arithmetic", "rust", f, closes) /\ "arithmetic" \in Classes
    BY <2>8 DEF EditsOf, Classes, d
  <2> QED BY <2>9, BackOffered
<1> QED BY <1>4, <1>5, <1>6, <1>7, <1>8, <1>9, <1>10, <1>11

\* How long the pieces of a line are.
LEMMA CutLength ==
  ASSUME NEW l \in Seq(Toks), NEW a \in Int, NEW b \in Int, 1 <= a, b <= Len(l)
  PROVE  Cut(l, a, b) \in Seq(Toks) /\ Len(Cut(l, a, b)) = IF a <= b THEN b - a + 1 ELSE 0
<1>1. Len(l) \in Nat /\ l \in [1 .. Len(l) -> Toks]
  BY LineShape
<1>2. \A j \in a .. b : l[j] \in Toks
  <2>1. \A j \in a .. b : j \in 1 .. Len(l)
    BY <1>1
  <2> QED BY <1>1, <2>1
<1>3. SubSeq(l, a, b) \in Seq(Toks) /\ Len(SubSeq(l, a, b)) = IF a <= b THEN b - a + 1 ELSE 0
  BY <1>2, SubSeqProperties
<1> QED BY <1>3 DEF Cut

LEMMA EndsLength ==
  ASSUME NEW l \in Seq(Toks), NEW i \in 1 .. Len(l)
  PROVE  /\ Upto(l, i) \in Seq(Toks) /\ Behind(l, i) \in Seq(Toks)
         /\ Len(Upto(l, i)) = i - 1 /\ Len(Behind(l, i)) = Len(l) - i
<1>1. PICK n \in Nat : n = Len(l) /\ i \in 1 .. n
  BY LineShape
<1>2. Upto(l, i) = Cut(l, 1, i - 1) /\ Behind(l, i) = Cut(l, i + 1, Len(l))
  BY DEF Upto, Behind, Cut
<1>3. Cut(l, 1, i - 1) \in Seq(Toks) /\ Len(Cut(l, 1, i - 1)) = IF 1 <= i - 1 THEN (i - 1) - 1 + 1 ELSE 0
  <2>1. i - 1 \in Int /\ i - 1 <= Len(l)
    BY <1>1
  <2> QED BY <2>1, CutLength
<1>4. Cut(l, i + 1, n) \in Seq(Toks) /\ Len(Cut(l, i + 1, n)) = IF i + 1 <= n THEN n - (i + 1) + 1 ELSE 0
  <2>1. i + 1 \in Int /\ 1 <= i + 1 /\ n <= Len(l)
    BY <1>1
  <2> QED BY <2>1, CutLength
<1>5. Len(Cut(l, 1, i - 1)) = i - 1
  BY <1>1, <1>3
<1>6. Len(Cut(l, i + 1, n)) = n - i
  BY <1>1, <1>4
<1> QED BY <1>1, <1>2, <1>3, <1>4, <1>5, <1>6

LEMMA LeadLength ==
  ASSUME NEW s \in Seq(Toks), NEW sp \in BOOLEAN
  PROVE  Lead(s, sp) \in Seq(Toks) /\ Len(Lead(s, sp)) = Len(s)
<1>1. Lead(s, sp) \in Seq(Toks)
  BY LeadShape
<1>2. CASE s = <<>>
  BY <1>1, <1>2 DEF Lead
<1>3. CASE s # <<>>
  <2>1. DOMAIN Lead(s, sp) = DOMAIN s
    BY <1>3 DEF Lead
  <2>2. DOMAIN s = 1 .. Len(s) /\ Len(s) \in Nat
    BY LineShape
  <2>3. DOMAIN Lead(s, sp) = 1 .. Len(Lead(s, sp)) /\ Len(Lead(s, sp)) \in Nat
    BY <1>1, LineShape
  <2>4. \A m \in Nat, n \in Nat : 1 .. m = 1 .. n => m = n
    OBVIOUS
  <2> QED BY <1>1, <2>1, <2>2, <2>3, <2>4
<1> QED BY <1>2, <1>3

LEMMA JoinLength ==
  ASSUME NEW s \in Seq(Toks), NEW t \in Seq(Toks)
  PROVE  /\ s \o t \in Seq(Toks) /\ Len(s \o t) = Len(s) + Len(t)
         /\ Len(s) \in Nat /\ Len(t) \in Nat /\ Len(s \o t) \in Nat
BY ConcatProperties

LEMMA FewTokens ==
  ASSUME NEW x \in Toks, NEW y \in Toks, NEW z \in Toks
  PROVE  /\ <<x>> \in Seq(Toks) /\ <<x, y>> \in Seq(Toks) /\ <<x, y, z>> \in Seq(Toks)
         /\ Len(<<x>>) = 1 /\ Len(<<x, y>>) = 2 /\ Len(<<x, y, z>>) = 3
OBVIOUS

LEMMA OneLength == Len(PlusOne) = 2 /\ Len(MinusOne) = 2
BY DEF PlusOne, MinusOne

LEMMA NotShape == \A sp \in BOOLEAN : Tok("word", "not", 0, sp) \in Toks
<1>1. "word" \in Texts /\ "not" \in Texts /\ "not" \notin Signs
  BY DEF Texts, Signs
<1> QED BY <1>1 DEF Tok, Toks

\* A negation is longer.
LEMMA NegatedLength ==
  ASSUME NEW g, NEW s \in Seq(Toks)
  PROVE  Negated(g, s) \in Seq(Toks) /\ Len(Negated(g, s)) > Len(s)
<1> DEFINE w == g \in WordLogic
           no == IF w THEN Tok("word", "not", 0, TRUE) ELSE Op("!", TRUE)
<1>1. no \in Toks
  BY NotShape, OpShape
<1>2. w \in BOOLEAN
  OBVIOUS
<1> HIDE DEF w
<1>3. Op("(", w) \in Toks /\ Op(")", FALSE) \in Toks
  BY <1>2, OpShape
<1>4. CASE Simple(g, s)
  <2>1. Negated(g, s) = <<no>> \o Lead(s, w)
    BY <1>4, Zenon DEF Negated, w
  <2> HIDE DEF no
  <2>2. Lead(s, w) \in Seq(Toks) /\ Len(Lead(s, w)) = Len(s)
    BY <1>2, LeadLength
  <2>3. <<no>> \in Seq(Toks) /\ Len(<<no>>) = 1
    BY <1>1
  <2> QED BY <2>1, <2>2, <2>3, JoinLength
<1>5. CASE ~Simple(g, s)
  <2>1. Negated(g, s) = <<no, Op("(", w)>> \o Lead(s, FALSE) \o <<Op(")", FALSE)>>
    BY <1>5, Zenon DEF Negated, w
  <2> HIDE DEF no
  <2>2. Lead(s, FALSE) \in Seq(Toks) /\ Len(Lead(s, FALSE)) = Len(s)
    BY LeadLength
  <2>3. <<no, Op("(", w)>> \in Seq(Toks) /\ Len(<<no, Op("(", w)>>) = 2
          /\ <<Op(")", FALSE)>> \in Seq(Toks) /\ Len(<<Op(")", FALSE)>>) = 1
    BY <1>1, <1>3, FewTokens
  <2>4. PICK p \in Seq(Toks), q \in Seq(Toks), r \in Seq(Toks) :
          Negated(g, s) = p \o q \o r /\ Len(p) = 2 /\ Len(q) = Len(s) /\ Len(r) = 1
    BY <2>1, <2>2, <2>3
  <2>5. p \o q \in Seq(Toks) /\ Len(p \o q) = 2 + Len(s) /\ Len(s) \in Nat
    BY <2>4, JoinLength, ZenonT(60)
  <2> QED BY <2>4, <2>5, JoinLength
<1> QED BY <1>4, <1>5

\* The edits of two more classes that leave as many tokens as there were.
LEMMA OffByOneKeeps ==
  ASSUME NEW g, NEW l \in Seq(Toks), NEW m \in OffByOne(g, l, Code(g, l)), Len(m) = Len(l)
  PROVE  Rewritten(g, l, m)
<1> DEFINE c == Code(g, l)
<1>1. c \in SUBSET (1 .. Len(l)) /\ Len(l) \in Nat
  BY CodeThere, LineShape
<1>2. \A alts : \A I \in SUBSET c : Harmless(alts) /\ m \in Others(l, I, alts) => Rewritten(g, l, m)
  BY OthersRewrite
<1> HIDE DEF c
<1>3. \/ \E i \in Adjusts(l, c) : m = Upto(l, i) \o Behind(l, i + 1)
      \/ m \in Others(l, Adjusts(l, c), Both("+", "-"))
      \/ \E i \in Lengths(l, c) : m = Cut(l, 1, i) \o MinusOne \o Behind(l, i)
      \/ \E i \in Ranges(l, c) : m = Upto(l, Match(l, c, i + 1)) \o PlusOne \o Cut(l, Match(l, c, i + 1), Len(l))
      \/ m \in Others(l, c, Both("..", "..="))
      \/ \E p \in Literals(l, c) \X {1, -1} : l[p[1]].n + p[2] >= 0 /\ m = [l EXCEPT ![p[1]].n = @ + p[2]]
  <2>1. \/ m \in {Upto(l, i) \o Behind(l, i + 1) : i \in Adjusts(l, c)}
        \/ m \in Others(l, Adjusts(l, c), Both("+", "-"))
        \/ m \in {Cut(l, 1, i) \o MinusOne \o Behind(l, i) : i \in Lengths(l, c)}
        \/ m \in {LET e == Match(l, c, i + 1) IN Upto(l, e) \o PlusOne \o Cut(l, e, Len(l)) : i \in Ranges(l, c)}
        \/ m \in Others(l, c, Both("..", "..="))
        \/ m \in {[l EXCEPT ![p[1]].n = @ + p[2]] : p \in {p \in Literals(l, c) \X {1, -1} : l[p[1]].n + p[2] >= 0}}
    BY Zenon DEF OffByOne, c
  <2> QED BY <2>1
<1>4. CASE \E i \in Adjusts(l, c) : m = Upto(l, i) \o Behind(l, i + 1)
  <2>1. PICK i \in Adjusts(l, c) : m = Upto(l, i) \o Behind(l, i + 1)
    BY <1>4
  <2>2. i \in 1 .. Len(l) /\ TokAt(l, i + 1).k = "int"
    BY <1>1 DEF Adjusts
  <2>3. PICK e \in 1 .. Len(l) : e = i + 1
    <3>1. i + 1 \in DOMAIN l
      BY <2>2 DEF TokAt, Tok
    <3> QED BY <3>1, LineShape
  <2>4. /\ Upto(l, i) \in Seq(Toks) /\ Len(Upto(l, i)) = i - 1
        /\ Behind(l, e) \in Seq(Toks) /\ Len(Behind(l, e)) = Len(l) - e
    BY <2>2, EndsLength
  <2>5. Len(m) = (i - 1) + (Len(l) - e)
    BY <2>1, <2>3, <2>4, JoinLength, SMTT(60)
  <2> QED BY <1>1, <2>2, <2>3, <2>5
<1>5. CASE m \in Others(l, Adjusts(l, c), Both("+", "-")) \/ m \in Others(l, c, Both("..", "..="))
  <2>1. Adjusts(l, c) \in SUBSET c
    BY DEF Adjusts
  <2>2. Harmless(Both("+", "-"))
    BY BothFacts, PlainTexts
  <2> QED BY <1>2, <1>5, <2>1, <2>2, SeedTables
<1>6. CASE \E i \in Lengths(l, c) : m = Cut(l, 1, i) \o MinusOne \o Behind(l, i)
  <2>1. PICK i \in Lengths(l, c) : m = Cut(l, 1, i) \o MinusOne \o Behind(l, i)
    BY <1>6
  <2>2. i \in 1 .. Len(l)
    <3>1. CASE i \in FieldEnds(l, c)
      BY <1>1, <3>1 DEF FieldEnds
    <3>2. CASE i \in CallEnds(l, c)
      <4>1. PICK j \in c : i = Match(l, c, j + 1) /\ i # 0
        BY <3>2 DEF CallEnds
      <4>2. j + 1 \in Int
        BY <1>1
      <4> QED BY <1>1, <4>1, <4>2, MatchThere
    <3> QED BY <3>1, <3>2 DEF Lengths
  <2>3. Cut(l, 1, i) \in Seq(Toks) /\ Len(Cut(l, 1, i)) = IF 1 <= i THEN i - 1 + 1 ELSE 0
    BY <1>1, <2>2, CutLength
  <2>4. Behind(l, i) \in Seq(Toks) /\ Len(Behind(l, i)) = Len(l) - i
    BY <2>2, EndsLength
  <2>5. PICK p \in Seq(Toks), q \in Seq(Toks), r \in Seq(Toks) :
          m = p \o q \o r /\ Len(p) = i /\ Len(q) = 2 /\ Len(r) = Len(l) - i
    <3>1. PICK p \in Seq(Toks) : p = Cut(l, 1, i) /\ Len(p) = i
      BY <1>1, <2>2, <2>3
    <3>2. PICK q \in Seq(Toks) : q = MinusOne /\ Len(q) = 2
      BY OneShape, OneLength
    <3> QED BY <2>1, <2>4, <3>1, <3>2, Zenon
  <2>6. p \o q \in Seq(Toks) /\ Len(p \o q) = i + 2
    BY <2>5, JoinLength, ZenonT(60)
  <2>7. Len(m) = (i + 2) + (Len(l) - i)
    BY <2>5, <2>6, JoinLength
  <2> QED BY <1>1, <2>2, <2>7
<1>7. CASE \E i \in Ranges(l, c) : m = Upto(l, Match(l, c, i + 1)) \o PlusOne \o Cut(l, Match(l, c, i + 1), Len(l))
  <2>1. PICK i, e : i \in Ranges(l, c) /\ e = Match(l, c, i + 1) /\ m = Upto(l, e) \o PlusOne \o Cut(l, e, Len(l))
    BY <1>7
  <2>2. i \in c /\ e > i + 2
    BY <2>1 DEF Ranges
  <2>3. e \in 1 .. Len(l)
    <3>1. i + 1 \in Int /\ i \in 1 .. Len(l)
      BY <1>1, <2>2
    <3>2. e # 0
      BY <2>2, <3>1
    <3> QED BY <1>1, <2>1, <3>1, <3>2, MatchThere
  <2>4. Upto(l, e) \in Seq(Toks) /\ Len(Upto(l, e)) = e - 1
    BY <2>3, EndsLength
  <2>5. Cut(l, e, Len(l)) \in Seq(Toks) /\ Len(Cut(l, e, Len(l))) = IF e <= Len(l) THEN Len(l) - e + 1 ELSE 0
    BY <1>1, <2>3, CutLength
  <2>6. PICK p \in Seq(Toks), q \in Seq(Toks), r \in Seq(Toks) :
          m = p \o q \o r /\ Len(p) = e - 1 /\ Len(q) = 2 /\ Len(r) = Len(l) - e + 1
    <3>1. PICK r \in Seq(Toks) : r = Cut(l, e, Len(l)) /\ Len(r) = Len(l) - e + 1
      BY <2>3, <2>5
    <3>2. PICK q \in Seq(Toks) : q = PlusOne /\ Len(q) = 2
      BY OneShape, OneLength
    <3> QED BY <2>1, <2>4, <3>1, <3>2, Zenon
  <2>7. p \o q \in Seq(Toks) /\ Len(p \o q) = (e - 1) + 2
    BY <2>6, JoinLength, ZenonT(60)
  <2>8. Len(m) = ((e - 1) + 2) + (Len(l) - e + 1)
    BY <2>6, <2>7, JoinLength
  <2> QED BY <1>1, <2>3, <2>8
<1>8. CASE \E p \in Literals(l, c) \X {1, -1} : l[p[1]].n + p[2] >= 0 /\ m = [l EXCEPT ![p[1]].n = @ + p[2]]
  <2>1. PICK i \in Literals(l, c), d \in {1, -1} : l[i].n + d >= 0 /\ m = [l EXCEPT ![i].n = @ + d]
    BY <1>8
  <2>2. i \in c /\ i \in 1 .. Len(l)
    BY <1>1 DEF Literals
  <2>3. DOMAIN l = 1 .. Len(l) /\ l[i] \in [k : Texts, v : Texts, n : Nat, sp : BOOLEAN]
    BY <2>2, LineShape
  <2>4. PICK n \in Nat : n = l[i].n + d
    BY <2>1, <2>3
  <2>5. m = [l EXCEPT ![i].n = n]
    BY <2>1, <2>2, <2>3, <2>4
  <2>6. OneChanged(g, l, [l EXCEPT ![i].n = n], i)
    BY <2>2, NumberFacts DEF c
  <2> QED BY <2>5, <2>6, Zenon DEF OneChanged
<1> QED BY <1>3, <1>4, <1>5, <1>6, <1>7, <1>8

LEMMA NegatedReturn ==
  ASSUME NEW g, NEW l \in Seq(Toks), NEW m \in NegateReturn(g, l)
  PROVE  Len(m) > Len(l)
<1> DEFINE semi == Is(l, Len(l), {";"})
           w == g \in WordLogic
           no == IF w THEN Tok("word", "not", 0, TRUE) ELSE Op("!", TRUE)
           body == Cut(l, 2, IF semi THEN Len(l) - 1 ELSE Len(l))
           tail == IF semi THEN <<Op(";", FALSE)>> ELSE <<>>
<1>1. m = <<l[1], no, Op("(", w)>> \o Lead(body, FALSE) \o <<Op(")", FALSE)>> \o tail /\ Is(l, 1, {"return"})
  BY Zenon DEF NegateReturn
<1> HIDE DEF semi, w, no, body, tail
<1>2. 1 \in 1 .. Len(l) /\ Len(l) \in Nat /\ Len(l) >= 1
  <2>1. "" \notin {"return"}
    OBVIOUS
  <2>2. 1 \in 1 .. Len(l)
    BY <1>1, <2>1, IsThere
  <2> QED BY <2>2, LineShape
<1>3. no \in Toks /\ w \in BOOLEAN
  <2>1. w \in BOOLEAN
    BY DEF w
  <2>2. Tok("word", "not", 0, TRUE) \in Toks /\ Op("!", TRUE) \in Toks
    BY NotShape, OpShape
  <2> QED BY <2>1, <2>2, Zenon DEF no
<1>4. PICK p \in Seq(Toks) : p = <<l[1], no, Op("(", w)>> /\ Len(p) = 3
  <2>1. l[1] \in Toks /\ Op("(", w) \in Toks
    BY <1>2, <1>3, LineShape, OpShape
  <2> QED BY <1>3, <2>1, FewTokens
<1>5. PICK q \in Seq(Toks), k \in Nat :
        q = Lead(body, FALSE) /\ Len(q) = k /\ k >= IF semi THEN Len(l) - 2 ELSE Len(l) - 1
  <2>1. CASE semi
    <3>1. 2 \in Int /\ 1 <= 2 /\ Len(l) - 1 \in Int /\ Len(l) - 1 <= Len(l) /\ body = Cut(l, 2, Len(l) - 1)
      BY <1>2, <2>1 DEF body
    <3>2. body \in Seq(Toks) /\ Len(body) = IF 2 <= Len(l) - 1 THEN Len(l) - 1 - 2 + 1 ELSE 0
      BY <3>1, CutLength
    <3>3. Lead(body, FALSE) \in Seq(Toks) /\ Len(Lead(body, FALSE)) = Len(body)
      BY <3>2, LeadLength
    <3>4. Len(body) \in Nat /\ Len(body) >= Len(l) - 2
      BY <1>2, <3>2
    <3> QED BY <2>1, <3>3, <3>4
  <2>2. CASE ~semi
    <3>1. body = Cut(l, 2, Len(l)) /\ 2 \in Int /\ Len(l) \in Int /\ 1 <= 2 /\ Len(l) <= Len(l)
      BY <1>2, <2>2 DEF body
    <3>2. body \in Seq(Toks) /\ Len(body) = IF 2 <= Len(l) THEN Len(l) - 2 + 1 ELSE 0
      BY <3>1, CutLength
    <3>3. Lead(body, FALSE) \in Seq(Toks) /\ Len(Lead(body, FALSE)) = Len(body)
      BY <3>2, LeadLength
    <3>4. Len(body) \in Nat /\ Len(body) >= Len(l) - 1
      BY <1>2, <3>2
    <3> QED BY <2>2, <3>3, <3>4
  <2> QED BY <2>1, <2>2
<1>6. PICK r \in Seq(Toks) : r = <<Op(")", FALSE)>> /\ Len(r) = 1
  <2>1. Op(")", FALSE) \in Toks
    BY OpShape
  <2> QED BY <2>1, FewTokens
<1>7. PICK t \in Seq(Toks) : t = tail /\ Len(t) = IF semi THEN 1 ELSE 0
  <2>1. Op(";", FALSE) \in Toks
    BY OpShape
  <2>2. CASE semi
    BY <2>1, <2>2, FewTokens DEF tail
  <2>3. CASE ~semi
    <3>1. tail = <<>> /\ <<>> \in Seq(Toks) /\ Len(<<>>) = 0
      BY <2>3, EmptySeq DEF tail
    <3>2. tail \in Seq(Toks) /\ Len(tail) = 0
      BY <3>1, Zenon
    <3>3. Len(tail) = IF semi THEN 1 ELSE 0
      BY <2>3, <3>2
    <3> QED BY <3>2, <3>3
  <2> QED BY <2>2, <2>3
<1>8. m = p \o q \o r \o t
  BY <1>1, <1>4, <1>5, <1>6, <1>7, Zenon
<1>9. p \o q \in Seq(Toks) /\ Len(p \o q) = 3 + k
  BY <1>4, <1>5, JoinLength
<1>10. p \o q \o r \in Seq(Toks) /\ Len(p \o q \o r) = 3 + k + 1
  BY <1>6, <1>9, JoinLength, ZenonT(60)
<1>11. Len(m) = (3 + k + 1) + IF semi THEN 1 ELSE 0
  BY <1>7, <1>8, <1>10, JoinLength, ZenonT(60)
<1>12. CASE semi
  BY <1>2, <1>5, <1>11, <1>12
<1>13. CASE ~semi
  BY <1>2, <1>5, <1>11, <1>13
<1> QED BY <1>12, <1>13

LEMMA Unwrapped ==
  ASSUME NEW g, NEW l \in Seq(Toks), NEW i \in NegatedGroups(l, Code(g, l))
  PROVE  Len(Unwrap(l, Code(g, l), i)) < Len(l)
<1>1. PICK c \in SUBSET (1 .. Len(l)) : c = Code(g, l)
  BY CodeThere
<1>2. PICK e : e = Match(l, c, i + 1) /\ e # 0 /\ i \in c
  BY <1>1 DEF NegatedGroups
<1>3. PICK n \in Nat : n = Len(l)
  BY LineShape
<1>4. i \in 1 .. n /\ i + 1 \in Int /\ l[i].sp \in BOOLEAN
  BY <1>2, <1>3, LineShape
<1>5. e \in 1 .. n /\ e >= i + 1
  BY <1>2, <1>3, <1>4, MatchThere
<1>6. Unwrap(l, c, i) = Upto(l, i) \o Lead(Cut(l, i + 2, e - 1), l[i].sp) \o Behind(l, e)
  BY <1>2, Zenon DEF Unwrap
<1>7. PICK p \in Seq(Toks) : p = Upto(l, i) /\ Len(p) = i - 1
  BY <1>3, <1>4, EndsLength
<1>8. PICK r \in Seq(Toks) : r = Behind(l, e) /\ Len(r) = n - e
  BY <1>3, <1>5, EndsLength
<1>9. PICK q \in Seq(Toks) : q = Cut(l, i + 2, e - 1) /\ Len(q) = IF i + 2 <= e - 1 THEN e - 1 - (i + 2) + 1 ELSE 0
  <2>1. i + 2 \in Int /\ e - 1 \in Int /\ 1 <= i + 2 /\ e - 1 <= Len(l)
    BY <1>3, <1>4, <1>5
  <2> QED BY <2>1, CutLength
<1>10. PICK t \in Seq(Toks) : t = Lead(q, l[i].sp) /\ Len(t) = Len(q)
  BY <1>4, LeadLength
<1>11. p \o t \in Seq(Toks) /\ Len(p \o t) = (i - 1) + Len(q)
  BY <1>7, <1>10, JoinLength, SMTT(60)
<1>12. Len(p \o t \o r) = ((i - 1) + Len(q)) + (n - e)
  BY <1>8, <1>11, JoinLength, SMTT(60)
<1>13. ((i - 1) + Len(q)) + (n - e) < n
  BY <1>4, <1>5, <1>9
<1> QED BY <1>1, <1>3, <1>6, <1>7, <1>8, <1>9, <1>10, <1>12, <1>13

LEMMA NegatedCondition ==
  ASSUME NEW g, NEW l \in Seq(Toks), NEW i \in Conditions(g, l, Code(g, l))
  PROVE  Len(NegateCondition(g, l, Code(g, l), i)) > Len(l)
<1> DEFINE c == Code(g, l)
           cond == Cut(l, i + 1, Len(l) - 1)
           whole == Is(cond, 1, {"("}) /\ Match(l, c, i + 1) = Len(l) - 1
           inner == IF whole
                    THEN <<l[i + 1]>> \o Lead(Negated(g, Cut(cond, 2, Len(cond) - 1)), FALSE)
                           \o <<cond[Len(cond)]>>
                    ELSE Lead(Negated(g, cond), TRUE)
<1>1. PICK n \in Nat : n = Len(l) /\ \A j \in 1 .. n : l[j] \in Toks
  BY LineShape
<1>2. NegateCondition(g, l, c, i) = Cut(l, 1, i) \o inner \o <<l[Len(l)]>>
  BY Zenon DEF NegateCondition
<1>3. cond # <<>> /\ i \in c
  BY DEF Conditions
<1> HIDE DEF inner, whole
<1>4. i \in 1 .. n
  BY <1>1, <1>3, CodeThere
<1>5. cond \in Seq(Toks) /\ Len(cond) = IF i + 1 <= n - 1 THEN n - 1 - (i + 1) + 1 ELSE 0
  <2>1. i + 1 \in Int /\ n - 1 \in Int /\ 1 <= i + 1 /\ n - 1 <= Len(l)
    BY <1>1, <1>4
  <2> QED BY <1>1, <2>1, CutLength
<1> HIDE DEF cond, c
<1>6. PICK k \in Nat : k = Len(cond) /\ k >= 1
  BY <1>3, <1>5, EmptySeq, LineShape
<1>7. k = n - 1 - i /\ i < n
  BY <1>1, <1>4, <1>5, <1>6
<1>8. PICK t \in Seq(Toks), h \in Nat : t = inner /\ Len(t) = h /\ h > k
  <2>1. CASE whole
    <3>1. PICK q \in Seq(Toks) : q = Cut(cond, 2, k - 1) /\ Len(q) = IF 2 <= k - 1 THEN k - 1 - 2 + 1 ELSE 0
      <4>1. 2 \in Int /\ 1 <= 2 /\ k - 1 \in Int /\ k - 1 <= Len(cond)
        BY <1>6
      <4> QED BY <1>5, <4>1, CutLength
    <3>2. PICK r \in Seq(Toks) : r = Negated(g, q) /\ Len(r) > Len(q)
      BY NegatedLength
    <3>3. PICK u \in Seq(Toks) : u = Lead(r, FALSE) /\ Len(u) = Len(r)
      BY LeadLength
    <3>4. i + 1 \in 1 .. n /\ l[i + 1] \in Toks /\ cond[k] \in Toks
      <4>1. i + 1 \in 1 .. n
        BY <1>1, <1>4, <1>7
      <4>2. k \in 1 .. Len(cond)
        BY <1>6
      <4>3. \A j \in 1 .. Len(cond) : cond[j] \in Toks
        BY <1>5, LineShape
      <4> QED BY <1>1, <4>1, <4>2, <4>3
    <3>5. PICK p \in Seq(Toks) : p = <<l[i + 1]>> /\ Len(p) = 1
      BY <3>4, FewTokens
    <3>6. PICK s \in Seq(Toks) : s = <<cond[k]>> /\ Len(s) = 1
      BY <3>4, FewTokens
    <3>7. inner = p \o u \o s
      BY <1>6, <2>1, <3>1, <3>2, <3>3, <3>5, <3>6, Zenon DEF inner
    <3>8. p \o u \in Seq(Toks) /\ Len(p \o u) = 1 + Len(u) /\ Len(u) \in Nat
      BY <3>5, JoinLength
    <3>9. p \o u \o s \in Seq(Toks) /\ Len(p \o u \o s) = (1 + Len(u)) + 1
      BY <3>6, <3>8, JoinLength
    <3>10. Len(q) \in Nat /\ Len(q) >= k - 2
      BY <1>6, <3>1
    <3>11. (1 + Len(u)) + 1 \in Nat /\ (1 + Len(u)) + 1 > k
      <4>1. PICK a \in Nat, b \in Nat : a = Len(u) /\ b = Len(q)
        BY <3>8, <3>10
      <4>2. a > b /\ b >= k - 2
        BY <3>2, <3>3, <3>10, <4>1
      <4>3. (1 + a) + 1 \in Nat /\ (1 + a) + 1 > k
        BY <4>2
      <4> QED BY <4>1, <4>3
    <3> QED BY <3>7, <3>9, <3>11
  <2>2. CASE ~whole
    <3>1. PICK r \in Seq(Toks) : r = Negated(g, cond) /\ Len(r) > Len(cond)
      BY <1>5, NegatedLength
    <3>2. PICK u \in Seq(Toks) : u = Lead(r, TRUE) /\ Len(u) = Len(r)
      BY LeadLength
    <3>3. inner = u
      BY <2>2, <3>1, <3>2, Zenon DEF inner
    <3>4. Len(u) \in Nat
      BY LineShape
    <3> QED BY <1>6, <3>1, <3>2, <3>3, <3>4
  <2> QED BY <2>1, <2>2
<1>9. PICK p \in Seq(Toks) : p = Cut(l, 1, i) /\ Len(p) = i
  <2>1. Cut(l, 1, i) \in Seq(Toks) /\ Len(Cut(l, 1, i)) = IF 1 <= i THEN i - 1 + 1 ELSE 0
    BY <1>1, <1>4, CutLength
  <2> QED BY <1>4, <2>1
<1>10. PICK s \in Seq(Toks) : s = <<l[Len(l)]>> /\ Len(s) = 1
  <2>1. l[n] \in Toks
    BY <1>1, <1>4
  <2> QED BY <1>1, <2>1, FewTokens
<1>11. NegateCondition(g, l, c, i) = p \o t \o s
  BY <1>2, <1>8, <1>9, <1>10, Zenon
<1>12. p \o t \in Seq(Toks) /\ Len(p \o t) = i + h
  BY <1>8, <1>9, JoinLength
<1>13. Len(p \o t \o s) = (i + h) + 1
  BY <1>10, <1>12, JoinLength
<1>14. (i + h) + 1 > n
  BY <1>1, <1>4, <1>6, <1>7, <1>8
<1> QED BY <1>1, <1>11, <1>13, <1>14 DEF c

LEMMA BodyThere ==
  ASSUME NEW g, NEW l, NEW i \in Nat, NEW e \in Nat
  PROVE  BodyStart(g, l, i, e) \in Int
<1> DEFINE bars == {j \in (i + 2) .. (e - 1) : Is(l, j, {"|"})}
           arrows == {j \in (i + 1) .. (e - 1) : Is(l, j, {"=>"})}
<1>1. ASSUME NEW T \in SUBSET Nat, T # {} PROVE Min(T) \in Nat
  <2>1. PICK x \in T : \A y \in T : x <= y
    BY <1>1, LeastNat
  <2>2. Min(T) \in T
    BY <2>1, Zenon DEF Min
  <2> QED BY <2>2
<1>2. \/ bars # {} /\ BodyStart(g, l, i, e) = Min(bars) + 1
      \/ arrows # {} /\ BodyStart(g, l, i, e) = Min(arrows) + 1
      \/ BodyStart(g, l, i, e) = 0
  BY DEF BodyStart
<1>3. bars \in SUBSET Nat /\ arrows \in SUBSET Nat
  OBVIOUS
<1> HIDE DEF bars, arrows
<1> QED BY <1>1, <1>2, <1>3

LEMMA BooleanKeeps ==
  ASSUME NEW g, NEW l \in Seq(Toks), NEW m \in Boolean(g, l, Code(g, l)), Len(m) = Len(l)
  PROVE  Rewritten(g, l, m)
<1> DEFINE c == Code(g, l)
<1>1. c \in SUBSET (1 .. Len(l)) /\ Len(l) \in Nat
  BY CodeThere, LineShape
<1>2. \A j \in 1 .. Len(l) : l[j].sp \in BOOLEAN
  BY LineShape
<1>3. \/ m \in Others(l, c, TruthAlts)
      \/ \E i \in Nots(g, l, c) : m = Upto(l, i) \o Lead(Behind(l, i), l[i].sp)
      \/ m \in NegateReturn(g, l)
      \/ \E i \in NegatedGroups(l, c) : m = Unwrap(l, c, i)
      \/ \E i \in Conditions(g, l, c) : m = NegateCondition(g, l, c, i)
      \/ \E p \in ClosureBodies(g, l, c) :
           m = Upto(l, p[1]) \o Lead(Negated(g, Cut(l, p[1], p[2] - 1)), l[p[1]].sp) \o Cut(l, p[2], Len(l))
  BY DEF Boolean
<1>4. CASE m \in Others(l, c, TruthAlts)
  <2>1. /\ Harmless(Both("True", "False")) /\ Harmless(Both("true", "false")) /\ Harmless(Both("TRUE", "FALSE"))
    BY BothFacts, PlainTexts
  <2>2. Harmless(TruthAlts)
    <3>1. \A S : (\A alts \in S : Harmless(alts)) => Harmless(UNION S)
      BY DEF Harmless
    <3> QED BY <2>1, <3>1, Zenon DEF TruthAlts
  <2> QED BY <1>4, <2>2, OthersRewrite
<1>5. CASE \E i \in Nots(g, l, c) : m = Upto(l, i) \o Lead(Behind(l, i), l[i].sp)
  <2>1. PICK i \in 1 .. Len(l) : m = Upto(l, i) \o Lead(Behind(l, i), l[i].sp)
    BY <1>1, <1>5 DEF Nots
  <2>2. PICK p \in Seq(Toks) : p = Upto(l, i) /\ Len(p) = i - 1
    BY EndsLength
  <2>3. PICK q \in Seq(Toks) : q = Behind(l, i) /\ Len(q) = Len(l) - i
    BY EndsLength
  <2>4. PICK t \in Seq(Toks) : t = Lead(q, l[i].sp) /\ Len(t) = Len(q)
    BY <1>2, LeadLength
  <2>5. m = p \o t
    BY <2>1, <2>2, <2>3, <2>4, Zenon
  <2>6. Len(m) = (i - 1) + (Len(l) - i)
    <3>1. Len(p \o t) = Len(p) + Len(t)
      BY JoinLength
    <3> QED BY <2>2, <2>3, <2>4, <2>5, <3>1
  <2> QED BY <1>1, <2>6
<1>6. CASE m \in NegateReturn(g, l)
  <2>1. Len(m) > Len(l)
    BY <1>6, NegatedReturn
  <2> QED BY <1>1, <2>1
<1>7. CASE \E i \in NegatedGroups(l, c) : m = Unwrap(l, c, i)
  <2>1. Len(m) < Len(l)
    BY <1>7, Unwrapped
  <2> QED BY <1>1, <2>1
<1>8. CASE \E i \in Conditions(g, l, c) : m = NegateCondition(g, l, c, i)
  <2>1. Len(m) > Len(l)
    BY <1>8, NegatedCondition
  <2> QED BY <1>1, <2>1
<1>9. CASE \E p \in ClosureBodies(g, l, c) :
             m = Upto(l, p[1]) \o Lead(Negated(g, Cut(l, p[1], p[2] - 1)), l[p[1]].sp) \o Cut(l, p[2], Len(l))
  <2> HIDE DEF c
  <2>1. PICK a, e, i : /\ i \in c /\ e = Match(l, c, i) /\ a = BodyStart(g, l, i, e) /\ 0 < a /\ a < e
                       /\ m = Upto(l, a) \o Lead(Negated(g, Cut(l, a, e - 1)), l[a].sp) \o Cut(l, e, Len(l))
    <3>1. PICK p \in ClosureBodies(g, l, c) :
            m = Upto(l, p[1]) \o Lead(Negated(g, Cut(l, p[1], p[2] - 1)), l[p[1]].sp) \o Cut(l, p[2], Len(l))
      BY <1>9
    <3>2. PICK i \in c : /\ p = <<BodyStart(g, l, i, Match(l, c, i)), Match(l, c, i)>>
                         /\ 0 < p[1] /\ p[1] < p[2]
      BY DEF ClosureBodies
    <3>3. p[1] = BodyStart(g, l, i, Match(l, c, i)) /\ p[2] = Match(l, c, i)
      BY <3>2
    <3> QED BY <3>1, <3>2, <3>3, Zenon
  <2>2. PICK n \in Nat : n = Len(l) /\ i \in 1 .. n
    BY <1>1, <2>1
  <2>3. e \in 1 .. n
    <3>1. e # 0
      <4>1. CASE e = 0
        <5>1. a \in Int
          BY <2>1, <2>2, <4>1, BodyThere
        <5> QED BY <2>1, <4>1, <5>1
      <4> QED BY <4>1
    <3> QED BY <1>1, <2>1, <2>2, <3>1, MatchThere
  <2>4. a \in 1 .. n /\ a \in Int /\ e \in Int /\ a < e
    <3>1. a \in Int
      BY <2>1, <2>2, <2>3, BodyThere
    <3> QED BY <2>1, <2>3, <3>1
  <2>5. PICK p \in Seq(Toks) : p = Upto(l, a) /\ Len(p) = a - 1
    BY <2>2, <2>4, EndsLength
  <2>6. PICK q \in Seq(Toks) : q = Cut(l, a, e - 1) /\ Len(q) = IF a <= e - 1 THEN e - 1 - a + 1 ELSE 0
    <3>1. e - 1 \in Int /\ 1 <= a /\ e - 1 <= Len(l)
      BY <2>2, <2>3, <2>4
    <3> QED BY <2>4, <3>1, CutLength
  <2>7. PICK r \in Seq(Toks) : r = Negated(g, q) /\ Len(r) > Len(q)
    BY NegatedLength
  <2>8. PICK t \in Seq(Toks), h \in Nat : t = Lead(r, l[a].sp) /\ Len(t) = h /\ Len(t) = Len(r)
    BY <1>2, <2>2, <2>4, LeadLength, LineShape
  <2>9. PICK s \in Seq(Toks) : s = Cut(l, e, Len(l)) /\ Len(s) = IF e <= n THEN n - e + 1 ELSE 0
    <3>1. 1 <= e /\ e \in Int /\ Len(l) \in Int /\ Len(l) <= Len(l)
      BY <2>2, <2>3
    <3>2. Cut(l, e, Len(l)) \in Seq(Toks) /\ Len(Cut(l, e, Len(l))) = IF e <= Len(l) THEN Len(l) - e + 1 ELSE 0
      BY <3>1, CutLength
    <3> QED BY <2>2, <3>2
  <2>10. m = p \o t \o s
    BY <2>1, <2>5, <2>6, <2>7, <2>8, <2>9, Zenon
  <2>11. p \o t \in Seq(Toks) /\ Len(p \o t) = (a - 1) + h
    <3>1. p \o t \in Seq(Toks) /\ Len(p \o t) = Len(p) + Len(t)
      BY JoinLength
    <3> QED BY <2>5, <2>8, <3>1
  <2>12. Len(m) = ((a - 1) + h) + (n - e + 1)
    <3>1. PICK x \in Seq(Toks) : x = p \o t /\ Len(x) = (a - 1) + h
      BY <2>11
    <3>2. Len(x \o s) = Len(x) + Len(s)
      BY JoinLength
    <3>3. Len(s) = n - e + 1
      BY <2>3, <2>9
    <3> QED BY <2>10, <3>1, <3>2, <3>3
  <2>13. h > e - a
    BY <2>3, <2>4, <2>6, <2>7, <2>8
  <2> QED BY <2>2, <2>3, <2>4, <2>12, <2>13
<1> HIDE DEF c
<1> QED BY <1>3, <1>4, <1>5, <1>6, <1>7, <1>8, <1>9

LEMMA MissingReturnMoves ==
  ASSUME NEW g, NEW l \in Seq(Toks), NEW closes, NEW m \in MissingReturn(g, l, Code(g, l), closes)
  PROVE  Len(m) # Len(l)
<1>1. Len(l) \in Nat
  BY LineShape
<1>2. CASE m \in DropSemicolon(l, Code(g, l), closes)
  <2>1. PICK s \in Code(g, l) : m = Upto(l, s) \o Behind(l, s)
    BY <1>2, Zenon DEF DropSemicolon
  <2>2. s \in 1 .. Len(l)
    BY CodeThere
  <2>3. Len(m) = (s - 1) + (Len(l) - s)
    <3>1. PICK p \in Seq(Toks) : p = Upto(l, s) /\ Len(p) = s - 1
      BY <2>2, EndsLength
    <3>2. PICK q \in Seq(Toks) : q = Behind(l, s) /\ Len(q) = Len(l) - s
      BY <2>2, EndsLength
    <3>3. Len(p \o q) = Len(p) + Len(q)
      BY JoinLength
    <3> QED BY <2>1, <3>1, <3>2, <3>3
  <2> QED BY <1>1, <2>2, <2>3
<1>3. CASE m \in PrependReturn(g, l, Code(g, l))
  <2>1. m = <<Tok("word", "return", 0, l[1].sp)>> \o Lead(l, TRUE) /\ Word(l, 1)
    BY <1>3, Zenon DEF PrependReturn
  <2>2. 1 \in 1 .. Len(l)
    <3>1. 1 \in DOMAIN l
      BY <2>1 DEF Word, TokAt, Tok
    <3> QED BY <3>1, LineShape
  <2>3. Tok("word", "return", 0, l[1].sp) \in Toks
    <3>1. "word" \in Texts /\ "return" \in Texts /\ "return" \notin Signs
      BY DEF Texts, Signs
    <3>2. l[1].sp \in BOOLEAN
      BY <2>2, LineShape
    <3> QED BY <3>1, <3>2 DEF Tok, Toks
  <2>4. PICK p \in Seq(Toks) : p = <<Tok("word", "return", 0, l[1].sp)>> /\ Len(p) = 1
    BY <2>3, FewTokens
  <2>5. PICK t \in Seq(Toks) : t = Lead(l, TRUE) /\ Len(t) = Len(l)
    BY LeadLength
  <2>6. Len(m) = 1 + Len(l)
    <3>1. m = p \o t
      BY <2>1, <2>4, <2>5, Zenon
    <3>2. Len(p \o t) = Len(p) + Len(t)
      BY JoinLength
    <3> QED BY <2>4, <2>5, <3>1, <3>2
  <2> QED BY <1>1, <2>6
<1> QED BY <1>2, <1>3 DEF MissingReturn

\* An edit that moves no text and leaves as many tokens as there were touches code alone.
LEMMA RewriteKeeps ==
  ASSUME NEW g, NEW l \in Seq(Toks), NEW closes, NEW class \in Classes \ {"swap-args", "arg-shift"},
         NEW m \in EditsOf(class, g, l, closes), Len(m) = Len(l)
  PROVE  Rewritten(g, l, m)
<1>1. CASE class \in Replacing
  BY <1>1, ReplacingKeeps
<1>2. CASE class = "off-by-one"
  BY <1>2, OffByOneKeeps DEF EditsOf
<1>3. CASE class = "boolean"
  BY <1>3, BooleanKeeps DEF EditsOf
<1>4. CASE class = "missing-return"
  BY <1>4, MissingReturnMoves DEF EditsOf
<1> QED BY <1>1, <1>2, <1>3, <1>4 DEF Classes, Replacing

EditInv ==
  /\ written \in Sources
  /\ shape = "sound" => fault = NoFault
  /\ shape = "faulty" => fault # NoFault
  /\ fault # NoFault =>
       written.lang = "rust" /\ fault \in Sites(written.text) /\ fault.text # written.text
  /\ shape = "edited" =>
       /\ rewrite.class \in Classes
       /\ rewrite.text \in EditsOf(rewrite.class, written.lang, Text, written.closes)

LEMMA EditStart == EditInit => EditInv
BY DEF EditInit, EditInv

LEMMA SitesAreFaults ==
  ASSUME NEW l, NEW f \in Sites(l)
  PROVE  f # NoFault
<1>1. NoFault.kind = "none"
  BY DEF NoFault
<1>2. f.kind # "none"
  BY SitesOf
<1> QED BY <1>1, <1>2

LEMMA EditStep == EditInv /\ [EditNext]_editVars => EditInv'
<1> SUFFICES ASSUME EditInv, [EditNext]_editVars PROVE EditInv'
  OBVIOUS
<1>1. ASSUME NEW f \in Sites(written.text), Plant(f) PROVE EditInv'
  <2>1. f # NoFault
    BY SitesAreFaults
  <2> QED BY <1>1, <2>1 DEF EditInv, Plant
<1>2. ASSUME NEW class \in Classes, NEW l, Try(class, l) PROVE EditInv'
  <2>1. Text' = Text
    BY <1>2 DEF Try, Text
  <2>2. rewrite'.class = class /\ rewrite'.text = l
    BY <1>2 DEF Try
  <2> QED BY <1>2, <2>1, <2>2 DEF EditInv, Try
<1>3. CASE UNCHANGED editVars
  BY <1>3 DEF EditInv, editVars, Text
<1> QED BY <1>1, <1>2, <1>3 DEF EditNext

\* The lines are lines, with or without a fault.
LEMMA TextShape == EditInv => written.text \in Seq(Toks) /\ Text \in Seq(Toks)
<1> SUFFICES ASSUME EditInv PROVE written.text \in Seq(Toks) /\ Text \in Seq(Toks)
  OBVIOUS
<1>1. written.text \in Seq(Toks)
  <2>1. PICK l : l = written.text /\ l \in Seq([k : STRING, v : STRING, n : Nat, sp : BOOLEAN])
                 /\ \A i \in DOMAIN l : l[i].k = "word" => l[i].v \notin Signs
    BY EditAssumption DEF EditInv
  <2>2. Len(l) \in Nat /\ DOMAIN l = 1 .. Len(l) /\ l \in [1 .. Len(l) -> [k : STRING, v : STRING, n : Nat, sp : BOOLEAN]]
    BY <2>1, LenProperties
  <2>3. ASSUME NEW i \in 1 .. Len(l) PROVE l[i] \in Toks
    <3>1. l[i] \in [k : STRING, v : STRING, n : Nat, sp : BOOLEAN] /\ (l[i].k = "word" => l[i].v \notin Signs)
      BY <2>1, <2>2
    <3>2. STRING \in SUBSET Texts
      BY DEF Texts
    <3>3. l[i] \in [k : Texts, v : Texts, n : Nat, sp : BOOLEAN]
      BY <3>1, <3>2
    <3> QED BY <3>1, <3>3 DEF Toks
  <2>4. l \in [1 .. Len(l) -> Toks]
    BY <2>2, <2>3
  <2>5. l \in Seq(Toks)
    BY <2>2, <2>4
  <2> QED BY <2>1, <2>5
<1>2. CASE fault = NoFault
  BY <1>1, <1>2 DEF Text
<1>3. CASE fault # NoFault
  BY <1>1, <1>3, SiteShape DEF Text, EditInv
<1> QED BY <1>1, <1>2, <1>3

\* The edit writes other texts where some were.
OthersInPlace == rewrite.class \notin {"swap-args", "arg-shift"} /\ Len(rewrite.text) = Len(Text)

LEMMA LiteralsHold ==
  ASSUME EditInv, shape = "edited" => OthersInPlace
  PROVE  LiteralsKept
<1> SUFFICES ASSUME shape = "edited"
             PROVE  Bag(Said(written.lang, rewrite.text)) = Bag(Said(written.lang, Text))
  BY DEF LiteralsKept
<1>1. Rewritten(written.lang, Text, rewrite.text)
  BY TextShape, RewriteKeeps DEF EditInv, OthersInPlace
<1>2. Said(written.lang, rewrite.text) = Said(written.lang, Text)
  BY <1>1, TextShape, SaidAlike
<1> QED BY <1>2

LEMMA SeedsHold ==
  ASSUME EditInv, shape = "faulty" => Plainly(fault, written.text)
  PROVE  SeedsReached
<1> SUFFICES ASSUME shape = "faulty", ~OutOfReach
             PROVE  written.text \in Offered(written.lang, fault.text, written.closes)
  BY DEF SeedsReached
<1>1. PICK l : l = written.text /\ l \in Seq(Toks)
  BY TextShape
<1>2. PICK f : f = fault /\ f \in Sites(l) /\ f.text # l /\ written.lang = "rust"
  BY <1>1 DEF EditInv
<1>3. PICK i : i = FirstChange(f.text, l)
  OBVIOUS
<1>4. /\ Plainly(f, l) /\ ~Oracle(f.text) /\ f.kind # "shift"
      /\ f.kind = "const" => ~(f.text[i].n > MaxShifted \/ f.text[i].n \notin {l[i].n - 1, l[i].n + 1})
      /\ f.kind = "arith" => ~Is(f.text, i, {"="})
  BY <1>1, <1>2, <1>3 DEF OutOfReach
<1>5. PICK c, spaced :
    /\ c = Code("rust", l) /\ spaced = {j \in c : Spaced(l, j)}
    /\ \/ f.kind = "cmp" /\ f.text \in Others(l, spaced, CompareAlts)
       \/ f.kind = "logic" /\ f.text \in Others(l, spaced, Both("&&", "||"))
       \/ f.kind = "arith" /\ f.text \in Others(l, spaced, SumAlts) \cup Others(l, spaced, SeedAssign)
       \/ f.kind = "range" /\ f.text \in Others(l, c, Both("..", "..="))
       \/ f.kind = "const" /\ f.text \in SeedConst(l, c)
       \/ f.kind = "bool" /\ f.text \in Others(l, c, Both("true", "false"))
       \/ f.kind = "minmax" /\ f.text \in SeedPairs(l, c)
       \/ f.kind = "flow" /\ f.text \in Others(l, c, FlowAlts)
  BY <1>2, <1>4, SitesOf DEF Plainly
<1>6. CASE f.kind = "const"
  <2>1. f.text \in SeedConst(l, Code("rust", l))
    BY <1>5, <1>6
  <2>2. LET k == FirstChange(f.text, l) IN ~(f.text[k].n > MaxShifted \/ f.text[k].n \notin {l[k].n - 1, l[k].n + 1})
    BY <1>3, <1>4, <1>6
  <2>3. l \in Offered("rust", f.text, written.closes)
    BY <1>1, <1>2, <1>4, <2>1, <2>2, ConstReached
  <2> QED BY <1>1, <1>2, <2>3
<1>7. CASE f.kind # "const"
  <2>1. \/ f.text \in Others(l, spaced, CompareAlts)
        \/ f.text \in Others(l, spaced, Both("&&", "||"))
        \/ f.text \in Others(l, c, Both("..", "..="))
        \/ f.text \in Others(l, c, Both("true", "false"))
        \/ f.text \in Others(l, c, FlowAlts)
        \/ f.text \in SeedPairs(l, c)
        \/ f.text \in Others(l, spaced, SumAlts) /\ (Is(f.text, FirstChange(f.text, l), {"-=", "+=", "/="}) \/ Binary(l, FirstChange(f.text, l)))
        \/ f.text \in Others(l, spaced, SeedAssign) /\ ~Is(f.text, FirstChange(f.text, l), {"="})
    BY <1>3, <1>4, <1>5, <1>7 DEF Plainly
  <2>2. l \in Offered("rust", f.text, written.closes)
    BY <1>1, <1>2, <1>4, <1>5, <2>1, TextReached
  <2> QED BY <1>1, <1>2, <2>2
<1> QED BY <1>6, <1>7

\* What the theorem is about: edits that write other texts where some were, and faults of one
\* token.
InReach ==
  /\ shape = "faulty" => Plainly(fault, written.text)
  /\ shape = "edited" => OthersInPlace

\* Whatever the lines and the languages: an edit that moves no text and keeps the number of tokens
\* leaves every literal and every comment as it was (code_mask and the token classes of
\* line_mutations in mutation_repair.rs), and a fault of one token that OutOfReach does not name is
\* undone by some edit of the line (the tables of mutation_repair.rs and scripts/seed_faults.py).
THEOREM EditsSoundCorrect == EditSpec => [](InReach => EditsSound)
<1>1. EditInit => EditInv
  BY EditStart
<1>2. EditInv /\ [EditNext]_editVars => EditInv'
  BY EditStep
<1>3. EditInv => (InReach => EditsSound)
  BY LiteralsHold, SeedsHold DEF InReach, EditsSound
<1> QED BY <1>1, <1>2, <1>3, PTL DEF EditSpec
=============================================================================
