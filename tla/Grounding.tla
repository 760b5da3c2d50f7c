------------------------------ MODULE Grounding ------------------------------
(***************************************************************************)
(* POST /v1/verify (server/routes_verify.rs, hallucination.rs): what an    *)
(* answer claims is judged against the spans of the evidence, the symbols  *)
(* that claims in doubt mention are expanded one by one and the answer is  *)
(* judged again; the threshold of the verdicts is calibrated on a sample;  *)
(* and the one round in which a model may correct its answer               *)
(* (ground_correct_round of server/routes_messages.rs).                    *)
(*                                                                         *)
(* A claim and a span of evidence are sets of content tokens; a token may  *)
(* be a symbol of the stored source, whose body is a span.  Supports are   *)
(* compared as fractions, in units of 1 / Full.  The tokenizer, repeated   *)
(* tokens, the stand-in for the word "test" and the neural tier are left   *)
(* out.                                                                    *)
(***************************************************************************)
EXTENDS Naturals, Sequences, FiniteSets, FiniteSetsExt

CONSTANTS
  Tokens,         \* content tokens
  ClaimSize,      \* a shorter sentence claims nothing (3)
  Spans,          \* spans the evidence and the bodies of symbols may have
  MaxClaims,      \* bound of the model: claims of an answer
  MaxExpansions,  \* MAX_EXPANSIONS
  Scores, MaxSample, Deltas,   \* bounds of the model: calibration samples, tenths of delta
  Full,           \* a support of 1
  ShippedGate,    \* SHIPPED_CONFORMAL_THRESHOLD
  SupportHigh,    \* SUPPORT_HIGH
  NoBody          \* a token that is no symbol

ASSUME GroundAssumption ==
  /\ IsFiniteSet(Tokens) /\ Scores \cup Deltas \subseteq Nat
  /\ {MaxExpansions, MaxClaims, MaxSample, Full, ShippedGate, SupportHigh} \subseteq Nat

VARIABLES
  at,         \* "idle", "expanding", "judged", "asked", "given", "calibrated"
  answer,     \* the claims of the answer
  evidence,   \* the spans of the evidence
  source,     \* the body of each symbol in the stored source
  gate,       \* AXIOM_CONFORMAL_THRESHOLD
  seen,       \* symbols that were looked up
  expanded,   \* symbols whose bodies were added
  turn,       \* the claim whose symbols are looked up
  draft,      \* the answer before its correction
  sample, tenths   \* the sample calibrated on, and delta

groundVars ==
  <<at, answer, evidence, source, gate, seen, expanded, turn, draft, sample, tenths>>

Claims    == {c \in SUBSET Tokens : Cardinality(c) >= ClaimSize}
SeqsUpTo(S, n) == UNION {[1 .. k -> S] : k \in 0 .. n}

GroundInit ==
  /\ at = "idle" /\ answer = <<>> /\ evidence = {} /\ source = [t \in Tokens |-> NoBody]
  /\ gate = ShippedGate /\ seen = {} /\ expanded = {} /\ turn = 1 /\ draft = <<>>
  /\ sample = <<>> /\ tenths = 0

(***************************************************************************)
(* Verdicts.                                                               *)
(***************************************************************************)

\* best_support: the most of a claim's tokens that one span has.
Matched(claim, spans) == Max({Cardinality(claim \intersect s) : s \in spans} \union {0})

\* ConformalGate::verdict
Verdict(claim, spans) ==
  LET m == Full * Matched(claim, spans) IN
  IF m >= gate * Cardinality(claim) THEN "supported"
  ELSE IF 2 * m < gate * Cardinality(claim) THEN "unsupported" ELSE "unverified"

Supported(claims, spans) == {i \in DOMAIN claims : Verdict(claims[i], spans) = "supported"}
Flagged(claims, spans) == {i \in DOMAIN claims : Verdict(claims[i], spans) = "unsupported"}

(***************************************************************************)
(* verify_with_gated_expansion.                                            *)
(***************************************************************************)
Bodies(symbols) == {source[t] : t \in symbols} \ {NoBody}
After == evidence \union Bodies(expanded)
Verify(claims, spans, bodies) ==
  /\ at = "idle"
  /\ at' = "expanding"
  /\ answer' = claims /\ evidence' = spans /\ source' = bodies
  /\ UNCHANGED <<gate, seen, expanded, turn, draft, sample, tenths>>

InDoubt(i) == Verdict(answer[i], evidence) # "supported"
MayExpand(t) == Cardinality(expanded) < MaxExpansions
LookUp(t) ==
  /\ at = "expanding" /\ turn \in DOMAIN answer /\ InDoubt(turn)
  /\ t \in answer[turn] \ seen /\ MayExpand(t)
  /\ seen' = seen \union {t}
  /\ expanded' = IF source[t] = NoBody THEN expanded ELSE expanded \union {t}
  /\ UNCHANGED <<at, answer, evidence, source, gate, turn, draft, sample, tenths>>

\* The next claim's turn: this one is not in doubt, its symbols are used up, or the cap is
\* reached.
NextClaim ==
  /\ at = "expanding" /\ turn \in DOMAIN answer
  /\ ~InDoubt(turn) \/ \A t \in answer[turn] \ seen : ~MayExpand(t)
  /\ turn' = turn + 1
  /\ UNCHANGED <<at, answer, evidence, source, gate, seen, expanded, draft, sample, tenths>>

Judge ==
  /\ at = "expanding" /\ turn \notin DOMAIN answer
  /\ at' = "judged"
  /\ UNCHANGED <<answer, evidence, source, gate, seen, expanded, turn, draft, sample, tenths>>

(***************************************************************************)
(* ground_correct_round: asked once, and kept if more of it is grounded.   *)
(***************************************************************************)
\* An answer without a claim is grounded to no part at all.
MoreGrounded(new, old) ==
  Cardinality(Supported(new, evidence)) * Len(old) > Cardinality(Supported(old, evidence)) * Len(new)

Reply(claims, spans) ==
  /\ at = "idle" /\ spans # {}
  /\ answer' = claims /\ evidence' = spans /\ draft' = claims
  /\ at' = "asked"
  /\ UNCHANGED <<source, gate, seen, expanded, turn, sample, tenths>>

\* Nothing flagged, a re-ask that fails, an empty or a worse revision leave the answer.
Revise(claims) ==
  /\ at = "asked" /\ at' = "given"
  /\ answer' = IF Flagged(draft, evidence) # {} /\ MoreGrounded(claims, draft)
               THEN claims ELSE draft
  /\ UNCHANGED <<evidence, source, gate, seen, expanded, turn, draft, sample, tenths>>

(***************************************************************************)
(* ConformalGate::calibrate.                                               *)
(***************************************************************************)
Positives(pairs) == {i \in DOMAIN pairs : pairs[i].true}

\* The place, from 0, of the threshold among the positives in ascending order.
Rank(n, d) == IF (n * d) \div 10 < n THEN (n * d) \div 10 ELSE n - 1
Quantile(pairs, d) ==
  IF Positives(pairs) = {} THEN SupportHigh
  ELSE Min({pairs[i].score : i \in {j \in Positives(pairs) :
         Cardinality({k \in Positives(pairs) : pairs[k].score <= pairs[j].score})
           > Rank(Cardinality(Positives(pairs)), d)}})

\* The threshold the route returns is the one the operator exports for the next start.
Calibrate(pairs, d) ==
  /\ at = "idle" /\ pairs # <<>>
  /\ at' = "calibrated" /\ sample' = pairs /\ tenths' = d
  /\ gate' = Quantile(pairs, d)
  /\ UNCHANGED <<answer, evidence, source, seen, expanded, turn, draft>>

GroundNext ==
  \/ \E claims \in SeqsUpTo(Claims, MaxClaims), spans \in {{}} \union {{s} : s \in Spans} :
       \/ \E bodies \in [Tokens -> Spans \union {NoBody}] : Verify(claims, spans, bodies)
       \/ Reply(claims, spans)
  \/ \E t \in Tokens : LookUp(t)
  \/ NextClaim \/ Judge
  \/ \E claims \in SeqsUpTo(Claims, MaxClaims) : Revise(claims)
  \/ \E pairs \in SeqsUpTo([score : Scores, true : BOOLEAN], MaxSample), d \in Deltas :
       Calibrate(pairs, d)

GroundSpec == GroundInit /\ [][GroundNext]_groundVars

-----------------------------------------------------------------------------
(* Properties *)
Grade == [unsupported |-> 0, unverified |-> 1, supported |-> 2]

\* Expansion brings evidence, never doubt: no claim is judged worse for it; and the
\* evidence is spent "only on claims the skeleton could not ground", up to the cap.
Surgical ==
  at = "judged" =>
    /\ \A i \in DOMAIN answer :
         Grade[Verdict(answer[i], After)] >= Grade[Verdict(answer[i], evidence)]
    /\ expanded \subseteq UNION {answer[i] : i \in {j \in DOMAIN answer : InDoubt(j)}}
    /\ Cardinality(expanded) <= MaxExpansions

\* Below the cap nothing was missed, in whatever order symbols were looked up: the verdicts
\* are those of expanding every symbol of every claim in doubt.
Complete ==
  at = "judged" /\ Cardinality(expanded) < MaxExpansions =>
    LET all == UNION {answer[i] : i \in {j \in DOMAIN answer : InDoubt(j)}} IN
    \A i \in DOMAIN answer :
      Verdict(answer[i], After) = Verdict(answer[i], evidence \union Bodies(all))

\* "self-correction can degrade output": no answer that is grounded throughout is ever
\* replaced, and none by one with a smaller share of its claims grounded.
NeverDegrades ==
  at = "given" /\ answer # draft =>
    /\ Supported(draft, evidence) # DOMAIN draft
    /\ MoreGrounded(answer, draft)

\* "at least (1-delta) of genuinely supported claims score >= tau".
Coverage ==
  at = "calibrated" =>
    10 * Cardinality({i \in Positives(sample) : sample[i].score < gate})
      <= tenths * Cardinality(Positives(sample))

GroundingSound == Surgical /\ Complete /\ NeverDegrades /\ Coverage
=============================================================================
