------------------------------- MODULE Inquiry -------------------------------
(***************************************************************************)
(* One question to several providers, and beliefs made of the answers.     *)
(*                                                                         *)
(* Router (backend_router.rs): a provider first in line for the task or    *)
(* pinned, the others after it, or under consensus two answers compared.   *)
(* ChimeraLang (chimera.rs): a belief asks each of its agents and fuses    *)
(* their Beta beliefs (belief.rs), resolve and guard look at it, evolve    *)
(* asks again.  A provider answers or fails anew at every call.            *)
(*                                                                         *)
(* Confidences, risks and thresholds are in hundredths, and so are the     *)
(* parameters of a belief <<alpha, beta>>; the f32 divisions are rounded   *)
(* down.                                                                   *)
(***************************************************************************)
EXTENDS Integers, Sequences, FiniteSets

CONSTANTS
  TryOrders,       \* the try-orders of the routing policies (RoutePolicy::order_for)
  Keyed,        \* the sets of providers that may be configured
  AnswerTexts,        \* the answers a provider may give, "blank" among them
  Alike(_, _),  \* answers that agree though they are not equal (token overlap)
  AgentLists,   \* the agents a belief may name, each as <<>> or <<the provider it pins>>
  Ttls, Thresholds, \* of beliefs; thresholds of resolve and risks of guard
  MaxIter,      \* iterations of evolve
  MaxStatements \* (bound) statements of a program

\* Try-orders name a provider once, an answer is told from a failure, a belief names an agent
\* ("default" if none), thresholds are natural.
ASSUME AskAssumption ==
  /\ \A o \in TryOrders :
       /\ o # <<>> /\ o \in Seq({o[i] : i \in DOMAIN o})
       /\ \A i, j \in DOMAIN o : o[i] = o[j] => i = j
  /\ {"down", "absent"} \cap AnswerTexts = {}
  /\ \A l \in AgentLists : l # <<>> /\ l \in Seq({l[i] : i \in DOMAIN l})
  /\ Thresholds \subseteq Nat /\ MaxIter \in Nat

VARIABLES
  policy,       \* the order, the configured providers, and whether consensus is on
  query,        \* the generation under way
  program,      \* the statement under way, how many have run, and the last check's level and verdict
  belief        \* the belief as the program holds it

askVars == <<policy, query, program, belief>>

Single == 80      \* confidence of one provider's answer
Neutral == 50     \* and of no answer
Strength == 4     \* INQUIRY_STRENGTH
GuardVariance == 500   \* of 10000

NoQuery == [pass |-> "idle", order |-> <<>>, next |-> 1, replies |-> <<>>, err |-> "absent",
            calls |-> 0, spoke |-> {}, text |-> "none", by |-> "none", conf |-> Neutral]
NoBelief == [at |-> <<100, 100>>, agents |-> <<>>, ttl |-> 0, text |-> "none", confs |-> <<>>,
             fused |-> <<100, 100>>, stated |-> FALSE, heard |-> FALSE]
NoProgram == [stage |-> "idle", left |-> <<>>, iter |-> 0, count |-> 0,
              level |-> 0, ok |-> FALSE]

AskInit ==
  /\ policy \in [order : TryOrders, keyed : Keyed, consensus : BOOLEAN]
  /\ query = NoQuery /\ belief = NoBelief /\ program = NoProgram

-----------------------------------------------------------------------------
(* The router.                                                             *)

\* The pinned provider, and the others in their order.
PinnedFirst(p, order) ==
  [i \in 1 .. (IF p \in {order[k] : k \in DOMAIN order} THEN Len(order) ELSE Len(order) + 1) |->
     CASE i = 1 -> p
       [] i > 1 /\ p \in {order[k] : k \in 1 .. i - 1} -> order[i]
       [] OTHER -> order[i - 1]]

\* A pinned provider goes first and is not asked again; without a pin the policy's order is
\* used, and consensus where it is on.
Started(pin) ==
  [NoQuery EXCEPT
     !.order = IF pin = <<>> THEN policy.order
               ELSE PinnedFirst(pin[1], policy.order),
     !.pass  = IF pin = <<>> /\ policy.consensus THEN "consensus" ELSE "route"]

\* Blank answers never agree.
Agree(a, b) == a # "blank" /\ b # "blank" /\ (a = b \/ Alike(a, b))

\* A belief of 1,1 reinforced once, and once more by agreement or penalised twice.
Fused(a, b) == IF Agree(a, b) THEN (3 * 100) \div 4 ELSE (2 * 100) \div 5

Possible(p) == IF p \in policy.keyed THEN {"down"} \cup AnswerTexts ELSE {"absent"}

Asking(q, p, outcome) ==
  [q EXCEPT !.calls = @ + 1, !.next = @ + 1,
            !.spoke = IF outcome \in AnswerTexts THEN @ \cup {p} ELSE @]

Settled(q, p, text, conf) == [q EXCEPT !.pass = "answered", !.by = p, !.text = text, !.conf = conf]

\* try_consensus goes down the order until two have answered; no answer at all goes on to the
\* plain routing, from the start.
Compare(outcome) ==
  LET p  == query.order[query.next]
      q  == Asking(query, p, outcome)
      rs == IF outcome \in AnswerTexts THEN Append(q.replies, <<p, outcome>>) ELSE q.replies
      over == Len(rs) = 2 \/ q.next > Len(q.order) IN
  /\ query.pass = "consensus" /\ outcome \in Possible(p)
  /\ query' =
       CASE ~over        -> [q EXCEPT !.replies = rs]
         [] Len(rs) = 2  -> Settled(q, rs[1][1], rs[1][2], Fused(rs[1][2], rs[2][2]))
         [] Len(rs) = 1 /\ over -> Settled(q, rs[1][1], rs[1][2], Single)
         [] OTHER        -> [q EXCEPT !.pass = "route", !.next = 1]
  /\ UNCHANGED <<policy, program, belief>>

\* route_order: the first answer is the answer; of the errors the first that is not "not
\* configured" is kept.
Route(outcome) ==
  LET p == query.order[query.next]
      q == Asking(query, p, outcome) IN
  /\ query.pass = "route" /\ outcome \in Possible(p)
  /\ query' =
       IF outcome \in AnswerTexts THEN Settled(q, p, outcome, Single)
       ELSE [q EXCEPT !.err = IF @ = "absent" THEN outcome ELSE @,
                      !.pass = IF q.next > Len(q.order) THEN "failed" ELSE @]
  /\ UNCHANGED <<policy, program, belief>>

Asked == query.pass \in {"answered", "failed"}

\* POST /v1/generate: one question, no belief.
Generate ==
  /\ program.stage = "idle" /\ program.count < MaxStatements
  /\ query' = Started(<<>>)
  /\ program' = [program EXCEPT !.stage = "generate", !.count = @ + 1]
  /\ UNCHANGED <<policy, belief>>

Generated ==
  /\ program.stage = "generate" /\ Asked
  /\ query' = NoQuery /\ program' = [program EXCEPT !.stage = "idle"]
  /\ UNCHANGED <<policy, belief>>

-----------------------------------------------------------------------------
(* Beliefs.                                                                *)

Total(b) == b[1] + b[2]
FromConfidence(conf) == <<conf * Strength, (100 - conf) * Strength>>

\* mean >= level hundredths; the variance in ten-thousandths.
MeanReaches(b, level) == 100 * b[1] >= level * Total(b)
Variance(b) == (((100 * b[1] * b[2]) \div Total(b)) * 10000) \div (Total(b) * (Total(b) + 100))

\* combine_ds refuses above a conflict mass of 0.8 and adds the evidence below it.
Conflict(a, b) == 10 * (a[1] * b[2] + a[2] * b[1]) > 8 * Total(a) * Total(b)
NotBelow0(n) == IF n > 0 THEN n ELSE 0     \* 1e-6 in the code
Combined(a, b) == <<NotBelow0(a[1] + b[1] - 100), NotBelow0(a[2] + b[2] - 100)>>
Murphy(a, b) ==
  LET yes == ((1000 * a[1]) \div Total(a) + (1000 * b[1]) \div Total(b)) \div 2
      t   == (Total(a) + Total(b)) \div 2 IN
  <<(yes * t) \div 1000, t - (yes * t) \div 1000>>

\* decayed(0.98): `factor` is the share of the uniform prior.
Decayed(b) == <<(b[1] * 2 + 98 * 100) \div 100, (b[2] * 2 + 98 * 100) \div 100>>

\* inquire with one agent, or in evolve with the whole list, whose first provider is pinned.
PinOf(agents) ==
  LET named == SelectSeq(agents, LAMBDA a : a # <<>>) IN IF named = <<>> THEN <<>> ELSE named[1]

\* A statement that starts by asking.
Believe(agents, ttl) ==
  /\ program.stage = "idle" /\ program.count < MaxStatements
  /\ belief' = [NoBelief EXCEPT !.agents = agents, !.ttl = ttl]
  /\ program' = [program EXCEPT !.stage = "believe", !.left = agents, !.count = @ + 1,
                                !.level = 0, !.ok = FALSE]
  /\ query' = Started(PinOf(<<agents[1]>>))
  /\ UNCHANGED policy

\* One agent's response: fused with those before it, a conflict averaged.  The answer kept is
\* the last agent's, an absent one too.
Fuse ==
  LET b  == FromConfidence(query.conf)
      on == IF belief.confs = <<>> THEN b
            ELSE IF Conflict(belief.at, b) THEN Murphy(belief.at, b) ELSE Combined(belief.at, b)
      rest == Tail(program.left) IN
  /\ program.stage = "believe" /\ Asked
  /\ belief' = [belief EXCEPT
       !.confs = Append(@, query.conf), !.text = query.text, !.fused = on,
       !.heard = @ \/ query.pass = "answered", !.stated = (rest = <<>>),
       !.at = IF rest = <<>> /\ belief.ttl = 0 THEN Decayed(on) ELSE on]
  /\ program' = [program EXCEPT !.left = rest, !.stage = IF rest = <<>> THEN "idle" ELSE @]
  /\ query' = IF rest = <<>> THEN NoQuery ELSE Started(PinOf(<<rest[1]>>))
  /\ UNCHANGED policy

\* A belief nobody stated ends the program.
Unknown ==
  /\ program.stage = "idle" /\ ~belief.stated /\ program.count < MaxStatements
  /\ program' = [program EXCEPT !.stage = "error"]
  /\ UNCHANGED <<policy, query, belief>>

Checks(level, ok) ==
  /\ program.stage = "idle" /\ belief.stated /\ program.count < MaxStatements
  /\ program' = [program EXCEPT !.count = @ + 1, !.level = level, !.ok = ok]
  /\ UNCHANGED <<policy, query, belief>>

Resolve(threshold) == Checks(threshold, MeanReaches(belief.at, threshold))

\* A high mean is not enough: the variance has a ceiling.
Guard(risk) ==
  Checks(100 - risk, MeanReaches(belief.at, 100 - risk) /\ Variance(belief.at) <= GuardVariance)

Evolve ==
  /\ program.stage = "idle" /\ belief.stated /\ program.count < MaxStatements
  /\ program' = [program EXCEPT !.stage = "evolve", !.iter = 1, !.count = @ + 1]
  /\ query' = Started(PinOf(belief.agents))
  /\ UNCHANGED <<policy, belief>>

\* A conflicting answer leaves the belief as it is, and that ends the loop.
EvolveStep ==
  LET b  == FromConfidence(query.conf)
      on == IF Conflict(belief.at, b) THEN belief.at ELSE Combined(belief.at, b)
      done == program.iter = MaxIter \/ Variance(on) = Variance(belief.at) IN
  /\ program.stage = "evolve" /\ Asked
  /\ belief' = [belief EXCEPT !.at = on, !.heard = @ \/ query.pass = "answered",
                              !.confs = Append(@, query.conf)]
  /\ program' = [program EXCEPT !.stage = IF done THEN "idle" ELSE @,
                                !.iter = IF done THEN 0 ELSE @ + 1]
  /\ query' = IF done THEN NoQuery ELSE Started(PinOf(belief.agents))
  /\ UNCHANGED policy

AskNext ==
  \/ \E outcome \in {"down", "absent"} \cup AnswerTexts : Compare(outcome) \/ Route(outcome)
  \/ Generate \/ Generated \/ Fuse \/ Unknown \/ Evolve \/ EvolveStep
  \/ \E agents \in AgentLists, ttl \in Ttls : Believe(agents, ttl)
  \/ \E level \in Thresholds : Resolve(level) \/ Guard(level)

AskSpec == AskInit /\ [][AskNext]_askVars

-----------------------------------------------------------------------------
(* Properties.                                                             *)

\* No good answer is thrown away, whatever fails: a generation fails only when every provider of
\* the order was asked and none answered, under consensus in both passes; it then blames a
\* provider that is configured, where there is one; and an answer is that of the first that
\* spoke, found in at most two rounds of calls.
RouterSound ==
  LET order == query.order IN
  /\ query.pass = "failed" =>
       /\ query.spoke = {}
       /\ query.calls >= Len(order)
       /\ (query.err = "absent" <=> \A i \in DOMAIN order : order[i] \notin policy.keyed)
  /\ query.pass = "answered" =>
       /\ query.by \in query.spoke
       /\ \A i, j \in DOMAIN order :
            order[i] \in query.spoke /\ order[j] = query.by => j <= i
       /\ query.conf < Single => policy.consensus /\ Cardinality(query.spoke) = 2
  /\ query.calls <= 2 * Len(order)

\* Silence is not evidence: while no provider has answered an inquiry of a belief, no guard that
\* tolerates less than an even chance passes on it, and no such resolve, however often it evolved.
SilenceNeverPasses ==
  ~belief.heard /\ program.level > 50 => ~program.ok

\* Dissent shows: the fused belief of up to three agents, before any ageing, is below its most
\* confident agent as soon as one of them doubts.  (Evidence adds up: three confident agents
\* outweigh a fourth that doubts.)
DissentShows ==
  belief.stated /\ program.stage = "idle" /\ Len(belief.agents) <= 3 =>
    \A i, j \in 1..Len(belief.agents) :
      belief.confs[i] < 50 /\ belief.confs[j] >= 50 /\ (\A k \in 1..Len(belief.agents) :
        belief.confs[k] <= belief.confs[j]) => ~MeanReaches(belief.fused, belief.confs[j])

InquirySound == RouterSound /\ SilenceNeverPasses /\ DissentShows

(* What the comments say, and TLC refutes.                                 *)

\* "a ttl of 0 means no decay; otherwise age the belief slightly" (chimera.rs:1064-1065): the
\* belief of ttl 0 is the one that is aged, and to within two hundredths of the prior.
TtlAges ==
  belief.stated /\ belief.ttl = 0 /\ Len(belief.confs) = Len(belief.agents) => belief.at = belief.fused

\* "if the two answers agree, evidence compounds (high confidence)" (backend_router.rs:311-313):
\* the agreement of two counts for less than one of them alone.
AgreementCounts == query.pass = "answered" /\ Len(query.replies) > 0 => query.conf # 75
=============================================================================
