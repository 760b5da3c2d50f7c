----------------------------- MODULE TurnRoute ------------------------------
(***************************************************************************)
(* How a turn reaches a model (the second half of compressed_messages_path *)
(* in server/routes_messages.rs, with model_router.rs, swarm_router.rs,    *)
(* anthropic_forwarder.rs, should_retry_uncompressed of                    *)
(* context_compressor.rs and restore_original_model of keepalive.rs).      *)
(*                                                                         *)
(* The proxy may run a turn on another model than the one asked for, tries *)
(* a local model first when there is one, and sends the client's own body  *)
(* once more when the transformed one fails in a way the original might    *)
(* not.  The turns here share a session, hence its cooldown, its cost      *)
(* counters and the payload the keepalive timer would ping with.           *)
(*                                                                         *)
(* Abstractions.  A model is its tier ("other": not a Claude model).  An   *)
(* upstream answer is its class: "ok", "bad" (400), "down" (5xx),          *)
(* "refused" (other 4xx), "network", "garbled" (a body that does not       *)
(* parse).  Prices are left out: a turn credited with savings is counted.  *)
(***************************************************************************)
EXTENDS Naturals

CONSTANTS
  Turns,        \* requests that may be in flight at once
  RouteModes,   \* values of AXIOM_MODEL_ROUTE considered
  Asked,        \* models the client asks for
  MaxTurns,     \* bound of the model: turns started
  NoModel       \* None

ASSUME RouteAssumption ==
  /\ RouteModes \subseteq {"off", "auto", "on", "capability"}
  /\ Asked \subseteq {"haiku", "sonnet", "opus", "other"}
  /\ NoModel \notin {"haiku", "sonnet", "opus", "other"}
  /\ MaxTurns \in Nat

VARIABLES
  mode,         \* AXIOM_MODEL_ROUTE of the process
  swarm, cloud, \* a local router, an Anthropic forwarder is configured
  cooldown,     \* pss_route_cooldown of the session
  at,           \* where each turn is
  turn,         \* the local variables of each turn
  held,         \* model of the payload keepalive holds, and the client's
  credited,     \* AwarenessState::record_route: turns credited with savings
  started,      \* history: turns started
  cheap,        \* history: turns answered by a model the proxy chose to save
  sinceError    \* history: turns since one carried an error signature

routeVars == <<mode, swarm, cloud, cooldown, at, turn, held, credited,
               started, cheap, sinceError>>

Models       == {"haiku", "sonnet", "opus", "other"}
Capabilities == {"none", "mechanical", "general", "reasoning", "highRisk"}
Answers      == {"ok", "bad", "down", "refused", "network", "garbled"}

Tier(cap) == CASE cap = "mechanical" -> "haiku"
               [] cap = "general" -> "sonnet"
               [] cap \in {"reasoning", "highRisk"} -> "opus"

\* routed_from, model_rewritten_from and log_heavy_count > 0 of the code.
Turn == [asked : Models, sent : Models, routedFrom : Models \union {NoModel},
         rewrittenFrom : Models \union {NoModel}, compressed : BOOLEAN, stream : BOOLEAN]
NewTurn == [asked |-> "other", sent |-> "other", routedFrom |-> NoModel,
            rewrittenFrom |-> NoModel, compressed |-> FALSE, stream |-> FALSE]

RouteInit ==
  /\ mode \in RouteModes
  /\ swarm \in BOOLEAN /\ cloud \in BOOLEAN /\ (swarm \/ cloud)
  /\ cooldown = 0 /\ sinceError = 3
  /\ at = [r \in Turns |-> "idle"] /\ turn = [r \in Turns |-> NewTurn]
  /\ held = [model |-> NoModel, asked |-> NoModel]
  /\ credited = 0 /\ started = 0 /\ cheap = 0

(***************************************************************************)
(* The routing decision.                                                   *)
(***************************************************************************)
NoDecay(hadError) == IF hadError THEN 3 ELSE 0       \* mutant: not sticky
Cooldown(hadError) == IF hadError THEN 3 ELSE IF cooldown > 0 THEN cooldown - 1 ELSE 0

Downgrades(model, cap, mechanical, left) ==
  /\ mode \in {"auto", "on"}
  /\ model # "other" /\ cap \in {"none", "mechanical"}
  /\ mechanical /\ left = 0
  /\ model # "haiku" /\ (mode = "auto" => model = "opus")

Selected(model, cap, mechanical, left) ==
  IF Downgrades(model, cap, mechanical, left) THEN "haiku"
  ELSE IF mode = "capability" /\ model # "other" /\ cap # "none" THEN Tier(cap)
  ELSE model

\* A turn carries results only (mechanical unless one shows an error) or not.
Decide(r) ==
  \E model \in Asked, cap \in Capabilities, results, hadError, heavy, stream \in BOOLEAN :
    LET left == IF mode = "off" THEN cooldown ELSE Cooldown(hadError)
        sel  == Selected(model, cap, results /\ ~hadError, left)
        econ == Downgrades(model, cap, results /\ ~hadError, left)
    IN /\ at[r] = "idle" /\ started < MaxTurns
       /\ started' = started + 1
       /\ cooldown' = left
       /\ sinceError' = IF hadError THEN 0 ELSE IF sinceError < 3 THEN sinceError + 1 ELSE 3
       /\ turn' = [turn EXCEPT ![r] =
            [asked |-> model, sent |-> sel, routedFrom |-> IF econ THEN model ELSE NoModel,
             rewrittenFrom |-> IF sel # model THEN model ELSE NoModel,
             compressed |-> heavy, stream |-> stream]]
       /\ at' = [at EXCEPT ![r] = IF swarm THEN "local" ELSE "send"]
       /\ UNCHANGED <<mode, swarm, cloud, held, credited, cheap>>

\* The client has its answer or its error.
Replies(r) ==
  at' = [at EXCEPT ![r] = "idle"] /\ turn' = [turn EXCEPT ![r] = NewTurn]

\* The local model answers; or the turn falls back to the cloud if there is
\* one, or fails.
AskSwarm(r) ==
  /\ at[r] = "local"
  /\ \/ Replies(r)
     \/ cloud /\ at' = [at EXCEPT ![r] = "send"] /\ UNCHANGED turn
  /\ UNCHANGED <<mode, swarm, cloud, cooldown, held, credited, started, cheap, sinceError>>

(***************************************************************************)
(* Forwarding.  A stream whose headers do not arrive is an error at once;  *)
(* a buffered call is retried on a network failure as well.                *)
(***************************************************************************)
Changed(t)    == t.compressed \/ t.rewrittenFrom # NoModel
Retries(t, a) == Changed(t) /\ (a \in {"bad", "down"} \/ (a = "network" /\ ~t.stream))

\* What is kept of a rewrite when the client's own body is sent instead.
KeepsCredit(t) == [t EXCEPT !.rewrittenFrom = NoModel]   \* mutant: still attributed
Reverted(t) ==
  [t EXCEPT !.routedFrom = NoModel,
            !.rewrittenFrom = IF t.stream \/ t.routedFrom # NoModel THEN NoModel ELSE @]

\* record_route_savings and record_activity, on an answer.
Credit(t, from) ==
  /\ credited' = IF t.routedFrom # NoModel THEN credited + 1 ELSE credited
  /\ cheap' = IF from = "ours" /\ t.sent = "haiku" /\ t.asked # "haiku" THEN cheap + 1 ELSE cheap
Restored(t) == IF t.rewrittenFrom # NoModel THEN t.rewrittenFrom ELSE t.sent
Hold(t) == held' = [model |-> Restored(t), asked |-> t.asked]

Succeed(r, t, from) ==
  /\ Credit(t, from)
  /\ Hold(t)
  /\ Replies(r)

Fail(r) == Replies(r) /\ UNCHANGED <<held, credited, cheap>>

Send(r, a) ==
  LET t == turn[r] IN
  /\ at[r] = "send" /\ (a = "garbled" => ~t.stream)
  /\ \/ a = "ok" /\ Succeed(r, t, "ours")
     \/ /\ a # "ok" /\ Retries(t, a)
        /\ turn' = [turn EXCEPT ![r] = Reverted(t)]
        /\ at' = [at EXCEPT ![r] = "retry"]
        /\ UNCHANGED <<held, credited, cheap>>
     \/ a # "ok" /\ ~Retries(t, a) /\ Fail(r)
  /\ UNCHANGED <<mode, swarm, cloud, cooldown, started, sinceError>>

\* A stream whose second attempt does not even connect relays the first answer,
\* which is an error as well.
Resend(r, a) ==
  LET t == turn[r] IN
  /\ at[r] = "retry" /\ (a = "garbled" => ~t.stream)
  /\ \/ a = "ok" /\ Succeed(r, t, "clients")
     \/ a # "ok" /\ Fail(r)
  /\ UNCHANGED <<mode, swarm, cloud, cooldown, started, sinceError>>

RouteNext ==
  \E r \in Turns : \/ Decide(r) \/ AskSwarm(r)
                   \/ \E a \in Answers : Send(r, a) \/ Resend(r, a)

RouteSpec == RouteInit /\ [][RouteNext]_routeVars

-----------------------------------------------------------------------------
(* Properties *)

\* Shape of the state.
RouteTypeOK ==
  /\ mode \in RouteModes /\ cooldown \in 0 .. 3 /\ sinceError \in 0 .. 3
  /\ at \in [Turns -> {"idle", "local", "send", "retry"}]
  /\ turn \in [Turns -> Turn]
  /\ started \in 0 .. MaxTurns /\ cheap \in 0 .. MaxTurns /\ credited \in 0 .. MaxTurns

\* "An error signature arms a sticky 3-turn cooldown so a debugging stretch
\* stays on the strong model": the error turn and the two after it, across
\* concurrent requests, are never run on the cheap one to save quota.
DebugStaysStrong ==
  [][ \A r \in Turns : turn[r].routedFrom = NoModel /\ turn'[r].routedFrom # NoModel
        => sinceError' >= 3 ]_routeVars

\* Savings are only attributed to turns the cheap model did answer, also when
\* the turn fell back to the client's own body: one call each.
SavingsEarned == credited <= cheap

\* The payload held for pings names the model the client asked for.
HeldOriginal == held.model = held.asked
=============================================================================
