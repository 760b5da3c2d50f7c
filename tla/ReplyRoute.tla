----------------------------- MODULE ReplyRoute -----------------------------
(***************************************************************************)
(* The OpenAI side of the proxy: POST /v1/responses (create_response and   *)
(* compressed_responses_payload of server/routes_responses.rs) and         *)
(* POST /v1/chat/completions (compressed_openai_chat_path of               *)
(* server/routes_messages.rs).                                             *)
(*                                                                         *)
(* A Responses request has its old assistant text replaced, run by run,    *)
(* with what a sub-session of its own recalls of it: one task a run, a few *)
(* at a time, each handing its work to a blocking thread that nothing can  *)
(* stop.  The lean body is sent, and the client's own body again when the  *)
(* lean one fails in a way it may be to blame for.                         *)
(*                                                                         *)
(* Abstractions.  An upstream's answer is its class: "ok", "bad" (400 or   *)
(* 5xx), "refused" (another status), "network", "noauth" (no credential,   *)
(* nothing sent).  A sub-session is the set of requests whose text it has  *)
(* adapted; the cap on sessions, which FastWeights models, is left out,    *)
(* and so are the savings counters and headers.                            *)
(***************************************************************************)
EXTENDS Naturals, Sequences

CONSTANTS
  Incoming,     \* requests in flight at once
  Shared,       \* the id of clients that name their session
  MaxPlan,      \* bound of the model: runs of a compression plan
  Width,        \* MAX_RESPONSES_RUN_CONCURRENCY
  NoSub         \* a sub-session the store does not hold

ASSUME ReplyAssumption == Shared \notin Incoming /\ {MaxPlan, Width} \subseteq Nat

VARIABLES
  ask,          \* the local variables of each request
  task,         \* the JoinSet of a request: the task of each run
  closure,      \* what its spawn_blocking closure is doing
  sub,          \* ttt_sessions: who each sub-session has adapted
  sends,        \* history: what was sent upstream for a request, and the answer
  swarm, cloud, \* a local router, an OpenAI forwarder is configured
  failed        \* history: requests a run of which failed, or whose client left meanwhile

replyVars == <<ask, task, closure, sub, sends, swarm, cloud, failed>>

Ordinals  == 1 .. MaxPlan
Sids      == Incoming \union {Shared}
Answers   == {"ok", "bad", "refused", "network", "noauth"}
NoReq == [at |-> "idle", kind |-> "responses", sid |-> Shared, plan |-> 0,
          lean |-> FALSE, fellBack |-> FALSE, answer |-> "none"]

ReplyInit ==
  /\ ask = [r \in Incoming |-> NoReq]
  /\ task = [r \in Incoming |-> [n \in Ordinals |-> "none"]]
  /\ closure = [r \in Incoming |-> [n \in Ordinals |-> "none"]]
  /\ sub = [s \in Sids |-> [n \in Ordinals |-> NoSub]]
  /\ sends = [r \in Incoming |-> <<>>]
  /\ swarm \in BOOLEAN /\ cloud \in BOOLEAN /\ (swarm \/ cloud)
  /\ failed = {}

Transient(r) == ask[r].sid = r
At(r, p) == ask[r].at = p
GoTo(r, p) == ask' = [ask EXCEPT ![r].at = p]
Over(r, answer) == ask' = [ask EXCEPT ![r].at = "over", ![r].answer = answer]

(***************************************************************************)
(* What the sub-sessions are for.                                          *)
(***************************************************************************)

\* An unconfigured forwarder is refused before anything else; compression is off, or
\* there is too little to compress; or the plan's first runs get their tasks.
Respond(r, sid) ==
  /\ At(r, "idle")
  /\ \/ /\ ~cloud
        /\ ask' = [ask EXCEPT ![r].sid = sid, ![r].at = "over", ![r].answer = "error"]
        /\ UNCHANGED task
     \/ /\ cloud
        /\ ask' = [ask EXCEPT ![r].sid = sid, ![r].at = "first"]
        /\ UNCHANGED task
     \/ /\ cloud
        /\ \E plan \in Ordinals :
             /\ ask' = [ask EXCEPT ![r].sid = sid, ![r].plan = plan, ![r].at = "fanout"]
             /\ task' = [task EXCEPT ![r] =
                  [n \in Ordinals |-> IF n <= plan /\ n <= Width THEN "spawned" ELSE "none"]]
  /\ UNCHANGED <<closure, sub, sends, swarm, cloud, failed>>

\* responses_run_fingerprint up to its await: the closure waits for a thread.
Submit(r, n) ==
  /\ task[r][n] = "spawned"
  /\ task' = [task EXCEPT ![r][n] = "waiting"]
  /\ closure' = [closure EXCEPT ![r][n] = "queued"]
  /\ UNCHANGED <<ask, sub, sends, swarm, cloud, failed>>

\* get_or_create in the closure, whether or not anyone still waits for it.
Opened(adapted) == IF adapted = NoSub THEN {} ELSE adapted
Open(r, n) ==
  /\ closure[r][n] = "queued"
  /\ closure' = [closure EXCEPT ![r][n] = "adapting"]
  /\ sub' = [sub EXCEPT ![ask[r].sid][n] = Opened(@)]
  /\ UNCHANGED <<ask, task, sends, swarm, cloud, failed>>

\* The closure ends: what it adapted is gone if the sub-session was taken meanwhile.
Ended(r, n, how) ==
  /\ closure' = [closure EXCEPT ![r][n] = "ended"]
  /\ task' = [task EXCEPT ![r][n] = IF @ = "waiting" THEN how ELSE @]
Adapt(r, n) ==
  /\ closure[r][n] = "adapting"
  /\ Ended(r, n, "ready")
  /\ sub' = [sub EXCEPT ![ask[r].sid][n] = IF @ = NoSub THEN NoSub ELSE @ \union {r}]
  /\ UNCHANGED <<ask, sends, swarm, cloud, failed>>
AdaptFails(r, n) ==
  /\ closure[r][n] \in {"queued", "adapting"}
  /\ Ended(r, n, "failed")
  /\ failed' = failed \union {r}
  /\ UNCHANGED <<ask, sub, sends, swarm, cloud>>

\* cleanup_responses_run_subsessions
NothingTaken(r) == sub' = sub               \* mutant: transient sub-sessions stay
Cleanup(r) ==
  sub' = IF Transient(r) THEN [sub EXCEPT ![r] = [n \in Ordinals |-> NoSub]] ELSE sub

\* join_next: a finished task makes room for the next run's; the last one lets the plan be
\* applied, which may fail, or expand the body, or leave it lean.
Unspawned(r) == {n \in 1 .. ask[r].plan : task[r][n] = "none"}
Join(r, n) ==
  /\ At(r, "fanout") /\ task[r][n] = "ready"
  /\ task' = [task EXCEPT ![r] = [m \in Ordinals |->
       IF m = n THEN "joined"
       ELSE IF m \in Unspawned(r) /\ \A k \in Unspawned(r) : m <= k THEN "spawned"
       ELSE @[m]]]
  /\ UNCHANGED <<ask, closure, sub, sends, swarm, cloud, failed>>
Apply(r) ==
  /\ At(r, "fanout") /\ \A n \in 1 .. ask[r].plan : task[r][n] = "joined"
  /\ Cleanup(r)
  /\ \E lean \in BOOLEAN : ask' = [ask EXCEPT ![r].at = "first", ![r].lean = lean]
  /\ UNCHANGED <<task, closure, sends, swarm, cloud, failed>>

\* Dropping the JoinSet aborts the tasks; their closures go on.
Aborted(tasks) ==
  [n \in Ordinals |-> IF tasks[n] \in {"spawned", "waiting", "ready"} THEN "aborted" ELSE tasks[n]]
JoinFails(r, n) ==
  /\ At(r, "fanout") /\ task[r][n] = "failed"
  /\ Cleanup(r)
  /\ task' = [task EXCEPT ![r] = Aborted(@)]
  /\ GoTo(r, "first")
  /\ UNCHANGED <<closure, sends, swarm, cloud, failed>>

\* The client hangs up: the handler is dropped wherever it waits.
Leave(r) ==
  /\ ask[r].at \notin {"idle", "over"}
  /\ Over(r, "nobody")
  /\ task' = [task EXCEPT ![r] = Aborted(@)]
  /\ failed' = IF At(r, "fanout") THEN failed \union {r} ELSE failed
  /\ UNCHANGED <<closure, sub, sends, swarm, cloud>>

(***************************************************************************)
(* compressed_openai_chat_path up to the forwarder.                        *)
(***************************************************************************)

Chat(r, heavy) ==
  /\ At(r, "idle")
  /\ ask' = [ask EXCEPT ![r].kind = "chat", ![r].at = IF heavy THEN "adapting" ELSE "local"]
  /\ UNCHANGED <<task, closure, sub, sends, swarm, cloud, failed>>

\* Unlike a Responses request, this one is lost with its compression.
AdaptChat(r) ==
  /\ At(r, "adapting")
  /\ \/ ask' = [ask EXCEPT ![r].at = "local", ![r].lean = TRUE]
     \/ Over(r, "error")
  /\ UNCHANGED <<task, closure, sub, sends, swarm, cloud, failed>>

Local(r) ==
  /\ At(r, "local")
  /\ \/ swarm /\ Over(r, "ok")
     \/ cloud /\ GoTo(r, "first")
     \/ ~cloud /\ Over(r, "error")
  /\ UNCHANGED <<task, closure, sub, sends, swarm, cloud, failed>>

(***************************************************************************)
(* What is sent, and sent again.                                           *)
(***************************************************************************)
Failure(a) == a \in {"network", "noauth"}
Sent(r, body, a) == sends' = [sends EXCEPT ![r] = Append(@, [body |-> body, is |-> a])]

\* The answer to the body in hand: a failure of the transport is mapped to an error.
Answered(r, a) == Over(r, IF Failure(a) THEN "error" ELSE a)

\* compressed.is_some(), or did_compress and not fell_back.
MayRetry(r) == ask[r].lean /\ (ask[r].kind = "responses" \/ ~ask[r].fellBack)

SendFirst(r, a) ==
  /\ At(r, "first") /\ Sent(r, IF ask[r].lean THEN "lean" ELSE "own", a)
  /\ \/ /\ a = "network" /\ ask[r].lean
        /\ ask' = [ask EXCEPT ![r].at = "again", ![r].fellBack = TRUE]
     \/ a = "bad" /\ MayRetry(r) /\ GoTo(r, "last")
     \/ ~(a \in {"network", "bad"} /\ ask[r].lean) /\ Answered(r, a)
  /\ UNCHANGED <<task, closure, sub, swarm, cloud, failed>>

\* After a network failure; a bad answer to the client's own body is still taken for one to
\* the lean body on the Responses path.
SendAgain(r, a) ==
  /\ At(r, "again") /\ Sent(r, "own", a)
  /\ IF a = "bad" /\ MayRetry(r) THEN GoTo(r, "last") ELSE Answered(r, a)
  /\ UNCHANGED <<task, closure, sub, swarm, cloud, failed>>

\* A failing last attempt leaves the answer there was.
SendLast(r, a) ==
  /\ At(r, "last") /\ Sent(r, "own", a)
  /\ Over(r, IF Failure(a) THEN "bad" ELSE a)
  /\ UNCHANGED <<task, closure, sub, swarm, cloud, failed>>

ReplyNext ==
  \E r \in Incoming :
    \/ \E sid \in {r, Shared} : Respond(r, sid)
    \/ \E heavy \in BOOLEAN : Chat(r, heavy)
    \/ \E n \in Ordinals : \/ Submit(r, n) \/ Open(r, n) \/ Adapt(r, n) \/ AdaptFails(r, n)
                           \/ Join(r, n) \/ JoinFails(r, n)
    \/ Apply(r) \/ Leave(r) \/ AdaptChat(r) \/ Local(r)
    \/ \E a \in Answers : SendFirst(r, a) \/ SendAgain(r, a) \/ SendLast(r, a)

ReplySpec == ReplyInit /\ [][ReplyNext]_replyVars

-----------------------------------------------------------------------------
(* Properties *)

\* "Transient sessions must not leak their per-run adaptation sub-sessions": after the
\* fan-out nothing of an anonymous request is left in the store, unless one of its runs
\* failed or its client left while another run's closure was still to come.
NothingStays ==
  \A r \in Incoming \ failed :
    ask[r].at \notin {"idle", "fanout"} => \A n \in Ordinals : sub[r][n] = NoSub

\* What the comment says without exception, of failed fan-outs too; the code does not do it.
NeverLeaks ==
  \A r \in Incoming :
    At(r, "over") /\ (\A n \in Ordinals : closure[r][n] \in {"none", "ended"}) =>
      \A n \in Ordinals : sub[r][n] = NoSub

\* "each adapted in its own sub-session so a run's recall vector reflects only that run's
\* context": true of anonymous requests only; a named session keeps its sub-sessions.
RunsApart ==
  [][\A r \in Incoming, n \in Ordinals :
       Adapt(r, n) /\ sub[ask[r].sid][n] # NoSub => sub[ask[r].sid][n] \subseteq {r}]_replyVars

\* "A compression-side fault must never cost the client their turn": a turn that fails
\* after its lean body was sent has failed with the client's own body too.
OwnBodyTried ==
  \A r \in Incoming :
    /\ At(r, "over") /\ ask[r].answer \in {"bad", "error"}
    /\ \E k \in DOMAIN sends[r] : sends[r][k].body = "lean" /\ sends[r][k].is # "noauth"
    => \E k \in DOMAIN sends[r] : sends[r][k].body = "own" /\ sends[r][k].is # "ok"

\* Nothing is sent again once an answer the client can use is there, and an upstream never
\* sees a turn more than twice, or three times on the Responses path.
SentInMeasure ==
  \A r \in Incoming :
    /\ Len(sends[r]) <= IF ask[r].kind = "chat" THEN 2 ELSE 3
    /\ \A k \in DOMAIN sends[r] :
         k < Len(sends[r]) => sends[r][k].is \in {"bad", "network"}

\* An answer of the upstream is never lost: the client gets the last one there was.
LastAnswerKept ==
  \A r \in Incoming :
    At(r, "over") /\ ask[r].answer = "error" =>
      \A k \in DOMAIN sends[r] : Failure(sends[r][k].is)

RelaySound == NothingStays /\ OwnBodyTried /\ SentInMeasure /\ LastAnswerKept
=============================================================================
