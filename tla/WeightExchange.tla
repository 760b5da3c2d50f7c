--------------------------- MODULE WeightExchange ---------------------------
(***************************************************************************)
(* The differential weight exchange between proxies: dwe.rs, the consumer  *)
(* start_dwe_apply_loop of server/routes_fleet.rs, and its start in        *)
(* server/run.rs.                                                          *)
(*                                                                         *)
(* A proxy that has adapted a session stamps the difference with a number  *)
(* of its process, signs it, and queues it for a task that opens one       *)
(* connection per fragment and peer and waits for no answer.  The peer     *)
(* reads every connection in a task of its own, so that fragments overtake *)
(* each other on their way to the one consumer, which checks the signature *)
(* against the current and the previous fleet key, drops what its guard    *)
(* has a later number for, and adds the difference to its own session.     *)
(*                                                                         *)
(* Abstractions.  A difference is an identity; a session's weights are the *)
(* differences added to them, in order; a key is its number in the order   *)
(* of rotations; a fragment's layers are merged together or not at all.    *)
(* The telemetry counters are left out.                                    *)
(***************************************************************************)
EXTENDS Integers, Sequences, FiniteSets

CONSTANTS
  Proxies,        \* the nodes of the fleet
  Shared,         \* session ids they have in common
  QueueCap,       \* DEFAULT_DWE_QUEUE
  InboxCap,       \* capacity of the consumer's channel
  ExchangeFaults, \* of "replay", "restart", "rotate", "mismatch"
  MaxDeltas       \* bound of the model: differences ever made

ASSUME ExchangeAssumption ==
  /\ IsFiniteSet(Proxies) /\ IsFiniteSet(Shared)
  /\ QueueCap \in Nat \ {0} /\ InboxCap \in Nat \ {0} /\ MaxDeltas \in Nat

VARIABLES
  deltas,    \* differences made so far
  next,      \* DWE_SEQ of each process
  stamped,   \* fragments stamped and signed by requests that have not queued them
  outbox,    \* the bounded queue of each bus
  sending,   \* what its task is sending, and the peers still to be served
  frames,    \* frames a peer's listener has accepted: [to, frag, copy]
  inbox,     \* the consumer's channel
  seen,      \* sequence_versions["dwe:<session>"], -1 when absent
  holds,     \* sessions of each node
  merged,    \* what each session has had added to it
  saved,     \* a checkpoint a client has taken
  key,       \* number of the current key; the previous one is one less
  window,    \* whether the previous key is configured
  revived,   \* history: sessions given a checkpoint of an earlier process
  stale      \* history: where saved, or what it was taken from, is of one

exchangeVars == <<deltas, next, stamped, outbox, sending, frames, inbox, seen,
                  holds, merged, saved, key, window, revived, stale>>

\* good: its layers have the shape of the receiver's.
Fragment == [id : 1 .. MaxDeltas, from : Proxies, session : Shared, sequence : Nat,
             key : Nat, good : BOOLEAN]
Empty == [s \in Shared |-> <<>>]

ExchangeInit ==
  /\ deltas = 0 /\ next = [p \in Proxies |-> 0]
  /\ stamped = {} /\ outbox = [p \in Proxies |-> <<>>] /\ sending = [p \in Proxies |-> {}]
  /\ frames = {} /\ inbox = [p \in Proxies |-> <<>>]
  /\ seen = [p \in Proxies |-> [s \in Shared |-> -1]]
  /\ holds = [p \in Proxies |-> {}] /\ merged = [p \in Proxies |-> Empty]
  /\ saved = [p \in Proxies |-> Empty]
  /\ key = [p \in Proxies |-> 1] /\ window = [p \in Proxies |-> FALSE]
  /\ revived = {} /\ stale = {}

-----------------------------------------------------------------------------
(* The sender *)

\* extract_delta_fragment and the first half of broadcast: two requests may
\* stamp in one order and queue in the other.
Stamp(p, s) ==
  /\ deltas < MaxDeltas
  /\ deltas' = deltas + 1
  /\ next' = [next EXCEPT ![p] = @ + 1]
  /\ \E good \in (IF "mismatch" \in ExchangeFaults THEN BOOLEAN ELSE {TRUE}) :
       stamped' = stamped \union {[id |-> deltas + 1, from |-> p, session |-> s,
                                   sequence |-> next[p], key |-> key[p], good |-> good]}
  /\ UNCHANGED <<outbox, sending, frames, inbox, seen, holds, merged, saved,
                 key, window, revived, stale>>

\* try_send: a fragment that finds the queue full is dropped.
Enqueue(f) ==
  /\ stamped' = stamped \ {f}
  /\ outbox' = IF Len(outbox[f.from]) < QueueCap
               THEN [outbox EXCEPT ![f.from] = Append(@, f)] ELSE outbox
  /\ UNCHANGED <<deltas, next, sending, frames, inbox, seen, holds, merged, saved,
                 key, window, revived, stale>>

\* broadcast_loop takes the next fragment when every peer has been tried.
Take(p) ==
  /\ sending[p] = {} /\ outbox[p] # <<>>
  /\ sending' = [sending EXCEPT ![p] = {[to |-> q, frag |-> Head(outbox[p]), copy |-> FALSE] : q \in Proxies \ {p}}]
  /\ outbox' = [outbox EXCEPT ![p] = Tail(@)]
  /\ UNCHANGED <<deltas, next, stamped, frames, inbox, seen, holds, merged, saved,
                 key, window, revived, stale>>

\* One connection.  A write that succeeds says only that the peer's side has
\* accepted the bytes; one that fails is noted and the next peer tried.
Transmit(p, m, arrives) ==
  /\ m \in sending[p]
  /\ sending' = [sending EXCEPT ![p] = @ \ {m}]
  /\ frames' = IF arrives THEN frames \union {m} ELSE frames
  /\ UNCHANGED <<deltas, next, stamped, outbox, inbox, seen, holds, merged, saved,
                 key, window, revived, stale>>

-----------------------------------------------------------------------------
(* The receiver *)

\* The task of one connection waits for room in the channel.  "replay": the
\* same bytes are sent on another connection, now or after they were read.
Copies(m) == {{}} \union
  (IF "replay" \in ExchangeFaults /\ ~m.copy THEN {{[m EXCEPT !.copy = TRUE]}} ELSE {})
Deliver(m, again) ==
  /\ m \in frames /\ again \in Copies(m) /\ Len(inbox[m.to]) < InboxCap
  /\ inbox' = [inbox EXCEPT ![m.to] = Append(@, m.frag)]
  /\ frames' = (frames \ {m}) \union again
  /\ UNCHANGED <<deltas, next, stamped, outbox, sending, seen, holds, merged, saved,
                 key, window, revived, stale>>

\* verify_fragment_with_rotation
Authentic(p, f) == f.key = key[p] \/ (window[p] /\ f.key = key[p] - 1)

NotBelow(p, f) == f.sequence >= seen[p][f.session]   \* mutant: < instead of <=
Unseen(p, f) == f.sequence > seen[p][f.session]

\* The number is recorded before the session is looked for, so a fragment for
\* an unknown session, or with layers that do not fit, uses it up.
HangsUp(p) ==                             \* mutant: break instead of continue
  LET f == Head(inbox[p])
  IN /\ inbox[p] # <<>>
     /\ Authentic(p, f) /\ Unseen(p, f)
     /\ inbox' = [inbox EXCEPT ![p] = Tail(@)]
     /\ seen' = [seen EXCEPT ![p][f.session] = f.sequence]
     /\ merged' = IF f.session \in holds[p] /\ f.good
                  THEN [merged EXCEPT ![p][f.session] = Append(@, f)] ELSE merged
     /\ UNCHANGED <<deltas, next, stamped, outbox, sending, frames, holds, saved,
                    key, window, revived, stale>>
Consume(p) ==
  LET f    == Head(inbox[p])
      pass == Authentic(p, f) /\ Unseen(p, f)
  IN /\ inbox[p] # <<>>
     /\ inbox' = [inbox EXCEPT ![p] = Tail(@)]
     /\ seen' = IF pass THEN [seen EXCEPT ![p][f.session] = f.sequence] ELSE seen
     /\ merged' = IF pass /\ f.session \in holds[p] /\ f.good
                  THEN [merged EXCEPT ![p][f.session] = Append(@, f)] ELSE merged
     /\ UNCHANGED <<deltas, next, stamped, outbox, sending, frames, holds, saved,
                    key, window, revived, stale>>

-----------------------------------------------------------------------------
(* Sessions of the receiver, and its process *)

CreateCopy(p, s) ==
  /\ s \notin holds[p]
  /\ holds' = [holds EXCEPT ![p] = @ \union {s}]
  /\ UNCHANGED <<deltas, next, stamped, outbox, sending, frames, inbox, seen, merged, saved,
                 key, window, revived, stale>>

\* delete_session leaves the guard of the exchange, whose key has a prefix.
DeleteCopy(p, s) ==
  /\ s \in holds[p]
  /\ holds' = [holds EXCEPT ![p] = @ \ {s}]
  /\ merged' = [merged EXCEPT ![p][s] = <<>>]
  /\ UNCHANGED <<deltas, next, stamped, outbox, sending, frames, inbox, seen, saved,
                 key, window, revived, stale>>

ExportCopy(p, s) ==
  /\ s \in holds[p] /\ merged[p][s] # <<>>
  /\ saved' = [saved EXCEPT ![p][s] = merged[p][s]]
  /\ stale' = IF <<p, s>> \in revived THEN stale \union {<<p, s>>} ELSE stale \ {<<p, s>>}
  /\ UNCHANGED <<deltas, next, stamped, outbox, sending, frames, inbox, seen, holds, merged,
                 key, window, revived>>

ImportCopy(p, s) ==
  /\ saved[p][s] # <<>>
  /\ holds' = [holds EXCEPT ![p] = @ \union {s}]
  /\ merged' = [merged EXCEPT ![p][s] = saved[p][s]]
  /\ revived' = IF <<p, s>> \in stale THEN revived \union {<<p, s>>} ELSE revived \ {<<p, s>>}
  /\ UNCHANGED <<deltas, next, stamped, outbox, sending, frames, inbox, seen, saved,
                 key, window, stale>>

\* The process starts again, perhaps with a new key and the old one as the
\* previous: everything but the client's checkpoint is lost, and with it the
\* number and the guard.  Bytes that will be sent again may still come.
Reborn(p, k, w) ==
  /\ next' = [next EXCEPT ![p] = 0]
  /\ stamped' = {f \in stamped : f.from # p}
  /\ outbox' = [outbox EXCEPT ![p] = <<>>] /\ sending' = [sending EXCEPT ![p] = {}]
  /\ frames' = {m \in frames : m.to # p \/ m.copy} /\ inbox' = [inbox EXCEPT ![p] = <<>>]
  /\ seen' = [seen EXCEPT ![p] = [s \in Shared |-> -1]]
  /\ holds' = [holds EXCEPT ![p] = {}] /\ merged' = [merged EXCEPT ![p] = Empty]
  /\ key' = [key EXCEPT ![p] = k] /\ window' = [window EXCEPT ![p] = w]
  /\ stale' = stale \union ({p} \X Shared)
  /\ revived' = {r \in revived : r[1] # p}
  /\ UNCHANGED <<deltas, saved>>

RestartProxy(p) == "restart" \in ExchangeFaults /\ Reborn(p, key[p], window[p])
Rotate(p)  == "rotate" \in ExchangeFaults /\ key[p] = 1 /\ Reborn(p, key[p] + 1, TRUE)

-----------------------------------------------------------------------------
ExchangeNext ==
  \/ \E p \in Proxies :
       \/ Take(p) \/ Consume(p) \/ RestartProxy(p) \/ Rotate(p)
       \/ \E m \in sending[p], arrives \in BOOLEAN : Transmit(p, m, arrives)
       \/ \E s \in Shared : Stamp(p, s) \/ CreateCopy(p, s) \/ DeleteCopy(p, s)
                            \/ ExportCopy(p, s) \/ ImportCopy(p, s)
  \/ \E f \in stamped : Enqueue(f)
  \/ \E m \in frames : \E again \in Copies(m) : Deliver(m, again)

\* Tasks of one runtime; TCP ends every connection attempt, one way or the
\* other.
ExchangeFairness ==
  /\ WF_exchangeVars(\E f \in stamped : Enqueue(f))
  /\ WF_exchangeVars(\E m \in frames : \E again \in Copies(m) : Deliver(m, again))
  /\ \A p \in Proxies :
       /\ WF_exchangeVars(Take(p)) /\ WF_exchangeVars(Consume(p))
       /\ WF_exchangeVars(\E m \in sending[p], arrives \in BOOLEAN : Transmit(p, m, arrives))

ExchangeSpec == ExchangeInit /\ [][ExchangeNext]_exchangeVars /\ ExchangeFairness

-----------------------------------------------------------------------------
(* Properties *)

Times(f, q) == Cardinality({i \in DOMAIN q : q[i] = f})

\* No difference is added twice to a session, though frames are replayed and
\* overtake each other, keys rotate, either side restarts, and the session is
\* deleted and restored; except that a checkpoint of an earlier process brings
\* differences back whose numbers died with that process, so that a replay of
\* one of them is added to it again.
MergedOnce ==
  \A p \in Proxies, s \in Shared : <<p, s>> \notin revived =>
    \A i \in DOMAIN merged[p][s] : Times(merged[p][s][i], merged[p][s]) = 1

\* Whatever is refused, dropped or lost, every queue of the exchange runs dry
\* once no more differences are made.
ExchangeSettles ==
  <>[](/\ stamped = {} /\ frames = {}
       /\ \A p \in Proxies : outbox[p] = <<>> /\ sending[p] = {} /\ inbox[p] = <<>>)

\* "a peer's (session, sequence) replay guard never wrongly drops two
\* legitimate updates ... A true replay [is] correctly rejected; distinct
\* updates always differ here": what the guard drops was merged before.
DropsOnlyReplays ==
  [][ \A p \in Proxies :
        inbox[p] # <<>> /\ inbox'[p] = Tail(inbox[p]) /\ seen'[p] = seen[p] =>
        LET f == Head(inbox[p])
        IN Authentic(p, f) /\ f.good /\ f.session \in holds[p] /\ ~Unseen(p, f)
             => Times(f, merged[p][f.session]) > 0 ]_exchangeVars
=============================================================================
