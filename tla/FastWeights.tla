---------------------------- MODULE FastWeights -----------------------------
(***************************************************************************)
(* The adapted fast weights of the proxy's compression sessions: the LRU   *)
(* store (TttSessionStore in context_compressor.rs), the digest of the     *)
(* context each session has absorbed, the cache file both are saved to,    *)
(* and the master vibe that sessions are folded into when they are dropped *)
(* (server/prelude_state.rs, routes_messages.rs, routes_hypervisor.rs,     *)
(* vibe_memory.rs).                                                        *)
(*                                                                         *)
(* Abstractions.  A session's matrices are the set of contexts they have   *)
(* absorbed, in an object that requests hold by reference; a digest is its *)
(* context; the exponential average that folds a session into the master   *)
(* is the union.  last-touched stamps are kept as the order of the ids; a  *)
(* file is written in one step.  Building the prompt, the recall vector    *)
(* and the peers' deltas are left out.                                     *)
(***************************************************************************)
EXTENDS Integers, Sequences, FiniteSets, SequencesExt

CONSTANTS
  WeightIds,      \* client-chosen session ids
  Contexts,       \* heavy contexts and feedback texts
  Callers,        \* requests in flight at a time
  WeightCap,      \* AXIOM_MAX_TTT_SESSIONS
  DigestCap,      \* digests kept before the map is cleared (256)
  WeightFaults,   \* of "adapt", "rename", "restart"
  MaxWeightCalls, \* bound of the model: requests, and restarts
  NoObj           \* no object, no context

ASSUME WeightAssumption ==
  /\ IsFiniteSet(WeightIds) /\ IsFiniteSet(Callers)
  /\ WeightCap \in Nat \ {0} /\ DigestCap \in Nat \ {0} /\ MaxWeightCalls \in Nat
  /\ NoObj \notin Contexts /\ NoObj \notin (1 .. MaxWeightCalls) \X WeightIds

VARIABLES
  held,     \* sessions: id -> object, or NoObj
  recent,   \* touched: the ids in the order of their stamps
  weights,  \* what each object has absorbed
  digest,   \* adapted_context_hashes: id -> context, or NoObj
  caller,   \* what each request is doing
  cache,    \* the cache file: id -> [digest, got]
  temp,     \* its .tmp, shared by all who save, or NoObj
  master,   \* the master vibe
  made,     \* requests so far; an object is named after the request that made it and its id
  gone,     \* history: ids whose object was dropped, cleared or evicted
  crowd     \* history: the most requests that were about to insert while room was made

weightVars == <<held, recent, weights, digest, caller, cache, temp, master, made, gone, crowd>>

Objects == (1 .. MaxWeightCalls) \X WeightIds
NoEntry == [digest |-> NoObj, got |-> {}]
NothingSaved == [s \in WeightIds |-> NoEntry]
Away == [pc |-> "away", id |-> NoObj, ctx |-> NoObj, kind |-> "none", adapt |-> FALSE,
         obj |-> NoObj, plan |-> [s \in WeightIds |-> NoObj], todo |-> {}, file |-> NothingSaved, call |-> 0]
Resident == {s \in WeightIds : held[s] # NoObj}

WeightInit ==
  /\ held = [s \in WeightIds |-> NoObj] /\ recent = <<>>
  /\ weights = [o \in Objects |-> {}]
  /\ digest = [s \in WeightIds |-> NoObj]
  /\ caller = [c \in Callers |-> Away]
  /\ cache = NothingSaved /\ temp = NoObj /\ master = {}
  /\ made = 0
  /\ gone = {} /\ crowd = 0

Moved(c, r) == caller' = [caller EXCEPT ![c] = r]
Goes(c, pc) == Moved(c, [caller[c] EXCEPT !.pc = pc])
Arrives(c, r) ==
  /\ caller[c] = Away /\ made < MaxWeightCalls
  /\ made' = made + 1
  /\ Moved(c, [r EXCEPT !.call = IF r.pc = "get" THEN made + 1 ELSE 0])

-----------------------------------------------------------------------------
(* The store *)

\* make_room: the least recently touched ids go until one more fits.  Victims(s) holds
\* the set at which the loop ends.
Fits(k, q) == Cardinality(Resident \ {q[i] : i \in 1 .. k}) < WeightCap
Victims(s) ==
  LET q == Remove(recent, s)
      ends == {k \in 0 .. Len(q) : Fits(k, q) /\ \A j \in 0 .. k - 1 : ~Fits(j, q)}
  IN {{q[i] : i \in 1 .. k} : k \in ends}

Touch(s) == recent' = Append(Remove(recent, s), s)

Leave(S) ==
  /\ held' = [t \in WeightIds |-> IF t \in S THEN NoObj ELSE held[t]]
  /\ recent' = SelectSeq(recent, LAMBDA t : t \notin S)
  /\ gone' = gone \union (S \intersect Resident)

\* get_or_create, when the id is there ...
Found(c) ==
  LET s == caller[c].id
  IN /\ caller[c].pc = "get" /\ held[s] # NoObj
     /\ Touch(s)
     /\ Moved(c, [caller[c] EXCEPT !.pc = "work", !.obj = held[s], !.call = 0])
     /\ UNCHANGED <<held, weights, digest, cache, temp, master, made, gone, crowd>>

\* ... and when it is not: room is made before the matrices are built,
MakeRoom(c) ==
  LET s == caller[c].id
      others == Cardinality({d \in Callers : caller[d].pc = "insert"})
  IN /\ caller[c].pc = "get" /\ held[s] = NoObj
     /\ \E S \in Victims(s) : Leave(S)
     /\ crowd' = IF others > crowd THEN others ELSE crowd
     /\ Goes(c, "insert")
     /\ UNCHANGED <<weights, digest, cache, temp, master, made>>

\* and the first of two requests that built them has its own inserted.
Insert(c) ==
  LET s == caller[c].id
      o == IF held[s] = NoObj THEN <<caller[c].call, s>> ELSE held[s]
  IN /\ caller[c].pc = "insert"
     /\ held' = [held EXCEPT ![s] = o]
     /\ Touch(s)
     /\ Moved(c, [caller[c] EXCEPT !.pc = "work", !.obj = o, !.call = 0])
     /\ UNCHANGED <<weights, digest, cache, temp, master, made, gone, crowd>>

-----------------------------------------------------------------------------
(* A request with a heavy context *)

\* should_adapt_heavy_context, asked before the session is looked for.
Request(c, s, x) ==
  /\ Arrives(c, [Away EXCEPT !.pc = "get", !.id = s, !.ctx = x, !.kind = "message",
                             !.adapt = digest[s] # x])
  /\ UNCHANGED <<held, recent, weights, digest, cache, temp, master, gone, crowd>>

\* POST /v1/ttt/feedback and the sandbox's diagnostics adapt every time.
Feedback(c, s, x) ==
  /\ Arrives(c, [Away EXCEPT !.pc = "get", !.id = s, !.ctx = x, !.kind = "message",
                             !.adapt = TRUE])
  /\ UNCHANGED <<held, recent, weights, digest, cache, temp, master, gone, crowd>>

\* Files read through the VFS and the runs of a Responses request adapt, too,
\* and leave no digest.
Prefill(c, s, x) ==
  /\ Arrives(c, [Away EXCEPT !.pc = "get", !.id = s, !.ctx = x, !.kind = "prefill",
                             !.adapt = TRUE])
  /\ UNCHANGED <<held, recent, weights, digest, cache, temp, master, gone, crowd>>

\* Under the session's own lock.
Adapt(c) ==
  /\ caller[c].pc = "work" /\ caller[c].adapt
  /\ weights' = [weights EXCEPT ![caller[c].obj] = @ \union {caller[c].ctx}]
  /\ IF caller[c].kind = "prefill" THEN Moved(c, Away) ELSE Goes(c, "mark")
  /\ UNCHANGED <<held, recent, digest, cache, temp, master, made, gone, crowd>>

MarksAnyway(c) ==                         \* mutant: the digest is marked all the same
  /\ "adapt" \in WeightFaults
  /\ caller[c].pc = "work" /\ caller[c].adapt
  /\ Goes(c, "mark")
  /\ UNCHANGED <<held, recent, weights, digest, cache, temp, master, made, gone, crowd>>
AdaptFails(c) ==
  /\ "adapt" \in WeightFaults
  /\ caller[c].pc = "work" /\ caller[c].adapt
  /\ Moved(c, Away)
  /\ UNCHANGED <<held, recent, weights, digest, cache, temp, master, made, gone, crowd>>

Reuse(c) ==
  /\ caller[c].pc = "work" /\ ~caller[c].adapt
  /\ Moved(c, Away)
  /\ UNCHANGED <<held, recent, weights, digest, cache, temp, master, made, gone, crowd>>

\* mark_heavy_context_adapted
Mark(c) ==
  LET full == Cardinality({s \in WeightIds : digest[s] # NoObj}) >= DigestCap
      kept == IF full THEN [s \in WeightIds |-> NoObj] ELSE digest
  IN /\ caller[c].pc = "mark"
     /\ digest' = [kept EXCEPT ![caller[c].id] = caller[c].ctx]
     /\ Moved(c, [Away EXCEPT !.pc = "digests"])
     /\ UNCHANGED <<held, recent, weights, cache, temp, master, made, gone, crowd>>

-----------------------------------------------------------------------------
(* persist_compression_cache_to *)

CloneDigests(c) ==
  /\ caller[c].pc = "digests"
  /\ IF \A s \in WeightIds : digest[s] = NoObj THEN Moved(c, Away)
     ELSE Moved(c, [caller[c] EXCEPT !.pc = "handles", !.plan = digest])
  /\ UNCHANGED <<held, recent, weights, digest, cache, temp, master, made, gone, crowd>>

Handles(S) == {<<s, held[s]>> : s \in S \intersect Resident}

SnapshotHandles(c) ==
  /\ caller[c].pc = "handles"
  /\ Moved(c, [caller[c] EXCEPT !.pc = "encode",
                  !.todo = Handles({s \in WeightIds : caller[c].plan[s] # NoObj})])
  /\ UNCHANGED <<held, recent, weights, digest, cache, temp, master, made, gone, crowd>>

Entry(c, h) == [digest |-> caller[c].plan[h[1]], got |-> weights[h[2]]]

Encode(c) ==
  /\ caller[c].pc = "encode"
  /\ \E h \in caller[c].todo :
       Moved(c, [caller[c] EXCEPT !.todo = @ \ {h}, !.file = [@ EXCEPT ![h[1]] = Entry(c, h)]])
  /\ UNCHANGED <<held, recent, weights, digest, cache, temp, master, made, gone, crowd>>

WriteTemp(c) ==
  /\ caller[c].pc = "encode" /\ caller[c].todo = {}
  /\ temp' = caller[c].file
  /\ Goes(c, "rename")
  /\ UNCHANGED <<held, recent, weights, digest, cache, master, made, gone, crowd>>

\* A request that finds the temporary file renamed by another is told so; so
\* is one whose rename fails.
Rename(c) ==
  /\ caller[c].pc = "rename"
  /\ \/ /\ temp # NoObj
        /\ cache' = temp /\ temp' = NoObj
     \/ /\ temp = NoObj \/ "rename" \in WeightFaults
        /\ UNCHANGED <<cache, temp>>
  /\ Moved(c, Away)
  /\ UNCHANGED <<held, recent, weights, digest, master, made, gone, crowd>>

-----------------------------------------------------------------------------
(* Dropping sessions into the master vibe *)

\* DELETE /v1/ttt/sessions/:id takes the object and then folds it.
Drop(c, s) ==
  /\ held[s] # NoObj
  /\ Arrives(c, [Away EXCEPT !.pc = "fold", !.kind = "drop", !.todo = Handles({s})])
  /\ Leave({s})
  /\ UNCHANGED <<weights, digest, cache, temp, master, crowd>>

\* DELETE /v1/ttt/sessions folds a snapshot, then clears what is there.
Clear(c) ==
  /\ Arrives(c, [Away EXCEPT !.pc = "fold", !.kind = "clear", !.todo = Handles(WeightIds)])
  /\ UNCHANGED <<held, recent, weights, digest, cache, temp, master, gone, crowd>>

Fold(c) ==
  /\ caller[c].pc = "fold"
  /\ \E h \in caller[c].todo :
       /\ master' = master \union weights[h[2]]
       /\ Moved(c, [caller[c] EXCEPT !.todo = @ \ {h}])
  /\ UNCHANGED <<held, recent, weights, digest, cache, temp, made, gone, crowd>>

Folded(c) ==
  /\ caller[c].pc = "fold" /\ caller[c].todo = {}
  /\ IF caller[c].kind = "clear" THEN Leave(WeightIds) ELSE UNCHANGED <<held, recent, gone>>
  /\ Moved(c, Away)
  /\ UNCHANGED <<weights, digest, cache, temp, master, made, crowd>>

\* The process ends, at any step; the next one hydrates the cache file, with
\* room for WeightCap of its entries and every digest.
Saved == {s \in WeightIds : cache[s] # NoEntry}
Restart ==
  /\ "restart" \in WeightFaults /\ made < MaxWeightCalls
  /\ made' = made + 1
  /\ caller' = [c \in Callers |-> Away]
  /\ \E S \in SUBSET Saved :
       /\ Cardinality(S) = (IF WeightCap < Cardinality(Saved) THEN WeightCap ELSE Cardinality(Saved))
       /\ held' = [s \in WeightIds |-> IF s \in S THEN <<made + 1, s>> ELSE NoObj]
       /\ recent' \in SetToSeqs(S)
       /\ weights' = [o \in Objects |-> IF o[1] = made + 1 /\ o[2] \in S THEN cache[o[2]].got ELSE {}]
       /\ gone' = gone \union (Saved \ S)
  /\ digest' = [s \in WeightIds |-> cache[s].digest]
  /\ UNCHANGED <<cache, temp, master, crowd>>

-----------------------------------------------------------------------------
Serve(c) ==
  \/ Found(c) \/ MakeRoom(c) \/ Insert(c)
  \/ Adapt(c) \/ AdaptFails(c) \/ Reuse(c) \/ Mark(c)
  \/ CloneDigests(c) \/ SnapshotHandles(c) \/ Encode(c) \/ WriteTemp(c) \/ Rename(c)
  \/ Fold(c) \/ Folded(c)

WeightNext ==
  \/ \E c \in Callers :
       \/ Serve(c) \/ Clear(c)
       \/ \E s \in WeightIds :
            \/ Drop(c, s)
            \/ \E x \in Contexts : Request(c, s, x) \/ Feedback(c, s, x) \/ Prefill(c, s, x)
  \/ Restart

WeightSpec == WeightInit /\ [][WeightNext]_weightVars

-----------------------------------------------------------------------------
(* Properties *)

Reusing(c) == caller[c].pc = "work" /\ ~caller[c].adapt

\* A repeated context "can then reuse the already-mutated fast-weights instead
\* of redoing the same TTT prefill": whoever skips the adaptation holds weights
\* that have absorbed its context.
ReuseIsAdapted ==
  \A c \in Callers : Reusing(c) => caller[c].ctx \in weights[caller[c].obj]

\* It is so for every session that was never dropped, cleared or evicted,
\* whatever requests overlap, fail, or are cut off by a restart.
ReuseUnlessGone ==
  \A c \in Callers :
    Reusing(c) /\ caller[c].id \notin gone => caller[c].ctx \in weights[caller[c].obj]

\* So it is after a restart: the file pairs no digest with weights that lack
\* its context, though digests and weights are read at different times, by
\* requests that write one temporary file.
CacheCoherent ==
  \A s \in WeightIds \ gone :
    cache[s] # NoEntry => cache[s].digest \in cache[s].got

\* The cap is checked before the matrices are built, so each request that is
\* building some while another makes room may add a session past it, and
\* nothing else does.
CapOverrun == Cardinality(Resident) <= WeightCap + crowd

\* What a session's weights, their file and their number promise.
WeightsSound == ReuseUnlessGone /\ CacheCoherent /\ CapOverrun
=============================================================================
