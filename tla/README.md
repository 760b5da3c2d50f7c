# Verification of AXIOM-AETHER

TLA+ models of parts of AXIOM-AETHER, checked with TLC on small instances, and
theorems about them checked with the TLA+ proof system (TLAPS). `PROJECT.json`
lists the components, the runs, the mutants that show each property can fail,
the source lines behind each definition, the disagreements found between code
and comments, and the hazards the properties are aimed at.

Contents: the system · modules and code · runs · findings · bounds, symmetry,
deadlock and fairness · proofs · what is not modelled · plan.

## The system

AXIOM-AETHER is a proxy and toolbox for coding agents, written mostly in Rust
(`axiom_engine_rs`, with a second workspace `axiom_mesh_rs` and an older Python
engine). It sits between an agent and a model API, shortens what is sent, keeps
what it cut off, remembers, repairs code under a verifier, and lets agents share
work. Much of the source is numeric (a test-time-trained model) or pure text
transformation. The part with state that several threads, processes or restarts
touch, and the decisions that promise something about a sequence of calls, are
what these models are for.

| Component | State | Operations | What is hard |
|---|---|---|---|
| CVM page store (`cvm_store.rs`) | one JSONL file per session; index of loaded sessions, byte counters, recency stamps behind one `RwLock` | `put`, `get`, `delete_session`, `open` | the read of the file happens outside the lock; rollback of failed writes; two shedding loops; crash in an append or rewrite |
| Task board (`task_board.rs`) | one JSONL file per channel, one mutex per channel and process | `post_task`, `claim_task`, `task_result`, `list_tasks` | several server processes over one directory; load, rewrite and rename; a line written in two parts |
| Transaction (`agentic.rs`) | snapshots of the edited files | `apply`, `commit`, `rollback`, `Drop` | errors half way through an edit set; restoring |
| Agent tasks (`agent_task.rs`, `agent_task_mcp.rs`) | registry of tasks: snapshot at start, attempts, rejected changes | `task_start`, `task_propose`, `task_finish` | tasks interleaving over the same files; aborts that fail |
| Agentic loop (`agentic.rs`) | attempt counter, memory of rejections | `agentic_loop`, `agentic_loop_with_holdout` | what is kept when the verifier, or a write, fails |
| Cache keepalive (`keepalive.rs`) | per session: last request, belief, ping count, timer handle | `record_activity`, the timer task | `abort` only at await points; a request between a ping and its answer |
| Server sessions (`prelude_state.rs`, `routes_sessions.rs`) | session table, stamps, version guards | create, adapt, generate, merge, sync, checkpoint, delete; the offload task | state copied under one lock and written back under another |
| Adapted weights (`context_compressor.rs`, `prelude_state.rs`) | LRU of session weights, digests of what was absorbed, a cache file, the vibe | adapt or reuse, evict, clear, flush, restore | the digest outlives the weights; room is made before it is used |
| Message turns (`routes_messages.rs` and the pipeline) | per conversation: stubs, digests, fingerprints; per session: cooldown, books, held payload | admit, reapply, rebase, defer; route, retry, fall back | a prefix must not change; a retry uses another body |
| OpenAI side (`routes_responses.rs`, chat path) | sub-sessions, two WebSocket pumps | compress, fan out, send, send again, relay | blocking work that nobody stops; a pump dropped with a frame in hand |
| Tool routes, MCP server (`routes_tools.rs`, `mcp_stdio.rs`) | threshold, alignment loops, memories | budget, config, align, remember, recall, forget, search, fetch | reads and writes of one number from several threads |
| Verification (`routes_verify.rs`, `hallucination.rs`) | a calibrated threshold | verify with expansions, calibrate, one correction round | when an expansion may change a verdict |
| Weight sharing (`dwe.rs`, `routes_fleet.rs`) | sequence numbers, replay guard, fleet keys | stamp, queue, send, consume | reordering, replay, rotation, restart |
| Memory, patch and heal stores | append-only logs; JSON files loaded and saved whole | append, forget, merge, prune, export | several processes, torn lines, merges that repeat |
| Self-heal, solve, mutation repair, Poly-JIT | files under repair, learnt immunity, patches | supervise, heal, try, verify, restore | what is on disk when something fails or is given up |
| Child processes (`proc_bound.rs`, `poly_jit.rs`, `cli_backend.rs`) | a process group, two pipes | run with a limit | helpers that hold a pipe, that leave the group |
| Provider router, ChimeraLang | beliefs of agents | ask, fail over, agree; inquire, guard, evolve | silence, dissent, repetition |
| Mesh orchestrator (`axiom_prime`), sidecars (`axiom_mcp`) | controller state, failure streaks, pending requests | sensed, routed, worker done, fault; call, answer, time-out | late and lost completions; a route to nobody |
| Training checkpoints (`train_semantic.rs`, ...) | weights, moments, sidecar | resume, train, evaluate, save; serve | three files, no atomicity |
| Daemon (`daemon.rs`) | a pid file | start, stop, status | two starts at once; a reused pid |
| CP/1 protocol (`cp1/`) | none; a corpus of documents | seal, sign, open, check a corpus | what order and repetition do to a chain of evidence |
| Configuration, command line, TUI, tensors, Python engine | settings, tensors | | out of reach or not concurrent |

How they meet. The message routes call the pipeline, which pages cut text into
the CVM store and leaves a stub; a later `expand` reads it back. They also tell
the keepalive manager about each real request, adapt the session's weights, and
queue their differences for the peers. The stdio MCP server of each agent opens
the task board, the memory stores and the loops; several such processes share
one data directory. `agent_task_mcp` is a process of its own whose registry is
locked for the whole of a proposal. The solve loop runs its command under the
supervisor, both over the same files, heal memory and patch store that the
node's server merges peers' exports into.

What makes each correct, in a line: the page store never loses an acknowledged
page except by a bound or a delete, within its bounds; the board hands each task
to one agent and loses none; a rejected change leaves the tree as it was, and an
abort brings back what the task found; a loop returns a solved tree or the given
one; a keepalive never speaks for a session in place of its own timer; the
server loses no turn of a session it offloads; weights are reused only while
they are there; a prefix that was sent stays; a turn is credited to the body
that was answered; what is fanned out leaves nothing behind; a verdict follows
the evidence; a difference is merged once; what was forgotten stays forgotten,
what was learnt stays learnt; a repair that did not verify is undone; a
completion counts for its own round; a checkpoint is of one run; a pid file
names the server that runs; a document arrives as it was sealed.

## Modules and code

| Module | Models | Role |
|---|---|---|
| `CvmStore` | `cvm_store.rs` | the page store |
| `CvmArchive` | comments on `CvmStore`, `put` | what it promises: queues of pages |
| `StoresProofs` | | theorems about `CvmStore`, `HealMemory`, `MemoryRecall`, `Conformance` |
| `TaskBoard` | `task_board.rs` | the board, its files and server processes |
| `TaskQueue` | module comment of `task_board.rs` | what it promises: atomic post, claim, finish |
| `ServicesProofs` | | theorems about `TaskBoard`, `ReplyRoute`, `ToolServer`, `BoundedRun`, and about the services together; extends the next |
| `TextProofs` | | theorems about `MutationPlan`, `Grounding`, `Inquiry`, `Partition`, `LineEdits` |
| `Transaction` | `EditSet`, `Transaction` of `agentic.rs` | shared by the next two |
| `AgentTask` | `agent_task.rs`, `agent_task_mcp.rs` | extends `Transaction` |
| `GatedTree` | module comment of `agent_task.rs` | what agent tasks promise about the tree |
| `TransactionProofs` | | lemmas about `Transaction`, for the next proofs |
| `NodeProofs` | | theorems about `AgentTask`, `ServerSessions`, `WeightExchange`, `FastWeights` |
| `AgenticLoop` | `run_agentic` in `agentic.rs` | extends `Transaction` |
| `Keepalive` | `keepalive.rs`, the belief of `belief.rs` | the timers of a session |
| `ServerSessions` | `routes_sessions.rs`, `prelude_state.rs` | the session table and the offload task |
| `FastWeights` | `context_compressor.rs`, `prelude_state.rs`, `vibe_memory.rs` | the proxy's adapted weights, their digests and cache file |
| `WeightExchange` | `dwe.rs`, `routes_fleet.rs` | differences between two nodes |
| `PromptPrefix` | `routes_messages.rs`, `rebase.rs`, `cache_safety.rs`, `digest.rs`, `local_trivial.rs` | what is forwarded of a conversation, turn after turn |
| `TurnRoute` | `routes_messages.rs`, `model_router.rs`, `swarm_router.rs`, `anthropic_forwarder.rs` | the model a turn is sent to, retries, fallbacks, books |
| `Partition` | `anthropic_forwarder.rs`, `responses_compressor.rs` | what is taken out of one request |
| `ReplyRoute` | `routes_responses.rs`, the chat path | sub-sessions and the sending of a Responses or chat turn |
| `FrameRelay` | `responses_websocket` | the two pumps of the WebSocket relay |
| `ToolServer` | `routes_tools.rs`, `mcp_stdio.rs`, `alignment_loop.rs`, `predictive_tools.rs` | the shared threshold, the alignment loops, the answers of a JSON-RPC line |
| `Grounding` | `hallucination.rs`, `routes_verify.rs`, `ground_correct_round` | verdicts, expansions, calibration, correction |
| `Inquiry` | `backend_router.rs`, `chimera.rs`, `belief.rs` | questions to several providers |
| `MutationPlan` | `mutation_repair.rs` | which lines are edited, in what order |
| `LineEdits` | `mutation_repair.rs`, `scripts/seed_faults.py` | the one-line edits, and the faults seeded to measure them |
| `SolveLoop` | `solve.rs`, `self_heal.rs`, `poly_jit.rs` | the solve loop and its undoing |
| `BoundedRun` | `proc_bound.rs`, `poly_jit.rs`, `cli_backend.rs`, `routes_hypervisor.rs` | a child with a time limit, for three callers; patched runs that requests give up or share |
| `HealMemory` | `heal_memory.rs`, `self_heal.rs`, immunity routes and commands | learned and structural immunity, merges, fading |
| `MemoryRecall` | `memory_recall.rs`, `graph_memory.rs`, memory tools of `mcp_stdio.rs` | recall over scopes, revisions and edges |
| `RecallLog` | `memory_store.rs` | the lines of a memory file several processes append to |
| `PatchExchange` | `patch_memory.rs` and its users | patches merged between nodes |
| `MeshPrime` | `axiom_prime`, `axiom_mcp/transport.rs` | the orchestrator and its workers |
| `Checkpoint` | `train_semantic.rs`, `resumable_adamw.rs`, `model_meta.rs`, `inference.rs` | three files, one checkpoint |
| `Daemon` | `daemon.rs`, `run.rs` | the pid file and its servers |
| `ControlProofs` | | theorems about `Keepalive`, `PromptPrefix`, `TurnRoute`, `AgenticLoop`, `SolveLoop`, `MeshPrime`, `FrameRelay` |
| `FilesProofs` | | theorems about `RecallLog`, `PatchExchange`, `Daemon`, `Checkpoint` |
| `Conformance` | `cp1/canonical.rs`, `envelope.rs`, `conformance.rs` | documents on their way into a corpus |
| `MCStores`, `MCControl`, `MCFiles`, `MCServices`, `MCState` | | instances of several components each |
| `MCCvmStore`, `MCTaskBoard` | | instances of one component |

The five modules that hold several components choose one of them in the initial
state (`part`); only that one takes steps, the others stay as they are. In
`MCState` the constant `Parts` says which may be chosen: all in `node_state`, the
session table alone in `sessions_second`. The
components of one module share no variable, so a run is the union of their state
spaces, each property speaks of its own component, and nothing is lost by the
union. Fairness is stated of the part that takes steps.

Each module's header says what its state stands for and what it leaves out.
What a reader needs beyond that:

**CvmStore.** `loaded`, `rows`, `older`, `indexBytes` are `Index::sessions` with
each entry's rows and stamp, and `index_bytes`; `booked`, `diskBytes`,
`diskOlder` are `disk_bytes` and `disk_touch`; `files`, `junk`, `torn`,
`present` are the directory. A call is a thread going through `Call` (the
`loaded` flag, read under the read lock), `ReadFile` (`load_session_rows`, no
lock), then one of the actions under the write guard. `put` splits there:
`PutPanics`, `PutKnown`, `OpenFails`, or `PutPushes`, which opens or truncates
the file and holds the guard until `AppendOk`, `RewriteOk` or `WriteFails`.
`Commit` is everything `put` does after a successful write, including
`shed_index` and `shed_disk`. The loops are given by the set of what they drop
(`Victims`, `Overdue`): the least recent, one after the other, each while the
rest is over the budget. Clocks are replaced by the orders they induce. `owed`
and `putBy` are history: what `put` has acknowledged and nothing has dropped,
and what was ever put.

**TaskBoard.** A worker is a request inside a server process. `PostText` and
`PostNewline` are the two writes of `writeln!`; `ClaimLoad`/`ResultLoad`,
`WriteTmp`, `Rename` are the steps of `claim_task` and `task_result`, with a
failing variant each. `Enters` is the channel mutex: of one process and one
name. `tail` says what the last line of a file is, and `Glue` what happens to
text written behind an unfinished one. Percent-encoding is the function
`FileOf`, applied to names and to stems alike, as `find_channel_for_task` does.
`overlapped` is history: two servers have been inside one channel at once. What
the mutex of one process gives is stated for as long as that has not happened.

**Transaction, AgentTask, AgenticLoop.** `WriteEdit` is one pass of the loop in
`Transaction::apply`, `WriteFails` and `MkdirFails` its two early returns,
`Undo` the rollback. `AgentTask` adds the guards of `propose` in their order
(`Counts`, `Allows`, empty, `Known`), what follows the verifier (`Passes`,
`Fails`), and `finish` (`FinishKeep`, `FinishAbort`, `AbortFails`). `AgenticLoop`
adds `run_agentic`, one action per branch of the loop body. An edit set is
remembered by its effect, because the fingerprint in the code is over a sorted
map of path to content.

**Keepalive.** A handler is a request thread of the session: `Ask`, then
`Unanswered`, or `Insert` (the first lock section of `record_activity`, and the
spawn) and `Store` (the second one, at the end of `spawn_timer`). A task is a
timer: `Wake`, `Snapshot` (the lock section and the gate), `Retry`, `Reach` and
`Answer` (`send_ping` and what the API and the network make of it), `Apply` (the
second lock section) and `Penalize`. `Aborted` and `Goes` say what `abort()` does:
a task that awaits is dropped, one that does not goes on until it does. `Tick` is
time, which passes when nobody has anything to do at once. `lost`, `rounds` and
`crossed` are history.

**ServerSessions, FastWeights.** A step is a section under a lock. What a session
has learnt is a set of turns, or of contexts; parking quantises it and loses
none. The offload task is `pick`, `Copy`, `Install` or `OffloadFails`, with
`Unchanged` the comparison of stamps. The clock counts whole seconds: a step that
stores `unix_now()` stays in its second or opens the next. `overlooked` is history:
the offload tasks whose session has been updated, since their copy, in the second
they compare with. A request of `FastWeights` holds the object
it adapts by reference, as the `Arc` in the code is; `crowd` counts requests that
make room at once and is history.

**PromptPrefix, TurnRoute.** One action per turn and per thing that can happen to
it. `PrefixStable` compares what is forwarded of two successive turns of one
conversation. `TurnRoute` follows one turn at a time of a session, but several
turns share its cooldown and its held payload.

**SolveLoop, BoundedRun, MutationPlan, LineEdits.** `SolveLoop` takes
candidates from a set; which lines the planner works on, and in which order, is
`MutationPlan`; what it makes of one line is `LineEdits`. A line there is a
sequence of tokens, and one operator per function of the source gives the edits
of a class as a set. `Sites` are the faults of the benchmark's seeder. The
supervisor in it knows one directory; what several commands and nodes learn of
several is `HealMemory`. `BoundedRun` is one child for each of the three callers,
with a helper that may hold the pipes; its second half is `jit_run`, the route whose
requests patch one file, run it and may be given up on the way.

**HealMemory.** A run holds its `copy` of the file from start to end (`StartRun`,
`HealRun`, then `Succeed`, `GiveUp` or `Abandon`); a merge is `LoadForMerge` and
`SaveMerged`. `needed`, `learnt` and `overlapped` are history: what a run really
failed for, what was saved and not pruned, and whether two writers of a node's
file crossed.

**MemoryRecall.** Only the changes are actions. What a query returns is the set
of results `DirectHits` allows (the order of equally similar records is that of
a hash map) and the neighbours `GraphHits` adds to each. The program itself never
writes `supersedes` or an edge; the library offers both, and so does the model.

**Conformance.** `Wrap`, `Damage`, `Arrive` take an envelope over a wire with a
relay that has no key; `Vendor` adds a fixture by hand. `Failures` is
`check_corpus` as a set of failures per line.

Definitions marked `mutant` are not part of the models. Each is a plausible bug
in the definition below it, kept to show that some property would notice. Where a
module ends with a section "What the comments say and the code does not do", its
definitions are literal readings of a comment; no run checks them, TLC refutes
each, if need be on an instance named there, and the section Findings lists them.

## Runs

| Run | Shows |
|---|---|
| `stores` | *Page store*, one thread, a page larger than every budget, failing opens and appends: acknowledged pages stay readable, the index equals the files in content and order, the disk bound holds after each write, and every step is one of the archive's. *Learned immunity* of two nodes: a directory is made for every command only if two commands failed without it; what a node learnt and did not prune is in its records and there before the next run of its command. *Recall*: nothing forgotten or superseded in the scopes asked comes back, by similarity or over an edge; nothing better is left out; `fetch` finds what `search` returned. *CP/1*: what opens is what was wrapped, under the receiver's key; a corpus without a failure chains every measured result to a simulation of its mutation with its number of runs; neither order nor repetition hides a failure. |
| `cvm_threads` | Two threads, two ids with one file, a page larger than the budget, every fault and crashes: the byte counter stays exact when a load loses its race, the memory bound holds, and the `expect` of `put` fails by nothing but a race: the put saw its session loaded and another thread took it out of the index. |
| `services` | *Board*, one server: nothing posted is lost, calls take effect atomically. *Replies*: a fan-out leaves no sub-session behind, the client's own body is tried when the lean one may be to blame, a body is sent at most twice (three times on the Responses path), and the last answer reaches the client. *Tools*: a reported cap holds, an alignment loop keeps its progress. *Child processes*: every caller is back in bounded time, nothing of the group survives, printed output is kept but for pipes held by helpers that left the group. *Patched runs*: the source is put back unless requests overlapped, or one that had patched ended by an error or was given up. *Partition*: only stripped text goes, one digest in one place. *Grounding*: expansion makes no verdict worse, is spent on claims in doubt only and below the cap misses nothing; a correction never degrades; a calibrated threshold covers its sample. *Repair plan*: no line of the oracle is edited but by an import, strong evidence comes first, no attempt is wasted and the plan is exhausted before it gives up. *Edits*: of the faults the benchmark seeds, all but those listed under Findings are undone by some edit, and an edit leaves literals and comments as they were, with the exceptions named there. *Providers*: answers that came are used, silence never passes a guard, dissent shows. |
| `board_servers` | Two servers over one directory, failing writes and crashes: while they are not inside one channel at once, no row appears twice and no task is claimed twice, also across restarts. |
| `shared_files` | *Agent tasks*, failing writes: a proposal that is not accepted changes nothing, the tree moves only by whole accepted sets and by aborts. *Recall log*, torn lines: the last acknowledged word about an id stands. *Patches* of two nodes: what was learnt stays unless writers crossed, a merge raises trust by one at most. *Daemon*: no server that tools cannot reach, unless they overlapped. *Checkpoint*: the files loaded are of one run and step or recognised as not, a resumed run is warm, a server serves what was trained. |
| `control_loops` | *Keepalive*: one timer goes on, the cache stays warm while pings arrive, a silent session costs the planned pings and at most one more, a closed gate stays closed. *Prefix*: what was forwarded stays the prefix of what is forwarded next, unless a page was lost or the client changed it. *Turns*: savings are credited only to turns the cheap model answered, errors keep later turns on the asked model. *Agentic loop*: the tree returned passes both suites or is the one given. *Solve*: only the fix that verified stays. *Mesh*: completions and answers count for their own round. *Relay*: frames keep their order, the last ones arrive. And every timer, round and relay ends. |
| `node_state` | *Sessions*: a session loses a turn only with the session itself, to a PUT, to a request that loaded before and writes after, or to the offload task when it was updated in the very second that task compares with; no delta is merged twice or after a newer one unless a delete has dropped the guard; once requests and deltas stop coming, the offload brings sessions within the budget. *Weights*: reused only while there, the cache file agrees with memory, the cap is exceeded by overlapping requests only. *Exchange*: no difference is merged twice, except after a checkpoint of an earlier process is restored; queues run dry. *Agent tasks*, every fault: a refused change is not applied again in any order of its edits, and an abort that reports success has restored everything. |

Each property of a passing run has a mutant under which the same run fails.

## Findings

Five runs end in a counterexample of a property the code or its comments claim.

| Run | What happens |
|---|---|
| `cvm_expect` | Thread A sees its session loaded; B sheds it; A takes the write lock, inserts nothing, and `expect` panics with the guard held. The lock is poisoned: every later `put` fails and every `get` is `None`. |
| `board_double` | Two servers load before either renames: one task, two agents. |
| `sessions_second` | Stamps are whole seconds: a checkpoint restored within the second the offload task took its copy is undone when the task installs the copy. |
| `turn_held` | A routed turn fails, falls back to the client's body and succeeds: the payload held for keepalive pings still names the cheap model. |
| `exchange_drops` | Two fragments of one session reach the consumer in the other order, and the replay guard drops the one numbered first. |

Also seen while modelling, and not kept as runs; a name in code font is the
definition in the module that says it, refuted by TLC.

*Page store.* A load that lost its race inserts old rows over an acknowledged
put (two threads, `Durable`). A rewrite that fails has already truncated the
file, and the index is rolled back to rows the file no longer has (`"rewrite"`
among the faults of `stores`, `IndexMatchesDisk`). A crash leaves half a line; the
next append joins it and is lost once the session is shed (`"crash"`, `Durable`).
Two ids that sanitise to one stem read each other's pages.

*Board.* Two servers' posts interleave within a line and both tasks are lost; so
does a post after a crash between a line and its newline (`board_servers`,
`PostedStays`). A result is accepted for a task nobody claimed. A channel name
that needs encoding is encoded twice on lookup, so its results are never recorded
(`OddFile`, `ResultFinds`). A result whose `success` is missing or not a boolean
counts as success; a priority wraps at 256.

*Transactions.* A directory that cannot be made leaves the earlier edits of the
set in place (`"mkdir"`, `AllOrNothing`). A file that cannot be read but can be
written counts as absent, and rollback deletes it (`"read"`, `SolvedOrUntouched`).
A change that could not be written is remembered as one the verifier rejected.

*Keepalive.* Two requests of one session inside `record_activity` at once leave a
timer whose handle nobody holds (two handlers, `OneTimer` without `~crossed`). A
timer that a request comes too late to stop applies its answer to the new entry;
the next request then counts as a success, against `keepalive.rs:326-330`. The six
rounds of a half-hour horizon take 6 x 270 s, so a session is held to have ended
before "Horizon fully elapsed" (`keepalive.rs:438`).

*Sessions and weights.* `AXIOM_MAX_SESSIONS` is looked at by `create_session`
only (`docs/ENVIRONMENT.md:20`). The offload task need not end while requests
come: with two sessions over the budget it picks and copies the one used longer
ago, that one is used again before the install, which finds another stamp and does
nothing, and the other session is next; each round takes a use in a later second,
so the table stays over its budget as long as the sessions are used in turn
(`prelude_state.rs:1101`). `BudgetRestored` therefore speaks of the time after the
requests; turns are numbered, so no finite run holds this one. Overlapping adapt, generate and sync of one
session lose turns. `delete_session` drops the guards of every id that begins
with its own id and a colon; the guard of the weight exchange survives it. A
digest outlives the weights it speaks of: after a drop, a clear or an eviction a
turn is taken for a reuse (`ReuseIsAdapted`; `prelude_state.rs:311-314`). "persisted:
true" may be said of weights adapted since the write; a clear loses them. The
graceful shutdown flushes before requests in flight end. A restarted sender
numbers from 0 again and is ignored until it passes the guard; two senders share
a guard; fragments of proxy sessions go to the `/v1/sessions` table only.

*Turns.* The rebase can be triggered by the proxy's own rewrite
(`NeverProxyInitiated`; `rebase.rs:15`), and with JSON results the prefix itself
changes (`rebase.rs:239-242`). Stubs are put back although the expand tool is not
available. A streamed turn returns a network error at once where the buffered
path retries. The cooldown map is cleared whole at 512 sessions. Taking heavy
texts out also drops assistant turns without content and heavy tool messages
(`OnlyStrippedDropped`; `anthropic_forwarder.rs:308`), moves system texts
(`SystemsPlaced`; `:277-288`) and may leave an empty digest (`NoEmptyDigest`;
`:560-567`).

*OpenAI side.* A failing fan-out leaks what its blocking closures allocate later
(`NeverLeaks`; `routes_responses.rs:123-125`), and a shared session's runs meet
(`RunsApart`; `:72-73`). A Responses turn is sent up to three times. A chat turn is
lost when its compression fails locally, unlike `routes_messages.rs:1487-1488`.
Savings recorded before sending stay when the original is answered. A failed
write to a gone upstream may lose its last frames or the client's Close.

*Tools and verification.* Overlapping `POST /v1/budget` lose the lower cap
(`CapAlways`). The floor of the cap equals the default threshold, so it bites only
when the threshold was configured higher. Requests without an id are answered
(`NotificationsSilent`; `mcp_stdio.rs:263`), and the token cost promised at
`mcp_stdio.rs:2036-2038` never appears (`CostShown`). `from_env` always returns the
shipped gate where `hallucination.rs:111-117` says constants stay; the comment on
`verify_with_signals` says "non-positive lift" and the code demotes below −0.5; a
negative calibration score breaks coverage since the threshold is clamped; a
revision may be accepted with more flagged claims.

*Edits.* Of the seeder's faults these are out of reach (`OutOfReach`): flipped
shifts, a `!` dropped inside an expression, constants doubled or too large, `+=`
made `=`, an operator whose left operand ends in `?` (it does not count as an
operand, `mutation_repair.rs:1265-1270`), every fault of a line with `.expect(`,
which passes for the oracle's, and swapped names that also occur in a literal.
The seeder's docstring (`seed_faults.py:17-20`) still says that the repair layer
has no operator for swapped names, `min` and `max`, `break` and `continue`; it
has. Negating a return and swapping the operands of a sum move text into a
comment at the end of the line; swapping arguments closes up `( ` anywhere on
the line, in literals too (`mutation_repair.rs:1687-1688`); swapping operands
behind `..=` takes the block's brace along.

*Repair.* Poly-JIT reads the first 4096 characters and writes its excerpt back as
the whole file (`NeverCut`; `poly_jit.rs:287-291`), and the identity is always one
of its candidates. Imports are rewritten in oracle and test lines too
(`OracleUntouched`; `mutation_repair.rs:33-35`). A merge into the heal memory while
the supervisor runs is lost when it saves (`LearningStays`), also against "Local
learning is never weakened" at `routes_fleet.rs:70-71`. A run that errs, times out
or is given up leaves the patched source (`FailureRestores`;
`routes_hypervisor.rs:165-170`). A helper may keep a caller past the limit
(`WaitsAtMost`; `cli_backend.rs:466-469`); a killed child's output is lost, or its
end taken for success (`KilledKeepsOutput`, `KilledFails`; `proc_bound.rs:53-56`); a
reused pid may be killed (`KillsOnlyItsOwn`; `:39-41`). Killing the solver in a
verification leaves its candidate.

*Learned immunity.* A directory counts as "independently learned" by commands
that never failed for it, once a structural heal helped them
(`CorroboratorsNeed`, one node and five runs; `heal_memory.rs:168-175`). Mutual
merges add the same evidence again, until an honest node's record looks fabricated
and is refused (`HonestTrusted`), and date both sides' evidence with the newer
time (`NeverFresher`). On conflict `merge_json` averages where its comment says
the local belief is kept (`heal_memory.rs:795-798`).

*Memories.* A neighbour from a scope that was not asked is shown although a record
in the very same file supersedes it (`StaleStaysOut`; `memory_recall.rs:75-77`).
Among more than twice `k` equally similar records the newest may be cut off
(`NewestOfAlike`). Scopes that sanitise alike share a file (`ScopesApart`).
`axiom_forget` without a scope writes its tombstone into the personal file
whatever the id's scope is. A line cut within a character makes the whole file
unreadable (`"midchar"`, `LastWordStands`; `memory_store.rs:86-88`). An export
merged again counts again (`CountsNodes`; `patch_memory.rs:19-21`).

*Providers.* A belief without a ttl decays to almost its prior, so it never passes
a guard (`TtlAges`; `chimera.rs:1064-1065`); two agreeing providers yield less
confidence than one (`AgreementCounts`; `backend_router.rs:311-313`); the last agent's
silence replaces an earlier answer; `evolve` drops conflicting answers.

*Checkpoint, daemon, mesh, CP/1.* The first evaluation of a resumed run overwrites
a better checkpoint (`BestEver`; `train_semantic.rs:404`); with the default step cap
training ends before any evaluation and saves nothing. `start` reports a running
server before it is bound; a server the dashboard started is a zombie that still
counts as running. The announcements of a round are never executed
(`CommandsRun`; `main.rs:319-325`). A corpus passes with `derived_from` ids that are
not in it (`EdgesResolve`; `conformance.rs:25` against `:239-241`), and a cycle of two
documents is not seen.

## Bounds, symmetry, deadlock and fairness

The page store has two sessions, pages of two sizes and budgets chosen so that
each bound is met: the session cap holds two small pages or one large, so a third
put evicts one or two rows; the memory budget is the cap, so loading the second
session sheds the first; the disk budget is less than two full files. In `stores`
one page exceeds cap and memory budget by itself. `MaxRows` caps the lines of a
file. Two threads are what each race found needs. In `cvm_threads` threads are
interchangeable (`SYMMETRY`: no definition or property tells them apart), and
`VIEW` hides `owed`, on which no guard, no other variable and no property of the
run depends.

The board runs have two requests at once and two tasks: enough for a claim to
interleave with a post, a result or another claim, and for priorities to
disagree with age. Task ids are fresh, as UUIDs are. In `board_servers` the two
servers with their requests are interchangeable, and `VIEW` hides `acked`, and
`granted` once `overlapped` is true: no guard reads them, `overlapped` stays true,
and then no invariant of the run turns on `granted`.

Agent tasks have two files, five edit sets (none, one, two in both orders, the
same file twice) and two attempts; each initial state gives every file any
content, no file, or a directory. The loop has three attempts, so that it can
skip, be refused and succeed.

The keepalive's unit of time is a tick with a TTL of 4, a margin of 2 and answers
within 1: the smallest with `Sleep + 2 * Latency <= TTL`, which is what `Warm`
needs. In the code, with 270 of 300 s, it holds as long as the API answers
within 15 s; the client would wait for 120. The horizon of 13 plans four pings.

The others, by what their bounds are to let happen:

* Sessions: two, one extending the other's id; two offload tasks, versions 1 and
  2, so that a delta may be replayed or come late. In `node_state`, three calls and
  seconds 0 to 2: two calls put the table over its budget, the third falls between
  copy and install, within the second or after it. `sessions_second` needs a fourth
  call and two seconds. What takes more (a delete and a restore under one copy) is
  covered by `LossExplainedCorrect`. Weights: two
  sessions, a cap of one, two callers, so that one eviction meets a reuse.
  Exchange: two proxies, queues of one, two differences, so that one is dropped,
  overtaken, repeated, and a key rotated in between.
* Prefix: two conversations under one id and three messages, two of them heavy:
  a stub is admitted, reapplied and lost to an eviction. Turns: three turns of two
  concurrent callers. Partition: conversations of up to four turns from a set of
  twelve shapes.
* Replies: one request with three runs, two at a time. Relay: two frames a way.
  Tools: three calls of two callers over two sessions. Grounding: three tokens,
  claims of two, two expansions, samples of three scores.
* Solve: two files, one longer than the excerpt, two rounds, one restart. Patched
  runs: two requests, three steps. Child: a limit of two ticks, a grace of one,
  a horizon of eight, beyond which nothing new happens. Plan: two files of five
  and four lines, two orders of classes, two hints, budgets of 1, 3 and 20. Edits: 27 lines of
  six languages, one fault and one edit.
* Immunity: two nodes, three commands of which two need the directory, three
  runs, one merge, two half-lives; evidence in twentieths of a success, faded
  below 10 of them (the variance 0.07), and a small number in place of the
  `MAX_PEER_EVIDENCE` of 1e4, so that it can be reached. Recall: four memories in
  four scopes, two with one file, three of them equally similar, `k` of one, one
  neighbour, four changes. Log: two ids, two writers, four calls. Patches: two
  nodes with two hands each, two patches.
* Mesh: three nodes, one of them failing, a fan-out of two, a quarantine after
  two. Daemon: two pids, two tools, three starts. Checkpoint: three epochs of one
  window, a patience of two, two runs, each with or without the gate, two sizes.
* Providers: one order of three, keys for all, one or none, two answer texts, two
  ttls, two iterations, three statements. Corpus: eight documents, one key, three
  lines.

`CHECK_DEADLOCK FALSE` is said for the runs of several components and for
`turn_held` and `exchange_drops`: tasks, loops, repairs, relays and bounded
histories end, and a model with a bound on its calls stops there. `cvm_threads`,
`board_servers` and the counterexamples about them are checked for deadlock: the
page store and the board serve for ever.

Fairness is stated only where something must end, and only what the code's
scheduling gives:

* Keepalive: `WF_vars(Progress)`, that the process as a whole does not stop while
  it could do something. The runtime polls the tasks that are ready, time passes,
  and the client's time-out ends a ping the API does not answer. No task is
  promised a turn of its own, and nothing makes the user ask again.
* Offload: each offload task goes on (a spawned task is polled). `NodeSettles` is
  stated for the time after requests and deltas stop coming: a request that keeps
  using what a task has copied keeps the task from parking it (see Findings).
* Exchange: a fragment that is stamped is queued, a proxy's sender takes, sends
  and its consumer consumes, and a frame in a connection is delivered. There is no
  write time-out in `dwe.rs`: that an attempt ends is TCP's.
* Mesh: the runner goes on, and a call ends by its refusal or its time-out.
* Relay: a pump is polled while it can go on, and a connection that is gone is
  noticed.

The others wait for nothing but a lock.

## Proofs

What a theorem says it says for every value of the constants that the named
assumptions of its module admit; where it needs more, its `ASSUME` says so, and
what the run checks on a small instance stays what it is.

**`StoresProofs`**. The page store, for any threads, sessions, files, pages, bounds and
faults:

* `TypeCorrect`. The type invariant is inductive as it stands. The content is in
  the two recency orders, which every action must keep strict and total on the
  keys they order (`TouchedOrdered`, `AmongOrder`): without it `Victims` would not
  describe a loop that always finds a least recent entry.
* `ProvenanceCorrect`: no session is served a page that was not put under a
  session of the same file. It speaks of what can be read now and is not
  inductive: rows travel through a thread's `snap`, the `pending` rows of a writer
  and the files. `ProvenanceInv` says it of each of those places.
* `AccountingCorrect` and `IndexBoundedCorrect`: the byte counter of the index is
  exactly the bytes of the rows in it, and those are within the budget or belong
  to one session. Both are sums over sets, defined by folds, that the model takes
  apart one element at a time; that a sum does not depend on the order, and what
  adding, dropping or resizing an element does to it, is proved by induction from
  the library's well-foundedness of the naturals: every nonempty set of naturals
  has a least element (`LeastNat`), so a set of naturals with 0 and every
  successor has them all (`NatInduct`), and that set is "the sizes up to which it
  holds". The inductive invariant, `ByteInv`, adds that whoever holds the write
  guard in the middle of a put has its session in the index.
* `PanicsOnlyByRaceCorrect`: for any number of threads, all faults and restarts,
  the `expect` of `put` fails only for a request that saw its session loaded, and
  such a session leaves the index only by a step of another thread: a load inserts
  or keeps the entry, and no shedding takes the session its own thread uses.
  `cvm_expect` shows the race itself.
* `IndexMatchesDiskCorrect`, `DurableCorrect`, `ArchiveCorrect`: with one request
  at a time, a file for each session (`OwnFile`), and no fault but opens, appends
  and deletions that fail cleanly (`CleanFails`), rows in memory are rows on disk,
  an acknowledged page stays until a bound or a delete drops it, and the store
  implements `CvmArchive`. `MirrorInv` says what a put in progress has pushed, and
  that what was read from a file is what the file holds. Each condition is one the
  code leaves open: another thread installs a stale read, two ids that sanitise to
  one name share a file (`cvm_store.rs:168`), and a half-written line, an
  unreadable file or a failed rewrite loses rows.
* `WriteBoundsDiskCorrect`: with one request at a time and only opens and appends
  failing (`Deletes`), a written put leaves the files within the disk bound, or
  everything they hold in one file, however many sessions share files. `DiskInv`
  says that the books know every file but the one being rewritten or deleted. The
  attempt showed that "or one file is left" was too strong to be true of every
  bound: an append that fails may leave an empty file beside one larger than the
  bound. The property says now what is left *holds anything*.

The other memories, for any nodes, commands, memories, scopes and documents:

* `HealSoundCorrect`. `AllGenuine` says of each memory, of the copy a run or a merge
  carries and of what is exported, that a directory is held for a command only if that
  command, or two others, failed without it. Under it, by node, `Node`; and `Apart`:
  while no two writers of its file have crossed, a node has a run or a merge under way
  but not both, and its memory and what that carries hold all it has learnt. Crossing
  writers lose one another's runs, as the code does, and keep `AllGenuine` only.
* `RecallSoundCorrect`. `Dismissed`: what was forgotten or superseded has no way back.
  The rest is about one recall: scores are a strict order on finitely many memories, so
  a best set of each size exists (`BestExists`, by `NatInduct`), any two sets of the same
  size that leave out nothing better are equal, and the set the model chooses is the cut
  of the sorted list the code makes. The activation of an edge is a sum, of which only
  that it is a natural matters.
* `CorpusSoundCorrect`: `Sealed` says that an envelope is as it was wrapped or spoilt in
  a way that opening finds, `Clean` that every line of a corpus is sound and every
  measurement chained. A clean corpus is found clean whatever the order of its lines, and
  what one more line mends is a missing simulation.
* `LearningSoundCorrect`: the invariant of the run `stores`.

**`ServicesProofs`**. The task board, for any workers, servers, channels, tasks and
priorities:

* `BoardTypeCorrect`, by `Shape`, which adds that whoever is at a channel's lock or
  inside it has a file to go to, that only results search for their channel, and
  that a task being posted has an id of its own.
* `ClaimedInTurnCorrect` and `RowsUniqueCorrect`, under all faults. Neither is
  inductive: what a worker writes back it has read several steps before. `Turns`
  says, while no two servers have met in a channel: a channel has one worker
  inside (`Alone`, from the mutex and the names being one to one with the stems);
  the copy a worker carries is the file as it is *now* but for its own row
  (`Copies`), and so is the temporary file before the rename (`Temps`); a task
  waiting to be posted, and an id not yet generated, is in no file (`Waiting`,
  `Unused`); a task handed out has no pending row (`Grants`).
* `PostedStaysCorrect`, `QueueCorrect` and `ResultFindsCorrect`: with one server
  and no faults an acknowledged task stays on the board and the board implements
  `TaskQueue` (the text of a row is the post, the rename the claim or the result);
  a result finds its task if moreover `FileOf[n] = n` for every stem, which holds
  of names whose characters need no encoding. All three conditions are needed:
  another server may rename an old copy over the row, a failed newline glues the
  next row to the unfinished line, and a stem that is encoded once more is not
  found. `Written` adds that an incomplete last line always has a writer.

The HTTP routes. `RoutesSoundCorrect` is the invariant of the run `services` on them: a
step of the services is a step of each component or leaves it alone (`ServicesStep`),
so each component runs as it does alone (`ServicesApart`) and keeps its invariant.
`EvidenceLeadsInReach` says the same of the plan and, as far as `TextProofs` goes, of
the edits. Four of the components:

* `RelaySoundCorrect`: `Leaves` says when a request has nothing in the sub-sessions of
  its own name, `Runs` which closures may still put something there (a closure nobody
  can stop goes on only after its task failed, and then the request has failed too),
  `SendsAs` what has been sent, by where the request is.
* `ToolsSoundCorrect`, for natural budgets and milestones: the cap is compared in one
  step and stored in another, with other reports between them. Of two threads in a
  report neither counts on its cap (`CapAlone`), so for the sessions that do, what one
  thread is about to store is no more than any of their targets (`CapNext`). A loop is in
  the map or in the hands of one call, and stands where the answers brought it (`LoopInv`).
* `RunsBoundedCorrect`, for natural limits: `OnTime` bounds the clock and the mark of the
  grace by what the caller waits for, `Survivors` says who is alive past the limit, `Collected`
  that a pipe behind the caller was read to its end or is held by a helper apart.
* `SourceKeptCorrect`, for finitely many requests: while none overlap, at most one is
  busy, its backup is sound or was spoilt before it, and until it patches the file is its
  backup (`Tidy`). `Books` bounds the status counters by the requests that have begun,
  passed and given up.

**`TextProofs`**. Services that work on texts and answers:

* `PlanSoundCorrect`, from `PlanAssumption` (`ImportClass` is not one of the
  late classes, identifier swaps and argument shifts; imports are planned per file,
  `mutation_repair.rs:532`).
  `Picked`: the plan is a list of keyed candidates in the order of their tiers, and no
  candidate that is left has a lower tier than one that was taken. That is why no
  attempt on a blamed line waits for one elsewhere, and why a plan below its budget
  has everything.
* `GroundingSoundCorrect`, from `GroundAssumption` (numbers are naturals, tokens finitely
  many). `Expanding`: below the cap, every claim in doubt that was passed has had all
  there is for it; evidence only grows, so no verdict gets worse. `Revised`: an answer is
  the draft or better grounded than a draft that was flagged.
* `InquirySoundCorrect`, from `AskAssumption` (an order of providers is a nonempty
  sequence without repetition, as `backend_router.rs` builds it). `QueryInv` relates what
  was tried, what failed and who spoke, by pass. `Unheard`: a belief nobody answered has
  even odds. `Stated`: the belief of up to three agents is the pool of their confidences,
  so if one doubts, the mean stays below the most confident (`TwoBelow`, `ThreeBelow`).
  Three confident agents outweigh a fourth that doubts, as evidence adds up; therefore
  `DissentShows` speaks of up to three, and the run has lists of one to three.
* `TalkSoundCorrect`, from `TalkAssumption` (a message that is a string is one text).
  What a definition computes by going through a conversation is proved by induction:
  `FlattenJoins` and `FlattenConcat` say what joining a sequence of sequences does, by
  induction over a number (`LeastNat`), and `Each` carries a reading of one message
  (`HeavyOf`, `DigestsOf`) to the whole. Then nothing but heavy text is missing, the digest tells of it once, and a
  rebuilt input has every item where it stood (`RunsWhole`).
* `EditsSoundCorrect`, from `EditAssumption` (a word is not one of the signs that
  delimit literals and comments): `EditsSound` wherever `InReach` holds. The lemmas carry
  the cost. Two lines that differ only in texts which hide nothing have the same literals
  and comments (`SameHidden`, by induction along the line), so an edit that writes such a
  text for another leaves them alone (`Rewritten`); every table of edits has only such
  texts (`HarmlessTables`), and every table can be read backwards (`BackTables`), so a
  token that was exchanged for another of its row is offered back. Of the 508 edits of
  the run 340 are of this kind, and of the 42 seeded faults not in `OutOfReach` 25.

**`NodeProofs`**:

* Agent tasks, under all faults: `TaskTypeCorrect`, `ConfinedCorrect`,
  `AbortRestoresCorrect` and `NeverReappliedCorrect`, from `TaskInv`: a path a
  transaction has a snapshot of is no directory (`TxShape`); a proposal names and
  saves only files of the allowlist (`Tried`); what a task recorded is what it
  found, a directory counting as missing and being one to this day (`Recorded`);
  the remembered effects are exactly the refused ones.
* `AllOrNothingCorrect` and `GateCorrect`, for `Faults \subseteq {"write"}`: a
  refused proposal leaves no trace, and the server implements `GatedTree`.
  `Recalls` says that a path without a snapshot holds what it held at the start,
  and a snapshot what the path held then; `Half`, that of each path the last edit
  written is the one that shows. The condition is what the code needs: a file that
  cannot be read is taken for missing, a directory that cannot be made leaves what
  was written, and a failed restore is ignored.
* The session table: `SessTypeCorrect`, `SyncInOrderCorrect` (a peer's delta is
  merged only if newer than all before, unless a delete took the guard away), and
  `LossExplainedCorrect`, with the clock as it is, in whole seconds: what was
  learned goes only with the session, a `PUT`, an older request's write back, or an
  offload task in `overlooked`. `Copied` says why the task may otherwise install a
  copy it took without a lock: while the session has the stamp the task saw, and
  was not updated in that second since, the copy is what it has learned. `sessions_second`
  shows the exception.
* `MergedOnceCorrect`, by `Covered`: the weights of this process and the checkpoint
  a client may put back hold no difference twice and none beyond the guard.
* `WeightsSoundCorrect`, by `WeightInv`: what each request holds at each of its
  stages is true of the weights *now*, unless a drop has taken the id since; and
  `NodeSoundCorrect`, the invariant of the run.

**`ControlProofs`**:

* `OneTimerCorrect`: `Held` says that while requests come one at a time at most one
  handler is between the spawning of a timer and the storing of its handle, the
  timer that goes on is the one it is about to store, and otherwise the one whose
  handle the entry holds.
* `PingsBoundedCorrect`, for `Margin < TTL` (30 and 300 s, `keepalive.rs:23`):
  since the last request no more than the planned pings succeed, and one more may
  be tried, by the timer that request could no longer stop. `Bounded` counts the
  rounds begun against the rounds of the timer that goes on.
* `WarmCorrect`, for `Sleep + 2 * Latency <= TTL`: `AgeInv` says how long ago the
  cache was last touched, by what a timer is doing.
* `StaysQuietCorrect` and `TimerTypeCorrect`: a closed gate stays closed, since
  every failure only lowers the belief, and each ended timer is charged one
  failure at most.
* `PrefixStableCorrect`, for `Agree`: where the two token estimates agree on every
  message, what was forwarded once is forwarded the same way in every later turn.
  `CachedSettled` says in which form upstream has each message, `Paged` that a
  heavy one can be stubbed in that form at any time. JSON results are estimated
  differently by the two and do change the prefix, so they are
  left to `PrefixTypeCorrect` and the run.
* `SavingsEarnedCorrect` and `DebugStaysStrongCorrect`, by `RouteInv`: what a turn may
  still do is paid for by its start, and the cooldown and the turns since an error
  signature together cover three turns.
* `LoopTypeCorrect`, `SolvedPassesCorrect` under all faults, and
  `SolvedOrUntouchedCorrect` for `Faults \subseteq {"write"}`, on the lemmas of
  `TransactionProofs`.
* `OnlyFixChangesCorrect`: only the file under repair differs from what was found,
  and what the repair will write back is what was found (`Found`), unless the
  system refused its backup.
* `CompletionsSoundCorrect`: the controller has one command, or waits for exactly
  the calls that run and the results in its mailbox (`RoundsOpen`).
* `FramesSoundCorrect`: what has arrived, what a pump holds and what is on the wire
  are numbered without gaps (`Numbered`).
* `ControlTypesCorrect`: the invariant of the run.

**`FilesProofs`**:

* `LastWordStandsCorrect`, unless a record ends in the middle of a character
  (`"midchar" \notin LogFaults`; a reader stops at such bytes, `memory_store.rs:96`,
  and sees no record after them): `WordsKept` says of the whole file, its unfinished line with
  it, that the last piece about an id is what its calls said.
* `PatchesSoundCorrect`: trust is carried by copies, files and exports alike
  (`Trusted`), and a hand that is alone has all that was learnt (`Kept`).
* `NoOrphanCorrect`: `PidKnown` says what a tool that takes its turn may rely on
  between two of its steps.
* `CheckpointSoundCorrect`: `CkptInv` says how far a save has got, by the stage of
  the trainer, and that a server which reads while nothing is saved reads files
  that agree.

Model-checked only:

* `EvidenceLeads` beyond `InReach`: edits that insert, delete or exchange tokens, and
  faults that do. For any line whatever they do not keep `EditsSound`: a spaced prefix
  operator is not the operator of an operand to the edits, a call that directly follows
  `.len()` gets no adjusting edit, an exchange can bring a quote beside what makes it a
  lifetime, and seeder and edits have different lists of names. The run goes through
  lines of the kinds people write, in six languages, and there it holds, up to what
  the property itself excepts.
* Liveness (`LoopsEnd`, `NodeSettles`), which is beyond the provers here, as ENABLED is.

Theorems of the library that take an operator as a parameter cannot be used, so
induction is done on a set of numbers ("the sizes up to which it holds") each time.

## What is not modelled, and why

* Page store: stubs and their parsing; serialisation errors; the exact JSON
  length of a row (a constant overhead stands for it). A second process over the
  same directory: the store is opened by one server.
* Board: temporary files that two servers write at the same moment and mix, so
  what is stated to hold is stated for servers that are not inside one channel at
  once; a clock that steps back; `AXIOM_TASK_DIR` discovery.
* Keepalive: what headers and payloads contain, the ledger of what pings saved,
  a poisoned mutex (no code panics under it). Sessions share nothing but the mutex.
* Transaction: modification times (`mark_fresh`); files that others change
  during a proposal; a process that dies in a proposal (nothing is persisted and
  no code recovers).
* Sessions, weights, exchange: what is in a tensor, its quantisation error, and
  the arithmetic of merging and of the vibe.
* Message pipeline: the compressors' texts (skeletons, digests of JSON and prose,
  fuzzy matching, surprisal): pure functions of one text whose tests are their
  specification. What they promise about a sequence of messages is `PromptPrefix`
  and `Partition`.
* Routes: JSON shapes, headers, streams to the client, metrics; routes that only
  report. Tool arms of the MCP server that only hand a text to a worker thread.
* Repair: trace parsing, the learned ranking, how a line is cut into tokens,
  the suggestion of a verifying command (`verify_suggest.rs`), the evaluation
  scores. Solve, run and task commands building blocking clients inside the async
  main.
* Memories: embeddings and the weights of edge kinds; the heal memory's tension
  history, required variables and advisories; signatures, beyond verifying or not.
* ChimeraLang's lexer, parser and expressions; the LSP, VFS and token-streaming
  helpers.
* Mesh: the routing weights, Gumbel sampling and the hierarchy that wraps them;
  payload compression.
* Training: gradients, schedules, corpora; the model's numerics are floating point.
* CP/1: the thirteen other document types, the constructors of events, the
  coverage check, the manifest (whose check reports no supplied file that it does
  not list).
* Configuration, the command line with its startup and the dashboard's drawing,
  benchmarks, and the older Python engine.

Most of the source lines no definition stands for are of these kinds. The lines
`map` names are those the definitions translate; what a definition only calls is
not counted.

## Plan

Every component with state that outlives a call has a module, and every safety
property of a passing run has a theorem, `EvidenceLeads` in part. What is left:

1. The edits of a line beyond `InReach`, class by class: a negation and its undoing, then
   exchanged arguments, each with the shape of line it needs.
2. Liveness, which stays with TLC.
