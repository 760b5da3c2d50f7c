----------------------------- MODULE ToolServer -----------------------------
(***************************************************************************)
(* What concurrent calls share in the tool routes of the server and in its *)
(* MCP context: the compression threshold that POST /v1/budget lowers and  *)
(* POST /v1/config sets (server/routes_tools.rs), and the alignment loops  *)
(* axiom_align_generation takes out of a map and puts back (mcp_stdio.rs,  *)
(* predictive_tools.rs, alignment_loop.rs).                                *)
(*                                                                         *)
(* None of these handlers awaits, so a caller that leaves stops none; what *)
(* interleaves is the threads that run them.  Tokens come in units that    *)
(* make the numbers small; a generation state is what its drift from the   *)
(* milestone calls for: "near", "edge" (at the threshold) or "far".        *)
(***************************************************************************)
EXTENDS Naturals

CONSTANTS
  Callers,        \* threads serving requests
  Agents,         \* session ids
  Reports,        \* remaining tokens an agent may report
  Levels,         \* thresholds POST /v1/config sets
  StartCap,       \* heavy_message_threshold_tokens at start
  Floor,          \* the least target, 512 tokens
  Maps,           \* predicted state maps, by their session id
  Milestones,     \* how many milestones each has
  MaxCorrections, \* MAX_CORRECTIONS
  MaxToolCalls,   \* bound of the model: calls in all
  NoAnswer        \* what notifications get

ASSUME ToolAssumption ==
  /\ Reports \cup Levels \cup {StartCap, Floor, MaxCorrections} \subseteq Nat
  /\ Milestones \in [Maps -> Nat] /\ "none" \notin Maps

VARIABLES
  call,           \* what each thread is at
  budget,         \* AwarenessStore: the budget of each session, 0 before its first
  cap, enabled,   \* CompressionControls
  loops,          \* align_states of the MCP context
  made,           \* calls so far
  loose,          \* history: sessions whose cap may have been lost
  tally           \* history: what each session's loop was answered, and whether it was shared

toolVars == <<call, budget, cap, enabled, loops, made, loose, tally>>

NoCall == [at |-> "idle"]
NoLoop == [map |-> "none"]
Fresh(m) == [map |-> m, milestone |-> 0, corrections |-> 0]
NoTally == [map |-> "none", near |-> 0, far |-> 0, shared |-> FALSE]

ToolInit ==
  /\ call = [c \in Callers |-> NoCall]
  /\ budget = [s \in Agents |-> 0]
  /\ cap = StartCap /\ enabled = TRUE
  /\ loops = [s \in Agents |-> NoLoop]
  /\ made = 0
  /\ loose = {} /\ tally = [s \in Agents |-> NoTally]

Arrives(c) == call[c] = NoCall /\ made < MaxToolCalls /\ made' = made + 1
Goes(c, next) == call' = [call EXCEPT ![c] = next]
Doing(ats) == {c \in Callers : call[c].at \in ats}

(***************************************************************************)
(* POST /v1/budget and POST /v1/config.                                    *)
(***************************************************************************)
Posting == {"target", "compare", "lower"}

\* compression_target_tokens: 60 % of what remains, never under the floor.
Target(tokens) == LET share == (tokens * 6) \div 10 IN IF share > Floor THEN share ELSE Floor

PostBudget(c, s, tokens) ==
  /\ Arrives(c)
  /\ Goes(c, [at |-> "target", sid |-> s])
  /\ budget' = [budget EXCEPT ![s] = tokens]
  /\ loose' = IF Doing(Posting) = {} THEN loose \ {s}
              ELSE loose \union {s} \union {call[d].sid : d \in Doing(Posting)}
  /\ UNCHANGED <<cap, enabled, loops, tally>>

ReadTarget(c) ==
  /\ call[c].at = "target"
  /\ Goes(c, [at |-> "compare", sid |-> call[c].sid, to |-> Target(budget[call[c].sid])])
  /\ UNCHANGED <<budget, cap, enabled, loops, made, loose, tally>>

Lowers(to) == to < cap
CompareCap(c) ==
  /\ call[c].at = "compare"
  /\ Goes(c, IF Lowers(call[c].to) THEN [call[c] EXCEPT !.at = "lower"] ELSE NoCall)
  /\ UNCHANGED <<budget, cap, enabled, loops, made, loose, tally>>

LowerCap(c) ==
  /\ call[c].at = "lower"
  /\ cap' = call[c].to
  /\ Goes(c, NoCall)
  /\ UNCHANGED <<budget, enabled, loops, made, loose, tally>>

\* Any of a level, a switch and a threshold; a threshold that is set overrides every cap.
PostConfig(c) ==
  /\ Arrives(c)
  /\ enabled' \in BOOLEAN
  /\ \/ UNCHANGED <<cap, loose>>
     \/ cap' \in Levels /\ loose' = {s \in Agents : budget[s] # 0}
  /\ UNCHANGED <<call, budget, loops, tally>>

(***************************************************************************)
(* axiom_align_generation.                                                 *)
(***************************************************************************)
Aligning == {"check", "insert"}

\* The session's loop is taken out of the map under its lock.
TakeLoop(c, s, m) ==
  /\ Arrives(c)
  /\ Goes(c, [at |-> "check", sid |-> s, map |-> m, loop |-> loops[s]])
  /\ loops' = [loops EXCEPT ![s] = NoLoop]
  /\ tally' = [tally EXCEPT ![s].shared =
       @ \/ \E d \in Doing(Aligning) : call[d].sid = s]
  /\ UNCHANGED <<budget, cap, enabled, loose>>

\* check_alignment: a far state is corrected as long as corrections are left, a near one
\* moves on to the next milestone; after the last it is compared with the last for ever.
Checked(loop, drift) ==
  IF Milestones[loop.map] = 0 THEN loop
  ELSE [loop EXCEPT !.milestone = IF drift = "near" THEN @ + 1 ELSE @,
                    !.corrections = IF drift = "far" /\ @ < MaxCorrections THEN @ + 1 ELSE @]

\* A loop goes on only under the map it was begun with.
Resumed(c) == IF call[c].loop.map = call[c].map THEN call[c].loop ELSE Fresh(call[c].map)

Told(s, m, drift) ==
  LET old == IF tally[s].map = m THEN tally[s]
             ELSE [NoTally EXCEPT !.map = m, !.shared = tally[s].shared] IN
  [old EXCEPT !.near = IF drift = "near" THEN @ + 1 ELSE @,
              !.far = IF drift = "far" THEN @ + 1 ELSE @]

CheckAlignment(c, drift) ==
  /\ call[c].at = "check"
  /\ Goes(c, [at |-> "insert", sid |-> call[c].sid, loop |-> Checked(Resumed(c), drift)])
  /\ tally' = [tally EXCEPT ![call[c].sid] = Told(call[c].sid, call[c].map, drift)]
  /\ UNCHANGED <<budget, cap, enabled, loops, made, loose>>

\* A state map or a generation state that does not parse leaves the loop as it was.
Malformed(c) ==
  /\ call[c].at = "check"
  /\ Goes(c, IF call[c].loop = NoLoop THEN NoCall
             ELSE [at |-> "insert", sid |-> call[c].sid, loop |-> call[c].loop])
  /\ UNCHANGED <<budget, cap, enabled, loops, made, loose, tally>>

InsertLoop(c) ==
  /\ call[c].at = "insert"
  /\ loops' = [loops EXCEPT ![call[c].sid] = call[c].loop]
  /\ Goes(c, NoCall)
  /\ UNCHANGED <<budget, cap, enabled, made, loose, tally>>

(***************************************************************************)
(* One JSON-RPC line, and what record_and_annotate adds to an answer.      *)
(***************************************************************************)
Methods == {"server/discover", "initialize", "initialized", "ping", "tools/list",
            "tools/call", "unknown"}

\* handle_message, of a line that parses.
Response(method, withId) ==
  CASE method \in {"server/discover", "initialize", "ping", "tools/list"} -> "result"
    [] method = "initialized" -> NoAnswer
    [] method = "tools/call" -> IF withId THEN "result" ELSE NoAnswer
    [] OTHER -> IF withId THEN "error" ELSE NoAnswer

\* build_context makes a store of awareness that nothing but record_and_annotate reads.
Metered == {}
Annotates(s) == s \in Metered

ToolNext ==
  \E c \in Callers :
    \/ \E s \in Agents, tokens \in Reports : PostBudget(c, s, tokens)
    \/ ReadTarget(c) \/ CompareCap(c) \/ LowerCap(c) \/ PostConfig(c)
    \/ \E s \in Agents, m \in Maps : TakeLoop(c, s, m)
    \/ \E drift \in {"near", "edge", "far"} : CheckAlignment(c, drift)
    \/ Malformed(c) \/ InsertLoop(c)

ToolSpec == ToolInit /\ [][ToolNext]_toolVars

-----------------------------------------------------------------------------
(* Properties *)

\* "When a budget is set, the compression threshold is automatically capped to 60 % of
\* remaining tokens": every session that reported a budget keeps its cap, whatever the
\* others report afterwards, unless two reports overlapped or the threshold was configured.
CapHolds ==
  \A s \in Agents \ loose :
    budget[s] # 0 /\ (\A c \in Doing(Posting) : call[c].sid # s) => cap <= Target(budget[s])

\* The same of overlapping reports; the comparison and the store are two steps in the code.
CapAlways ==
  Doing(Posting) = {} => \A s \in Agents : budget[s] # 0 => cap <= Target(budget[s])

\* A loop stands where the checks that were answered have brought it, and is corrected at
\* most MaxCorrections times, unless two calls of its session overlapped.
ProgressKept ==
  \A s \in Agents :
    /\ ~tally[s].shared /\ tally[s].map # "none"
    /\ (\A c \in Doing(Aligning) : call[c].sid # s)
    => /\ loops[s].map = tally[s].map
       /\ Milestones[loops[s].map] > 0 =>
            /\ loops[s].milestone = tally[s].near
            /\ loops[s].corrections =
                 IF tally[s].far < MaxCorrections THEN tally[s].far ELSE MaxCorrections

ToolsSound == CapHolds /\ ProgressKept

\* "Notifications carry no id and must receive no response": not so in the code.
NotificationsSilent == \A method \in Methods : Response(method, FALSE) = NoAnswer

\* "append a compact `_meta: token_cost=N` line" once a budget has been set "via POST
\* /v1/budget": the store that is asked is never the one that route fills.
CostShown == \A s \in Agents : budget[s] # 0 => Annotates(s)
=============================================================================
