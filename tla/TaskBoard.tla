----------------------------- MODULE TaskBoard ------------------------------
(***************************************************************************)
(* The inter-agent task board (axiom_engine_rs/src/task_board.rs): one     *)
(* JSONL file per channel, a mutex per channel inside each MCP server      *)
(* process, and any number of such processes over one AXIOM_TASK_DIR       *)
(* (mcp_stdio.rs builds one board per server).                             *)
(*                                                                         *)
(* A worker is a request being served (spawn_blocking), by the server      *)
(* ServerOf[w].  post_task appends the text of its line and then the       *)
(* newline, which `writeln!` on an unbuffered file issues as two writes;   *)
(* claim_task and task_result load the file, write a temporary copy and    *)
(* rename it over the file, each a step of its own.                        *)
(*                                                                         *)
(* Abstractions.  A file is the sequence of its rows that parse, and what  *)
(* its last line is: complete, a row still without its newline, or text    *)
(* that does not parse.  posted_at is the order of the rows (the clock of  *)
(* the machine does not step back).  A temporary file is written in one    *)
(* step: two servers that write one at the same time may also leave a      *)
(* mixture of both, which is not modelled, so what is stated to hold is    *)
(* stated for servers that are not inside one channel at the same time.    *)
(***************************************************************************)
EXTENDS Integers, Sequences, FiniteSets, SequencesExt

CONSTANTS
  Workers, Servers, ServerOf,   \* requests in flight and the process of each
  Channels,                     \* channel names agents use
  Stems,                        \* file stems, which channels() returns as names
  FileOf,                       \* percent-encoding: name -> stem of its file
  NoStem,                       \* the stem of a name that has no file here
  Tasks,                        \* task ids (UUIDs)
  MaxPriority,
  Faults,                       \* which of "write", "crash" happen
  NoTmp

ASSUME BoardAssumption ==
  /\ ServerOf \in [Workers -> Servers]
  /\ Channels # {} /\ Tasks # {} /\ NoStem \notin Stems
  /\ FileOf \in [Channels \union Stems -> Stems \union {NoStem}]
  /\ \A c \in Channels : FileOf[c] \in Stems
  /\ \A a, b \in Channels \union Stems : FileOf[a] = FileOf[b] /\ FileOf[a] # NoStem => a = b
  /\ MaxPriority \in Nat /\ Faults \subseteq {"write", "crash"}

VARIABLES
  files,     \* rows of each channel file that parse
  tail,      \* state of the last line of each file
  tmp,       \* content of each <stem>.jsonl.tmp
  pc, req,   \* where each worker is, and its call
  copy,      \* rows a worker has loaded and changed
  used,      \* history: ids generated so far
  acked,     \* history: tasks whose post returned Ok
  granted,   \* history: how many claims returned each task, 2 for more
  overlapped \* history: two servers have been inside one channel at once

diskVars == <<files, tail, tmp>>
callVars == <<pc, req, copy>>
pastVars == <<used, acked, granted, overlapped>>
vars == <<diskVars, callVars, pastVars>>

Names    == Channels \union Stems
Statuses == {"pending", "claimed", "done", "failed"}
Entries  == [id : Tasks, priority : 0 .. MaxPriority, status : Statuses]
Requests == [op : {"post", "claim", "result"}, name : Names, id : Tasks,
             priority : 0 .. MaxPriority, outcome : {"done", "failed"}]
NoRequest == CHOOSE r \in Requests : TRUE

Init ==
  /\ files = [f \in Stems |-> <<>>] /\ tail = [f \in Stems |-> "complete"]
  /\ tmp = [f \in Stems |-> NoTmp]
  /\ pc = [w \in Workers |-> "idle"] /\ req = [w \in Workers |-> NoRequest]
  /\ copy = [w \in Workers |-> <<>>]
  /\ used = {} /\ acked = {} /\ granted = [t \in Tasks |-> 0] /\ overlapped = FALSE

Stem(w) == FileOf[req[w].name]

\* load_channel: a name without a file has no rows.
Rows(f) == IF f = NoStem THEN <<>> ELSE files[f]
Holds(q, t) == \E i \in DOMAIN q : q[i].id = t

Goto(w, l) == pc' = [pc EXCEPT ![w] = l]
Return(w) ==
  /\ Goto(w, "idle")
  /\ req' = [req EXCEPT ![w] = NoRequest] /\ copy' = [copy EXCEPT ![w] = <<>>]

Inside(w) == pc[w] \in {"newline", "tmp", "rename"}

\* channel_lock: the mutex belongs to one process and to one name.
AnyoneEnters(w) == pc[w] = "lock"         \* mutant: no channel lock
Enters(w) ==
  /\ pc[w] = "lock"
  /\ \A v \in Workers \ {w} :
       ~(ServerOf[v] = ServerOf[w] /\ req[v].name = req[w].name /\ Inside(v))

\* History: this worker enters a channel another server is inside of.
Meets(w) ==
  overlapped' = (overlapped \/ \E v \in Workers : Inside(v) /\ ServerOf[v] # ServerOf[w]
                                                           /\ Stem(v) = Stem(w))

(***************************************************************************)
(* Calls arrive.  A result names a task that exists; its channel is looked *)
(* up before any lock is taken.                                            *)
(***************************************************************************)
Call(w, r, l) ==
  /\ pc[w] = "idle" /\ Goto(w, l)
  /\ req' = [req EXCEPT ![w] = r]
  /\ UNCHANGED <<diskVars, copy, acked, granted, overlapped>>

CallPost(w, c, t, p) ==
  /\ t \notin used /\ used' = used \union {t}
  /\ Call(w, [op |-> "post", name |-> c, id |-> t, priority |-> p, outcome |-> "done"], "lock")

CallClaim(w, c) ==
  /\ Call(w, [NoRequest EXCEPT !.op = "claim", !.name = c], "lock")
  /\ UNCHANGED used

CallResult(w, t, o) ==
  /\ t \in used
  /\ Call(w, [NoRequest EXCEPT !.op = "result", !.id = t, !.outcome = o], "find")
  /\ UNCHANGED used

(***************************************************************************)
(* post_task.  Text written behind an unfinished line joins it: neither    *)
(* that row, if it was one, nor the new one can be parsed any more.        *)
(***************************************************************************)
Glue(f, text) ==
  /\ files' = [files EXCEPT ![f] = IF tail[f] = "row" THEN Front(@)
                                   ELSE IF tail[f] = "complete" THEN @ \o text ELSE @]
  /\ tail' = [tail EXCEPT ![f] = IF tail[f] = "complete" /\ text # <<>> THEN "row" ELSE "junk"]

PostText(w) ==
  /\ req[w].op = "post" /\ Enters(w)
  /\ Glue(Stem(w), <<[id |-> req[w].id, priority |-> req[w].priority, status |-> "pending"]>>)
  /\ Goto(w, "newline") /\ Meets(w)
  /\ UNCHANGED <<tmp, req, copy, used, acked, granted>>

NoNewline(w) ==                           \* mutant: the newline is forgotten
  /\ pc[w] = "newline"
  /\ acked' = acked \union {req[w].id}
  /\ Return(w)
  /\ UNCHANGED <<diskVars, used, granted, overlapped>>
PostNewline(w) ==
  /\ pc[w] = "newline"
  /\ tail' = [tail EXCEPT ![Stem(w)] = "complete"]
  /\ acked' = acked \union {req[w].id}
  /\ Return(w)
  /\ UNCHANGED <<files, tmp, used, granted, overlapped>>

\* Part of the line was written before the error.
PostFails(w) ==
  /\ "write" \in Faults
  /\ req[w].op = "post" /\ Enters(w)
  /\ Glue(Stem(w), <<>>)
  /\ Return(w) /\ Meets(w)
  /\ UNCHANGED <<tmp, used, acked, granted>>

NewlineFails(w) ==
  /\ "write" \in Faults
  /\ pc[w] = "newline"
  /\ Return(w)
  /\ UNCHANGED <<diskVars, pastVars>>

(***************************************************************************)
(* claim_task: the pending task of highest priority, the oldest of those.  *)
(***************************************************************************)
AnyStatus(q, i) ==                        \* mutant: the status filter is dropped
  /\ i \in DOMAIN q
  /\ \A j \in DOMAIN q :
       \/ q[i].priority > q[j].priority
       \/ q[i].priority = q[j].priority /\ i <= j
Best(q, i) ==
  /\ i \in DOMAIN q /\ q[i].status = "pending"
  /\ \A j \in DOMAIN q : q[j].status = "pending" =>
       \/ q[i].priority > q[j].priority
       \/ q[i].priority = q[j].priority /\ i <= j

ClaimLoad(w) ==
  /\ req[w].op = "claim" /\ Enters(w)
  /\ \E i \in DOMAIN Rows(Stem(w)) :
       /\ Best(Rows(Stem(w)), i)
       /\ copy' = [copy EXCEPT ![w] = [Rows(Stem(w)) EXCEPT ![i].status = "claimed"]]
       /\ req' = [req EXCEPT ![w].id = Rows(Stem(w))[i].id]
  /\ Goto(w, "tmp") /\ Meets(w)
  /\ UNCHANGED <<diskVars, used, acked, granted>>

ClaimNone(w) ==
  /\ req[w].op = "claim" /\ Enters(w)
  /\ \A i \in DOMAIN Rows(Stem(w)) : Rows(Stem(w))[i].status # "pending"
  /\ Return(w)
  /\ UNCHANGED <<diskVars, pastVars>>

(***************************************************************************)
(* task_result: find_channel_for_task asks load_channel for every stem of  *)
(* the directory, as if the stem were the channel's name.                  *)
(***************************************************************************)
FindChannel(w) ==
  /\ pc[w] = "find"
  /\ \E n \in Stems :
       /\ Holds(Rows(FileOf[n]), req[w].id)
       /\ req' = [req EXCEPT ![w].name = n]
  /\ Goto(w, "lock")
  /\ UNCHANGED <<diskVars, copy, pastVars>>

FindNothing(w) ==
  /\ pc[w] = "find"
  /\ \A n \in Stems : ~Holds(Rows(FileOf[n]), req[w].id)
  /\ Return(w)
  /\ UNCHANGED <<diskVars, pastVars>>

ResultLoad(w) ==
  /\ req[w].op = "result" /\ Enters(w)
  /\ \E i \in DOMAIN Rows(Stem(w)) :
       /\ Rows(Stem(w))[i].id = req[w].id
       /\ \A j \in 1 .. i - 1 : Rows(Stem(w))[j].id # req[w].id
       /\ copy' = [copy EXCEPT ![w] = [Rows(Stem(w)) EXCEPT ![i].status = req[w].outcome]]
  /\ Goto(w, "tmp") /\ Meets(w)
  /\ UNCHANGED <<diskVars, req, used, acked, granted>>

ResultGone(w) ==
  /\ req[w].op = "result" /\ Enters(w)
  /\ ~Holds(Rows(Stem(w)), req[w].id)
  /\ Return(w)
  /\ UNCHANGED <<diskVars, pastVars>>

(***************************************************************************)
(* rewrite_channel: the temporary file has one name for all processes.  A  *)
(* process whose temporary file another one has renamed gets an error.     *)
(***************************************************************************)
WriteTmp(w) ==
  /\ pc[w] = "tmp"
  /\ tmp' = [tmp EXCEPT ![Stem(w)] = copy[w]]
  /\ Goto(w, "rename")
  /\ UNCHANGED <<files, tail, req, copy, pastVars>>

WriteTmpFails(w) ==
  /\ "write" \in Faults
  /\ pc[w] = "tmp"
  /\ \E n \in 0 .. Len(copy[w]) - 1 : tmp' = [tmp EXCEPT ![Stem(w)] = SubSeq(copy[w], 1, n)]
  /\ Return(w)
  /\ UNCHANGED <<files, tail, pastVars>>

RenameAppends(w) ==                       \* mutant: the copy is appended
  /\ pc[w] = "rename" /\ tmp[Stem(w)] # NoTmp
  /\ files' = [files EXCEPT ![Stem(w)] = @ \o tmp[Stem(w)]]
  /\ tail' = [tail EXCEPT ![Stem(w)] = "complete"]
  /\ Return(w)
  /\ UNCHANGED <<tmp, pastVars>>
Rename(w) ==
  /\ pc[w] = "rename" /\ tmp[Stem(w)] # NoTmp
  /\ files' = [files EXCEPT ![Stem(w)] = tmp[Stem(w)]]
  /\ tail' = [tail EXCEPT ![Stem(w)] = "complete"]
  /\ tmp' = [tmp EXCEPT ![Stem(w)] = NoTmp]
  /\ granted' = IF req[w].op = "claim" THEN [granted EXCEPT ![req[w].id] = IF @ = 2 THEN 2 ELSE @ + 1] ELSE granted
  /\ Return(w)
  /\ UNCHANGED <<used, acked, overlapped>>

RenameFails(w) ==
  /\ pc[w] = "rename" /\ tmp[Stem(w)] = NoTmp
  /\ Return(w)
  /\ UNCHANGED <<diskVars, pastVars>>

\* A server process dies: its requests are gone, the files stay as they are.
Crash(p) ==
  /\ "crash" \in Faults
  /\ \E w \in Workers : ServerOf[w] = p /\ pc[w] # "idle"
  /\ pc' = [w \in Workers |-> IF ServerOf[w] = p THEN "idle" ELSE pc[w]]
  /\ req' = [w \in Workers |-> IF ServerOf[w] = p THEN NoRequest ELSE req[w]]
  /\ copy' = [w \in Workers |-> IF ServerOf[w] = p THEN <<>> ELSE copy[w]]
  /\ UNCHANGED <<diskVars, pastVars>>

Step(w) ==
  \/ PostText(w) \/ PostNewline(w) \/ PostFails(w) \/ NewlineFails(w)
  \/ ClaimLoad(w) \/ ClaimNone(w)
  \/ FindChannel(w) \/ FindNothing(w) \/ ResultLoad(w) \/ ResultGone(w)
  \/ WriteTmp(w) \/ WriteTmpFails(w) \/ Rename(w) \/ RenameFails(w)

Arrive(w) ==
  \/ \E c \in Channels, t \in Tasks, p \in 0 .. MaxPriority : CallPost(w, c, t, p)
  \/ \E c \in Channels : CallClaim(w, c)
  \/ \E t \in Tasks, o \in {"done", "failed"} : CallResult(w, t, o)

Next == (\E p \in Servers : Crash(p)) \/ (\E w \in Workers : Arrive(w) \/ Step(w))

Spec == Init /\ [][Next]_vars

-----------------------------------------------------------------------------
(* Properties *)

\* Shape of the state; a last line that is a row is the last of the rows.
TypeOK ==
  /\ files \in [Stems -> Seq(Entries)]
  /\ tail \in [Stems -> {"complete", "row", "junk"}]
  /\ \A f \in Stems : tail[f] = "row" => files[f] # <<>>
  /\ tmp \in [Stems -> Seq(Entries) \union {NoTmp}]
  /\ pc \in [Workers -> {"idle", "lock", "find", "newline", "tmp", "rename"}]
  /\ req \in [Workers -> Requests] /\ copy \in [Workers -> Seq(Entries)]
  /\ used \subseteq Tasks /\ acked \subseteq used /\ granted \in [Tasks -> 0 .. 2]
  /\ overlapped \in BOOLEAN

\* No task is handed to two claimers ("concurrent MCP calls don't double-claim").
ClaimedOnce == \A t \in Tasks : granted[t] <= 1

\* A task whose post was acknowledged stays on the board.
PostedStays == \A t \in acked : \E f \in Stems : Holds(files[f], t)

\* A result reported for a task on the board finds it.
ResultFinds ==
  [][ \A w \in Workers : FindNothing(w) \/ ResultGone(w) => req[w].id \notin acked ]_vars

\* No row is ever duplicated, whatever the faults, as long as no two servers are
\* inside one channel at the same time.
RowsUnique ==
  ~overlapped => \A f, g \in Stems : \A i \in DOMAIN files[f], j \in DOMAIN files[g] :
                   files[f][i].id = files[g][j].id => f = g /\ i = j

\* Under the same condition no task is handed out twice: what one server's mutex
\* gives, servers that take turns keep, through failed writes and crashes.
ClaimedInTurn == ~overlapped => ClaimedOnce

\* Calls take effect atomically, on the board as the file shows it.
Queue     == INSTANCE TaskQueue WITH board <- files
QueueSpec == Queue!Spec
=============================================================================
