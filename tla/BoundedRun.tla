----------------------------- MODULE BoundedRun ------------------------------
(***************************************************************************)
(* A child process run with a time limit, by the three callers that do so: *)
(*   "verify"  output_bounded (proc_bound.rs), the verifier runs of axiom  *)
(*             solve and of the supervisor;                                *)
(*   "jit"     run_process of Poly-JIT (poly_jit.rs), on a timer of tokio; *)
(*   "cli"     run_bounded (cli_backend.rs), one completion by a command-  *)
(*             line assistant.                                             *)
(* The child may start a helper that inherits some of its pipes, outlives  *)
(* it, and may leave its process group (setsid).  A reader has the output  *)
(* of a pipe only when nobody holds the writing end any more.              *)
(*                                                                         *)
(* Time is counted in ticks.  The caller polls every 20 or 50 ms, so what  *)
(* it would do at once happens before the clock moves on (Urgent).         *)
(*                                                                         *)
(* The second half of the module is the caller of Poly-JIT that serves     *)
(* requests: jit_run, which patches a file between two such runs.          *)
(***************************************************************************)
EXTENDS Naturals, FiniteSets

CONSTANTS
  Runners,   \* which of the three callers there are
  Limit,     \* the time limit of the run
  Grace,     \* DRAIN_GRACE
  Horizon    \* how far the clock is followed

ASSUME RunAssumption == Runners \subseteq {"verify", "jit", "cli"} /\ {Limit, Grace, Horizon} \subseteq Nat

VARIABLES
  runner,    \* the caller
  phase,        \* "wait", "kill": past the limit; "out", "err", "in": the pipe being collected
  child,     \* "runs", "quit" of itself, "killed"
  ok,        \* its exit status, when it quit, is success
  helper,    \* "none"; in the child's process "group", or "apart" from it
  alive,     \* the helper runs
  holds,     \* the pipes it inherited
  printed,   \* the pipes something was written to
  got,       \* those whose contents the caller has
  late,      \* the limit was reached: "[timed out ...]", or an error of the caller's
  again,     \* the first grace period is over and the group was killed
  now, mark, \* the clock, and when the current wait began
  stranger   \* an unrelated process that was given the child's number: "none", "leads", "killed"

runVars == <<runner, phase, child, ok, helper, alive, holds, printed, got, late, again, now, mark,
             stranger>>

RunTypeOK ==
  /\ runner \in Runners /\ phase \in {"wait", "kill", "out", "err", "in", "done"}
  /\ child \in {"runs", "quit", "killed"} /\ helper \in {"none", "group", "apart"}
  /\ ok \in BOOLEAN /\ alive \in BOOLEAN /\ late \in BOOLEAN /\ again \in BOOLEAN
  /\ holds \subseteq {"in", "out", "err"} /\ printed \subseteq {"out", "err"} /\ got \subseteq printed
  /\ now \in 0..Horizon /\ mark \in 0..now /\ stranger \in {"none", "leads", "killed"}

RunInit ==
  /\ runner \in Runners /\ phase = "wait" /\ child = "runs" /\ ok = FALSE
  /\ helper = "none" /\ alive = FALSE /\ holds = {} /\ printed = {} /\ got = {}
  /\ late = FALSE /\ again = FALSE /\ now = 0 /\ mark = 0 /\ stranger = "none"

\* Nobody has the far end of pipe s open.
Eof(s) == child # "runs" /\ ~(alive /\ s \in holds)

-----------------------------------------------------------------------------
(* What the processes do.                                                  *)

Fork(where, pipes) ==
  /\ child = "runs" /\ helper = "none"
  /\ helper' = where /\ alive' = TRUE /\ holds' = pipes
  /\ UNCHANGED <<runner, phase, child, ok, printed, got, late, again, now, mark, stranger>>

LeaveGroup ==
  /\ alive /\ helper = "group" /\ helper' = "apart"
  /\ UNCHANGED <<runner, phase, child, ok, alive, holds, printed, got, late, again, now, mark, stranger>>

Write(s) ==
  /\ s \notin printed /\ (child = "runs" \/ (alive /\ s \in holds))
  /\ printed' = printed \cup {s}
  /\ UNCHANGED <<runner, phase, child, ok, helper, alive, holds, got, late, again, now, mark, stranger>>

Quit(success) ==
  /\ child = "runs" /\ child' = "quit" /\ ok' = success
  /\ UNCHANGED <<runner, phase, helper, alive, holds, printed, got, late, again, now, mark, stranger>>

HelperEnds ==
  /\ alive /\ alive' = FALSE
  /\ UNCHANGED <<runner, phase, child, ok, helper, holds, printed, got, late, again, now, mark,
                 stranger>>

\* Once the child was waited for and its group is empty, its number may lead another group.
Reaped == \/ runner = "verify" /\ phase \in {"out", "err"}
          \/ runner = "jit" /\ phase = "wait" /\ child = "quit"
Recycle ==
  /\ Reaped /\ stranger = "none" /\ ~(alive /\ helper = "group") /\ stranger' = "leads"
  /\ UNCHANGED <<runner, phase, child, ok, helper, alive, holds, printed, got, late, again, now, mark>>

Process ==
  \/ \E where \in {"group", "apart"}, pipes \in SUBSET {"in", "out", "err"} : Fork(where, pipes)
  \/ \E s \in {"out", "err"} : Write(s)
  \/ \E success \in BOOLEAN : Quit(success)
  \/ LeaveGroup \/ HelperEnds \/ Recycle

-----------------------------------------------------------------------------
(* What the caller does.                                                   *)

\* kill_group, and the direct child beside it.
Victims(grouped) ==
  /\ child' = IF child = "runs" THEN "killed" ELSE child
  /\ alive' = (alive /\ ~(grouped /\ helper = "group"))
  /\ stranger' = IF grouped /\ stranger = "leads" THEN "killed" ELSE stranger

\* The wait ends: the child quit, and for Poly-JIT its pipes are closed as well
\* (wait_with_output reads them before it answers).
CanReturn == child = "quit" /\ (runner = "jit" => Eof("out") /\ Eof("err"))

SeesExit ==
  /\ phase = "wait" /\ CanReturn
  /\ phase' = IF runner = "jit" THEN "done" ELSE "out"
  /\ got' = IF runner = "jit" THEN printed ELSE got
  /\ mark' = now
  /\ UNCHANGED <<runner, child, ok, helper, alive, holds, printed, late, again, now, stranger>>

\* try_wait found it running; the deadline is looked at after that.
Expires ==
  /\ phase = "wait" /\ ~CanReturn /\ now >= Limit
  /\ phase' = "kill" /\ late' = TRUE
  /\ UNCHANGED <<runner, child, ok, helper, alive, holds, printed, got, again, now, mark, stranger>>

\* output_bounded goes on to collect; Poly-JIT and the assistant's caller give up the output.
Kill ==
  /\ phase = "kill" /\ Victims(runner # "cli")
  /\ phase' = IF runner = "verify" THEN "out" ELSE "done"
  /\ mark' = now
  /\ UNCHANGED <<runner, ok, helper, holds, printed, got, late, again, now>>

NextPipe(s) == CASE s = "out" -> "err"
              [] s = "err" -> IF runner = "cli" THEN "in" ELSE "done"
              [] OTHER     -> "done"

\* The reader's message, or its join, has come.
Collect(s) ==
  /\ phase = s /\ Eof(s)
  /\ got' = got \cup (printed \cap {s})
  /\ phase' = NextPipe(s) /\ again' = FALSE /\ mark' = now
  /\ UNCHANGED <<runner, child, ok, helper, alive, holds, printed, late, now, stranger>>

Overdue(s) == runner = "verify" /\ phase = s /\ ~Eof(s) /\ now >= mark + Grace

\* recv_timeout ran out: kill the group, and give the reader one more grace period.
KillHolders(s) ==
  /\ Overdue(s) /\ ~again /\ Victims(TRUE)
  /\ again' = TRUE /\ mark' = now
  /\ UNCHANGED <<runner, phase, ok, helper, holds, printed, got, late, now>>

\* unwrap_or_default: go on with nothing from this pipe.
GiveUp(s) ==
  /\ Overdue(s) /\ again
  /\ phase' = NextPipe(s) /\ again' = FALSE /\ mark' = now
  /\ UNCHANGED <<runner, child, ok, helper, alive, holds, printed, got, late, now, stranger>>

Urgent ==
  \/ phase = "wait" /\ (CanReturn \/ now >= Limit)
  \/ phase = "kill"
  \/ \E s \in {"out", "err", "in"} : phase = s /\ (Eof(s) \/ Overdue(s))

Tick ==
  /\ phase # "done" /\ ~Urgent /\ now < Horizon /\ now' = now + 1
  /\ UNCHANGED <<runner, phase, child, ok, helper, alive, holds, printed, got, late, again, mark,
                 stranger>>

RunNext ==
  \/ phase # "done" /\ Process
  \/ SeesExit \/ Expires \/ Kill \/ Tick
  \/ \E s \in {"out", "err", "in"} : Collect(s) \/ KillHolders(s) \/ GiveUp(s)

RunSpec == RunInit /\ [][RunNext]_runVars

-----------------------------------------------------------------------------
(* Properties.                                                             *)

\* No child and no helper can hold a caller up for long: a verifier run is over after the
\* limit and four grace periods, a Poly-JIT run at the limit, and a completion goes past its
\* limit only when the child quit in time and left a helper that inherited one of its pipes.
Bounded ==
  /\ runner = "verify" => now <= Limit + 4 * Grace
  /\ runner = "jit"    => now <= Limit
  /\ runner = "cli" /\ now > Limit => child = "quit" /\ helper # "none" /\ holds # {}

\* A timed-out run leaves no process of its group behind.
NoSurvivors ==
  phase = "done" /\ late => child # "runs" /\ (runner # "cli" => ~(alive /\ helper = "group"))

\* Whatever was printed is returned, by an exit and (of a verifier) by a timeout alike, except
\* for a pipe inherited by a helper that left the group, which no kill of the group closes.
OutputKept ==
  phase = "done" /\ (late => runner = "verify") =>
    \A s \in printed \ got : helper = "apart" /\ s \in holds

RunsBounded == Bounded /\ NoSurvivors /\ OutputKept

(* What the comments say, and TLC refutes.                                 *)

\* "wait at most `timeout`" (cli_backend.rs:466-469): joining the readers has no limit once
\* the child quit.
WaitsAtMost == runner = "cli" => now <= Limit

\* "A killed run keeps whatever it printed ... and reports a non-success status"
\* (proc_bound.rs:53-56): a helper apart from the group keeps the output; a child that quits
\* between the poll and the kill reports its own status beside "[timed out ...]".
KilledKeepsOutput == runner = "verify" /\ phase = "done" /\ late => printed \subseteq got
KilledFails == runner = "verify" /\ phase = "done" /\ late => ~(child = "quit" /\ ok)

\* "fails harmlessly with ESRCH if the group is already gone" (proc_bound.rs:39-41): the number
\* may lead another group by then.
KillsOnlyItsOwn == stranger # "killed"

-----------------------------------------------------------------------------
(***************************************************************************)
(* POST /v1/hypervisor/jit_run: run a command; on failure let Poly-JIT     *)
(* patch the source file and run it again, a few times; put the file back  *)
(* when the repair did not pass (routes_hypervisor.rs, with                *)
(* run_with_feedback of poly_jit.rs).  A request is a future: it may be    *)
(* dropped at every await, and several requests may name the same file.    *)
(***************************************************************************)

CONSTANTS
  JitRequests,    \* the requests, all for one file
  Edits,       \* the contents a patch can leave
  JitSteps,    \* MAX_POLY_JIT_STEPS
  JitFaults    \* what may go wrong: subset of {"timeout", "spawn", "read", "write", "leave"}

ASSUME JitAssumption ==
  IsFiniteSet(JitRequests) /\ JitSteps \in Nat \ {0} /\ {"old", "torn"} \cap Edits = {}

VARIABLES
  artifact,      \* the contents of the file
  jit,         \* per request: where it is, its attempt, backup, excerpt, whether it patched
  status,       \* PolyJitStatus: total, repaired and failed runs, last_status
  sound,       \* (history) what the file held when the last command passed, or at the start
  crossed      \* (history) two requests were under way at once

jitVars == <<artifact, jit, status, sound, crossed>>

Contents == {"old", "torn"} \cup Edits
Stages == {"new", "run", "excerpt", "patch", "restore"}
Finished == {"passed", "failed", "refused", "error", "left"}

JitTypeOK ==
  /\ artifact \in Contents /\ sound \in Contents /\ crossed \in BOOLEAN
  /\ jit \in [JitRequests -> [at : Stages \cup Finished, step : 0..JitSteps, backup : Contents,
                           excerpt : Contents \cup {"none"}, patched : BOOLEAN]]
  /\ status \in [total : 0..Cardinality(JitRequests), repaired : 0..Cardinality(JitRequests),
                failed : 0..Cardinality(JitRequests), last : {"none", "running", "passed", "failed"}]

JitInit ==
  /\ artifact = "old" /\ sound = "old" /\ crossed = FALSE
  /\ jit = [r \in JitRequests |-> [at |-> "new", step |-> 0, backup |-> "old", excerpt |-> "none",
                                patched |-> FALSE]]
  /\ status = [total |-> 0, repaired |-> 0, failed |-> 0, last |-> "none"]

Busy(r) == jit[r].at \in Stages \ {"new"}

\* The source is read for the backup, and the first run is counted and started.
BackUp(r) ==
  /\ jit[r].at = "new"
  /\ jit' = [jit EXCEPT ![r].at = "run", ![r].step = 1, ![r].backup = artifact]
  /\ status' = [status EXCEPT !.total = @ + 1, !.last = "running"]
  /\ crossed' = (crossed \/ \E q \in JitRequests : Busy(q))
  /\ UNCHANGED <<artifact, sound>>

\* No backup, no run.
NoBackUp(r) ==
  /\ jit[r].at = "new" /\ "read" \in JitFaults
  /\ jit' = [jit EXCEPT ![r].at = "refused"]
  /\ UNCHANGED <<artifact, status, sound, crossed>>

\* The command exits with 0: nothing is awaited between that and the answer.
CommandPasses(r) ==
  /\ jit[r].at = "run"
  /\ jit' = [jit EXCEPT ![r].at = "passed"]
  /\ status' = [status EXCEPT !.repaired = IF jit[r].patched THEN @ + 1 ELSE @, !.last = "passed"]
  /\ sound' = artifact
  /\ UNCHANGED <<artifact, crossed>>

CommandFails(r) ==
  /\ jit[r].at = "run"
  /\ jit' = [jit EXCEPT ![r].at = "excerpt"]
  /\ UNCHANGED <<artifact, status, sound, crossed>>

\* A time-out or a failed start is an error that leaves run_with_feedback and the handler
\* at once: no status, and no restore.
CommandErrs(r) ==
  /\ jit[r].at = "run" /\ JitFaults \cap {"timeout", "spawn"} # {}
  /\ jit' = [jit EXCEPT ![r].at = "error"]
  /\ UNCHANGED <<artifact, status, sound, crossed>>

\* The excerpt is read, and the trace fed to the session, before anything is patched.
ReadExcerpt(r, text) ==
  /\ jit[r].at = "excerpt"
  /\ jit' = [jit EXCEPT ![r].at = "patch", ![r].excerpt = text]
  /\ UNCHANGED <<artifact, status, sound, crossed>>

\* A patch is made from the excerpt, the excerpt itself being a candidate, and written over
\* whatever the file holds by now.
MayPatch(r) == jit[r].at = "patch" /\ jit[r].step < JitSteps /\ jit[r].excerpt # "none"
Patch(r, edit) ==
  /\ MayPatch(r)
  /\ artifact' = edit
  /\ jit' = [jit EXCEPT ![r].at = "run", ![r].step = @ + 1, ![r].patched = TRUE]
  /\ UNCHANGED <<status, sound, crossed>>

PatchFails(r) ==
  /\ MayPatch(r) /\ "write" \in JitFaults
  /\ artifact' = "torn" /\ jit' = [jit EXCEPT ![r].at = "error"]
  /\ UNCHANGED <<status, sound, crossed>>

\* The last attempt, or nothing read to make a patch from.
JitGivesUp(r) ==
  /\ jit[r].at = "patch" /\ ~MayPatch(r)
  /\ jit' = [jit EXCEPT ![r].at = "restore"]
  /\ status' = [status EXCEPT !.failed = @ + 1, !.last = "failed"]
  /\ UNCHANGED <<artifact, sound, crossed>>

PutBack(r) ==
  /\ jit[r].at = "restore"
  /\ artifact' = jit[r].backup /\ jit' = [jit EXCEPT ![r].at = "failed"]
  /\ UNCHANGED <<status, sound, crossed>>

PutBackFails(r) ==
  /\ jit[r].at = "restore" /\ "write" \in JitFaults
  /\ artifact' = "torn" /\ jit' = [jit EXCEPT ![r].at = "error"]
  /\ UNCHANGED <<status, sound, crossed>>

\* The client is gone: axum drops the handler where it waits.
Hangup(r) ==
  /\ Busy(r) /\ "leave" \in JitFaults
  /\ jit' = [jit EXCEPT ![r].at = "left"]
  /\ UNCHANGED <<artifact, status, sound, crossed>>

JitNext ==
  \E r \in JitRequests :
    \/ BackUp(r) \/ NoBackUp(r) \/ CommandPasses(r) \/ CommandFails(r) \/ CommandErrs(r)
    \/ \E text \in {artifact} \cup (IF "read" \in JitFaults THEN {"none"} ELSE {}) : ReadExcerpt(r, text)
    \/ \E edit \in Edits \cup {jit[r].excerpt} : Patch(r, edit)
    \/ PatchFails(r) \/ JitGivesUp(r) \/ PutBack(r) \/ PutBackFails(r) \/ Hangup(r)

JitSpec == JitInit /\ [][JitNext]_jitVars

-----------------------------------------------------------------------------
(* Properties.                                                             *)

Quiet == \A r \in JitRequests : ~Busy(r)
Patched(r) == jit[r].patched

\* When no request is under way the file holds what the last passing command ran on, or what
\* it held at first, unless requests overlapped on it or one that had patched (or was writing)
\* it ended by an error or was given up.
SourceKept ==
  Quiet /\ artifact # sound =>
    \/ crossed
    \/ \E r \in JitRequests : jit[r].at \in {"error", "left"} /\ (Patched(r) \/ artifact = "torn")

\* "restored if the repair does not pass, so a failed attempt never leaves the artifact
\* corrupted" (routes_hypervisor.rs:165-170).  A time-out after a patch leaves the patch.
FailureRestores == Quiet => artifact = sound
=============================================================================
