----------------------------- MODULE RecallLog ------------------------------
(***************************************************************************)
(* The recall memories of one scope: an append-only file of JSON lines     *)
(* that every MCP server and every supervisor over one directory appends   *)
(* to, and reads whole (memory_store.rs; remember and forget of            *)
(* mcp_stdio.rs, remember_failure_fix of self_heal.rs).                    *)
(*                                                                         *)
(* A record is a piece of text and a newline, written separately; the      *)
(* calls of one process take turns under its memory lock.  The file is a   *)
(* sequence of lines, each the pieces that ended up in it.  A call cut     *)
(* short by a full disk or the end of its process leaves its piece as far  *)
(* as it got: incomplete, in the middle of a character, or complete        *)
(* without its newline.                                                    *)
(*                                                                         *)
(* Bodies, embeddings, ranking and the edges between memories are left     *)
(* out: a memory is its id, which is of its scope, second and text.        *)
(***************************************************************************)
EXTENDS Naturals, Sequences

CONSTANTS
  Memories,   \* ids
  Writers,    \* processes that append, each one call at a time
  LogFaults,  \* of "cut", "midchar"
  MaxWrites    \* bound of the model: calls

ASSUME LogAssumption == MaxWrites \in Nat

VARIABLES
  lines,      \* the finished lines of the file
  last,       \* the unfinished line at its end
  writer,     \* what each process is doing
  begun,      \* calls so far
  said        \* history: the last word on each id, in the order of the file

logVars == <<lines, last, writer, begun, said>>

Resting == [pc |-> "resting", id |-> "none", tomb |-> FALSE]

\* A piece is a record, or what was written of one.
Piece(w, state) == [id |-> writer[w].id, tomb |-> writer[w].tomb, state |-> state]

LogInit ==
  /\ lines = <<>> /\ last = <<>>
  /\ writer = [w \in Writers |-> Resting] /\ begun = 0
  /\ said = [m \in Memories |-> "nothing"]

\* axiom_remember and axiom_forget; forgetting asks nothing of the file.
Call(w, m, tomb) ==
  /\ writer[w] = Resting /\ begun < MaxWrites
  /\ begun' = begun + 1
  /\ writer' = [writer EXCEPT ![w] = [pc |-> "text", id |-> m, tomb |-> tomb]]
  /\ UNCHANGED <<lines, last, said>>

WriteText(w) ==
  /\ writer[w].pc = "text"
  /\ last' = Append(last, Piece(w, "whole"))
  /\ said' = [said EXCEPT ![writer[w].id] = IF writer[w].tomb THEN "forgotten" ELSE "kept"]
  /\ writer' = [writer EXCEPT ![w].pc = "newline"]
  /\ UNCHANGED <<lines, begun>>

WriteNewline(w) ==
  /\ writer[w].pc = "newline"
  /\ lines' = Append(lines, last) /\ last' = <<>>
  /\ writer' = [writer EXCEPT ![w] = Resting]
  /\ UNCHANGED <<begun, said>>

\* The call ends without an answer that it was done.
Cut(w) ==
  /\ \/ /\ writer[w].pc = "text"
        /\ \E s \in {"part"} \union (LogFaults \intersect {"midchar"}) : last' = Append(last, Piece(w, s))
     \/ /\ writer[w].pc = "newline"
        /\ UNCHANGED last
  /\ "cut" \in LogFaults
  /\ said' = [said EXCEPT ![writer[w].id] = "unsure"]
  /\ writer' = [writer EXCEPT ![w] = Resting]
  /\ UNCHANGED <<lines, begun>>

LogNext ==
  \E w \in Writers :
    \/ WriteText(w) \/ WriteNewline(w) \/ Cut(w)
    \/ \E m \in Memories, tomb \in BOOLEAN : Call(w, m, tomb)

LogSpec == LogInit /\ [][LogNext]_logVars

-----------------------------------------------------------------------------
(* load_scope *)

File == IF last = <<>> THEN lines ELSE Append(lines, last)

Parses(l) == Len(l) = 1 /\ l[1].state = "whole"

\* Reading ends at the first line that is not UTF-8; a line that does not
\* parse is passed over.
ToFirstBad(f) ==                          \* mutant: reading ends there, too
  {i \in DOMAIN f : \A j \in 1 .. i : Parses(f[j]) \/ f[j] = <<>>}
Reached(f) == {i \in DOMAIN f : \A j \in 1 .. i : \A k \in DOMAIN f[j] : f[j][k].state # "midchar"}

\* The last record of an id decides.
Live ==
  LET R == {i \in Reached(File) : Parses(File[i])}
  IN {m \in Memories : \E i \in R :
        /\ File[i][1].id = m /\ ~File[i][1].tomb
        /\ \A j \in R : j > i => File[j][1].id # m}

-----------------------------------------------------------------------------
(* Properties *)

\* The last record of an id went wrong, or is not finished.
Holds(l, m) == \E k \in DOMAIN l : l[k].id = m
Spoilt(m) ==
  \/ \E i \in DOMAIN File : /\ Holds(File[i], m) /\ ~Parses(File[i])
                           /\ \A j \in DOMAIN File : j > i => ~Holds(File[j], m)
  \/ \E w \in Writers : writer[w].id = m
  \/ said[m] = "unsure"

\* "A corrupt line is skipped (fail-open), never fatal": what goes wrong with
\* one record, cut short or run together with another's, changes nothing for
\* the other ids, nor for a later record of the same id.  What was remembered
\* is recalled, and what was forgotten is not, by every process.
LastWordStands ==
  \A m \in Memories : ~Spoilt(m) => (m \in Live <=> said[m] = "kept")
=============================================================================
