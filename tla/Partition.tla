------------------------------ MODULE Partition ------------------------------
(***************************************************************************)
(* What the proxy takes out of a conversation before it forwards it.       *)
(*                                                                         *)
(* Messages and chat completions: partition_messages and                   *)
(* build_compressed_payload (anthropic_forwarder.rs) pull the heavy texts  *)
(* out, leave a trace where the protocol needs one and put a digest into   *)
(* the last user turn.  Responses: plan_compression and apply_plan         *)
(* (responses_compressor.rs) replace runs of earlier assistant items by    *)
(* one fingerprint each.                                                   *)
(*                                                                         *)
(* A text is what the decisions look at: whether what is left of it beside *)
(* system reminders is "none", "light" or "heavy" (at or over the          *)
(* threshold), and whether it carries a reminder.                          *)
(***************************************************************************)
EXTENDS Naturals, Sequences, SequencesExt, FiniteSetsExt

CONSTANTS
  Messages,    \* the messages a conversation is made of
  Items,       \* the items of a Responses input
  MaxTurns     \* how long either grows

VARIABLES
  conv,        \* the messages array
  input        \* the input array

talkVars == <<conv, input>>

(* A message is [role, form, parts]: form "string" with one part, "blocks" *)
(* with any number, or "null".  A part is [kind, rest, note], kind one of  *)
(* "text", "result" (a tool's, its content flattened) and "other".         *)

Part(kind, rest, note) == [kind |-> kind, rest |-> rest, note |-> note]
Digest == Part("digest", "light", FALSE)

\* A string is one text; everything else is left to the client.
ClientParts ==
  [kind : {"text", "result", "other"}, rest : {"none", "light", "heavy"}, note : BOOLEAN]
ASSUME TalkAssumption ==
  /\ Messages \subseteq [role : STRING, form : STRING, parts : Seq(ClientParts)]
  /\ \A m \in Messages : m.form = "string" => Len(m.parts) = 1 /\ m.parts[1].kind = "text"
  /\ Items \subseteq [role : STRING, kind : STRING, text : STRING]

\* The threshold looks at the text beside the reminders; the newest message keeps its tool
\* results for the digest admission that comes later.
IsHeavy(part, newest) ==
  part.rest = "heavy" /\ (part.kind = "text" \/ (part.kind = "result" /\ ~newest))

\* What stays of a heavy part: its reminders, and for a tool result a marker, so that it still
\* answers the tool use before it.
Trace(part) ==
  IF part.kind = "result" THEN <<[part EXCEPT !.rest = "marker"]>>
  ELSE IF part.note THEN <<[part EXCEPT !.rest = "none"]>> ELSE <<>>

Kept(message, newest) ==
  [message EXCEPT !.parts =
     FlattenSeq([j \in DOMAIN @ |-> IF IsHeavy(@[j], newest) THEN Trace(@[j]) ELSE <<@[j]>>])]

\* A blank string, an array without blocks, no content at all.
ContentIsEmpty(message) ==
  \/ message.parts = <<>>
  \/ message.form = "string" /\ message.parts[1].rest = "none" /\ ~message.parts[1].note

\* What becomes of message i: nothing, or one message.  A system message stays as it is.
Survivor(messages, i) ==
  LET kept == Kept(messages[i], i = Len(messages)) IN
  IF messages[i].role = "system" THEN <<messages[i]>>
  ELSE IF ContentIsEmpty(kept) THEN <<>> ELSE <<kept>>

Surviving(messages) == FlattenSeq([i \in DOMAIN messages |-> Survivor(messages, i)])

\* What is extracted from a message, and from all of them.
Extracted(message, newest) ==
  FlattenSeq([j \in DOMAIN message.parts |->
    IF message.role # "system" /\ IsHeavy(message.parts[j], newest) THEN <<message.parts[j]>>
    ELSE <<>>])
HeavyContext(messages) ==
  FlattenSeq([i \in DOMAIN messages |-> Extracted(messages[i], i = Len(messages))])

UserTurns(messages) == {i \in DOMAIN messages : messages[i].role = "user"}

\* The digest goes to the front of the last user turn, or into a turn of its own when no user
\* turn is left and there is something to tell.
Compressed(messages) ==
  LET rest == Surviving(messages) IN
  IF UserTurns(rest) # {} THEN [rest EXCEPT ![Max(UserTurns(rest))].parts = <<Digest>> \o @]
  ELSE IF HeavyContext(messages) = <<>> THEN rest
  ELSE Append(rest, [role |-> "user", form |-> "string", parts |-> <<Digest>>])

-----------------------------------------------------------------------------
(* Responses.  An item is [role, kind, text]: kind "message" or            *)
(* "structural" (a call, its output, reasoning), text "some", "blank",     *)
(* "other" for content that is not all text, or "missing".                 *)

UserItems(items) == {i \in DOMAIN items : items[i].role = "user"}
Structural(items) == {i \in DOMAIN items : items[i].kind # "message"}

\* Only what comes before the latest user item and before anything structural is touched.
SafeEnd(items) == Min({Max(UserItems(items))} \cup Structural(items))

Selected(items) ==
  {i \in 1..(SafeEnd(items) - 1) : items[i].role = "assistant" /\ items[i].text = "some"}

\* No user item, or the latest without content: nothing is planned.
Plannable(items) ==
  UserItems(items) # {} /\ items[Max(UserItems(items))].text # "missing" /\ Selected(items) # {}

\* The selected items, each joined to the run before it when it follows that run's last.
PlannedRuns(items) ==
  LET runs[i \in 0 .. Len(items)] ==
        IF i = 0 THEN <<>>
        ELSE IF i \notin Selected(items) THEN runs[i - 1]
        ELSE IF runs[i - 1] # <<>> /\ Last(Last(runs[i - 1])) = i - 1
        THEN Front(runs[i - 1]) \o << Append(Last(runs[i - 1]), i) >>
        ELSE Append(runs[i - 1], <<i>>)
  IN  runs[Len(items)]

\* The rebuilt input, each entry with the items it stands for: a run's first item becomes its
\* fingerprint, the run's other items go.
Rebuilt(items) ==
  LET runs == PlannedRuns(items)
      Run(i) == {k \in DOMAIN runs : i \in Range(runs[k])} IN
  FlattenSeq([i \in DOMAIN items |->
    CASE Run(i) = {} -> <<[of |-> <<i>>, item |-> items[i]]>>
      [] \E k \in Run(i) : i = runs[k][1] ->
           <<[of |-> runs[CHOOSE k \in Run(i) : TRUE], item |-> "fingerprint"]>>
      [] OTHER -> <<>>])

-----------------------------------------------------------------------------
(* Conversations and inputs grow by one entry at a time.                   *)

TalkInit == conv = <<>> /\ input = <<>>

NewMessage(m) ==
  /\ Len(conv) < MaxTurns /\ input = <<>> /\ conv' = Append(conv, m) /\ UNCHANGED input
NewItem(e) ==
  /\ Len(input) < MaxTurns /\ conv = <<>> /\ input' = Append(input, e) /\ UNCHANGED conv

TalkNext == (\E m \in Messages : NewMessage(m)) \/ (\E e \in Items : NewItem(e))

TalkSpec == TalkInit /\ [][TalkNext]_talkVars

-----------------------------------------------------------------------------
(* Properties.                                                             *)

\* What `g` makes of each element, in order.
Each(seq, g) == FlattenSeq([i \in DOMAIN seq |-> g[seq[i]]])

Parts(messages) == FlattenSeq([i \in DOMAIN messages |-> messages[i].parts])
Systems(messages) ==
  FlattenSeq([i \in DOMAIN messages |->
    IF messages[i].role = "system" THEN <<messages[i]>> ELSE <<>>])

AllParts ==
  [kind : {"text", "result", "other", "digest"}, rest : {"none", "light", "heavy", "marker"},
   note : BOOLEAN]
\* Of a sequence of parts: its light ones, a mark for each reminder, the kinds of what
\* the protocol pairs, the heavy ones, the digests.
LightOf   == [p \in AllParts |-> IF p.rest = "light" /\ p.kind # "digest" THEN <<p>> ELSE <<>>]
NotesOf   == [p \in AllParts |-> IF p.note THEN <<"note">> ELSE <<>>]
PairedOf  == [p \in AllParts |-> IF p.kind \in {"result", "other"} THEN <<p.kind>> ELSE <<>>]
HeavyOf   == [p \in AllParts |-> IF p.rest = "heavy" THEN <<p>> ELSE <<>>]
DigestsOf == [p \in AllParts |-> IF p.kind = "digest" THEN <<p>> ELSE <<>>]

\* Nothing of a conversation is lost but heavy text, and that only into the session: light
\* parts, reminders and system messages are forwarded in their order, every tool use and tool
\* result keeps its place, and what is heavy is either absorbed or forwarded whole.
NothingLost ==
  LET all == Parts(conv)  out == Parts(Compressed(conv)) IN
  /\ Each(out, LightOf) = Each(all, LightOf)
  /\ Each(out, NotesOf) = Each(all, NotesOf)
  /\ Each(out, PairedOf) = Each(all, PairedOf)
  /\ Len(Each(all, HeavyOf)) = Len(Each(out, HeavyOf)) + Len(HeavyContext(conv))
  /\ Systems(Compressed(conv)) = Systems(conv)

\* Whatever was absorbed is told of exactly once, in the last user turn that is forwarded.
DigestPlaced ==
  LET out == Compressed(conv) IN
  HeavyContext(conv) # <<>> =>
    /\ Len(Each(Parts(out), DigestsOf)) = 1
    /\ UserTurns(out) # {} /\ out[Max(UserTurns(out))].parts[1] = Digest

\* A rebuilt Responses input stands for the original, item by item and in order, and the runs
\* folded into fingerprints are as long as they can be and of earlier assistant text only.
RunsWhole ==
  Plannable(input) =>
    LET out == Rebuilt(input)  runs == PlannedRuns(input) IN
    /\ FlattenSeq([k \in DOMAIN out |-> out[k].of]) = [i \in DOMAIN input |-> i]
    /\ \A k \in DOMAIN runs : \A i \in Range(runs[k]) :
         /\ input[i].role = "assistant" /\ i < Max(UserItems(input))
         /\ \A j \in 1..i : input[j].kind = "message"
    /\ \A k \in 1..(Len(runs) - 1) : Last(runs[k]) + 1 < runs[k + 1][1]

TalkSound == NothingLost /\ DigestPlaced /\ RunsWhole

(* What the comments say, and TLC refutes.                                 *)

\* "Drop entirely-empty messages produced by stripping all blocks" (anthropic_forwarder.rs:308):
\* a message that came without content is dropped as well, and the chat path hands this function
\* assistant turns whose content is null because they carry tool calls.  The tool messages of that
\* path, one string each, are dropped with their heavy text, though results "can't just be
\* dropped" (:455-458).
OnlyStrippedDropped ==
  \A i \in DOMAIN conv : Survivor(conv, i) = <<>> =>
    \E j \in DOMAIN conv[i].parts : IsHeavy(conv[i].parts[j], i = Len(conv))

\* A system message "either precede[s] an assistant message or end[s] the array"
\* (anthropic_forwarder.rs:277-288): the assistant turn after it may be dropped, and a turn
\* for the digest may be put behind it.
Placed(messages) ==
  \A i \in DOMAIN messages : messages[i].role = "system" =>
    i = Len(messages) \/ messages[i + 1].role = "assistant"
SystemsPlaced == Placed(conv) => Placed(Compressed(conv))

\* Nothing absorbed, nothing told (anthropic_forwarder.rs:560-567, "no fingerprint worth
\* reporting"): the marker of zero tokens is still put before the last user turn.
NoEmptyDigest == HeavyContext(conv) = <<>> => Each(Parts(Compressed(conv)), DigestsOf) = <<>>
=============================================================================
