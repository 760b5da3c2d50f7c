---------------------------- MODULE PromptPrefix ----------------------------
(***************************************************************************)
(* What the proxy forwards of a transcript, turn after turn                *)
(* (compressed_messages_path and apply_digest_admission in                 *)
(* server/routes_messages.rs, with cache_safety.rs, rebase.rs, digest.rs,  *)
(* local_trivial.rs and the per-session maps of server/prelude_state.rs).  *)
(*                                                                         *)
(* Anthropic's prompt cache is a byte-exact prefix match, and the client   *)
(* resends its own unchanged transcript on every turn.  The proxy replaces *)
(* heavy tool results by stubs whose full text is a page of the L2 store:  *)
(* on arrival (admission), on every later turn (reapply), and for all old  *)
(* ones at once when it takes the client's cache to be broken (rebase).    *)
(* The conversations here use one session id, as the turns of an agent and *)
(* the utility calls of its harness do under a pinned X-Axiom-Session-Id.  *)
(*                                                                         *)
(* Abstractions.  A message is an identity and a kind; the two token       *)
(* estimates of the code are two predicates on kinds.  What is forwarded   *)
(* of a message is its form.  The fingerprint that compression prepends to *)
(* the last user turn lies after every breakpoint and is left out, with    *)
(* the memo that keeps it stable.  Hashes are the forms they digest.       *)
(***************************************************************************)
EXTENDS Naturals, Sequences

CONSTANTS
  Convs,        \* conversations that use the session id
  Kinds,        \* kinds of newest message: of "light", "prose", "json", "table"
  MaxMessages,  \* bound of the model: messages ever written
  PrefixFaults, \* of "put", "evict", "noexpand"
  NoNote        \* the session has no prefix fingerprint

ASSUME PrefixAssumption == MaxMessages \in Nat /\ "light" \in Kinds

VARIABLES
  transcript,   \* per conversation, the client's own messages
  written,      \* history: number of messages written so far
  pages,        \* identities of the messages whose full text the L2 store holds
  note,         \* pss_prefix_hash of the session: its last frozen prefix
  localLast,    \* pss_local_last: the request last answered locally
  cached,       \* per conversation, the prefix upstream holds a cache of
  broke,        \* history: conversations restructured since their last turn
  calm,         \* history: no page was lost, refused or made unreadable so far
  rebasing      \* history: the last step rebased a prefix its client had kept

prefixVars ==
  <<transcript, written, pages, note, localLast, cached, broke, calm, rebasing>>

Message == [id : 1 .. MaxMessages, kind : Kinds]
Wire    == [id : 1 .. MaxMessages, form : {"plain", "stub", "digest", "absorbed"}]

\* Over the threshold in whitespace tokens (rebase.rs), and in the estimate of
\* admission, which counts JSON by its characters.
WsHeavy(k)  == k \in {"prose", "table"}
Admitted(k) == k \in {"prose", "table", "json"}

\* The text admission leaves is the one rebase.rs derives from the same block
\* where both estimates agree.
AdmissionForm(k) == IF k = "prose" THEN "stub" ELSE "digest"

PrefixInit ==
  /\ transcript = [c \in Convs |-> <<>>] /\ written = 0
  /\ pages = {} /\ note = NoNote /\ localLast = <<>>
  /\ cached = [c \in Convs |-> <<>>]
  /\ broke = {} /\ calm = TRUE /\ rebasing = FALSE

(***************************************************************************)
(* The passes of one request over the transcript T with the breakpoint on  *)
(* message m (0: none).  The newest message is never touched by the first  *)
(* two.                                                                    *)
(***************************************************************************)
Raw(T) == [i \in 1 .. Len(T) |-> [id |-> T[i].id, form |-> "plain"]]

\* reapply_stubs: the frozen prefix, with a stub wherever a page exists.
Verbatim(T, m) == SubSeq(Raw(T), 1, m)   \* mutant: no stub is reapplied
Reapplied(T, m) ==
  [i \in 1 .. m |->
     [id |-> T[i].id,
      form |-> IF WsHeavy(T[i].kind) /\ T[i].id \in pages /\ i # Len(T)
               THEN "stub" ELSE "plain"]]

\* pss_detect_break: not an extension of the prefix noted last.
IsBreak(F) == note # NoNote /\ (Len(F) < Len(note) \/ SubSeq(F, 1, Len(note)) # note)

\* rebase_transcript: every old heavy result whose put succeeds becomes a stub.
Pageable(T) == {i \in 1 .. Len(T) - 1 : WsHeavy(T[i].kind)}
Rebased(T, F, kept) ==
  [i \in 1 .. Len(T) |-> IF i \in kept THEN [id |-> T[i].id, form |-> "stub"] ELSE F[i]]

\* partition_messages: heavy old results after the breakpoint are absorbed.
Absorbed(T, F, m) ==
  [i \in 1 .. Len(T) |->
     [id |-> T[i].id,
      form |-> IF i > m /\ i \in Pageable(T) /\ F[i].form = "plain"
               THEN "absorbed" ELSE F[i].form]]

\* apply_digest_admission: the newest message, once its put has succeeded.
Digested(T, F) ==
  [i \in 1 .. Len(T) |->
     [id |-> T[i].id,
      form |-> IF i = Len(T) /\ F[i].form = "plain"
               THEN AdmissionForm(T[i].kind) ELSE F[i].form]]

\* A put of a page the store has succeeds whatever happens to new ones.
Puts(T, tried) ==
  {ok \in SUBSET tried : {i \in tried : T[i].id \in pages} \subseteq ok
                         /\ ("put" \in PrefixFaults \/ ok = tried)}

Forward(c, T, m, expand) ==
  LET frozen == Reapplied(T, m)
      whole  == frozen \o SubSeq(Raw(T), m + 1, Len(T))
      breaks == IsBreak(frozen) /\ Len(T) > 1 /\ expand
      old    == IF breaks THEN Pageable(T) ELSE {}
      newest == IF expand /\ Admitted(T[Len(T)].kind) THEN {Len(T)} ELSE {}
  IN \E kept \in Puts(T, old), admitted \in Puts(T, newest) :
       LET body == Absorbed(T, Rebased(T, whole, kept), m)
           wire == IF admitted = {} THEN body ELSE Digested(T, body)
       IN /\ pages' = pages \union {T[i].id : i \in kept \union admitted}
          /\ note' = IF breaks THEN SubSeq(Rebased(T, whole, kept), 1, m) ELSE frozen
          /\ cached' = [cached EXCEPT ![c] = SubSeq(wire, 1, m)]
          /\ calm' = (calm /\ expand /\ kept = old /\ admitted = newest)
          /\ rebasing' = (breaks /\ c \notin broke)
          /\ broke' = broke \ {c}

(***************************************************************************)
(* Requests.  A client adds a message, or sends its transcript again.      *)
(***************************************************************************)
NewMessage(k) == [id |-> written + 1, kind |-> k]

AskModel(c, k, m, expand) ==
  LET T == Append(transcript[c], NewMessage(k)) IN
  /\ written < MaxMessages /\ m <= Len(T)
  /\ expand \/ "noexpand" \in PrefixFaults
  /\ Forward(c, T, m, expand)
  /\ transcript' = [transcript EXCEPT ![c] = T]
  /\ written' = written + 1
  /\ UNCHANGED localLast

Again(c, m, expand) ==
  /\ transcript[c] # <<>> /\ m <= Len(transcript[c])
  /\ expand \/ "noexpand" \in PrefixFaults
  /\ Forward(c, transcript[c], m, expand)
  /\ UNCHANGED <<transcript, written, localLast>>

\* A trivial tool result is acknowledged locally: nothing is forwarded, and
\* neither the fingerprint nor a page changes.  The same request within the
\* cooldown is not answered so a second time.
AnswerLocally(c) ==
  LET T == Append(transcript[c], NewMessage("light")) IN
  /\ written < MaxMessages
  /\ transcript' = [transcript EXCEPT ![c] = T]
  /\ written' = written + 1
  /\ localLast' = T
  /\ rebasing' = FALSE
  /\ UNCHANGED <<pages, note, cached, broke, calm>>

AnswerAgain(c) ==
  LET T == transcript[c] IN
  /\ T # <<>> /\ T[Len(T)].kind = "light" /\ T # localLast
  /\ localLast' = T
  /\ rebasing' = FALSE
  /\ UNCHANGED <<transcript, written, pages, note, cached, broke, calm>>

\* The client compacts: a summary replaces its transcript.
Compact(c) ==
  /\ transcript[c] # <<>> /\ written < MaxMessages
  /\ transcript' = [transcript EXCEPT ![c] = <<NewMessage("light")>>]
  /\ written' = written + 1
  /\ broke' = broke \union {c}
  /\ rebasing' = FALSE
  /\ UNCHANGED <<pages, note, localLast, cached, calm>>

\* The process restarts, or a map that reached its limit is cleared.
Forget ==
  /\ note' = NoNote /\ localLast' = <<>>
  /\ rebasing' = FALSE
  /\ UNCHANGED <<transcript, written, pages, cached, broke, calm>>

\* The store's bounds drop a page of this session.
EvictPage ==
  /\ "evict" \in PrefixFaults
  /\ \E p \in pages : pages' = pages \ {p}
  /\ calm' = FALSE /\ rebasing' = FALSE
  /\ UNCHANGED <<transcript, written, note, localLast, cached, broke>>

PrefixNext ==
  \/ \E c \in Convs, expand \in BOOLEAN, m \in 0 .. MaxMessages :
       (\E k \in Kinds : AskModel(c, k, m, expand)) \/ Again(c, m, expand)
  \/ \E c \in Convs : AnswerLocally(c) \/ AnswerAgain(c) \/ Compact(c)
  \/ Forget \/ EvictPage

PrefixSpec == PrefixInit /\ [][PrefixNext]_prefixVars

-----------------------------------------------------------------------------
(* Properties *)

\* Shape of the state.
PrefixTypeOK ==
  /\ \A c \in Convs : transcript[c] \in Seq(Message) /\ cached[c] \in Seq(Wire)
  /\ written \in 0 .. MaxMessages /\ pages \subseteq 1 .. MaxMessages
  /\ note = NoNote \/ note \in Seq(Wire)
  /\ broke \subseteq Convs /\ calm \in BOOLEAN /\ rebasing \in BOOLEAN

\* While the client only appends, the prefix upstream has cached is forwarded
\* in the same bytes again, whatever was stubbed in between: "the output is
\* byte-stable turn-over-turn".  (Calm: no page evicted, no put refused, and
\* the expand tool always at hand.)
PrefixStable ==
  [][ calm' => \A c \in Convs \ broke : \A i \in 1 .. Len(cached[c]) :
        i <= Len(cached'[c]) => cached'[c][i] = cached[c][i] ]_prefixVars

\* A prefix is only ever restructured in a window the client opened.
NeverProxyInitiated == [][~rebasing']_prefixVars
=============================================================================
