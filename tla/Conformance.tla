----------------------------- MODULE Conformance -----------------------------
(***************************************************************************)
(* CP/1 documents on their way from one component to another and into a    *)
(* corpus (envelope.rs, canonical.rs), and what the conformance suite says *)
(* of the corpus (conformance.rs).                                         *)
(*                                                                         *)
(* A hash stands for what was hashed.  A document is its content, the      *)
(* content its seal was computed over, and how its bytes are laid out; an  *)
(* envelope adds what its own hash was computed over, the key that signed  *)
(* that hash and, as history, what was wrapped.  Of the content there are  *)
(* its id, the documents it derives from, the mutation and the runs it is  *)
(* about; `sound` is FALSE when one of its basis points is a float.  What  *)
(* only the shape check sees (a member missing, basis points out of        *)
(* range), the other types and the coverage of a corpus, and the manifest  *)
(* are left out.                                                           *)
(***************************************************************************)
EXTENDS Integers, Sequences

CONSTANTS
  Contents,  \* what components have to say
  Keys,      \* fleet keys, of senders and of receivers
  NoKey,
  WireFaults, \* of "flip", "render", "edit", "again"
  MaxLines   \* bound of the model: lines of the corpus

ASSUME CorpusAssumption ==
  /\ MaxLines \in Nat \ {0} /\ NoKey \notin Keys
  /\ \A c \in Contents : c.base \in Nat /\ c.cand \in Nat

VARIABLES
  wire,    \* envelopes that have not arrived
  corpus,  \* the lines of the receiver
  arrival  \* history: what the last step opened, of what was wrapped

corpusVars == <<wire, corpus, arrival>>

Nothing == [opened |-> {}]

CorpusInit == wire = {} /\ corpus = <<>> /\ arrival = Nothing

-----------------------------------------------------------------------------
(* canonical.rs *)

Document(c, seal, layout) == [content |-> c, seal |-> seal, layout |-> layout]

\* to_canonical refuses a float or a null wherever it is.
Renders(d) == d.content.sound
Canonical(d) == Renders(d) /\ d.layout = "canonical"
SealHolds(d) == Renders(d) /\ d.seal = d.content

-----------------------------------------------------------------------------
(* SignedEnvelope *)

\* seal: what cannot be rendered is not sent.
Wrap(c, key) ==
  /\ c.sound /\ Len(corpus) < MaxLines - 1 /\ wire = {}
  /\ LET d == Document(c, c, "canonical")
     IN wire' = {[payload |-> d, sha |-> d, mac |-> [key |-> key, over |-> d], wrapped |-> d]}
  /\ arrival' = Nothing /\ UNCHANGED corpus

\* What may go wrong between: bytes are damaged; a relay parses the payload
\* and writes it again in its own layout, or with a member changed, and hashes
\* what it wrote.  A relay has no key and does not seal; one thing happens to
\* an envelope.
Damaged(e, c) ==
  LET changed == [e.payload EXCEPT !.content = c]
      laid == [e.payload EXCEPT !.layout = "other"]
  IN (IF "flip" \in WireFaults THEN {[e EXCEPT !.payload = changed]} ELSE {})
       \union (IF "render" \in WireFaults THEN {[e EXCEPT !.payload = laid, !.sha = laid]} ELSE {})
       \union (IF "edit" \in WireFaults THEN {[e EXCEPT !.payload = changed, !.sha = changed]} ELSE {})

Damage(e, c) ==
  /\ e.payload = e.wrapped /\ e.sha = e.wrapped /\ e.payload.content # c
  /\ \E f \in Damaged(e, c) : wire' = (wire \ {e}) \union {f}
  /\ arrival' = Nothing /\ UNCHANGED corpus

Signed(e, key) ==
  IF key = NoKey THEN e.mac.key = NoKey ELSE e.mac = [key |-> key, over |-> e.sha]

\* open
Opens(e, key) ==
  e.payload = e.sha /\ Signed(e, key) /\ Canonical(e.payload) /\ SealHolds(e.payload)

Arrive(e, key, again) ==
  /\ Len(corpus) < MaxLines
  /\ again => "again" \in WireFaults
  /\ wire' = IF again THEN wire ELSE wire \ {e}
  /\ IF Opens(e, key)
     THEN /\ corpus' = Append(corpus, e.payload)
          /\ arrival' = [opened |-> {e.payload}, of |-> e.wrapped, from |-> e.mac.key, by |-> key]
     ELSE arrival' = Nothing /\ UNCHANGED corpus

\* A fixture that was written down, by hand or by another binding.
Vendor(d) ==
  /\ Len(corpus) < MaxLines /\ wire = {}
  /\ corpus' = Append(corpus, d)
  /\ arrival' = Nothing /\ UNCHANGED wire

CorpusNext ==
  \/ \E c \in Contents :
       \/ \E key \in Keys \union {NoKey} : Wrap(c, key)
       \/ \E e \in wire : Damage(e, c)
       \/ \E d \in {Document(c, c, "canonical"), Document(c, c, "other"),
                     Document(c, [c EXCEPT !.id = "none"], "canonical")} : Vendor(d)
  \/ \E e \in wire, key \in Keys \union {NoKey}, again \in BOOLEAN : Arrive(e, key, again)

CorpusSpec == CorpusInit /\ [][CorpusNext]_corpusVars

-----------------------------------------------------------------------------
(* check_corpus *)

\* doc_by_id: of lines with one id, the first is the document.
Earliest(q, id) == CHOOSE i \in DOMAIN q : q[i].content.id = id /\ \A j \in 1 .. i - 1 : q[j].content.id # id

ById(q, id) == q[Earliest(q, id)].content
Ids(q) == {q[i].content.id : i \in DOMAIN q}

LineFailures(q, i) ==
  {f \in {"bytes", "seal", "shape", "double"} :
     \/ f = "bytes"  /\ ~Canonical(q[i])
     \/ f = "seal"   /\ ~SealHolds(q[i])
     \/ f = "shape"  /\ ~q[i].content.sound
     \/ f = "double" /\ Earliest(q, q[i].content.id) # i}

Measured(c) == c.base # 0 \/ c.cand # 0

\* The completions a result cites, as far as the corpus has them.
Runs(q, c) == {r \in {ById(q, id) : id \in c.from \intersect Ids(q)} : r.type = "completed"}

Proves(r, c) == r.about = c.about /\ r.base = c.base /\ r.cand = c.cand

\* provenance_edge_problems: a line's edges are its own, the result they are
\* judged by is the document of its id.
EdgeFailures(q, i) ==
  LET own == q[i].content
      c == ById(q, own.id)
      runs == Runs(q, own)
      result == own.type = "result"
  IN {f \in {"itself", "unequal", "unchained", "unproven"} :
       \/ f = "itself"    /\ own.id \in own.from
       \/ f = "unequal"   /\ result /\ c.base # c.cand
       \/ f = "unchained" /\ result /\ Measured(c) /\ runs = {}
       \/ f = "unproven"  /\ result /\ Measured(c) /\ runs # {} /\ ~\E r \in runs : Proves(r, c)}

Failures(q) ==
  UNION {{<<i, f>> : f \in LineFailures(q, i) \union EdgeFailures(q, i)} : i \in DOMAIN q}

-----------------------------------------------------------------------------
(* Properties *)

\* Whatever a relay does to an envelope, what is opened is a document as its
\* author wrapped it, with the receiver's key if it has one, else with none.
OpenedAsWrapped ==
  \A d \in arrival.opened : d = arrival.of /\ arrival.by = arrival.from

\* A corpus without a failure: every id has one document, and every result
\* that reports runs has as many on both sides and derives from the completed
\* simulation of that many runs of that mutation, which is in the corpus.
CleanIsChained ==
  Failures(corpus) = {} =>
    \A i \in DOMAIN corpus :
      /\ \A j \in DOMAIN corpus : corpus[i].content.id = corpus[j].content.id => i = j
      /\ LET c == corpus[i].content
         IN c.type = "result" /\ c.base + c.cand > 0 =>
              /\ c.base = c.cand
              /\ \E j \in DOMAIN corpus \ {i} :
                   LET r == corpus[j].content
                   IN r.id \in c.from /\ r.type = "completed" /\ r.about = c.about /\ r.base = c.base

\* The order documents come in is not what makes a corpus fail.
OrderIsFree ==
  \A i, j \in DOMAIN corpus :
    LET swapped == [corpus EXCEPT ![i] = corpus[j], ![j] = corpus[i]]
    IN Failures(swapped) = {} <=> Failures(corpus) = {}

\* What a corpus fails by it still fails with another line, unless that line
\* is the simulation that a result cites; a mere repetition of an id repairs
\* nothing.
NothingGlossedOver ==
  corpus # <<>> =>
    LET n == Len(corpus)
        before == SubSeq(corpus, 1, n - 1)
        c == corpus[n].content
    IN \A f \in Failures(before) \ Failures(corpus) :
         /\ f[2] \in {"unchained", "unproven"} /\ c.type = "completed"
         /\ c.id \in corpus[f[1]].content.from /\ c.id \notin Ids(before)

CorpusSound == OpenedAsWrapped /\ CleanIsChained /\ OrderIsFree /\ NothingGlossedOver

-----------------------------------------------------------------------------
(* What the comments say and the code does not do. *)

\* "`derived_from` ids resolve within the corpus".
EdgesResolve ==
  Failures(corpus) = {} => \A i \in DOMAIN corpus : corpus[i].content.from \subseteq Ids(corpus)
=============================================================================
