---------------------------- MODULE MemoryRecall ----------------------------
(***************************************************************************)
(* Recall over the memories of several scopes: what axiom_recall and the   *)
(* connector's search return, what fetch makes of an id they returned, and *)
(* what axiom_forget takes away (memory_recall.rs, graph_memory.rs, the    *)
(* memory tools of mcp_stdio.rs).                                          *)
(*                                                                         *)
(* Each call holds the store's lock, so it is one step here; what the      *)
(* files are when writers of several processes overlap is RecallLog.  A    *)
(* scope is kept in the file of its sanitized name.  An id is a hash of    *)
(* scope, second and text: a memory is its id, which has one scope and one *)
(* similarity to the query asked.  `supersedes` and the edges of the graph *)
(* come from users of the store other than this program, which reads them  *)
(* but never writes one.  The weight of an edge and of a kind is 1, so     *)
(* activation halves with each of the two hops.                            *)
(***************************************************************************)
EXTENDS Integers, FiniteSetsExt

CONSTANTS
  Kept,       \* memories that may be stored
  Home,       \* the scope of each
  Stem,       \* the file of each scope
  Personal,   \* the scope every search includes, and forget's default
  Likeness,   \* similarity of each memory to the query, a multiple of 4
  MinScore,   \* RecallParams::min_score
  TopK,       \* RecallParams::k
  MaxExtra,   \* GraphRecallParams::max_extra
  Rank,       \* the order of ids
  Revises,    \* <<new, old>>: what a new record may say it supersedes
  Links,      \* edges that may be appended
  MaxStored   \* bound of the model: changes of the store

ASSUME RecallAssumption ==
  /\ IsFiniteSet(Kept) /\ Stem[Personal] \in {Stem[s] : s \in DOMAIN Stem}
  /\ \A s \in DOMAIN Stem : Stem[s] = Stem[Personal] => s = Personal
  /\ Home \in [Kept -> DOMAIN Stem] /\ Likeness \in [Kept -> Nat] /\ Rank \in [Kept -> Nat]
  /\ MinScore \in Nat /\ TopK \in Nat \ {0} /\ MaxExtra \in Nat /\ MaxStored \in Nat

VARIABLES
  state,     \* none, live or gone: the last record of each memory
  since,     \* the second it was last appended
  revised,   \* the memories it says it supersedes
  graph,     \* edges.jsonl
  now,
  stored,    \* changes so far
  dismissed  \* history: forgotten in its own scope, and not remembered since

recallVars == <<state, since, revised, graph, now, stored, dismissed>>

Scopes == DOMAIN Stem

RecallInit ==
  /\ state = [m \in Kept |-> "none"] /\ since = [m \in Kept |-> 0]
  /\ revised = [m \in Kept |-> {}] /\ graph = {}
  /\ now = 1 /\ stored = 0 /\ dismissed = {}

Changes == stored < MaxStored /\ stored' = stored + 1

\* MemoryStore::append: the last record of an id counts.
Remember(m, old) ==
  /\ Changes
  /\ old = {} \/ \E o \in Kept : old = {o} /\ <<m, o>> \in Revises
  /\ state' = [state EXCEPT ![m] = "live"]
  /\ since' = [since EXCEPT ![m] = now]
  /\ revised' = [revised EXCEPT ![m] = old]
  /\ dismissed' = dismissed \ {m}
  /\ UNCHANGED <<graph, now>>

\* A tombstone goes into the file of the scope that is named, or of Personal,
\* whichever file the memory is in.
Forget(m, scope) ==
  /\ Changes
  /\ state' = [state EXCEPT ![m] = IF Stem[scope] = Stem[Home[m]] THEN "gone" ELSE @]
  /\ dismissed' = IF scope = Home[m] THEN dismissed \union {m} ELSE dismissed
  /\ UNCHANGED <<since, revised, graph, now>>

\* EdgeStore::append and tombstone; a removed edge never comes back.
Connect(e) ==
  /\ Changes /\ e \notin graph /\ e \in Links
  /\ graph' = graph \union {e}
  /\ UNCHANGED <<state, since, revised, now, dismissed>>

NextSecond ==
  /\ now < MaxStored /\ now' = now + 1
  /\ \E m \in Kept : since[m] = now
  /\ UNCHANGED <<state, since, revised, graph, stored, dismissed>>

RecallNext ==
  \/ NextSecond
  \/ \E m \in Kept :
       \/ \E old \in {{}} \union {{o} : o \in Kept} : Remember(m, old)
       \/ \E scope \in Scopes : Forget(m, scope)
  \/ \E e \in Links : Connect(e)

RecallSpec == RecallInit /\ [][RecallNext]_recallVars

-----------------------------------------------------------------------------
(* recall, stages 1 and 2 *)

\* load_scope for each of the scopes asked: all that their files hold.
Pool(scope) ==
  {m \in Kept : state[m] = "live" /\ Stem[Home[m]] \in {Stem[Personal], Stem[scope]}}

Superseded(pool) == UNION {revised[m] : m \in pool}

MoreAlike == {p \in Kept \X Kept : Likeness[p[1]] > Likeness[p[2]]}

Newer ==
  MoreAlike \union {p \in Kept \X Kept : /\ Likeness[p[1]] = Likeness[p[2]]
                                         /\ since[p[1]] > since[p[2]]}

\* top_k orders by similarity alone; which of several alike come first is
\* the order of a hash map.  Of twice as many as are wanted, those over the
\* floor are ordered again, newer first among alike.
Best(from, k, before) ==
  {s \in SUBSET from :
     /\ Cardinality(s) = (IF Cardinality(from) < k THEN Cardinality(from) ELSE k)
     /\ \A a \in s, b \in from \ s : <<b, a>> \notin before}

DirectHits(scope) ==
  LET pool == Pool(scope)
  IN UNION {Best({m \in top : Likeness[m] >= MinScore}, TopK, Newer) :
              top \in Best(pool \ Superseded(pool), 2 * TopK, MoreAlike)}

-----------------------------------------------------------------------------
(* Stage 3: spreading activation over the edges, in both directions. *)

Edges(pool) == graph \union {p \in pool \X Kept : p[2] \in revised[p[1]]}

Degree(E, a, b) == Cardinality({e \in E : e = <<a, b>>}) + Cardinality({e \in E : e = <<b, a>>})

\* A node is expanded once, with the first contribution it received: of the
\* strongest node before it.
Adjacent(E, from) == {n \in Kept \ from : \E s \in from : Degree(E, s, n) > 0}

Activation(E, seeds, n) ==
  LET first == Adjacent(E, seeds)
      got[f \in first] == Max({Likeness[s] \div 2 : s \in {a \in seeds : Degree(E, a, f) > 0}})
  IN MapThenSumSet(LAMBDA s : Degree(E, s, n) * (Likeness[s] \div 2), seeds)
       + MapThenSumSet(LAMBDA f : Degree(E, f, n) * (got[f] \div 2), first)

\* A neighbour may be in a scope that was not asked: it is looked up by its
\* id in every file.
Shown(m, pool) == state[m] = "live" /\ m \notin Superseded(pool)

GraphHits(scope, direct) ==
  LET pool == Pool(scope)
      act == [n \in Kept |-> Activation(Edges(pool), direct, n)]
      found == {n \in Kept \ direct : act[n] > 0 /\ Shown(n, pool)}
      before == {p \in found \X found :
                   \/ act[p[1]] > act[p[2]]
                   \/ act[p[1]] = act[p[2]] /\ Rank[p[1]] < Rank[p[2]]}
  IN CHOOSE s \in Best(found, MaxExtra, before) : TRUE

Hits(scope, direct) == direct \union GraphHits(scope, direct)

\* fetch of an id that search returned, which names its scope.
Fetched(scope, m) == state[m] = "live" /\ Stem[scope] = Stem[Home[m]]

-----------------------------------------------------------------------------
(* Properties *)

\* What was forgotten in its scope does not come back, by similarity or over
\* an edge, until it is remembered again; nor does what a memory of the scopes
\* asked says it supersedes; and fetch finds whatever search returned.
NoGhosts ==
  \A scope \in Scopes : \A direct \in DirectHits(scope) : \A m \in Hits(scope, direct) :
    /\ m \notin dismissed
    /\ \A n \in Kept : state[n] = "live" /\ Home[n] \in {Personal, scope} => m \notin revised[n]
    /\ Fetched(Home[m], m)

\* However many memories are alike, none of the scopes asked that nothing
\* supersedes and that passes the floor is left out for one less alike, nor
\* when there is room for it.
BestFound ==
  \A scope \in Scopes : \A direct \in DirectHits(scope) :
    \A m \in Kept :
      /\ state[m] = "live" /\ Home[m] \in {Personal, scope} /\ m \notin direct
      /\ Likeness[m] >= MinScore /\ m \notin Superseded(Pool(scope))
      => Cardinality(direct) = TopK /\ \A d \in direct : Likeness[d] >= Likeness[m]

RecallSound == NoGhosts /\ BestFound

-----------------------------------------------------------------------------
(* What the comments say and the code does not do. *)

\* "a record that has been superseded by any present record is dropped": not
\* a neighbour from a scope that was not asked, though what supersedes it is in
\* the very same file.
StaleStaysOut ==
  \A scope \in Scopes : \A direct \in DirectHits(scope) : \A m \in GraphHits(scope, direct) :
    \A n \in Kept : state[n] = "live" /\ Stem[Home[n]] = Stem[Home[m]] => m \notin revised[n]

\* "ties break toward newer records": among more than twice TopK alike, the
\* newest may be cut off before times are compared.
NewestOfAlike ==
  \A scope \in Scopes : \A direct \in DirectHits(scope) : \A d \in direct :
    \A m \in Pool(scope) \ (direct \union Superseded(Pool(scope))) :
      Likeness[m] = Likeness[d] => since[m] <= since[d]

\* "searches personal and the optional project scope": two scopes whose names
\* are sanitized alike share a file.
ScopesApart ==
  \A scope \in Scopes : \A direct \in DirectHits(scope) :
    \A m \in direct : Home[m] \in {Personal, scope}
=============================================================================
