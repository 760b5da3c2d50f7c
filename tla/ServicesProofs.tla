-------------------------- MODULE ServicesProofs ----------------------------
(***************************************************************************)
(* Proofs about five services that share no state.  The task board, for    *)
(* any workers, servers, channels, tasks and faults: as long as no two     *)
(* servers are inside one channel at once, no row is duplicated, no task   *)
(* is handed out twice, and a task posted stays on the board; with one     *)
(* server and no failures the board implements TaskQueue.  The replies of  *)
(* the OpenAI side of the proxy, what concurrent tool calls share, a child *)
(* process with a time limit and the patched runs of the hypervisor.       *)
(***************************************************************************)
EXTENDS MCServices, TextProofs

-----------------------------------------------------------------------------
(* Rows *)

\* Giving a row another status.
LEMMA StatusSet ==
  ASSUME NEW q \in Seq(Entries), NEW i \in DOMAIN q, NEW s \in Statuses
  PROVE  LET c == [q EXCEPT ![i].status = s] IN
         /\ c \in Seq(Entries) /\ Len(c) = Len(q) /\ c[i].status = s
         /\ \A j \in DOMAIN q : c[j].id = q[j].id /\ (j # i => c[j] = q[j])
<1> DEFINE row == [q[i] EXCEPT !.status = s]
           c == [q EXCEPT ![i] = row]
<1>1. [q EXCEPT ![i].status = s] = c
  OBVIOUS
<1>2. row \in Entries /\ row.id = q[i].id /\ row.status = s
  <2>1. q[i] \in Entries
    OBVIOUS
  <2> HIDE DEF c
  <2> QED BY <2>1 DEF Entries
<1> HIDE DEF row
<1>3. c \in Seq(Entries) /\ Len(c) = Len(q) /\ c[i] = row /\ \A j \in DOMAIN q : j # i => c[j] = q[j]
  BY <1>2
<1> HIDE DEF c
<1> QED BY <1>1, <1>2, <1>3

\* The rows before the last line.
LEMMA Prefix ==
  ASSUME NEW q \in Seq(Entries), NEW k \in 0 .. Len(q)
  PROVE  /\ SubSeq(q, 1, k) \in Seq(Entries) /\ Len(SubSeq(q, 1, k)) = k
         /\ \A i \in 1 .. k : SubSeq(q, 1, k)[i] = q[i]
OBVIOUS

LEMMA AtMostOne ==
  ASSUME NEW q \in Seq(Entries), Len(q) <= 1, q # <<>>
  PROVE  Len(q) = 1
<1>1. Len(q) \in Nat \ {0}
  BY EmptySeq
<1>2. ASSUME NEW n \in Nat \ {0}, n <= 1
      PROVE  n = 1
  BY <1>2
<1> QED BY <1>1, <1>2, Zenon

\* Writing nothing or a row behind a file: every row that can be read after it
\* is an old one in its place or the new one at the end.
LEMMA GlueRows ==
  ASSUME NEW f \in Stems, NEW text \in Seq(Entries), Len(text) <= 1, Glue(f, text),
         files \in [Stems -> Seq(Entries)], tail \in [Stems -> {"complete", "row", "junk"}],
         \A g \in Stems : tail[g] = "row" => files[g] # <<>>
  PROVE  /\ files' \in [Stems -> Seq(Entries)] /\ tail' \in [Stems -> {"complete", "row", "junk"}]
         /\ \A g \in Stems : tail'[g] = "row" => files'[g] # <<>>
         /\ \A g \in Stems \ {f} : files'[g] = files[g]
         /\ \A i \in DOMAIN files'[f] :
              \/ i \in DOMAIN files[f] /\ files'[f][i] = files[f][i]
              \/ text # <<>> /\ i = Len(files[f]) + 1 /\ files'[f][i] = text[1]
<1> DEFINE q == files[f]
           new == IF tail[f] = "row" THEN Front(q) ELSE IF tail[f] = "complete" THEN q \o text ELSE q
           end == IF tail[f] = "complete" /\ text # <<>> THEN "row" ELSE "junk"
<1>1. q \in Seq(Entries)
  OBVIOUS
<1>2. /\ files' = [files EXCEPT ![f] = new] /\ tail' = [tail EXCEPT ![f] = end]
  BY DEF Glue
<1>3. CASE tail[f] = "row"
  <2>1. Len(q) \in Nat /\ Len(q) > 0
    BY <1>3
  <2>2. new = SubSeq(q, 1, Len(q) - 1) /\ Len(q) - 1 \in 0 .. Len(q)
    BY <1>3, <2>1 DEF Front
  <2>3. new \in Seq(Entries) /\ \A i \in DOMAIN new : i \in DOMAIN q /\ new[i] = q[i]
    <3> HIDE DEF q
    <3>1. SubSeq(q, 1, Len(q) - 1) \in Seq(Entries)
          /\ Len(SubSeq(q, 1, Len(q) - 1)) = Len(q) - 1
          /\ \A i \in 1 .. Len(q) - 1 : SubSeq(q, 1, Len(q) - 1)[i] = q[i]
      BY <1>1, <2>2, Prefix
    <3> HIDE DEF new
    <3> QED BY <1>1, <2>1, <2>2, <3>1
  <2>4. end = "junk"
    BY <1>3
  <2> HIDE DEF new, end
  <2> QED BY <1>2, <2>3, <2>4
<1>4. CASE tail[f] = "complete"
  <2>1. /\ q \o text \in Seq(Entries) /\ Len(q \o text) = Len(q) + Len(text)
        /\ \A i \in 1 .. Len(q) + Len(text) : (q \o text)[i] = IF i <= Len(q) THEN q[i] ELSE text[i - Len(q)]
    BY <1>1, ConcatProperties
  <2>2. new = q \o text
    BY <1>4
  <2>3. end = IF text # <<>> THEN "row" ELSE "junk"
    BY <1>4
  <2>4. text # <<>> => Len(text) = 1
    BY AtMostOne
  <2> HIDE DEF new, end, q
  <2>5. new \in Seq(Entries) /\ (end = "row" => new # <<>>) /\ end \in {"row", "junk"}
        /\ \A i \in DOMAIN new : \/ i \in DOMAIN q /\ new[i] = q[i]
                                 \/ text # <<>> /\ i = Len(q) + 1 /\ new[i] = text[1]
    <3>1. Len(text) \in Nat /\ Len(q) \in Nat /\ DOMAIN q = 1 .. Len(q) /\ DOMAIN new = 1 .. Len(new)
      BY <1>1, <2>1, <2>2
    <3>2. ASSUME NEW i \in DOMAIN new, i \notin DOMAIN q
          PROVE  text # <<>> /\ i = Len(q) + 1 /\ new[i] = text[1]
      BY <2>1, <2>2, <2>4, <3>1, <3>2
    <3> QED BY <2>1, <2>2, <2>3, <2>4, <3>1, <3>2
  <2> USE DEF q
  <2> QED BY <1>2, <2>5
<1>5. CASE tail[f] = "junk"
  <2>1. new = q /\ end = "junk"
    BY <1>5
  <2> HIDE DEF new, end
  <2> QED BY <1>1, <1>2, <2>1
<1> QED BY <1>3, <1>4, <1>5

-----------------------------------------------------------------------------
(* The shape of the state *)

Places == {"idle", "lock", "find", "newline", "tmp", "rename"}
Posts(w) == pc[w] = "newline" \/ (pc[w] = "lock" /\ req[w].op = "post")

DiskOK ==
  /\ files \in [Stems -> Seq(Entries)]
  /\ tail \in [Stems -> {"complete", "row", "junk"}]
  /\ \A f \in Stems : tail[f] = "row" => files[f] # <<>>
  /\ tmp \in [Stems -> Seq(Entries) \union {NoTmp}]

\* A worker at a channel's lock, or inside the channel, has a file to go to.
CallOK ==
  /\ pc \in [Workers -> Places]
  /\ req \in [Workers -> Requests] /\ copy \in [Workers -> Seq(Entries)]
  /\ \A w \in Workers : pc[w] = "lock" \/ Inside(w) => Stem(w) \in Stems
  /\ \A w \in Workers : pc[w] = "find" => req[w].op = "result"

PastOK ==
  /\ used \subseteq Tasks /\ acked \subseteq used
  /\ granted \in [Tasks -> 0 .. 2] /\ overlapped \in BOOLEAN
  /\ \A w \in Workers : Posts(w) => req[w].id \in used

Shape == DiskOK /\ CallOK /\ PastOK

LEMMA Kinds ==
  /\ NoRequest \in Requests
  /\ \A c \in Channels \union Stems : FileOf[c] \in Stems \union {NoStem}
  /\ \A c \in Channels : FileOf[c] \in Stems
  /\ NoStem \notin Stems
  /\ \A a, b \in Names : FileOf[a] = FileOf[b] /\ FileOf[a] \in Stems => a = b
<1>1. PICK c \in Channels, t \in Tasks : TRUE
  BY BoardAssumption
<1>2. [op |-> "post", name |-> c, id |-> t, priority |-> 0, outcome |-> "done"] \in Requests
  BY BoardAssumption DEF Requests, Names
<1>3. NoRequest \in Requests
  BY <1>2 DEF NoRequest
<1> QED BY <1>3, BoardAssumption DEF Names

LEMMA StemKinds ==
  ASSUME CallOK, NEW w \in Workers
  PROVE  /\ req[w] \in Requests /\ req[w].id \in Tasks /\ req[w].name \in Names
         /\ Stem(w) \in Stems \union {NoStem}
         /\ pc[w] = "lock" \/ Inside(w) => Stem(w) \in Stems
         /\ Rows(Stem(w)) \in Seq(Entries) \/ files \notin [Stems -> Seq(Entries)]
<1>1. req[w] \in Requests /\ req[w].id \in Tasks /\ req[w].name \in Names
  BY DEF CallOK, Requests
<1>2. Stem(w) \in Stems \union {NoStem}
  BY <1>1, Kinds DEF Stem, Names
<1>3. <<>> \in Seq(Entries)
  OBVIOUS
<1> QED BY <1>1, <1>2, <1>3, Kinds DEF CallOK, Rows

\* A worker that goes somewhere with its request.
LEMMA GotoOK ==
  ASSUME CallOK, NEW w \in Workers, NEW l \in Places, Goto(w, l),
         req' \in [Workers -> Requests], copy' \in [Workers -> Seq(Entries)],
         \A v \in Workers \ {w} : req'[v] = req[v],
         l = "find" => req'[w].op = "result",
         l \in {"idle", "find"} \/ FileOf[req'[w].name] \in Stems
  PROVE  CallOK'
<1>1. pc' \in [Workers -> Places] /\ pc'[w] = l /\ \A v \in Workers \ {w} : pc'[v] = pc[v]
  BY DEF Goto, CallOK
<1>2. ASSUME NEW v \in Workers, pc'[v] = "lock" \/ Inside(v)'
      PROVE  Stem(v)' \in Stems
  <2>1. CASE v = w
    BY <1>1, <1>2, <2>1 DEF Stem, Inside
  <2>2. CASE v # w
    BY <1>1, <1>2, <2>2 DEF Stem, Inside, CallOK
  <2> QED BY <2>1, <2>2
<1>3. \A v \in Workers : pc'[v] = "find" => req'[v].op = "result"
  BY <1>1 DEF CallOK
<1> QED BY <1>1, <1>2, <1>3 DEF CallOK

LEMMA ReturnOK ==
  ASSUME CallOK, NEW w \in Workers, Return(w)
  PROVE  /\ CallOK' /\ pc'[w] = "idle"
         /\ \A v \in Workers \ {w} : pc'[v] = pc[v] /\ req'[v] = req[v] /\ copy'[v] = copy[v]
<1>1. /\ req' = [req EXCEPT ![w] = NoRequest] /\ copy' = [copy EXCEPT ![w] = <<>>]
      /\ Goto(w, "idle")
  BY DEF Return
<1>2. <<>> \in Seq(Entries)
  OBVIOUS
<1>3. req' \in [Workers -> Requests] /\ copy' \in [Workers -> Seq(Entries)]
  BY <1>1, <1>2, Kinds DEF CallOK
<1>4. CallOK'
  BY <1>1, <1>3, GotoOK DEF CallOK, Places
<1> QED BY <1>1, <1>4 DEF Goto, CallOK

LEMMA InitShape == Init => Shape
<1> SUFFICES ASSUME Init PROVE Shape
  OBVIOUS
<1>1. <<>> \in Seq(Entries)
  OBVIOUS
<1>2. DiskOK
  BY <1>1 DEF Init, DiskOK
<1>3. CallOK
  BY <1>1, Kinds DEF Init, CallOK, Places, Inside
<1>4. PastOK
  <2>1. overlapped \in BOOLEAN
    BY Zenon DEF Init
  <2> QED BY <2>1 DEF Init, PastOK, Posts
<1> QED BY <1>2, <1>3, <1>4 DEF Shape

\* A worker that only arrives, returns or looks on, and a file left alone.
LEMMA PastStays ==
  ASSUME PastOK, CallOK, UNCHANGED <<acked, granted>>, overlapped' \in BOOLEAN,
         used' \subseteq Tasks, used \subseteq used',
         \A v \in Workers : Posts(v)' => (Posts(v) /\ req'[v].id = req[v].id)
                                         \/ req'[v].id \in used'
  PROVE  PastOK'
BY DEF PastOK

LEMMA MeetsBoolean == ASSUME NEW w, Meets(w) PROVE overlapped' \in BOOLEAN
BY Zenon DEF Meets

LEMMA PostTextShape ==
  ASSUME Shape, NEW w \in Workers, PostText(w)
  PROVE  Shape'
<1> DEFINE row == [id |-> req[w].id, priority |-> req[w].priority, status |-> "pending"]
<1>1. /\ req[w].op = "post" /\ pc[w] = "lock" /\ Glue(Stem(w), <<row>>)
      /\ Goto(w, "newline") /\ Meets(w) /\ UNCHANGED <<tmp, req, copy, used, acked, granted>>
  BY DEF PostText, Enters
<1>2. row \in Entries
  <2>1. req[w] \in Requests
    BY DEF Shape, CallOK
  <2> QED BY <2>1 DEF Requests, Entries, Statuses
<1> HIDE DEF row
<1>3. <<row>> \in Seq(Entries) /\ Len(<<row>>) <= 1
  BY <1>2
<1>4. Stem(w) \in Stems
  BY <1>1, StemKinds DEF Shape
<1>5. DiskOK'
  BY <1>1, <1>3, <1>4, GlueRows DEF Shape, DiskOK
<1>6. CallOK'
  BY <1>1, <1>4, GotoOK DEF Shape, CallOK, Places, Stem
<1>7. PastOK'
  BY <1>1, MeetsBoolean, PastStays DEF Shape, PastOK, Posts, Goto, CallOK
<1> QED BY <1>5, <1>6, <1>7 DEF Shape

\* Any way of returning.
LEMMA LeaveShape ==
  ASSUME Shape, NEW w \in Workers, Return(w), DiskOK', UNCHANGED used, acked' \subseteq used,
         granted' \in [Tasks -> 0 .. 2], overlapped' \in BOOLEAN
  PROVE  Shape'
<1>1. /\ CallOK' /\ pc'[w] = "idle"
      /\ \A v \in Workers \ {w} : pc'[v] = pc[v] /\ req'[v] = req[v]
  BY ReturnOK DEF Shape
<1>2. \A v \in Workers : Posts(v)' => req'[v].id \in used
  BY <1>1 DEF Shape, PastOK, Posts
<1> QED BY <1>1, <1>2 DEF Shape, PastOK

LEMMA CallShape ==
  ASSUME Shape, NEW w \in Workers, NEW r \in Requests, NEW l \in {"lock", "find"}, Call(w, r, l),
         l = "lock" => FileOf[r.name] \in Stems, l = "find" => r.op = "result",
         used' \subseteq Tasks, used \subseteq used', r.op = "post" => r.id \in used'
  PROVE  Shape'
<1>1. /\ Goto(w, l) /\ req' = [req EXCEPT ![w] = r]
      /\ UNCHANGED <<files, tail, tmp, copy, acked, granted, overlapped>>
  BY DEF Call, diskVars
<1>2. req'[w] = r /\ req' \in [Workers -> Requests] /\ \A v \in Workers \ {w} : req'[v] = req[v]
  BY <1>1 DEF Shape, CallOK
<1>3. CallOK'
  BY <1>1, <1>2, GotoOK DEF Shape, CallOK, Places
<1>4. \A v \in Workers : Posts(v)' => req'[v].id \in used'
  BY <1>1, <1>2 DEF Shape, PastOK, CallOK, Posts, Goto
<1> QED BY <1>1, <1>3, <1>4 DEF Shape, PastOK, DiskOK

LEMMA ArriveShape ==
  ASSUME Shape, NEW w \in Workers, Arrive(w)
  PROVE  Shape'
<1>1. ASSUME NEW c \in Channels, NEW t \in Tasks, NEW p \in 0 .. MaxPriority, CallPost(w, c, t, p)
      PROVE  Shape'
  <2> DEFINE r == [op |-> "post", name |-> c, id |-> t, priority |-> p, outcome |-> "done"]
  <2>1. r \in Requests /\ r.name = c /\ r.id = t
    BY DEF Requests, Names
  <2>2. Call(w, r, "lock") /\ used' = used \union {t}
    BY <1>1 DEF CallPost
  <2> HIDE DEF r
  <2> QED BY <2>1, <2>2, CallShape, Kinds DEF Shape, PastOK
<1>2. ASSUME NEW c \in Channels, CallClaim(w, c)
      PROVE  Shape'
  <2> DEFINE q == [NoRequest EXCEPT !.op = "claim"]
             r == [q EXCEPT !.name = c]
  <2>1. [NoRequest EXCEPT !.op = "claim", !.name = c] = r
    OBVIOUS
  <2>2. q \in Requests
    BY Kinds DEF Requests
  <2>3. q.op = "claim"
    BY Kinds DEF Requests
  <2> HIDE DEF q
  <2>4. r \in Requests /\ r.name = c /\ r.op = "claim"
    BY <2>2, <2>3 DEF Requests, Names
  <2>5. Call(w, r, "lock") /\ used' = used
    BY <1>2, <2>1 DEF CallClaim
  <2> HIDE DEF r
  <2> QED BY <2>4, <2>5, CallShape, Kinds DEF Shape, PastOK
<1>3. ASSUME NEW t \in Tasks, NEW o \in {"done", "failed"}, CallResult(w, t, o)
      PROVE  Shape'
  <2> DEFINE q == [NoRequest EXCEPT !.op = "result"]
             s == [q EXCEPT !.id = t]
             r == [s EXCEPT !.outcome = o]
  <2>1. [NoRequest EXCEPT !.op = "result", !.id = t, !.outcome = o] = r
    OBVIOUS
  <2>2. q \in Requests /\ q.op = "result"
    BY Kinds DEF Requests
  <2> HIDE DEF q
  <2>3. s \in Requests /\ s.op = "result"
    BY <2>2 DEF Requests
  <2> HIDE DEF s
  <2>4. r \in Requests /\ r.op = "result"
    BY <2>3 DEF Requests
  <2>5. Call(w, r, "find") /\ used' = used
    BY <1>3, <2>1 DEF CallResult
  <2> HIDE DEF r
  <2> QED BY <2>4, <2>5, CallShape DEF Shape, PastOK
<1> QED BY <1>1, <1>2, <1>3 DEF Arrive

LEMMA PostEndsShape ==
  ASSUME Shape, NEW w \in Workers,
         PostNewline(w) \/ NewlineFails(w) \/ PostFails(w)
  PROVE  Shape'
<1>1. CASE PostNewline(w)
  <2>1. /\ Return(w) /\ tail' = [tail EXCEPT ![Stem(w)] = "complete"] /\ acked' = acked \union {req[w].id}
        /\ UNCHANGED <<files, tmp, used, granted, overlapped>> /\ pc[w] = "newline"
    BY <1>1 DEF PostNewline
  <2>2. DiskOK'
    BY <2>1 DEF Shape, DiskOK
  <2>3. acked' \subseteq used
    BY <2>1 DEF Shape, PastOK, Posts
  <2> QED BY <2>1, <2>2, <2>3, LeaveShape DEF Shape, PastOK
<1>2. CASE NewlineFails(w)
  <2>1. Return(w) /\ UNCHANGED <<files, tail, tmp, used, acked, granted, overlapped>>
    BY <1>2 DEF NewlineFails, diskVars, pastVars
  <2> QED BY <2>1, LeaveShape DEF Shape, DiskOK, PastOK
<1>3. CASE PostFails(w)
  <2>1. /\ pc[w] = "lock" /\ Glue(Stem(w), <<>>) /\ Return(w) /\ Meets(w)
        /\ UNCHANGED <<tmp, used, acked, granted>>
    BY <1>3 DEF PostFails, Enters
  <2>2. <<>> \in Seq(Entries) /\ Len(<<>>) <= 1 /\ Stem(w) \in Stems
    BY <2>1, StemKinds DEF Shape
  <2>3. DiskOK'
    BY <2>1, <2>2, GlueRows DEF Shape, DiskOK
  <2> QED BY <2>1, <2>3, MeetsBoolean, LeaveShape DEF Shape, PastOK
<1> QED BY <1>1, <1>2, <1>3

LEMMA NothingShape ==
  ASSUME Shape, NEW w \in Workers,
         ClaimNone(w) \/ FindNothing(w) \/ ResultGone(w) \/ RenameFails(w)
  PROVE  Shape'
<1>1. Return(w) /\ UNCHANGED <<files, tail, tmp, used, acked, granted, overlapped>>
  BY DEF ClaimNone, FindNothing, ResultGone, RenameFails, diskVars, pastVars
<1> QED BY <1>1, LeaveShape DEF Shape, DiskOK, PastOK

\* What a worker that has loaded the file is going to write back.
RewriteOf(q, c, r) ==
  \E i \in DOMAIN q, s \in {"claimed", "done", "failed"} :
    /\ q[i].id = r.id /\ c = [q EXCEPT ![i].status = s]
    /\ r.op = "claim" => Best(q, i) /\ s = "claimed"
    /\ r.op # "claim" => s \in {"done", "failed"}
Rewrites(w) == RewriteOf(files[Stem(w)], copy[w], req[w])

LEMMA LoadShape ==
  ASSUME Shape, NEW w \in Workers, ClaimLoad(w) \/ ResultLoad(w)
  PROVE  /\ Shape' /\ Meets(w) /\ Enters(w) /\ Rewrites(w)' /\ pc'[w] = "tmp" /\ Stem(w)' = Stem(w)
         /\ \A v \in Workers \ {w} : pc'[v] = pc[v] /\ req'[v] = req[v] /\ copy'[v] = copy[v]
         /\ UNCHANGED <<files, tail, tmp, used, acked, granted>>
<1> DEFINE q == files[Stem(w)]
<1>1. /\ Enters(w) /\ Meets(w) /\ Goto(w, "tmp") /\ req[w].op \in {"claim", "result"}
      /\ UNCHANGED <<files, tail, tmp, used, acked, granted>>
  BY DEF ClaimLoad, ResultLoad, diskVars
<1>2. pc[w] = "lock" /\ Stem(w) \in Stems
  BY <1>1, StemKinds DEF Enters, Shape
<1>3. Rows(Stem(w)) = q /\ q \in Seq(Entries)
  BY <1>2, Kinds DEF Rows, Shape, DiskOK
<1>4. PICK i \in DOMAIN q, s \in {"claimed", "done", "failed"} :
        /\ copy' = [copy EXCEPT ![w] = [q EXCEPT ![i].status = s]]
        /\ req' = [req EXCEPT ![w].id = q[i].id]
        /\ req[w].op = "claim" => Best(q, i) /\ s = "claimed"
        /\ req[w].op # "claim" => s \in {"done", "failed"}
  <2>1. CASE ClaimLoad(w)
    BY <1>3, <2>1 DEF ClaimLoad
  <2>2. CASE ResultLoad(w)
    <3>1. PICK i \in DOMAIN q : /\ q[i].id = req[w].id
                                /\ copy' = [copy EXCEPT ![w] = [q EXCEPT ![i].status = req[w].outcome]]
      BY <1>3, <2>2 DEF ResultLoad
    <3>2. req' = req /\ req[w].op = "result"
      BY <2>2 DEF ResultLoad
    <3>3. req[w].outcome \in {"done", "failed"} /\ req \in [Workers -> Requests]
      BY DEF Shape, CallOK, Requests
    <3>4. req = [req EXCEPT ![w].id = q[i].id]
      BY <3>1, <3>3 DEF Requests
    <3> QED BY <3>1, <3>2, <3>3, <3>4
  <2> QED BY <2>1, <2>2
<1>5. s \in Statuses /\ q[i] \in Entries /\ q[i].id \in Tasks
  <2>1. q[i] \in Entries
    BY <1>3
  <2> HIDE DEF q
  <2> QED BY <2>1 DEF Statuses, Entries
<1> DEFINE c == [q EXCEPT ![i].status = s]
           r == [req[w] EXCEPT !.id = q[i].id]
<1>6. c \in Seq(Entries)
  BY <1>3, <1>5, StatusSet
<1>7. r \in Requests /\ r.id = q[i].id /\ r.name = req[w].name /\ r.op = req[w].op
  <2>1. req[w] \in Requests
    BY DEF Shape, CallOK
  <2> HIDE DEF c
  <2> QED BY <1>5, <2>1 DEF Requests
<1>8. copy' = [copy EXCEPT ![w] = c] /\ req' = [req EXCEPT ![w] = r]
  BY <1>4
<1>9. /\ req' \in [Workers -> Requests] /\ copy' \in [Workers -> Seq(Entries)]
      /\ req'[w] = r /\ copy'[w] = c
      /\ \A v \in Workers \ {w} : req'[v] = req[v] /\ copy'[v] = copy[v]
  <2> HIDE DEF c, r
  <2> QED BY <1>6, <1>7, <1>8 DEF Shape, CallOK
<1>10. Stem(w)' = Stem(w)
  <2> HIDE DEF c, r
  <2> QED BY <1>7, <1>9 DEF Stem
<1>11. Rewrites(w)'
  <2>1. files'[Stem(w)'] = q
    BY <1>1, <1>10
  <2>2. RewriteOf(q, c, r)
    BY <1>4, <1>7 DEF RewriteOf
  <2> HIDE DEF q, c, r
  <2> QED BY <1>9, <2>1, <2>2 DEF Rewrites
<1> HIDE DEF c, r, q
<1>12. pc'[w] = "tmp" /\ \A v \in Workers \ {w} : pc'[v] = pc[v]
  BY <1>1 DEF Goto, Shape, CallOK
<1>13. CallOK'
  BY <1>1, <1>2, <1>9, <1>10, GotoOK DEF Shape, Places, Stem
<1>14. PastOK'
  <2>1. overlapped' \in BOOLEAN
    BY <1>1, MeetsBoolean
  <2> QED BY <1>1, <1>9, <1>12, <2>1 DEF Shape, PastOK, Posts
<1>15. DiskOK'
  BY <1>1 DEF Shape, DiskOK
<1> QED BY <1>1, <1>9, <1>10, <1>11, <1>12, <1>13, <1>14, <1>15 DEF Shape

LEMMA FindShape ==
  ASSUME Shape, NEW w \in Workers, FindChannel(w)
  PROVE  /\ Shape' /\ pc'[w] = "lock" /\ req'[w].op = "result"
         /\ \A v \in Workers \ {w} : pc'[v] = pc[v] /\ req'[v] = req[v]
<1>1. /\ pc[w] = "find" /\ Goto(w, "lock")
      /\ UNCHANGED <<files, tail, tmp, copy, used, acked, granted, overlapped>>
  BY DEF FindChannel, diskVars, pastVars
<1>2. PICK n \in Stems : /\ Holds(Rows(FileOf[n]), req[w].id)
                         /\ req' = [req EXCEPT ![w].name = n]
  BY DEF FindChannel
<1>3. FileOf[n] \in Stems
  <2>1. CASE FileOf[n] = NoStem
    BY <1>2, <2>1 DEF Holds, Rows
  <2> QED BY <2>1, Kinds
<1> DEFINE r == [req[w] EXCEPT !.name = n]
<1>4. r \in Requests /\ r.name = n /\ r.op = req[w].op
  <2>1. req[w] \in Requests
    BY DEF Shape, CallOK
  <2> QED BY <2>1 DEF Requests, Names
<1>5. req' = [req EXCEPT ![w] = r]
  BY <1>2
<1> HIDE DEF r
<1>6. /\ req' \in [Workers -> Requests] /\ req'[w] = r
      /\ \A v \in Workers \ {w} : req'[v] = req[v]
  BY <1>4, <1>5 DEF Shape, CallOK
<1>7. pc'[w] = "lock" /\ \A v \in Workers \ {w} : pc'[v] = pc[v]
  BY <1>1 DEF Goto, Shape, CallOK
<1>8. CallOK'
  BY <1>1, <1>3, <1>4, <1>6, GotoOK DEF Shape, CallOK, Places
<1>9. req[w].op = "result"
  BY <1>1 DEF Shape, CallOK
<1>10. PastOK'
  BY <1>1, <1>4, <1>6, <1>7, <1>9 DEF Shape, PastOK, Posts
<1> QED BY <1>1, <1>4, <1>6, <1>7, <1>8, <1>9, <1>10 DEF Shape, DiskOK

LEMMA RewriteShape ==
  ASSUME Shape, NEW w \in Workers, WriteTmp(w) \/ WriteTmpFails(w) \/ Rename(w)
  PROVE  Shape'
<1>1. CASE WriteTmp(w)
  <2>1. /\ Stem(w) \in Stems /\ copy[w] \in Seq(Entries)
        /\ tmp' = [tmp EXCEPT ![Stem(w)] = copy[w]] /\ Goto(w, "rename")
        /\ UNCHANGED <<files, tail, req, copy, used, acked, granted, overlapped>>
    BY <1>1, StemKinds DEF WriteTmp, pastVars, Inside, Shape, CallOK
  <2>2. DiskOK'
    BY <2>1 DEF Shape, DiskOK
  <2>3. CallOK'
    BY <2>1, GotoOK DEF Shape, CallOK, Places, Stem
  <2>4. PastOK'
    BY <2>1 DEF Shape, PastOK, Posts, Goto, CallOK
  <2> QED BY <2>2, <2>3, <2>4 DEF Shape
<1>2. CASE WriteTmpFails(w)
  <2>1. /\ Stem(w) \in Stems /\ copy[w] \in Seq(Entries) /\ Return(w)
        /\ UNCHANGED <<files, tail, used, acked, granted, overlapped>>
    BY <1>2, StemKinds DEF WriteTmpFails, pastVars, Inside, Shape, CallOK
  <2>2. PICK n \in 0 .. Len(copy[w]) - 1 : tmp' = [tmp EXCEPT ![Stem(w)] = SubSeq(copy[w], 1, n)]
    BY <1>2 DEF WriteTmpFails
  <2>3. n \in 0 .. Len(copy[w])
    <3>1. Len(copy[w]) \in Nat
      BY <2>1
    <3> QED BY <3>1
  <2>4. SubSeq(copy[w], 1, n) \in Seq(Entries)
    BY <2>1, <2>3, Prefix
  <2>5. DiskOK'
    BY <2>1, <2>2, <2>4 DEF Shape, DiskOK
  <2> QED BY <2>1, <2>5, LeaveShape DEF Shape, PastOK
<1>3. CASE Rename(w)
  <2>1. /\ Stem(w) \in Stems /\ tmp[Stem(w)] # NoTmp /\ Return(w)
        /\ files' = [files EXCEPT ![Stem(w)] = tmp[Stem(w)]]
        /\ tail' = [tail EXCEPT ![Stem(w)] = "complete"]
        /\ tmp' = [tmp EXCEPT ![Stem(w)] = NoTmp]
        /\ UNCHANGED <<used, acked, overlapped>>
    BY <1>3, StemKinds DEF Rename, Inside, Shape
  <2>2. DiskOK'
    BY <2>1 DEF Shape, DiskOK
  <2>3. granted' \in [Tasks -> 0 .. 2]
    <3>1. granted \in [Tasks -> 0 .. 2]
      BY DEF Shape, PastOK
    <3>2. granted' = IF req[w].op = "claim"
                     THEN [granted EXCEPT ![req[w].id] = IF @ = 2 THEN 2 ELSE @ + 1] ELSE granted
      BY <1>3 DEF Rename
    <3> DEFINE g == granted[req[w].id]
               n == IF g = 2 THEN 2 ELSE g + 1
    <3>3. req[w].id \in Tasks /\ g \in 0 .. 2
      BY <3>1, StemKinds DEF Shape
    <3>4. n \in 0 .. 2
      <4> HIDE DEF g
      <4> QED BY <3>3
    <3>5. req[w].op = "claim" => granted' = [granted EXCEPT ![req[w].id] = n]
      BY <3>2
    <3>6. req[w].op # "claim" => granted' = granted
      BY <3>2
    <3> HIDE DEF n
    <3> QED BY <3>1, <3>4, <3>5, <3>6
  <2> QED BY <2>1, <2>2, <2>3, LeaveShape DEF Shape, PastOK
<1> QED BY <1>1, <1>2, <1>3

LEMMA CrashShape ==
  ASSUME Shape, NEW p \in Servers, Crash(p)
  PROVE  /\ Shape' /\ UNCHANGED <<files, tail, tmp, used, acked, granted, overlapped>>
         /\ \A v \in Workers : \/ pc'[v] = "idle"
                               \/ pc'[v] = pc[v] /\ req'[v] = req[v] /\ copy'[v] = copy[v]
<1>1. /\ UNCHANGED <<files, tail, tmp, used, acked, granted, overlapped>>
      /\ pc' = [v \in Workers |-> IF ServerOf[v] = p THEN "idle" ELSE pc[v]]
      /\ req' = [v \in Workers |-> IF ServerOf[v] = p THEN NoRequest ELSE req[v]]
      /\ copy' = [v \in Workers |-> IF ServerOf[v] = p THEN <<>> ELSE copy[v]]
  BY DEF Crash, diskVars, pastVars
<1>2. \A v \in Workers : \/ pc'[v] = "idle"
                         \/ pc'[v] = pc[v] /\ req'[v] = req[v] /\ copy'[v] = copy[v]
  BY <1>1
<1>3. <<>> \in Seq(Entries)
  OBVIOUS
<1>4. CallOK'
  <2>1. /\ pc' \in [Workers -> Places] /\ req' \in [Workers -> Requests]
        /\ copy' \in [Workers -> Seq(Entries)]
    BY <1>1, <1>3, Kinds DEF Shape, CallOK, Places
  <2> QED BY <1>2, <2>1 DEF Shape, CallOK, Inside, Stem
<1>5. PastOK' /\ DiskOK'
  BY <1>1, <1>2 DEF Shape, PastOK, DiskOK, Posts
<1> QED BY <1>1, <1>2, <1>4, <1>5 DEF Shape

LEMMA StepShape == Shape /\ [Next]_vars => Shape'
<1> SUFFICES ASSUME Shape, [Next]_vars PROVE Shape'
  OBVIOUS
<1>1. CASE UNCHANGED vars
  BY <1>1 DEF vars, diskVars, callVars, pastVars, Shape, DiskOK, CallOK, PastOK, Posts, Inside, Stem
<1>2. CASE \E p \in Servers : Crash(p)
  BY <1>2, CrashShape
<1>3. CASE \E w \in Workers : Arrive(w)
  BY <1>3, ArriveShape
<1>4. ASSUME NEW w \in Workers, Step(w)
      PROVE  Shape'
  BY <1>4, PostTextShape, PostEndsShape, NothingShape, LoadShape, FindShape, RewriteShape DEF Step
<1> QED BY <1>1, <1>2, <1>3, <1>4 DEF Next

\* Every reachable state of the board is well formed, for any workers, servers,
\* channels, tasks and faults (task_board.rs).
THEOREM BoardTypeCorrect == Spec => []TypeOK
<1>1. Shape => TypeOK
  BY DEF Shape, DiskOK, CallOK, PastOK, TypeOK, Places
<1> QED BY <1>1, InitShape, StepShape, PTL DEF Spec

-----------------------------------------------------------------------------
(* Servers that take turns *)

Waits(w)      == pc[w] = "lock" /\ req[w].op = "post"
NoPending(t)  == \A f \in Stems : \A i \in DOMAIN files[f] :
                   files[f][i].id = t => files[f][i].status # "pending"
OffBoard(t)   == \A f \in Stems : \A i \in DOMAIN files[f] : files[f][i].id # t
Unposted(t)   == granted[t] = 0 /\ OffBoard(t)

\* A channel has one worker inside it,
Alone   == \A v, w \in Workers : Inside(v) /\ Inside(w) /\ Stem(v) = Stem(w) => v = w
\* a task has one row,
OneEach == \A f, g \in Stems : \A i \in DOMAIN files[f], j \in DOMAIN files[g] :
             files[f][i].id = files[g][j].id => f = g /\ i = j
\* a task waiting to be posted is on no board, and one request posts it,
Waiting == \A w \in Workers : Waits(w) =>
             Unposted(req[w].id) /\ \A v \in Workers : Waits(v) /\ req[v].id = req[w].id => v = w
Unused  == \A t \in Tasks \ used : Unposted(t)
\* what a worker writes back is the file as it is but for its own row,
Copies  == \A w \in Workers : pc[w] \in {"tmp", "rename"} => Rewrites(w)
Temps   == \A w \in Workers : pc[w] = "rename" => tmp[Stem(w)] = copy[w]
\* and a task handed out is pending no more.
Grants  == \A t \in Tasks : granted[t] <= 1 /\ (granted[t] # 0 => NoPending(t))

Turns  == Alone /\ OneEach /\ Waiting /\ Unused /\ Copies /\ Temps /\ Grants
InTurn == Shape /\ (~overlapped => Turns)

LEMMA InitInTurn == Init => InTurn
<1> SUFFICES ASSUME Init PROVE Turns
  BY InitShape DEF InTurn
<1>1. /\ \A w \in Workers : pc[w] = "idle"
      /\ \A f \in Stems : files[f] = <<>>
      /\ \A t \in Tasks : granted[t] = 0
  BY DEF Init
<1>2. Alone /\ OneEach /\ Waiting /\ Copies /\ Temps
  BY <1>1 DEF Alone, OneEach, Waiting, Copies, Temps, Inside, Waits
<1>3. Unused /\ Grants
  BY <1>1 DEF Unused, Grants, Unposted, OffBoard
<1> QED BY <1>2, <1>3 DEF Turns

\* The channel's mutex and the absence of other servers leave the channel to the
\* worker that enters it.
LEMMA EntersAlone ==
  ASSUME Shape, NEW w \in Workers, Enters(w), Meets(w), ~overlapped'
  PROVE  /\ ~overlapped
         /\ \A v \in Workers \ {w} : Inside(v) => Stem(v) # Stem(w)
<1>1. ~overlapped /\ \A v \in Workers : ~(Inside(v) /\ ServerOf[v] # ServerOf[w] /\ Stem(v) = Stem(w))
  BY Zenon DEF Meets
<1>2. ASSUME NEW v \in Workers \ {w}, Inside(v), Stem(v) = Stem(w)
      PROVE  FALSE
  <2>1. Stem(w) \in Stems /\ req[v].name \in Names /\ req[w].name \in Names
    BY StemKinds DEF Shape, Enters
  <2>2. req[v].name = req[w].name
    BY <1>2, <2>1, Kinds DEF Stem
  <2>3. ServerOf[v] = ServerOf[w]
    BY <1>1, <1>2
  <2> QED BY <1>2, <2>2, <2>3 DEF Enters
<1> QED BY <1>1, <1>2

\* Rows that stay, lose their pending status or are new at the end of one file.
LEMMA RowsMove ==
  ASSUME OneEach, NEW f \in Stems, NEW N, \A t \in N : OffBoard(t),
         \A g \in Stems : \A i \in DOMAIN files'[g] :
           \/ /\ i \in DOMAIN files[g] /\ files'[g][i].id = files[g][i].id
              /\ files'[g][i].status = "pending" => files[g][i].status = "pending"
           \/ g = f /\ i = Len(files[f]) + 1 /\ files'[g][i].id \in N
  PROVE  /\ OneEach'
         /\ \A t : t \notin N /\ OffBoard(t) => OffBoard(t)'
         /\ \A t : t \notin N /\ NoPending(t) => NoPending(t)'
<1>1. OneEach'
  BY DEF OneEach, OffBoard
<1>2. ASSUME NEW t, t \notin N, OffBoard(t) PROVE OffBoard(t)'
  BY <1>2 DEF OffBoard
<1>3. ASSUME NEW t, t \notin N, NoPending(t) PROVE NoPending(t)'
  BY <1>3 DEF NoPending
<1> QED BY <1>1, <1>2, <1>3

LEMMA RewritesStays ==
  ASSUME NEW w \in Workers, Rewrites(w), req'[w] = req[w], copy'[w] = copy[w],
         files'[Stem(w)] = files[Stem(w)]
  PROVE  Rewrites(w)'
<1>1. Stem(w)' = Stem(w)
  BY DEF Stem
<1> QED BY <1>1, Zenon DEF Rewrites

\* Workers that arrive, look on or return, and the board stays.
LEMMA LookOn ==
  ASSUME Turns, UNCHANGED <<files, tmp, granted>>, used \subseteq used',
         \A v \in Workers : \/ pc'[v] \in {"idle", "find"}
                            \/ pc'[v] = "lock" /\ req'[v].op # "post"
                            \/ pc'[v] = pc[v] /\ req'[v] = req[v] /\ copy'[v] = copy[v]
  PROVE  Turns'
<1>1. \A t : Unposted(t)' <=> Unposted(t)
  BY DEF Unposted, OffBoard
<1>2. \A v \in Workers : Inside(v)' => /\ Inside(v) /\ pc'[v] = pc[v] /\ req'[v] = req[v]
                                       /\ copy'[v] = copy[v] /\ Stem(v)' = Stem(v)
  BY DEF Inside, Stem
<1>3. \A v \in Workers : Waits(v)' => Waits(v) /\ req'[v] = req[v]
  BY DEF Waits
<1>4. Alone' /\ Temps'
  BY <1>2 DEF Turns, Alone, Temps, Inside
<1>5. OneEach' /\ Grants'
  BY DEF Turns, OneEach, Grants, NoPending
<1>6. Waiting' /\ Unused'
  BY <1>1, <1>3 DEF Turns, Waiting, Unused
<1>7. Copies'
  BY <1>2, RewritesStays DEF Turns, Copies, Inside
<1> QED BY <1>4, <1>5, <1>6, <1>7 DEF Turns

LEMMA ArriveTurns ==
  ASSUME Shape, Turns, NEW w \in Workers, Arrive(w)
  PROVE  Turns' /\ overlapped' = overlapped
<1>1. ASSUME NEW c \in Channels, NEW t \in Tasks, NEW p \in 0 .. MaxPriority, CallPost(w, c, t, p)
      PROVE  Turns' /\ overlapped' = overlapped
  <2> DEFINE r == [op |-> "post", name |-> c, id |-> t, priority |-> p, outcome |-> "done"]
  <2>1. r.id = t
    OBVIOUS
  <2>2. /\ Call(w, r, "lock") /\ used' = used \union {t} /\ t \notin used
    BY <1>1 DEF CallPost
  <2> HIDE DEF r
  <2>3. /\ pc'[w] = "lock" /\ req'[w] = r /\ pc[w] = "idle"
        /\ \A v \in Workers \ {w} : pc'[v] = pc[v] /\ req'[v] = req[v]
        /\ UNCHANGED <<files, tail, tmp, copy, acked, granted, overlapped>>
    BY <2>2 DEF Call, Goto, diskVars, Shape, CallOK
  <2>4. \A k : Unposted(k)' <=> Unposted(k)
    BY <2>3 DEF Unposted, OffBoard
  <2>5. \A v \in Workers : Inside(v)' => v # w /\ Inside(v) /\ Stem(v)' = Stem(v)
    BY <2>3 DEF Inside, Stem
  <2>6. Alone' /\ Temps'
    BY <2>3, <2>5 DEF Turns, Alone, Temps, Inside
  <2>7. OneEach' /\ Grants'
    BY <2>3 DEF Turns, OneEach, Grants, NoPending
  <2>8. Waiting'
    <3>1. \A v \in Workers \ {w} : Waits(v) => req[v].id # t
      BY <2>2 DEF Shape, PastOK, Posts, Waits
    <3>2. Unposted(t)
      BY <2>2 DEF Turns, Unused
    <3> QED BY <2>1, <2>3, <2>4, <3>1, <3>2 DEF Turns, Waiting, Waits
  <2>9. Unused'
    BY <2>2, <2>4 DEF Turns, Unused
  <2>10. Copies'
    BY <2>3, <2>5, RewritesStays DEF Turns, Copies, Inside
  <2> QED BY <2>3, <2>6, <2>7, <2>8, <2>9, <2>10 DEF Turns
<1>2. ASSUME NEW r \in Requests, NEW l \in {"lock", "find"}, Call(w, r, l), used' = used,
             l = "find" \/ r.op # "post"
      PROVE  Turns' /\ overlapped' = overlapped
  <2>1. /\ pc'[w] = l /\ req'[w] = r
        /\ \A v \in Workers \ {w} : pc'[v] = pc[v] /\ req'[v] = req[v]
        /\ UNCHANGED <<files, tmp, copy, granted, overlapped>>
    BY <1>2 DEF Call, Goto, diskVars, Shape, CallOK
  <2> QED BY <1>2, <2>1, LookOn
<1>3. ASSUME NEW c \in Channels, CallClaim(w, c)
      PROVE  Turns' /\ overlapped' = overlapped
  <2> DEFINE q == [NoRequest EXCEPT !.op = "claim"]
             r == [q EXCEPT !.name = c]
  <2>1. [NoRequest EXCEPT !.op = "claim", !.name = c] = r
    OBVIOUS
  <2>2. q \in Requests
    BY Kinds DEF Requests
  <2>3. q.op = "claim"
    BY Kinds DEF Requests
  <2> HIDE DEF q
  <2>4. r \in Requests /\ r.op # "post"
    BY <2>2, <2>3 DEF Requests, Names
  <2>5. Call(w, r, "lock") /\ used' = used
    BY <1>3, <2>1 DEF CallClaim
  <2> HIDE DEF r
  <2> QED BY <1>2, <2>4, <2>5
<1>4. ASSUME NEW t \in Tasks, NEW o \in {"done", "failed"}, CallResult(w, t, o)
      PROVE  Turns' /\ overlapped' = overlapped
  <2> DEFINE q == [NoRequest EXCEPT !.op = "result"]
             s == [q EXCEPT !.id = t]
             r == [s EXCEPT !.outcome = o]
  <2>1. [NoRequest EXCEPT !.op = "result", !.id = t, !.outcome = o] = r
    OBVIOUS
  <2>2. q \in Requests
    BY Kinds DEF Requests
  <2> HIDE DEF q
  <2>3. s \in Requests
    BY <2>2 DEF Requests
  <2> HIDE DEF s
  <2>4. r \in Requests
    BY <2>3 DEF Requests
  <2>5. Call(w, r, "find") /\ used' = used
    BY <1>4, <2>1 DEF CallResult
  <2> HIDE DEF r
  <2> QED BY <1>2, <2>4, <2>5
<1> QED BY <1>1, <1>3, <1>4 DEF Arrive

LEMMA LeaveTurns ==
  ASSUME Shape, Turns, NEW w \in Workers, Return(w), UNCHANGED <<files, tmp, used, granted>>
  PROVE  Turns'
<1>1. /\ pc'[w] = "idle"
      /\ \A v \in Workers \ {w} : pc'[v] = pc[v] /\ req'[v] = req[v] /\ copy'[v] = copy[v]
  BY ReturnOK DEF Shape
<1> QED BY <1>1, LookOn

\* Loading the file: the worker is inside, with a copy to write back.
LEMMA LoadTurns ==
  ASSUME Shape, Turns, NEW w \in Workers, ClaimLoad(w) \/ ResultLoad(w), ~overlapped'
  PROVE  Turns'
<1>1. /\ Meets(w) /\ Enters(w) /\ Rewrites(w)' /\ pc'[w] = "tmp" /\ Stem(w)' = Stem(w)
      /\ \A v \in Workers \ {w} : pc'[v] = pc[v] /\ req'[v] = req[v] /\ copy'[v] = copy[v]
      /\ UNCHANGED <<files, tail, tmp, used, acked, granted>>
  BY LoadShape
<1>2. \A v \in Workers \ {w} : Inside(v) => Stem(v) # Stem(w)
  BY <1>1, EntersAlone
<1>3. \A v \in Workers \ {w} : (Inside(v)' <=> Inside(v)) /\ Stem(v)' = Stem(v)
  BY <1>1 DEF Inside, Stem
<1>4. \A t : Unposted(t)' <=> Unposted(t)
  BY <1>1 DEF Unposted, OffBoard
<1>5. Alone'
  BY <1>1, <1>2, <1>3 DEF Turns, Alone
<1>6. Copies' /\ Temps'
  BY <1>1, <1>3, RewritesStays DEF Turns, Copies, Temps
<1>7. OneEach' /\ Grants'
  BY <1>1 DEF Turns, OneEach, Grants, NoPending
<1>8. Waiting' /\ Unused'
  BY <1>1, <1>4 DEF Turns, Waiting, Unused, Waits
<1> QED BY <1>5, <1>6, <1>7, <1>8 DEF Turns

\* Appending the text of a row.
LEMMA PostTextTurns ==
  ASSUME Shape, Turns, NEW w \in Workers, PostText(w), ~overlapped'
  PROVE  Turns'
<1> DEFINE row == [id |-> req[w].id, priority |-> req[w].priority, status |-> "pending"]
           t == req[w].id
<1>1. /\ Waits(w) /\ Enters(w) /\ Glue(Stem(w), <<row>>) /\ row.id = t
      /\ Goto(w, "newline") /\ Meets(w) /\ UNCHANGED <<tmp, req, copy, used, acked, granted>>
  BY DEF PostText, Enters, Waits
<1>2. row \in Entries
  <2>1. req[w] \in Requests
    BY DEF Shape, CallOK
  <2> QED BY <2>1 DEF Requests, Entries, Statuses
<1> HIDE DEF row
<1>3. <<row>> \in Seq(Entries) /\ Len(<<row>>) <= 1 /\ <<row>>[1] = row
  BY <1>2
<1>4. Stem(w) \in Stems
  BY <1>1, StemKinds DEF Shape, Waits
<1>5. /\ \A g \in Stems \ {Stem(w)} : files'[g] = files[g]
      /\ \A i \in DOMAIN files'[Stem(w)] :
           \/ i \in DOMAIN files[Stem(w)] /\ files'[Stem(w)][i] = files[Stem(w)][i]
           \/ i = Len(files[Stem(w)]) + 1 /\ files'[Stem(w)][i] = row
  BY <1>1, <1>3, <1>4, GlueRows, ZenonT(60) DEF Shape, DiskOK
<1>6. Unposted(t) /\ OneEach
  BY <1>1 DEF Turns, Waiting
<1>7. /\ OneEach'
      /\ \A k : k # t /\ OffBoard(k) => OffBoard(k)'
      /\ \A k : k # t /\ NoPending(k) => NoPending(k)'
  <2> DEFINE N == {t}
  <2>1. (\A k \in N : OffBoard(k)) /\ \A k : k # t => k \notin N
    BY <1>6 DEF Unposted
  <2>2. \A g \in Stems : \A i \in DOMAIN files'[g] :
           \/ /\ i \in DOMAIN files[g] /\ files'[g][i].id = files[g][i].id
              /\ files'[g][i].status = "pending" => files[g][i].status = "pending"
           \/ g = Stem(w) /\ i = Len(files[Stem(w)]) + 1 /\ files'[g][i].id \in N
    BY <1>1, <1>5
  <2> HIDE DEF N, t
  <2>3. /\ OneEach'
        /\ \A k : k \notin N /\ OffBoard(k) => OffBoard(k)'
        /\ \A k : k \notin N /\ NoPending(k) => NoPending(k)'
    BY <1>4, <1>6, <2>1, <2>2, RowsMove
  <2> QED BY <2>1, <2>3
<1>8. \A v \in Workers \ {w} : Inside(v) => Stem(v) # Stem(w)
  BY <1>1, EntersAlone
<1>9. pc'[w] = "newline" /\ \A v \in Workers \ {w} : pc'[v] = pc[v]
  BY <1>1 DEF Goto, Shape, CallOK
<1>10. \A v \in Workers : Stem(v)' = Stem(v) /\ (v # w => (Inside(v)' <=> Inside(v)))
  BY <1>1, <1>9 DEF Inside, Stem
<1>11. Alone'
  BY <1>8, <1>10 DEF Turns, Alone
<1>12. Copies' /\ Temps'
  <2>1. \A v \in Workers : pc'[v] \in {"tmp", "rename"} =>
          v # w /\ pc[v] = pc'[v] /\ Rewrites(v) /\ files'[Stem(v)] = files[Stem(v)]
    <3>1. ASSUME NEW v \in Workers, pc'[v] \in {"tmp", "rename"}
          PROVE  v # w /\ pc[v] = pc'[v] /\ Rewrites(v) /\ Stem(v) # Stem(w) /\ Stem(v) \in Stems
      <4>1. v # w /\ pc[v] = pc'[v]
        BY <1>9, <3>1
      <4>2. Inside(v)
        BY <3>1, <4>1 DEF Inside
      <4> QED BY <1>8, <3>1, <4>1, <4>2, StemKinds DEF Turns, Copies, Shape
    <3> QED BY <1>5, <3>1
  <2> QED BY <1>1, <1>10, <2>1, RewritesStays DEF Turns, Copies, Temps
<1>13. Grants'
  BY <1>1, <1>6, <1>7 DEF Turns, Grants, Unposted
<1>14. Waiting'
  <2>1. \A v \in Workers : Waits(v)' => v # w /\ Waits(v)
    BY <1>1, <1>9 DEF Waits
  <2>2. \A v \in Workers : Waits(v)' => req[v].id # t /\ Unposted(req[v].id)
    BY <1>1, <2>1 DEF Turns, Waiting
  <2>3. \A v \in Workers : Waits(v)' => Unposted(req[v].id)'
    BY <1>1, <1>7, <2>2 DEF Unposted
  <2> QED BY <1>1, <2>1, <2>3 DEF Turns, Waiting
<1>15. Unused'
  <2>1. t \in used
    BY <1>1 DEF Shape, PastOK, Posts, Waits
  <2> QED BY <1>1, <1>7, <2>1 DEF Turns, Unused, Unposted
<1> QED BY <1>7, <1>11, <1>12, <1>13, <1>14, <1>15 DEF Turns

\* A write that fails: no row is new, and the last one may be lost.
LEMMA PostFailsTurns ==
  ASSUME Shape, Turns, NEW w \in Workers, PostFails(w), ~overlapped'
  PROVE  Turns'
<1>1. /\ Enters(w) /\ Glue(Stem(w), <<>>) /\ Return(w) /\ Meets(w)
      /\ UNCHANGED <<tmp, used, acked, granted>>
  BY DEF PostFails
<1>2. <<>> \in Seq(Entries) /\ Len(<<>>) <= 1 /\ Stem(w) \in Stems
  BY <1>1, StemKinds DEF Shape, Enters
<1>3. /\ \A g \in Stems \ {Stem(w)} : files'[g] = files[g]
      /\ \A i \in DOMAIN files'[Stem(w)] :
           i \in DOMAIN files[Stem(w)] /\ files'[Stem(w)][i] = files[Stem(w)][i]
  BY <1>1, <1>2, GlueRows DEF Shape, DiskOK
<1>4. \A v \in Workers \ {w} : Inside(v) => Stem(v) # Stem(w)
  BY <1>1, EntersAlone
<1>5. /\ pc'[w] = "idle"
      /\ \A v \in Workers \ {w} : pc'[v] = pc[v] /\ req'[v] = req[v] /\ copy'[v] = copy[v]
  BY <1>1, ReturnOK DEF Shape
<1>6. /\ OneEach' /\ \A k : OffBoard(k) => OffBoard(k)'
      /\ \A k : NoPending(k) => NoPending(k)'
  <2>1. \A g \in Stems : \A i \in DOMAIN files'[g] :
          i \in DOMAIN files[g] /\ files'[g][i] = files[g][i]
    BY <1>3
  <2> QED BY <2>1 DEF Turns, OneEach, OffBoard, NoPending
<1>7. \A v \in Workers : Inside(v)' => v # w /\ Inside(v) /\ Stem(v)' = Stem(v)
  BY <1>5 DEF Inside, Stem
<1>8. Alone'
  BY <1>7 DEF Turns, Alone
<1>9. Copies' /\ Temps'
  <2>1. ASSUME NEW v \in Workers, pc'[v] \in {"tmp", "rename"}
        PROVE  /\ v # w /\ pc[v] = pc'[v] /\ Rewrites(v) /\ Stem(v)' = Stem(v)
               /\ files'[Stem(v)] = files[Stem(v)] /\ req'[v] = req[v] /\ copy'[v] = copy[v]
    <3>1. v # w /\ pc[v] = pc'[v] /\ req'[v] = req[v] /\ copy'[v] = copy[v]
      BY <1>5, <2>1
    <3>2. Inside(v) /\ Stem(v)' = Stem(v)
      BY <2>1, <3>1 DEF Inside, Stem
    <3>3. Stem(v) \in Stems /\ Stem(v) # Stem(w)
      BY <1>4, <3>1, <3>2, StemKinds DEF Shape
    <3> QED BY <1>3, <2>1, <3>1, <3>2, <3>3 DEF Turns, Copies
  <2> QED BY <1>1, <2>1, RewritesStays DEF Turns, Copies, Temps
<1>10. Grants' /\ Unused'
  BY <1>1, <1>6 DEF Turns, Grants, Unused, Unposted
<1>11. Waiting'
  <2>1. \A v \in Workers : Waits(v)' => v # w /\ Waits(v) /\ req'[v] = req[v]
    BY <1>5 DEF Waits
  <2> QED BY <1>1, <1>6, <2>1 DEF Turns, Waiting, Unposted
<1> QED BY <1>6, <1>8, <1>9, <1>10, <1>11 DEF Turns

\* Writing the temporary file, in full or in part.
LEMMA WriteTmpTurns ==
  ASSUME Shape, Turns, NEW w \in Workers, WriteTmp(w) \/ WriteTmpFails(w)
  PROVE  Turns' /\ overlapped' = overlapped
<1>1. pc[w] = "tmp" /\ Inside(w) /\ Stem(w) \in Stems
  BY StemKinds DEF WriteTmp, WriteTmpFails, Inside, Shape
<1>2. /\ UNCHANGED <<files, used, acked, granted, overlapped>>
      /\ \A g \in Stems \ {Stem(w)} : tmp'[g] = tmp[g]
  BY DEF WriteTmp, WriteTmpFails, pastVars, Shape, DiskOK
<1>3. /\ \A v \in Workers \ {w} : pc'[v] = pc[v] /\ req'[v] = req[v] /\ copy'[v] = copy[v]
      /\ \/ pc'[w] = "idle"
         \/ /\ pc'[w] = "rename" /\ req'[w] = req[w] /\ copy'[w] = copy[w]
            /\ tmp'[Stem(w)] = copy[w]
  <2>1. CASE WriteTmp(w)
    BY <1>1, <2>1 DEF WriteTmp, Goto, Shape, CallOK, DiskOK
  <2>2. CASE WriteTmpFails(w)
    BY <2>2, ReturnOK DEF WriteTmpFails, Shape
  <2> QED BY <2>1, <2>2
<1>4. \A v \in Workers : Inside(v)' => /\ Inside(v) /\ Stem(v)' = Stem(v)
                                       /\ req'[v] = req[v] /\ copy'[v] = copy[v]
  BY <1>1, <1>3 DEF Inside, Stem
<1>5. Alone' /\ \A v \in Workers \ {w} : Inside(v) => Stem(v) # Stem(w)
  BY <1>1, <1>4 DEF Turns, Alone
<1>6. Temps'
  <2>1. ASSUME NEW v \in Workers, pc'[v] = "rename"
        PROVE  tmp'[Stem(v)'] = copy'[v]
    <3>1. Inside(v)' /\ Inside(v) /\ Stem(v)' = Stem(v) /\ Stem(v) \in Stems
      BY <1>4, <2>1, StemKinds DEF Inside, Shape
    <3>2. CASE v = w
      BY <1>3, <2>1, <3>1, <3>2
    <3>3. CASE v # w
      BY <1>2, <1>3, <1>5, <2>1, <3>1, <3>3 DEF Turns, Temps
    <3> QED BY <3>2, <3>3
  <2> QED BY <2>1 DEF Temps
<1>7. Copies'
  <2>1. \A v \in Workers : pc'[v] \in {"tmp", "rename"} => pc[v] \in {"tmp", "rename"} /\ Inside(v)'
    BY <1>1, <1>3 DEF Inside
  <2> QED BY <1>2, <1>4, <2>1, RewritesStays DEF Turns, Copies
<1>8. \A t : Unposted(t)' <=> Unposted(t)
  BY <1>2 DEF Unposted, OffBoard
<1>9. OneEach' /\ Grants'
  BY <1>2 DEF Turns, OneEach, Grants, NoPending
<1>10. Waiting' /\ Unused'
  <2>1. \A v \in Workers : Waits(v)' => Waits(v) /\ req'[v] = req[v]
    BY <1>3 DEF Waits
  <2> QED BY <1>2, <1>8, <2>1 DEF Turns, Waiting, Unused
<1> QED BY <1>2, <1>5, <1>6, <1>7, <1>9, <1>10 DEF Turns

\* The rename: what the claim hands out was pending until now and is no more.
LEMMA RenameTurns ==
  ASSUME Shape, Turns, NEW w \in Workers, Rename(w)
  PROVE  Turns' /\ overlapped' = overlapped
<1> DEFINE q == files[Stem(w)]
           c == copy[w]
<1>0. PICK t \in Tasks : t = req[w].id
  BY StemKinds DEF Shape
<1>1. /\ Stem(w) \in Stems /\ Inside(w) /\ q \in Seq(Entries) /\ Return(w) /\ UNCHANGED <<used, acked, overlapped>>
  BY StemKinds DEF Rename, Inside, Shape, DiskOK
<1>2. tmp[Stem(w)] = c /\ RewriteOf(q, c, req[w])
  BY DEF Rename, Turns, Temps, Copies, Rewrites
<1>3. /\ files' = [files EXCEPT ![Stem(w)] = c] /\ tmp' = [tmp EXCEPT ![Stem(w)] = NoTmp]
      /\ granted' = IF req[w].op = "claim"
                    THEN [granted EXCEPT ![t] = IF @ = 2 THEN 2 ELSE @ + 1] ELSE granted
  BY <1>0, <1>2 DEF Rename
<1>4. PICK i \in DOMAIN q, s \in {"claimed", "done", "failed"} :
        /\ q[i].id = t /\ c = [q EXCEPT ![i].status = s]
        /\ req[w].op = "claim" => q[i].status = "pending"
  BY <1>0, <1>2 DEF RewriteOf, Best
<1>5. /\ c \in Seq(Entries) /\ Len(c) = Len(q) /\ c[i].status = s
      /\ \A j \in DOMAIN q : c[j].id = q[j].id /\ (j # i => c[j] = q[j])
  <2>1. s \in Statuses
    BY DEF Statuses
  <2> HIDE DEF q, c
  <2> QED BY <1>1, <1>4, <2>1, StatusSet
<1>6. /\ DOMAIN c = DOMAIN q
      /\ \A j \in DOMAIN q : c[j].status = "pending" => q[j].status = "pending"
  <2> HIDE DEF q, c
  <2> QED BY <1>1, <1>5
<1>7. files'[Stem(w)] = c /\ \A g \in Stems \ {Stem(w)} : files'[g] = files[g]
  BY <1>1, <1>3 DEF Shape, DiskOK
<1>8. OneEach' /\ (\A k : OffBoard(k) => OffBoard(k)') /\ \A k : NoPending(k) => NoPending(k)'
  <2> DEFINE N == {}
  <2>1. (\A k \in N : OffBoard(k)) /\ \A k : k \notin N
    OBVIOUS
  <2>2. \A g \in Stems : \A j \in DOMAIN files'[g] :
           /\ j \in DOMAIN files[g] /\ files'[g][j].id = files[g][j].id
           /\ files'[g][j].status = "pending" => files[g][j].status = "pending"
    BY <1>5, <1>6, <1>7
  <2> HIDE DEF N, q, c
  <2>3. /\ OneEach'
        /\ \A k : k \notin N /\ OffBoard(k) => OffBoard(k)'
        /\ \A k : k \notin N /\ NoPending(k) => NoPending(k)'
    BY <1>1, <2>1, <2>2, RowsMove DEF Turns
  <2> QED BY <2>1, <2>3
<1>9. ~OffBoard(t)
  BY <1>1, <1>4 DEF OffBoard
<1>10. NoPending(t)'
  <2>1. i \in DOMAIN files'[Stem(w)] /\ files'[Stem(w)][i].id = t /\ files'[Stem(w)][i].status = s
    BY <1>4, <1>5, <1>6, <1>7
  <2>2. s # "pending"
    BY <1>4
  <2> HIDE DEF q, c
  <2>3. ASSUME NEW g \in Stems, NEW j \in DOMAIN files'[g], files'[g][j].id = t
        PROVE  files'[g][j].status # "pending"
    <3>1. g = Stem(w) /\ j = i
      BY <1>1, <1>8, <2>1, <2>3 DEF OneEach
    <3> QED BY <2>1, <2>2, <3>1
  <2> QED BY <2>3 DEF NoPending
<1>11. req[w].op = "claim" => granted[t] = 0
  <2>1. req[w].op = "claim" => ~NoPending(t)
    BY <1>1, <1>4 DEF NoPending
  <2> QED BY <1>1, <2>1 DEF Turns, Grants
<1>12. /\ \A k \in Tasks \ {t} : granted'[k] = granted[k]
       /\ granted'[t] <= 1
  <2>1. granted \in [Tasks -> 0 .. 2] /\ granted[t] <= 1
    BY <1>1 DEF Shape, PastOK, Turns, Grants
  <2>2. CASE req[w].op = "claim"
    <3>1. granted' = [granted EXCEPT ![t] = IF @ = 2 THEN 2 ELSE @ + 1]
      BY <1>3, <2>2
    <3> HIDE DEF q, c
    <3>2. (IF granted[t] = 2 THEN 2 ELSE granted[t] + 1) = 1
      BY <1>11, <2>2
    <3> QED BY <1>1, <2>1, <3>1, <3>2
  <2>3. CASE req[w].op # "claim"
    BY <1>3, <2>1, <2>3
  <2> QED BY <2>2, <2>3
<1> HIDE DEF q, c
<1>13. Grants'
  <2>1. ASSUME NEW k \in Tasks
        PROVE  granted'[k] <= 1 /\ (granted'[k] # 0 => NoPending(k)')
    <3>1. CASE k = t
      BY <1>10, <1>12, <3>1
    <3>2. CASE k # t
      BY <1>8, <1>12, <2>1, <3>2 DEF Turns, Grants
    <3> QED BY <3>1, <3>2
  <2> QED BY <2>1 DEF Grants
<1>14. \A k \in Tasks : Unposted(k) => Unposted(k)'
  <2>1. ASSUME NEW k \in Tasks, Unposted(k)
        PROVE  Unposted(k)'
    <3>1. k # t
      BY <1>9, <2>1 DEF Unposted
    <3> QED BY <1>8, <1>12, <2>1, <3>1 DEF Unposted
  <2> QED BY <2>1
<1>15. /\ pc'[w] = "idle"
       /\ \A v \in Workers \ {w} : pc'[v] = pc[v] /\ req'[v] = req[v] /\ copy'[v] = copy[v]
  BY <1>1, ReturnOK DEF Shape
<1>16. Waiting'
  <2>1. \A v \in Workers : Waits(v)' => Waits(v) /\ req'[v] = req[v] /\ req[v].id \in Tasks
    BY <1>15, StemKinds DEF Waits, Shape
  <2> QED BY <1>14, <2>1 DEF Turns, Waiting
<1>17. Unused'
  BY <1>1, <1>14 DEF Turns, Unused
<1>18. \A v \in Workers : Inside(v)' => /\ v # w /\ Inside(v) /\ Stem(v)' = Stem(v) /\ pc'[v] = pc[v]
                                        /\ req'[v] = req[v] /\ copy'[v] = copy[v]
  BY <1>15 DEF Inside, Stem
<1>19. \A v \in Workers : Inside(v)' => Stem(v) \in Stems \ {Stem(w)}
  BY <1>1, <1>18, StemKinds DEF Turns, Alone, Shape
<1>20. Alone'
  BY <1>18 DEF Turns, Alone
<1>21. Copies'
  <2>1. ASSUME NEW v \in Workers, pc'[v] \in {"tmp", "rename"}
        PROVE  Rewrites(v)'
    <3>1. Inside(v)'
      BY <2>1 DEF Inside
    <3> QED BY <1>7, <1>18, <1>19, <2>1, <3>1, RewritesStays DEF Turns, Copies
  <2> QED BY <2>1 DEF Copies
<1>22. Temps'
  <2>1. ASSUME NEW v \in Workers, pc'[v] = "rename"
        PROVE  tmp'[Stem(v)'] = copy'[v]
    <3>1. Inside(v)'
      BY <2>1 DEF Inside
    <3>2. tmp'[Stem(v)] = tmp[Stem(v)]
      BY <1>3, <1>19, <3>1 DEF Shape, DiskOK
    <3> QED BY <1>18, <2>1, <3>1, <3>2 DEF Turns, Temps
  <2> QED BY <2>1 DEF Temps
<1> QED BY <1>1, <1>8, <1>13, <1>16, <1>17, <1>20, <1>21, <1>22 DEF Turns

LEMMA StepInTurn == InTurn /\ [Next]_vars => InTurn'
<1> SUFFICES ASSUME Shape, ~overlapped => Turns, [Next]_vars, ~overlapped'
             PROVE  Turns'
  BY StepShape DEF InTurn
<1>1. CASE UNCHANGED vars
  BY <1>1, LookOn DEF vars, diskVars, callVars, pastVars
<1>2. ASSUME NEW p \in Servers, Crash(p)
      PROVE  Turns'
  BY <1>2, CrashShape, LookOn
<1>3. ASSUME NEW w \in Workers, Arrive(w)
      PROVE  Turns'
  BY <1>3, ArriveTurns DEF Arrive, CallPost, CallClaim, CallResult, Call
<1>4. ASSUME NEW w \in Workers, Step(w)
      PROVE  Turns'
  <2>1. CASE PostText(w) \/ PostFails(w) \/ ClaimLoad(w) \/ ResultLoad(w)
    <3>1. Enters(w) /\ Meets(w)
      BY <2>1 DEF PostText, PostFails, ClaimLoad, ResultLoad
    <3>2. Turns
      BY <3>1, EntersAlone
    <3> QED BY <2>1, <3>2, PostTextTurns, PostFailsTurns, LoadTurns
  <2>2. CASE \/ PostNewline(w) \/ NewlineFails(w) \/ ClaimNone(w) \/ FindNothing(w)
             \/ ResultGone(w) \/ RenameFails(w)
    <3>1. Return(w) /\ UNCHANGED <<files, tmp, used, granted, overlapped>>
      BY <2>2 DEF PostNewline, NewlineFails, ClaimNone, FindNothing, ResultGone, RenameFails,
                  diskVars, pastVars
    <3> QED BY <3>1, LeaveTurns
  <2>3. CASE FindChannel(w)
    <3>1. /\ pc'[w] = "lock" /\ req'[w].op = "result"
          /\ \A v \in Workers \ {w} : pc'[v] = pc[v] /\ req'[v] = req[v]
      BY <2>3, FindShape
    <3>2. UNCHANGED <<files, tmp, copy, used, granted, overlapped>>
      BY <2>3 DEF FindChannel, diskVars, pastVars
    <3> QED BY <3>1, <3>2, LookOn
  <2>4. CASE WriteTmp(w) \/ WriteTmpFails(w) \/ Rename(w)
    <3>1. overlapped' = overlapped
      BY <2>4 DEF WriteTmp, WriteTmpFails, Rename, pastVars
    <3> QED BY <2>4, <3>1, WriteTmpTurns, RenameTurns
  <2> QED BY <1>4, <2>1, <2>2, <2>3, <2>4 DEF Step
<1> QED BY <1>1, <1>2, <1>3, <1>4 DEF Next

\* While no two servers have been inside one channel at once, each channel is one worker's at a
\* time, and what it writes back is the file as it is but for its own row (claim_task).
THEOREM InTurnAlways == Spec => []InTurn
BY InitInTurn, StepInTurn, PTL DEF Spec

\* While no two servers have been inside one channel at once, no task is handed
\* to two claimers, whatever writes fail and whichever servers die: what the
\* mutex of each server gives (claim_task), for any number of them.
THEOREM ClaimedInTurnCorrect == Spec => []ClaimedInTurn
<1>1. InTurn => ClaimedInTurn
  BY DEF InTurn, Turns, Grants, ClaimedInTurn, ClaimedOnce
<1> QED BY <1>1, InTurnAlways, PTL

\* Under the same condition no rewrite of a channel's file duplicates a row.
THEOREM RowsUniqueCorrect == Spec => []RowsUnique
<1>1. InTurn => RowsUnique
  BY DEF InTurn, Turns, OneEach, RowsUnique
<1> QED BY <1>1, InTurnAlways, PTL

-----------------------------------------------------------------------------
(* One server, nothing fails *)

On(t, f) == Holds(files[f], t)
Mine(w)  == On(req[w].id, Stem(w))

\* A line that is not complete is being written; a row is on the board from the
\* moment its text is written, acknowledged or found by a result or not.
Written ==
  /\ \A f \in Stems : \/ tail[f] = "complete"
                      \/ \E w \in Workers : pc[w] = "newline" /\ Stem(w) = f
  /\ \A w \in Workers : pc[w] = "newline" => Mine(w)
  /\ \A w \in Workers : pc[w] = "lock" /\ req[w].op = "result" => Mine(w)
  /\ \A t \in acked : \E f \in Stems : On(t, f)

Posted == ~overlapped /\ Written

\* A row written behind complete lines leaves them all.
LEMMA GlueKeeps ==
  ASSUME NEW f \in Stems, NEW row \in Entries, Glue(f, <<row>>),
         files \in [Stems -> Seq(Entries)], tail \in [Stems -> {"complete", "row", "junk"}],
         tail[f] = "complete"
  PROVE  /\ \A t : On(t, f) => On(t, f)'
         /\ Holds(files'[f], row.id)
         /\ \A g \in Stems \ {f} : tail'[g] = tail[g] /\ files'[g] = files[g]
<1> DEFINE q == files[f]
           n == q \o <<row>>
<1>1. /\ files' = [files EXCEPT ![f] = n]
      /\ \A g \in Stems \ {f} : tail'[g] = tail[g]
  BY DEF Glue
<1>2. q \in Seq(Entries)
  OBVIOUS
<1>3. /\ Len(q) \in Nat /\ n \in Seq(Entries) /\ Len(n) = Len(q) + 1 /\ n[Len(q) + 1] = row
      /\ \A i \in 1 .. Len(q) : n[i] = q[i]
  <2> HIDE DEF q
  <2> QED BY <1>2
<1> HIDE DEF n
<1>4. files'[f] = n /\ \A g \in Stems \ {f} : files'[g] = files[g]
  BY <1>1
<1> HIDE DEF q
<1>5. DOMAIN q = 1 .. Len(q) /\ DOMAIN n = 1 .. Len(q) + 1
  BY <1>2, <1>3
<1>6. \E i \in DOMAIN n : n[i].id = row.id
  <2>1. Len(q) + 1 \in DOMAIN n
    BY <1>3, <1>5
  <2> QED BY <1>3, <2>1
<1>7. ASSUME NEW t, \E i \in DOMAIN q : q[i].id = t
      PROVE  \E i \in DOMAIN n : n[i].id = t
  BY <1>3, <1>5, <1>7
<1> USE DEF q
<1>8. Holds(files'[f], row.id)
  BY <1>4, <1>6 DEF Holds
<1>9. \A t : On(t, f) => On(t, f)'
  BY <1>4, <1>7 DEF On, Holds
<1> QED BY <1>1, <1>4, <1>8, <1>9

LEMMA MineStays ==
  ASSUME NEW w \in Workers, Mine(w), req'[w] = req[w], Stem(w) \in Stems,
         \A t : \A f \in Stems : On(t, f) => On(t, f)'
  PROVE  Mine(w)'
<1>1. Stem(w)' = Stem(w)
  BY DEF Stem
<1>2. Holds(files'[Stem(w)], req[w].id)
  BY DEF Mine, On
<1> QED BY <1>1, <1>2 DEF Mine, On

\* Steps that leave the board's rows, and workers that do not come to a place of
\* which Written speaks.
LEMMA WrittenStays ==
  ASSUME Written, CallOK, acked' = acked,
         \A f \in Stems : tail'[f] = tail[f] \/ tail'[f] = "complete",
         \A t : \A f \in Stems : On(t, f) => On(t, f)',
         \A v \in Workers : \/ pc'[v] = pc[v] /\ req'[v] = req[v]
                            \/ pc[v] # "newline" /\ pc'[v] \notin {"lock", "newline"}
                            \/ pc[v] # "newline" /\ pc'[v] = "lock" /\ req'[v].op # "result"
  PROVE  Written'
<1>1. \A v \in Workers : pc[v] = "newline" => pc'[v] = "newline" /\ Stem(v)' = Stem(v)
  BY DEF Stem
<1>2. \A f \in Stems : \/ tail'[f] = "complete"
                       \/ \E w \in Workers : pc'[w] = "newline" /\ Stem(w)' = f
  BY <1>1 DEF Written
<1>3. \A w \in Workers : pc'[w] = "newline" \/ (pc'[w] = "lock" /\ req'[w].op = "result")
        => /\ pc'[w] = pc[w] /\ req'[w] = req[w] /\ Stem(w)' = Stem(w) /\ Stem(w) \in Stems
  BY DEF Stem, CallOK, Inside
<1>4. \A w \in Workers : pc'[w] = "newline" \/ (pc'[w] = "lock" /\ req'[w].op = "result")
        => Mine(w)
  BY <1>3 DEF Written
<1>5. \A w \in Workers : pc'[w] = "newline" \/ (pc'[w] = "lock" /\ req'[w].op = "result")
        => Mine(w)'
  BY <1>3, <1>4, MineStays
<1>6. \A t \in acked' : \E f \in Stems : On(t, f)'
  BY DEF Written
<1> QED BY <1>2, <1>5, <1>6 DEF Written

OnlyServer == \A a, b \in Servers : a = b

LEMMA PostTextWritten ==
  ASSUME Shape, Written, NEW w \in Workers, PostText(w), ~overlapped'
  PROVE  Written'
<1> DEFINE row == [id |-> req[w].id, priority |-> req[w].priority, status |-> "pending"]
<1>1. /\ pc[w] = "lock" /\ Enters(w) /\ Meets(w) /\ Glue(Stem(w), <<row>>) /\ row.id = req[w].id
      /\ Goto(w, "newline") /\ UNCHANGED <<tmp, req, copy, used, acked, granted>>
  BY DEF PostText, Enters
<1>2. row \in Entries
  <2>1. req[w] \in Requests
    BY DEF Shape, CallOK
  <2> QED BY <2>1 DEF Requests, Entries, Statuses
<1> HIDE DEF row
<1>3. Stem(w) \in Stems
  BY <1>1, StemKinds DEF Shape
<1>4. \A v \in Workers \ {w} : Inside(v) => Stem(v) # Stem(w)
  BY <1>1, EntersAlone
<1>5. tail[Stem(w)] = "complete"
  <2>1. \A v \in Workers : pc[v] = "newline" => v # w /\ Inside(v)
    BY <1>1 DEF Inside
  <2> QED BY <1>3, <1>4, <2>1 DEF Written
<1>6. /\ \A t : On(t, Stem(w)) => On(t, Stem(w))'
      /\ Holds(files'[Stem(w)], row.id)
      /\ \A g \in Stems \ {Stem(w)} : tail'[g] = tail[g] /\ files'[g] = files[g]
  <2>1. PICK f \in Stems, r \in Entries : f = Stem(w) /\ r = row
    BY <1>2, <1>3
  <2>2. /\ \A t : On(t, f) => On(t, f)'
        /\ Holds(files'[f], r.id)
        /\ \A g \in Stems \ {f} : tail'[g] = tail[g] /\ files'[g] = files[g]
    BY <1>1, <1>5, <2>1, GlueKeeps DEF Shape, DiskOK
  <2>3. Stem(w)' = Stem(w)
    BY <1>1 DEF Stem
  <2>4. \A t : Holds(files[f], t) => Holds(files'[f], t)
    BY <2>2 DEF On
  <2> QED BY <2>1, <2>2, <2>3, <2>4 DEF On
<1>7. \A t : \A f \in Stems : On(t, f) => On(t, f)'
  <2>1. Stem(w)' = Stem(w)
    BY <1>1 DEF Stem
  <2>2. \A t : Holds(files[Stem(w)], t) => Holds(files'[Stem(w)], t)
    BY <1>6, <2>1 DEF On
  <2> QED BY <1>6, <2>2 DEF On
<1>8. pc'[w] = "newline" /\ \A v \in Workers \ {w} : pc'[v] = pc[v]
  BY <1>1 DEF Goto, Shape, CallOK
<1>9. \A v \in Workers : Stem(v)' = Stem(v)
  BY <1>1 DEF Stem
<1>10. \A f \in Stems : \/ tail'[f] = "complete"
                        \/ \E v \in Workers : pc'[v] = "newline" /\ Stem(v)' = f
  <2>1. ASSUME NEW f \in Stems, tail'[f] # "complete", f # Stem(w)
        PROVE  \E v \in Workers : pc'[v] = "newline" /\ Stem(v)' = f
    <3>1. PICK v \in Workers : pc[v] = "newline" /\ Stem(v) = f
      BY <1>6, <2>1 DEF Written
    <3> QED BY <1>1, <1>8, <1>9, <3>1
  <2> QED BY <1>8, <1>9, <2>1
<1>11. Mine(w)'
  BY <1>1, <1>6, <1>9 DEF Mine, On
<1>12. \A v \in Workers \ {w} : pc'[v] = "newline" \/ (pc'[v] = "lock" /\ req'[v].op = "result")
         => Mine(v)'
  <2>1. ASSUME NEW v \in Workers \ {w}, pc[v] = "newline" \/ (pc[v] = "lock" /\ req[v].op = "result")
        PROVE  Mine(v)'
    <3>1. Mine(v) /\ req'[v] = req[v] /\ Stem(v) \in Stems
      BY <1>1, <2>1, StemKinds DEF Written, Inside, Shape
    <3> QED BY <1>7, <3>1, MineStays
  <2> QED BY <1>1, <1>8, <2>1
<1>13. \A t \in acked' : \E f \in Stems : On(t, f)'
  BY <1>1, <1>7 DEF Written
<1> QED BY <1>1, <1>8, <1>10, <1>11, <1>12, <1>13 DEF Written

LEMMA PostNewlineWritten ==
  ASSUME Shape, Written, NEW w \in Workers, PostNewline(w)
  PROVE  Written'
<1>1. /\ pc[w] = "newline" /\ Return(w) /\ tail' = [tail EXCEPT ![Stem(w)] = "complete"]
      /\ acked' = acked \union {req[w].id} /\ UNCHANGED files
  BY DEF PostNewline
<1>2. Stem(w) \in Stems /\ Mine(w)
  BY <1>1, StemKinds DEF Shape, Inside, Written
<1>3. /\ pc'[w] = "idle"
      /\ \A v \in Workers \ {w} : pc'[v] = pc[v] /\ req'[v] = req[v]
  BY <1>1, ReturnOK DEF Shape
<1>4. /\ tail'[Stem(w)] = "complete" /\ \A f \in Stems \ {Stem(w)} : tail'[f] = tail[f]
  BY <1>1, <1>2 DEF Shape, DiskOK
<1>5. \A t : \A f \in Stems : On(t, f) => On(t, f)'
  BY <1>1 DEF On
<1>6. \A v \in Workers \ {w} : Stem(v)' = Stem(v)
  BY <1>3 DEF Stem
<1>7. \A f \in Stems : \/ tail'[f] = "complete"
                       \/ \E v \in Workers : pc'[v] = "newline" /\ Stem(v)' = f
  <2>1. ASSUME NEW f \in Stems, f # Stem(w), tail[f] # "complete"
        PROVE  \E v \in Workers : pc'[v] = "newline" /\ Stem(v)' = f
    <3>1. PICK v \in Workers : pc[v] = "newline" /\ Stem(v) = f
      BY <2>1 DEF Written
    <3>2. v # w
      BY <2>1, <3>1
    <3> QED BY <1>3, <1>6, <3>1, <3>2
  <2> QED BY <1>4, <2>1
<1>8. \A v \in Workers : pc'[v] = "newline" \/ (pc'[v] = "lock" /\ req'[v].op = "result") => Mine(v)'
  <2>1. ASSUME NEW v \in Workers, v # w, pc[v] = "newline" \/ (pc[v] = "lock" /\ req[v].op = "result")
        PROVE  Mine(v)'
    <3>1. Mine(v) /\ req'[v] = req[v] /\ Stem(v) \in Stems
      BY <1>3, <2>1, StemKinds DEF Written, Inside, Shape
    <3> QED BY <1>5, <3>1, MineStays
  <2> QED BY <1>3, <2>1
<1>9. \A t \in acked' : \E f \in Stems : On(t, f)'
  <2>1. On(req[w].id, Stem(w))
    BY <1>2 DEF Mine
  <2>2. \A t \in acked \union {req[w].id} : \E f \in Stems : On(t, f)
    BY <1>2, <2>1 DEF Written
  <2> QED BY <1>1, <1>5, <2>2
<1> QED BY <1>7, <1>8, <1>9 DEF Written

\* A rewrite leaves every task on the board.
LEMMA RenameWritten ==
  ASSUME Shape, Turns, Written, NEW w \in Workers, Rename(w)
  PROVE  Written'
<1> DEFINE q == files[Stem(w)]
           c == copy[w]
<1>1. /\ Stem(w) \in Stems /\ q \in Seq(Entries) /\ Return(w) /\ pc[w] = "rename"
      /\ UNCHANGED acked /\ files' = [files EXCEPT ![Stem(w)] = c]
      /\ tail' = [tail EXCEPT ![Stem(w)] = "complete"] /\ RewriteOf(q, c, req[w])
  BY StemKinds DEF Rename, Inside, Shape, DiskOK, Turns, Temps, Copies, Rewrites
<1>2. PICK i \in DOMAIN q, s \in {"claimed", "done", "failed"} : c = [q EXCEPT ![i].status = s]
  BY <1>1 DEF RewriteOf
<1>3. DOMAIN c = DOMAIN q /\ \A j \in DOMAIN q : c[j].id = q[j].id
  <2>1. s \in Statuses
    BY DEF Statuses
  <2> HIDE DEF q, c
  <2>2. c \in Seq(Entries) /\ Len(c) = Len(q) /\ \A j \in DOMAIN q : c[j].id = q[j].id
    BY <1>1, <1>2, <2>1, StatusSet
  <2> QED BY <1>1, <2>2
<1>4. files'[Stem(w)] = c /\ \A f \in Stems \ {Stem(w)} : files'[f] = files[f]
  BY <1>1 DEF Shape, DiskOK
<1>5. \A t : \A f \in Stems : On(t, f) => On(t, f)'
  <2>1. \A t : Holds(files[Stem(w)], t) => Holds(files'[Stem(w)], t)
    BY <1>3, <1>4 DEF Holds
  <2>2. \A t : \A f \in Stems : Holds(files[f], t) => Holds(files'[f], t)
    BY <1>4, <2>1
  <2> QED BY <2>2 DEF On
<1>6. /\ pc'[w] = "idle"
      /\ \A v \in Workers \ {w} : pc'[v] = pc[v] /\ req'[v] = req[v]
  BY <1>1, ReturnOK DEF Shape
<1>7. \A f \in Stems : tail'[f] = tail[f] \/ tail'[f] = "complete"
  BY <1>1 DEF Shape, DiskOK
<1> QED BY <1>1, <1>5, <1>6, <1>7, WrittenStays DEF Shape

LEMMA FindWritten ==
  ASSUME Shape, Written, NEW w \in Workers, FindChannel(w)
  PROVE  Written'
<1>1. /\ Shape' /\ pc'[w] = "lock"
      /\ \A v \in Workers \ {w} : pc'[v] = pc[v] /\ req'[v] = req[v]
  BY FindShape
<1>2. UNCHANGED <<files, tail, acked>> /\ pc[w] = "find"
  BY DEF FindChannel, diskVars, pastVars
<1>3. PICK n \in Stems : /\ Holds(Rows(FileOf[n]), req[w].id)
                         /\ req' = [req EXCEPT ![w].name = n]
  BY DEF FindChannel
<1>4. FileOf[n] \in Stems /\ Rows(FileOf[n]) = files[FileOf[n]]
  <2>1. FileOf[n] # NoStem
    BY <1>3 DEF Holds, Rows
  <2> QED BY <2>1, Kinds DEF Rows
<1>5. req'[w].id = req[w].id /\ req'[w].name = n
  <2> DEFINE r == [req[w] EXCEPT !.name = n]
  <2>1. r.id = req[w].id /\ r.name = n
    <3>1. req[w] \in Requests
      BY DEF Shape, CallOK
    <3> QED BY <3>1 DEF Requests
  <2>2. req' = [req EXCEPT ![w] = r]
    BY <1>3
  <2> HIDE DEF r
  <2> QED BY <2>1, <2>2 DEF Shape, CallOK
<1>6. Mine(w)'
  <2>1. Holds(files'[FileOf[n]], req[w].id)
    BY <1>2, <1>3, <1>4
  <2> QED BY <1>5, <2>1 DEF Mine, On, Stem
<1>7. \A t : \A f \in Stems : On(t, f) => On(t, f)'
  BY <1>2 DEF On
<1>8. \A v \in Workers : pc'[v] = "newline" \/ (pc'[v] = "lock" /\ req'[v].op = "result") => Mine(v)'
  <2>1. ASSUME NEW v \in Workers, v # w, pc[v] = "newline" \/ (pc[v] = "lock" /\ req[v].op = "result")
        PROVE  Mine(v)'
    <3>1. Mine(v) /\ req'[v] = req[v] /\ Stem(v) \in Stems
      BY <1>1, <2>1, StemKinds DEF Written, Inside, Shape
    <3> QED BY <1>7, <3>1, MineStays
  <2> QED BY <1>1, <1>6, <2>1
<1>9. \A f \in Stems : \/ tail'[f] = "complete"
                       \/ \E v \in Workers : pc'[v] = "newline" /\ Stem(v)' = f
  <2>1. \A v \in Workers : pc[v] = "newline" => pc'[v] = "newline" /\ Stem(v)' = Stem(v)
    BY <1>1, <1>2 DEF Stem
  <2> QED BY <1>2, <2>1 DEF Written
<1> QED BY <1>2, <1>7, <1>8, <1>9 DEF Written

LEMMA StepPosted ==
  ASSUME Faults = {}, OnlyServer, InTurn, Posted, [Next]_vars
  PROVE  Posted'
<1>1. Shape /\ Turns /\ CallOK /\ Written /\ ~overlapped
  BY DEF InTurn, Posted, Shape
<1>2. \A v, w \in Workers : ServerOf[v] = ServerOf[w]
  BY BoardAssumption DEF OnlyServer
<1>3. \A w \in Workers : Meets(w) => ~overlapped'
  BY <1>1, <1>2, Zenon DEF Meets
<1>4. CASE UNCHANGED vars
  <2>1. UNCHANGED <<files, tail, pc, req, acked, overlapped>>
    BY <1>4 DEF vars, diskVars, callVars, pastVars
  <2>2. \A t : \A f \in Stems : On(t, f) => On(t, f)'
    BY <2>1 DEF On
  <2> QED BY <1>1, <2>1, <2>2, WrittenStays DEF Posted
<1>5. ASSUME NEW w \in Workers, Arrive(w)
      PROVE  Posted'
  <2>1. /\ pc[w] = "idle" /\ UNCHANGED <<files, tail, acked, overlapped>>
        /\ \A v \in Workers \ {w} : pc'[v] = pc[v] /\ req'[v] = req[v]
    BY <1>1, <1>5 DEF Arrive, CallPost, CallClaim, CallResult, Call, Goto, diskVars, CallOK
  <2>2. pc'[w] = "find" \/ (pc'[w] = "lock" /\ req'[w].op # "result")
    <3>1. ASSUME NEW c \in Channels, NEW t \in Tasks, NEW p \in 0 .. MaxPriority, CallPost(w, c, t, p)
          PROVE  pc'[w] = "lock" /\ req'[w].op # "result"
      BY <1>1, <3>1 DEF CallPost, Call, Goto, CallOK
    <3>2. ASSUME NEW c \in Channels, CallClaim(w, c)
          PROVE  pc'[w] = "lock" /\ req'[w].op # "result"
      <4> DEFINE q == [NoRequest EXCEPT !.op = "claim"]
                 r == [q EXCEPT !.name = c]
      <4>1. [NoRequest EXCEPT !.op = "claim", !.name = c] = r
        OBVIOUS
      <4>2. q \in Requests /\ q.op = "claim"
        BY Kinds DEF Requests
      <4> HIDE DEF q
      <4>3. r.op = "claim"
        BY <4>2 DEF Requests
      <4>4. Call(w, r, "lock")
        BY <3>2, <4>1 DEF CallClaim
      <4> HIDE DEF r
      <4> QED BY <1>1, <4>3, <4>4 DEF Call, Goto, CallOK
    <3>3. ASSUME NEW t \in Tasks, NEW o \in {"done", "failed"}, CallResult(w, t, o)
          PROVE  pc'[w] = "find"
      BY <1>1, <3>3 DEF CallResult, Call, Goto, CallOK
    <3> QED BY <1>5, <3>1, <3>2, <3>3 DEF Arrive
  <2>3. \A t : \A f \in Stems : On(t, f) => On(t, f)'
    BY <2>1 DEF On
  <2> QED BY <1>1, <2>1, <2>2, <2>3, WrittenStays DEF Posted
<1>6. ASSUME NEW w \in Workers, Step(w)
      PROVE  Posted'
  <2>1. CASE PostText(w)
    BY <1>1, <1>3, <2>1, PostTextWritten DEF PostText, Posted
  <2>2. CASE PostNewline(w)
    BY <1>1, <2>2, PostNewlineWritten DEF PostNewline, Posted
  <2>3. CASE Rename(w)
    BY <1>1, <2>3, RenameWritten DEF Rename, Posted
  <2>4. CASE FindChannel(w)
    BY <1>1, <2>4, FindWritten DEF FindChannel, pastVars, Posted
  <2>5. CASE ClaimLoad(w) \/ ResultLoad(w)
    <3>1. /\ Meets(w) /\ pc[w] = "lock" /\ pc'[w] = "tmp" /\ UNCHANGED <<files, tail, acked>>
          /\ \A v \in Workers \ {w} : pc'[v] = pc[v] /\ req'[v] = req[v]
      BY <1>1, <2>5, LoadShape DEF Enters
    <3>2. \A t : \A f \in Stems : On(t, f) => On(t, f)'
      BY <3>1 DEF On
    <3> QED BY <1>1, <1>3, <3>1, <3>2, WrittenStays DEF Posted
  <2>6. CASE ClaimNone(w) \/ FindNothing(w) \/ ResultGone(w) \/ RenameFails(w)
    <3>1. Return(w) /\ UNCHANGED <<files, tail, acked, overlapped>> /\ pc[w] # "newline"
      BY <2>6 DEF ClaimNone, FindNothing, ResultGone, RenameFails, Enters, diskVars, pastVars
    <3>2. /\ pc'[w] = "idle"
          /\ \A v \in Workers \ {w} : pc'[v] = pc[v] /\ req'[v] = req[v]
      BY <1>1, <3>1, ReturnOK
    <3>3. \A t : \A f \in Stems : On(t, f) => On(t, f)'
      BY <3>1 DEF On
    <3> QED BY <1>1, <3>1, <3>2, <3>3, WrittenStays DEF Posted
  <2>7. CASE WriteTmp(w)
    <3>1. /\ pc[w] = "tmp" /\ pc'[w] = "rename" /\ UNCHANGED <<files, tail, acked, overlapped>>
          /\ \A v \in Workers \ {w} : pc'[v] = pc[v] /\ req'[v] = req[v]
      BY <1>1, <2>7 DEF WriteTmp, Goto, pastVars, CallOK
    <3>2. \A t : \A f \in Stems : On(t, f) => On(t, f)'
      BY <3>1 DEF On
    <3> QED BY <1>1, <3>1, <3>2, WrittenStays DEF Posted
  <2>8. ~PostFails(w) /\ ~NewlineFails(w) /\ ~WriteTmpFails(w)
    BY DEF PostFails, NewlineFails, WriteTmpFails
  <2> QED BY <1>6, <2>1, <2>2, <2>3, <2>4, <2>5, <2>6, <2>7, <2>8 DEF Step
<1>7. \A p \in Servers : ~Crash(p)
  BY DEF Crash
<1> QED BY <1>4, <1>5, <1>6, <1>7 DEF Next

LEMMA InitPosted == Init => Posted
BY DEF Init, Posted, Written

\* With one server, and as long as nothing fails, a task whose post returned Ok
\* stays on the board (post_task, rewrite_channel).
THEOREM PostedStaysCorrect ==
  ASSUME Faults = {}, OnlyServer
  PROVE  Spec => []PostedStays
<1>1. InTurn /\ Posted /\ [Next]_vars => Posted'
  BY StepPosted
<1>2. Posted => PostedStays
  BY DEF Posted, Written, PostedStays, On
<1> QED BY <1>1, <1>2, InitPosted, InTurnAlways, PTL DEF Spec

\* If, besides, file stems encode to themselves, a result reported for a task on
\* the board finds it (find_channel_for_task, task_result).
THEOREM ResultFindsCorrect ==
  ASSUME Faults = {}, OnlyServer, \A n \in Stems : FileOf[n] = n
  PROVE  Spec => ResultFinds
<1> DEFINE Finds == \A w \in Workers : FindNothing(w) \/ ResultGone(w) => req[w].id \notin acked
<1>1. InTurn /\ Posted /\ [Next]_vars => Posted'
  BY StepPosted
<1>2. ASSUME InTurn, Posted
      PROVE  [Finds]_vars
  <2> SUFFICES ASSUME NEW w \in Workers, FindNothing(w) \/ ResultGone(w), req[w].id \in acked
               PROVE  FALSE
    OBVIOUS
  <2>1. CASE FindNothing(w)
    <3>1. PICK f \in Stems : Holds(files[f], req[w].id)
      BY <1>2 DEF Posted, Written, On
    <3>2. Rows(FileOf[f]) = files[f]
      BY Kinds DEF Rows
    <3> QED BY <2>1, <3>1, <3>2 DEF FindNothing
  <2>2. CASE ResultGone(w)
    <3>1. pc[w] = "lock" /\ req[w].op = "result" /\ ~Holds(Rows(Stem(w)), req[w].id)
      BY <2>2 DEF ResultGone, Enters
    <3>2. Mine(w) /\ Stem(w) \in Stems
      BY <1>2, <3>1, StemKinds DEF Posted, Written, InTurn, Shape
    <3> QED BY <3>1, <3>2, Kinds DEF Mine, On, Rows
  <2> QED BY <2>1, <2>2
<1>3. ResultFinds <=> [][Finds]_vars
  BY PTL DEF ResultFinds
<1> HIDE DEF Finds
<1> QED BY <1>1, <1>2, <1>3, InitPosted, InTurnAlways, PTL DEF Spec

-----------------------------------------------------------------------------
(* One server's board is the queue it promises *)

\* The text of a row is the post: the file's last line is complete and the task is on no board.
LEMMA PostQueues ==
  ASSUME Shape, Turns, Written, NEW w \in Workers, PostText(w), ~overlapped'
  PROVE  Queue!Post(Stem(w))
<1> DEFINE row == [id |-> req[w].id, priority |-> req[w].priority, status |-> "pending"]
           f == Stem(w)
<1>1. /\ pc[w] = "lock" /\ req[w].op = "post" /\ Enters(w) /\ Meets(w) /\ Glue(f, <<row>>)
  BY DEF PostText, Enters
<1>2. row \in Entries /\ row.status = "pending" /\ row.id = req[w].id
  <2>1. req[w] \in Requests
    BY DEF Shape, CallOK
  <2> QED BY <2>1 DEF Requests, Entries, Statuses
<1> HIDE DEF row
<1>3. f \in Stems /\ files[f] \in Seq(Entries)
  BY <1>1, StemKinds DEF Shape, DiskOK
<1>4. tail[f] = "complete"
  <2>1. \A v \in Workers \ {w} : Inside(v) => Stem(v) # f
    BY <1>1, EntersAlone
  <2>2. \A v \in Workers : pc[v] = "newline" => v # w /\ Inside(v)
    BY <1>1 DEF Inside
  <2> QED BY <1>3, <2>1, <2>2 DEF Written
<1>5. files' = [files EXCEPT ![f] = Append(@, row)]
  <2>1. files' = [files EXCEPT ![f] = IF tail[f] = "row" THEN Front(@)
                                      ELSE IF tail[f] = "complete" THEN @ \o <<row>> ELSE @]
    BY <1>1 DEF Glue
  <2>2. files' = [files EXCEPT ![f] = @ \o <<row>>]
    BY <1>4, <2>1
  <2>3. files[f] \o <<row>> = Append(files[f], row)
    BY <1>2, <1>3, AppendIsConcat
  <2> QED BY <2>2, <2>3
<1>6. \A g \in Stems : \A i \in DOMAIN files[g] : files[g][i].id # row.id
  BY <1>1, <1>2 DEF Turns, Waiting, Waits, Unposted, OffBoard
<1>7. row \in Queue!Entries
  BY <1>2 DEF Queue!Entries, Entries, Statuses
<1> QED BY <1>2, <1>5, <1>6, <1>7 DEF Queue!Post

\* The rename is the claim or the result: the copy is the file with one row's status changed.
LEMMA RenameQueues ==
  ASSUME Shape, Turns, NEW w \in Workers, Rename(w)
  PROVE  Queue!Claim(Stem(w)) \/ Queue!Finish(Stem(w))
<1> DEFINE f == Stem(w)
           q == files[f]
<1>1. f \in Stems /\ q \in Seq(Entries)
  BY StemKinds DEF Rename, Inside, Shape, DiskOK
<1>2. tmp[f] = copy[w] /\ RewriteOf(q, copy[w], req[w]) /\ files' = [files EXCEPT ![f] = tmp[f]]
  BY DEF Rename, Turns, Temps, Copies, Rewrites
<1>3. PICK i \in DOMAIN q, s \in {"claimed", "done", "failed"} :
        /\ copy[w] = [q EXCEPT ![i].status = s]
        /\ req[w].op = "claim" => Best(q, i) /\ s = "claimed"
        /\ req[w].op # "claim" => s \in {"done", "failed"}
  BY <1>2 DEF RewriteOf
<1>4. files' = [files EXCEPT ![f][i].status = s]
  BY <1>1, <1>2, <1>3
<1>5. CASE req[w].op = "claim"
  <2>1. Queue!Best(q, i)
    BY <1>3, <1>5 DEF Best, Queue!Best
  <2> QED BY <1>3, <1>4, <1>5, <2>1 DEF Queue!Claim
<1>6. CASE req[w].op # "claim"
  BY <1>3, <1>4, <1>6 DEF Queue!Finish
<1> QED BY <1>5, <1>6

\* With one server and as long as nothing fails, posting, claiming the best pending task and
\* reporting a result each take effect at once, and nothing else changes a channel.
THEOREM QueueCorrect ==
  ASSUME Faults = {}, OnlyServer
  PROVE  Spec => QueueSpec
<1>1. Init => Queue!Init
  BY DEF Init, Queue!Init
<1>2. InTurn /\ Posted /\ [Next]_vars => Posted'
  BY StepPosted
<1>3. ASSUME InTurn, Posted, Posted', [Next]_vars
      PROVE  [Queue!Next]_files
  <2>1. Shape /\ Turns /\ Written /\ ~overlapped'
    BY <1>3 DEF InTurn, Posted
  <2>2. ASSUME NEW w \in Workers, PostText(w) \/ Rename(w)
        PROVE  Queue!Next
    <3>1. Stem(w) \in Stems
      BY <2>1, <2>2, StemKinds DEF PostText, Rename, Enters, Inside, Shape
    <3> QED BY <2>1, <2>2, <3>1, PostQueues, RenameQueues DEF Queue!Next
  <2>3. ASSUME NEW w \in Workers, ~PostText(w), ~Rename(w), Arrive(w) \/ Step(w)
        PROVE  files' = files
    <3>1. ~PostFails(w) /\ ~NewlineFails(w) /\ ~WriteTmpFails(w)
      BY DEF PostFails, NewlineFails, WriteTmpFails
    <3>2. Arrive(w) => files' = files
      BY DEF Arrive, CallPost, CallClaim, CallResult, Call, diskVars
    <3>3. /\ PostNewline(w) \/ WriteTmp(w) => files' = files
          /\ ClaimLoad(w) \/ ClaimNone(w) \/ FindChannel(w) \/ FindNothing(w) \/ ResultLoad(w)
             \/ ResultGone(w) \/ RenameFails(w) => UNCHANGED diskVars
      BY DEF PostNewline, WriteTmp, ClaimLoad, ClaimNone, FindChannel, FindNothing, ResultLoad,
             ResultGone, RenameFails
    <3> QED BY <2>3, <3>1, <3>2, <3>3 DEF Step, diskVars
  <2>4. \A p \in Servers : ~Crash(p)
    BY DEF Crash
  <2>5. UNCHANGED vars => files' = files
    BY DEF vars, diskVars
  <2> QED BY <1>3, <2>2, <2>3, <2>4, <2>5 DEF Next
<1> QED BY <1>1, <1>2, <1>3, InitPosted, InTurnAlways, PTL DEF Spec, QueueSpec, Queue!Spec

-----------------------------------------------------------------------------
(* The OpenAI side of the proxy *)

AskPlaces == {"idle", "fanout", "adapting", "local", "first", "again", "last", "over"}
AskRecords == [at : AskPlaces, kind : {"responses", "chat"}, sid : Sids, plan : 0..MaxPlan,
               lean : BOOLEAN, fellBack : BOOLEAN, answer : Answers \cup {"none", "error", "nobody"}]
TaskStates == {"none", "spawned", "waiting", "ready", "failed", "joined", "aborted"}
ReplyShape ==
  /\ ask \in [Incoming -> AskRecords]
  /\ task \in [Incoming -> [Ordinals -> TaskStates]]
  /\ closure \in [Incoming -> [Ordinals -> {"none", "queued", "adapting", "ended"}]]
  /\ sub = [s \in Sids |-> sub[s]]
  /\ sends = [r \in Incoming |-> sends[r]]

\* The tasks of a request and their closures: a closure that goes on is waited for, or the
\* request has failed; once the fan-out is over every run was joined, or it has failed.
Runs(r) ==
  /\ \A n \in Ordinals :
       /\ task[r][n] \in {"none", "spawned"} => closure[r][n] = "none"
       /\ task[r][n] \in {"ready", "joined"} => closure[r][n] = "ended"
       /\ closure[r][n] \in {"queued", "adapting"} => task[r][n] = "waiting" \/ r \in failed
       /\ task[r][n] \in {"failed", "aborted"} => r \in failed
       /\ task[r][n] # "none" => n <= ask[r].plan
  /\ ask[r].at # "fanout" /\ r \notin failed =>
       \A n \in Ordinals : task[r][n] \in {"none", "joined"}
  /\ ask[r].at = "idle" => \A n \in Ordinals : task[r][n] = "none"

\* What a request's own sub-sessions hold: nothing before it named them its own, and nothing
\* after the fan-out.
Empty(r) == \A n \in Ordinals : sub[r][n] = NoSub
Leaves(r) ==
  /\ ask[r].sid \in {r, Shared}
  /\ ask[r].at = "idle" \/ ask[r].sid # r => Empty(r)
  /\ r \notin failed /\ ask[r].at # "fanout" => Empty(r)

\* What was sent so far, by where the request is: k its record, q its sends.
Sending(body, a) == [body |-> body, is |-> a]
Tried(q) == \E k \in DOMAIN q : q[k].body = "own" /\ q[k].is # "ok"
SendsAs(k, q) ==
  /\ k.at \in {"idle", "fanout", "adapting", "local", "first"} => q = <<>> /\ ~k.fellBack
  /\ k.at = "again" => k.lean /\ k.fellBack /\ q = <<Sending("lean", "network")>>
  /\ k.at = "last" => /\ k.lean
                      /\ \/ q = <<Sending("lean", "bad")>>
                         \/ k.kind = "responses" /\ q = <<Sending("lean", "network"), Sending("own", "bad")>>
  /\ k.at = "over" =>
       /\ k.answer \in {"bad", "error"} /\ (\E i \in DOMAIN q : q[i].body = "lean" /\ q[i].is # "noauth") => Tried(q)
       /\ Len(q) <= IF k.kind = "chat" THEN 2 ELSE 3
       /\ \A i \in DOMAIN q : i < Len(q) => q[i].is \in {"bad", "network"}
       /\ k.answer = "error" => \A i \in DOMAIN q : Failure(q[i].is)

ReplyInv ==
  /\ ReplyShape
  /\ \A r \in Incoming : Runs(r) /\ Leaves(r) /\ SendsAs(ask[r], sends[r])

\* How long short lists of sends are, and what more than the last is in them.
LEMMA ShortSends ==
  ASSUME NEW a, NEW b, NEW c
  PROVE  /\ Len(<<a>>) = 1 /\ DOMAIN <<a>> = {1}
         /\ Len(<<a, b>>) = 2 /\ DOMAIN <<a, b>> = {1, 2} /\ <<a, b>>[1] = a /\ <<a, b>>[2] = b
         /\ Len(<<a, b, c>>) = 3 /\ DOMAIN <<a, b, c>> = {1, 2, 3}
         /\ <<a, b, c>>[1] = a /\ <<a, b, c>>[2] = b /\ <<a, b, c>>[3] = c /\ <<a>>[1] = a
OBVIOUS

\* The invariant is what RelaySound asks, and more.
LEMMA ReplyHolds == ReplyInv => RelaySound
<1> SUFFICES ASSUME ReplyInv PROVE RelaySound
  OBVIOUS
<1>0. /\ ask \in [Incoming -> AskRecords] /\ \A r \in Incoming : Leaves(r) /\ SendsAs(ask[r], sends[r])
      /\ \A r \in Incoming : ask[r].at \in AskPlaces /\ ask[r].kind \in {"responses", "chat"}
  BY DEF ReplyInv, ReplyShape, AskRecords
<1>1. NothingStays
  BY <1>0 DEF Leaves, Empty, NothingStays
<1>2. OwnBodyTried
  BY <1>0 DEF SendsAs, Tried, OwnBodyTried, At
<1>3. SentInMeasure
  <2> SUFFICES ASSUME NEW r \in Incoming
               PROVE  /\ Len(sends[r]) <= IF ask[r].kind = "chat" THEN 2 ELSE 3
                      /\ \A k \in DOMAIN sends[r] : k < Len(sends[r]) => sends[r][k].is \in {"bad", "network"}
    BY DEF SentInMeasure
  <2>1. CASE ask[r].at \in {"idle", "fanout", "adapting", "local", "first"}
    BY <1>0, <2>1 DEF SendsAs
  <2>2. CASE ask[r].at = "again"
    <3>1. sends[r] = <<Sending("lean", "network")>>
      BY <1>0, <2>2 DEF SendsAs
    <3> QED BY <3>1, ShortSends
  <2>3. CASE ask[r].at = "last"
    <3>1. CASE sends[r] = <<Sending("lean", "bad")>>
      BY <3>1, ShortSends
    <3>2. CASE ask[r].kind = "responses" /\ sends[r] = <<Sending("lean", "network"), Sending("own", "bad")>>
      <4>1. sends[r][1].is = "network" /\ Len(sends[r]) = 2 /\ DOMAIN sends[r] = {1, 2}
        BY <3>2, ShortSends DEF Sending
      <4> QED BY <3>2, <4>1
    <3> QED BY <1>0, <2>3, <3>1, <3>2 DEF SendsAs
  <2>4. CASE ask[r].at = "over"
    BY <1>0, <2>4 DEF SendsAs
  <2> QED BY <1>0, <2>1, <2>2, <2>3, <2>4 DEF AskPlaces
<1>4. LastAnswerKept
  BY <1>0 DEF SendsAs, LastAnswerKept, At
<1> QED BY <1>1, <1>2, <1>3, <1>4 DEF RelaySound

\* The invariant holds before the first request.
LEMMA ReplyStart == ReplyInit => ReplyInv
<1> SUFFICES ASSUME ReplyInit PROVE ReplyInv
  OBVIOUS
<1>1. NoReq \in AskRecords /\ NoReq.at = "idle" /\ ~NoReq.fellBack /\ NoReq.sid = Shared
  <2>1. FALSE \in BOOLEAN
    OBVIOUS
  <2> QED BY <2>1, ReplyAssumption DEF NoReq, AskRecords, AskPlaces, Sids
<1>2. ReplyShape
  <2>1. ask \in [Incoming -> AskRecords]
    BY <1>1 DEF ReplyInit
  <2>2. task \in [Incoming -> [Ordinals -> TaskStates]]
    BY DEF ReplyInit, TaskStates
  <2> QED BY <2>1, <2>2 DEF ReplyInit, ReplyShape
<1>3. ASSUME NEW r \in Incoming PROVE Runs(r) /\ Leaves(r) /\ SendsAs(ask[r], sends[r])
  <2>1. ask[r] = NoReq /\ sends[r] = <<>> /\ r \in Sids /\ r # Shared
    BY <1>3, ReplyAssumption DEF ReplyInit, Sids
  <2>2. Runs(r)
    BY <1>1, <1>3, <2>1 DEF ReplyInit, Runs
  <2>3. Leaves(r)
    BY <1>1, <2>1 DEF ReplyInit, Leaves, Empty
  <2>4. SendsAs(ask[r], sends[r])
    BY <1>1, <2>1 DEF SendsAs
  <2> QED BY <2>2, <2>3, <2>4
<1> QED BY <1>2, <1>3 DEF ReplyInv

\* A request that moves on leaves the others as they are, if it leaves their sub-sessions.
LEMMA RestKept ==
  ASSUME ReplyInv, ReplyShape', NEW r \in Incoming,
         \A q \in Incoming \ {r} :
           ask'[q] = ask[q] /\ task'[q] = task[q] /\ closure'[q] = closure[q] /\ sends'[q] = sends[q] /\ sub'[q] = sub[q],
         failed \subseteq failed', failed' \subseteq failed \cup {r},
         Runs(r)', Leaves(r)', SendsAs(ask'[r], sends'[r])
  PROVE  ReplyInv'
<1>1. ASSUME NEW q \in Incoming \ {r} PROVE Runs(q)' /\ Leaves(q)' /\ SendsAs(ask'[q], sends'[q])
  <2>1. Runs(q) /\ Leaves(q) /\ SendsAs(ask[q], sends[q]) /\ (q \in failed' <=> q \in failed)
    BY DEF ReplyInv
  <2>2. Runs(q)'
    BY <2>1 DEF Runs
  <2>3. Leaves(q)'
    BY <2>1 DEF Leaves, Empty
  <2> QED BY <2>1, <2>2, <2>3
<1>2. \A q \in Incoming : Runs(q)' /\ Leaves(q)' /\ SendsAs(ask'[q], sends'[q])
  BY <1>1
<1> HIDE DEF ReplyShape
<1>3. (\A q \in Incoming : SendsAs(ask[q], sends[q]))' <=> \A q \in Incoming : SendsAs(ask'[q], sends'[q])
  BY DEF SendsAs, Sending, Tried, Failure
<1>4. \A q \in Incoming : Runs(q)' /\ Leaves(q)'
  BY <1>2
<1> QED BY <1>2, <1>3, <1>4 DEF ReplyInv

\* Records of a request with a few fields changed.
LEMMA AskChanges ==
  ASSUME NEW k \in AskRecords, NEW a \in AskPlaces, NEW e \in Answers \cup {"none", "error", "nobody"},
         NEW sid \in Sids, NEW posts \in 0..MaxPlan, NEW t \in BOOLEAN
  PROVE  /\ [k EXCEPT !.at = a] \in AskRecords
         /\ [k EXCEPT !.at = a, !.answer = e] \in AskRecords
         /\ [k EXCEPT !.sid = sid, !.at = a, !.answer = e] \in AskRecords
         /\ [k EXCEPT !.sid = sid, !.at = a] \in AskRecords
         /\ [k EXCEPT !.sid = sid, !.plan = posts, !.at = a] \in AskRecords
         /\ [k EXCEPT !.at = a, !.lean = t] \in AskRecords
         /\ [k EXCEPT !.at = a, !.fellBack = t] \in AskRecords
         /\ [k EXCEPT !.kind = "chat", !.at = a] \in AskRecords
BY DEF AskRecords

\* The tasks of a request change; only its own sub-sessions may.
LEMMA FanAction ==
  ASSUME ReplyInv, NEW r \in Incoming, NEW n \in Ordinals,
         Submit(r, n) \/ Open(r, n) \/ Adapt(r, n) \/ AdaptFails(r, n) \/ Join(r, n)
  PROVE  ReplyInv'
<1>0. /\ ask \in [Incoming -> AskRecords] /\ task \in [Incoming -> [Ordinals -> TaskStates]]
      /\ closure \in [Incoming -> [Ordinals -> {"none", "queued", "adapting", "ended"}]]
      /\ sub = [s \in Sids |-> sub[s]] /\ sends = [q \in Incoming |-> sends[q]]
      /\ Runs(r) /\ Leaves(r) /\ SendsAs(ask[r], sends[r])
      /\ r \in Sids /\ r # Shared /\ ask[r].sid \in {r, Shared} /\ Shared \in Sids /\ Shared \notin Incoming
  BY ReplyAssumption DEF ReplyInv, ReplyShape, Leaves, Sids
<1>1. CASE Submit(r, n)
  <2>1. /\ task[r][n] = "spawned" /\ UNCHANGED <<ask, sub, sends, failed>>
        /\ task' = [task EXCEPT ![r][n] = "waiting"] /\ closure' = [closure EXCEPT ![r][n] = "queued"]
    BY <1>1 DEF Submit
  <2>2. ReplyShape'
    BY <1>0, <2>1 DEF ReplyShape, TaskStates
  <2>3. Runs(r)'
    BY <1>0, <2>1 DEF Runs, TaskStates
  <2>4. Leaves(r)'
    BY <1>0, <2>1 DEF Leaves, Empty
  <2>5. \A q \in Incoming \ {r} : task'[q] = task[q] /\ closure'[q] = closure[q]
    BY <1>0, <2>1
  <2> QED BY <1>0, <2>1, <2>2, <2>3, <2>4, <2>5, RestKept
<1>2. CASE Open(r, n)
  <2>1. /\ closure[r][n] = "queued" /\ closure' = [closure EXCEPT ![r][n] = "adapting"]
        /\ sub' = [sub EXCEPT ![ask[r].sid][n] = Opened(@)] /\ UNCHANGED <<ask, task, sends, failed>>
    BY <1>2 DEF Open
  <2>2. ReplyShape'
    BY <1>0, <2>1 DEF ReplyShape
  <2>3. Runs(r)'
    BY <1>0, <2>1 DEF Runs
  <2>4. Leaves(r)'
    <3>1. task[r][n] = "waiting" \/ r \in failed
      BY <1>0, <2>1 DEF Runs
    <3>2. task[r][n] # "none" /\ task[r][n] # "joined"
      BY <1>0, <2>1 DEF Runs
    <3>3. ask[r].at # "idle" /\ (r \in failed \/ ask[r].at = "fanout")
      BY <1>0, <3>1, <3>2 DEF Runs
    <3>4. ask[r].sid # r => sub'[r] = sub[r]
      BY <1>0, <2>1
    <3> QED BY <1>0, <2>1, <3>3, <3>4 DEF Leaves, Empty
  <2>5. \A q \in Incoming \ {r} : sub'[q] = sub[q] /\ closure'[q] = closure[q]
    <3>1. \A q \in Incoming \ {r} : q \in Sids /\ q # ask[r].sid
      BY <1>0 DEF Sids
    <3> QED BY <1>0, <2>1, <3>1
  <2> QED BY <1>0, <2>1, <2>2, <2>3, <2>4, <2>5, RestKept
<1>3. CASE Adapt(r, n)
  <2>1. /\ closure[r][n] = "adapting" /\ closure' = [closure EXCEPT ![r][n] = "ended"]
        /\ task' = [task EXCEPT ![r][n] = IF @ = "waiting" THEN "ready" ELSE @]
        /\ sub' = [sub EXCEPT ![ask[r].sid][n] = IF @ = NoSub THEN NoSub ELSE @ \union {r}]
        /\ UNCHANGED <<ask, sends, failed>>
    BY <1>3 DEF Adapt, Ended
  <2>2. ReplyShape'
    BY <1>0, <2>1 DEF ReplyShape, TaskStates
  <2>3. Runs(r)'
    BY <1>0, <2>1 DEF Runs, TaskStates
  <2>4. Leaves(r)'
    <3>1. task[r][n] = "waiting" \/ r \in failed
      BY <1>0, <2>1 DEF Runs
    <3>2. task[r][n] # "none" /\ task[r][n] # "joined"
      BY <1>0, <2>1 DEF Runs
    <3>3. ask[r].at # "idle" /\ (r \in failed \/ ask[r].at = "fanout")
      BY <1>0, <3>1, <3>2 DEF Runs
    <3>4. ask[r].sid # r => sub'[r] = sub[r]
      BY <1>0, <2>1
    <3> QED BY <1>0, <2>1, <3>3, <3>4 DEF Leaves, Empty
  <2>5. \A q \in Incoming \ {r} : sub'[q] = sub[q] /\ closure'[q] = closure[q] /\ task'[q] = task[q]
    <3>1. \A q \in Incoming \ {r} : q \in Sids /\ q # ask[r].sid
      BY <1>0 DEF Sids
    <3> QED BY <1>0, <2>1, <3>1
  <2> QED BY <1>0, <2>1, <2>2, <2>3, <2>4, <2>5, RestKept
<1>4. CASE AdaptFails(r, n)
  <2>1. /\ closure[r][n] \in {"queued", "adapting"} /\ closure' = [closure EXCEPT ![r][n] = "ended"]
        /\ task' = [task EXCEPT ![r][n] = IF @ = "waiting" THEN "failed" ELSE @]
        /\ failed' = failed \union {r} /\ UNCHANGED <<ask, sub, sends>>
    BY <1>4 DEF AdaptFails, Ended
  <2>2. ReplyShape'
    BY <1>0, <2>1 DEF ReplyShape, TaskStates
  <2>3. Runs(r)'
    BY <1>0, <2>1 DEF Runs, TaskStates
  <2>4. Leaves(r)'
    BY <1>0, <2>1 DEF Leaves, Empty
  <2>5. \A q \in Incoming \ {r} : closure'[q] = closure[q] /\ task'[q] = task[q]
    BY <1>0, <2>1
  <2> QED BY <1>0, <2>1, <2>2, <2>3, <2>4, <2>5, RestKept
<1>5. CASE Join(r, n)
  <2>1. /\ ask[r].at = "fanout" /\ task[r][n] = "ready" /\ UNCHANGED <<ask, closure, sub, sends, failed>>
        /\ \A m \in Ordinals : task'[r][m] = IF m = n THEN "joined"
             ELSE IF m \in Unspawned(r) /\ \A k \in Unspawned(r) : m <= k THEN "spawned" ELSE task[r][m]
        /\ \A q \in Incoming \ {r} : task'[q] = task[q]
    BY <1>0, <1>5 DEF Join, At
  <2>2. ReplyShape'
    <3>1. task' \in [Incoming -> [Ordinals -> TaskStates]]
      BY <1>0, <1>5 DEF Join, TaskStates
    <3> QED BY <1>0, <2>1, <3>1 DEF ReplyShape
  <2>3. Runs(r)'
    <3>1. \A m \in Unspawned(r) : task[r][m] = "none" /\ m <= ask[r].plan
      BY ReplyAssumption DEF Unspawned
    <3> QED BY <1>0, <2>1, <3>1 DEF Runs, TaskStates
  <2>4. Leaves(r)'
    BY <1>0, <2>1 DEF Leaves, Empty
  <2> QED BY <1>0, <2>1, <2>2, <2>3, <2>4, RestKept
<1> QED BY <1>1, <1>2, <1>3, <1>4, <1>5

\* The request moves to a place past the fan-out, or to it, its tasks and sub-sessions as they
\* must be there.
LEMMA AskAction ==
  ASSUME ReplyInv, NEW r \in Incoming,
         (\E sid \in {r, Shared} : Respond(r, sid)) \/ Apply(r) \/ (\E n \in Ordinals : JoinFails(r, n)) \/ Leave(r)
  PROVE  ReplyInv'
<1>0. /\ ask \in [Incoming -> AskRecords] /\ task \in [Incoming -> [Ordinals -> TaskStates]]
      /\ closure \in [Incoming -> [Ordinals -> {"none", "queued", "adapting", "ended"}]]
      /\ sub = [s \in Sids |-> sub[s]] /\ sends = [q \in Incoming |-> sends[q]]
      /\ Runs(r) /\ Leaves(r) /\ SendsAs(ask[r], sends[r])
      /\ r \in Sids /\ r # Shared /\ ask[r].sid \in {r, Shared} /\ Shared \in Sids /\ Shared \notin Incoming
  BY ReplyAssumption DEF ReplyInv, ReplyShape, Leaves, Sids
<1>k. ask[r] \in AskRecords /\ ask[r].at \in AskPlaces
  BY <1>0 DEF AskRecords
<1>1. ASSUME NEW sid \in {r, Shared}, Respond(r, sid) PROVE ReplyInv'
  <2>0. ask[r].at = "idle" /\ UNCHANGED <<closure, sub, sends, failed>> /\ sid \in Sids
    BY <1>0, <1>1 DEF Respond, At
  <2>1. /\ \A n \in Ordinals : task[r][n] = "none" /\ closure[r][n] = "none"
        /\ Empty(r) /\ sends[r] = <<>> /\ ~ask[r].fellBack
    BY <1>0, <2>0 DEF Runs, Leaves, SendsAs
  <2>2. CASE ask' = [ask EXCEPT ![r].sid = sid, ![r].at = "over", ![r].answer = "error"] /\ UNCHANGED task
    <3>1. ask' = [ask EXCEPT ![r] = [ask[r] EXCEPT !.sid = sid, !.at = "over", !.answer = "error"]]
      BY <1>0, <2>2
    <3>2. [ask[r] EXCEPT !.sid = sid, !.at = "over", !.answer = "error"] \in AskRecords
      BY <1>k, <2>0 DEF AskRecords, AskPlaces
    <3>3. /\ ask' \in [Incoming -> AskRecords] /\ \A q \in Incoming \ {r} : ask'[q] = ask[q]
          /\ ask'[r].at = "over" /\ ask'[r].sid = sid
      BY <1>0, <1>k, <3>1, <3>2 DEF AskRecords
    <3>4. ReplyShape'
      BY <1>0, <2>0, <2>2, <3>3 DEF ReplyShape
    <3>5. Runs(r)'
      BY <2>0, <2>1, <2>2, <3>3 DEF Runs
    <3>6. Leaves(r)'
      BY <1>1, <2>0, <2>1, <3>3 DEF Leaves, Empty
    <3>7. SendsAs(ask'[r], sends'[r])
      BY <2>0, <2>1, <3>3 DEF SendsAs
    <3> QED BY <1>0, <2>0, <2>2, <3>3, <3>4, <3>5, <3>6, <3>7, RestKept
  <2>3. CASE ask' = [ask EXCEPT ![r].sid = sid, ![r].at = "first"] /\ UNCHANGED task
    <3>1. ask' = [ask EXCEPT ![r] = [ask[r] EXCEPT !.sid = sid, !.at = "first"]]
      BY <1>0, <2>3
    <3>2. [ask[r] EXCEPT !.sid = sid, !.at = "first"] \in AskRecords
      BY <1>k, <2>0 DEF AskRecords, AskPlaces
    <3>3. /\ ask' \in [Incoming -> AskRecords] /\ \A q \in Incoming \ {r} : ask'[q] = ask[q]
          /\ ask'[r].at = "first" /\ ask'[r].sid = sid /\ ask'[r].fellBack = ask[r].fellBack
      BY <1>0, <1>k, <3>1, <3>2 DEF AskRecords
    <3>4. ReplyShape'
      BY <1>0, <2>0, <2>3, <3>3 DEF ReplyShape
    <3>5. Runs(r)'
      BY <2>0, <2>1, <2>3, <3>3 DEF Runs
    <3>6. Leaves(r)'
      BY <1>1, <2>0, <2>1, <3>3 DEF Leaves, Empty
    <3>7. SendsAs(ask'[r], sends'[r])
      BY <2>0, <2>1, <3>3 DEF SendsAs
    <3> QED BY <1>0, <2>0, <2>3, <3>3, <3>4, <3>5, <3>6, <3>7, RestKept
  <2>4. ASSUME NEW posts \in Ordinals,
               ask' = [ask EXCEPT ![r].sid = sid, ![r].plan = posts, ![r].at = "fanout"],
               task' = [task EXCEPT ![r] = [n \in Ordinals |-> IF n <= posts /\ n <= Width THEN "spawned" ELSE "none"]]
        PROVE ReplyInv'
    <3>0. posts \in 0..MaxPlan
      BY ReplyAssumption DEF Ordinals
    <3>1. ask' = [ask EXCEPT ![r] = [ask[r] EXCEPT !.sid = sid, !.plan = posts, !.at = "fanout"]]
      BY <1>0, <2>4
    <3>2. [ask[r] EXCEPT !.sid = sid, !.plan = posts, !.at = "fanout"] \in AskRecords
      BY <1>k, <2>0, <3>0 DEF AskRecords, AskPlaces
    <3>3. /\ ask' \in [Incoming -> AskRecords] /\ \A q \in Incoming \ {r} : ask'[q] = ask[q]
          /\ ask'[r].at = "fanout" /\ ask'[r].sid = sid /\ ask'[r].plan = posts /\ ask'[r].fellBack = ask[r].fellBack
      BY <1>0, <1>k, <3>1, <3>2 DEF AskRecords
    <3>8. /\ task' \in [Incoming -> [Ordinals -> TaskStates]] /\ \A q \in Incoming \ {r} : task'[q] = task[q]
          /\ \A n \in Ordinals : task'[r][n] = IF n <= posts /\ n <= Width THEN "spawned" ELSE "none"
      BY <1>0, <2>4 DEF TaskStates
    <3>4. ReplyShape'
      BY <1>0, <2>0, <3>3, <3>8 DEF ReplyShape
    <3>5. Runs(r)'
      BY <2>0, <2>1, <3>3, <3>8 DEF Runs
    <3>6. Leaves(r)'
      BY <1>1, <2>0, <2>1, <3>3 DEF Leaves, Empty
    <3>7. SendsAs(ask'[r], sends'[r])
      BY <2>0, <2>1, <3>3 DEF SendsAs
    <3> QED BY <1>0, <2>0, <3>3, <3>4, <3>5, <3>6, <3>7, <3>8, RestKept
  <2> QED BY <1>1, <2>2, <2>3, <2>4 DEF Respond
<1>c. ASSUME Cleanup(r)
      PROVE  /\ ask[r].sid = r => \A n \in Ordinals : sub'[r][n] = NoSub
             /\ ask[r].sid # r => sub'[r] = sub[r]
             /\ \A q \in Incoming \ {r} : sub'[q] = sub[q]
             /\ sub' = [s \in Sids |-> sub'[s]]
  <2>1. CASE ask[r].sid = r
    <3>1. sub' = [sub EXCEPT ![r] = [n \in Ordinals |-> NoSub]]
      BY <1>c, <2>1 DEF Cleanup, Transient
    <3> QED BY <1>0, <2>1, <3>1 DEF Sids
  <2>2. CASE ask[r].sid # r
    <3>1. sub' = sub
      BY <1>c, <2>2 DEF Cleanup, Transient
    <3> QED BY <1>0, <2>2, <3>1
  <2> QED BY <2>1, <2>2
<1>2. CASE Apply(r)
  <2>0. /\ ask[r].at = "fanout" /\ UNCHANGED <<task, closure, sends, failed>> /\ Cleanup(r)
        /\ \A n \in 1 .. ask[r].plan : task[r][n] = "joined"
    BY <1>2 DEF Apply, At
  <2>c. /\ ask[r].sid = r => \A n \in Ordinals : sub'[r][n] = NoSub
        /\ ask[r].sid # r => sub'[r] = sub[r]
        /\ \A q \in Incoming \ {r} : sub'[q] = sub[q]
        /\ sub' = [s \in Sids |-> sub'[s]]
    BY <1>c, <2>0
  <2>1. PICK lean \in BOOLEAN : ask' = [ask EXCEPT ![r].at = "first", ![r].lean = lean]
    BY <1>2 DEF Apply
  <2>2. ask' = [ask EXCEPT ![r] = [ask[r] EXCEPT !.at = "first", !.lean = lean]]
    BY <1>0, <2>1
  <2>3. [ask[r] EXCEPT !.at = "first", !.lean = lean] \in AskRecords
    BY <1>k DEF AskRecords, AskPlaces
  <2>4. /\ ask' \in [Incoming -> AskRecords] /\ \A q \in Incoming \ {r} : ask'[q] = ask[q]
        /\ ask'[r].at = "first" /\ ask'[r].sid = ask[r].sid /\ ask'[r].plan = ask[r].plan
        /\ ask'[r].fellBack = ask[r].fellBack
    BY <1>0, <1>k, <2>2, <2>3 DEF AskRecords
  <2>5. ReplyShape'
    BY <1>0, <2>c, <2>0, <2>4 DEF ReplyShape
  <2>6. Runs(r)'
    <3>1. \A n \in Ordinals : task[r][n] \in {"none", "joined"}
      <4> SUFFICES ASSUME NEW n \in Ordinals, task[r][n] # "none" PROVE task[r][n] = "joined"
        OBVIOUS
      <4>1. n <= ask[r].plan /\ n \in 1 .. MaxPlan /\ ask[r].plan \in 0..MaxPlan
        BY <1>0, <1>k DEF Runs, Ordinals, AskRecords
      <4>2. n \in 1 .. ask[r].plan
        BY <4>1, ReplyAssumption
      <4> QED BY <2>0, <4>2
    <3> QED BY <1>0, <2>0, <2>4, <3>1 DEF Runs
  <2>7. Leaves(r)'
    BY <1>0, <2>c, <2>0, <2>4 DEF Leaves, Empty
  <2>8. SendsAs(ask'[r], sends'[r])
    BY <1>0, <2>0, <2>4 DEF SendsAs
  <2> QED BY <1>0, <2>c, <2>0, <2>4, <2>5, <2>6, <2>7, <2>8, RestKept
<1>a. ASSUME task' = [task EXCEPT ![r] = Aborted(@)]
      PROVE  /\ task' \in [Incoming -> [Ordinals -> TaskStates]] /\ \A q \in Incoming \ {r} : task'[q] = task[q]
             /\ \A n \in Ordinals : task'[r][n] = IF task[r][n] \in {"spawned", "waiting", "ready"} THEN "aborted" ELSE task[r][n]
  BY <1>0, <1>a DEF Aborted, TaskStates
<1>3. ASSUME NEW n \in Ordinals, JoinFails(r, n) PROVE ReplyInv'
  <2>0. /\ ask[r].at = "fanout" /\ task[r][n] = "failed" /\ Cleanup(r) /\ UNCHANGED <<closure, sends, failed>>
        /\ task' = [task EXCEPT ![r] = Aborted(@)] /\ ask' = [ask EXCEPT ![r].at = "first"]
    BY <1>3 DEF JoinFails, At, GoTo
  <2>c. /\ ask[r].sid = r => \A k \in Ordinals : sub'[r][k] = NoSub
        /\ ask[r].sid # r => sub'[r] = sub[r]
        /\ \A q \in Incoming \ {r} : sub'[q] = sub[q]
        /\ sub' = [s \in Sids |-> sub'[s]]
    BY <1>c, <2>0
  <2>b. /\ task' \in [Incoming -> [Ordinals -> TaskStates]] /\ \A q \in Incoming \ {r} : task'[q] = task[q]
        /\ \A m \in Ordinals : task'[r][m] = IF task[r][m] \in {"spawned", "waiting", "ready"} THEN "aborted" ELSE task[r][m]
    BY <1>a, <2>0
  <2>1. r \in failed
    BY <1>0, <2>0 DEF Runs
  <2>2. ask' = [ask EXCEPT ![r] = [ask[r] EXCEPT !.at = "first"]]
    BY <1>0, <2>0
  <2>3. [ask[r] EXCEPT !.at = "first"] \in AskRecords
    BY <1>k DEF AskRecords, AskPlaces
  <2>4. /\ ask' \in [Incoming -> AskRecords] /\ \A q \in Incoming \ {r} : ask'[q] = ask[q]
        /\ ask'[r].at = "first" /\ ask'[r].sid = ask[r].sid /\ ask'[r].plan = ask[r].plan
        /\ ask'[r].fellBack = ask[r].fellBack
    BY <1>0, <1>k, <2>2, <2>3 DEF AskRecords
  <2>5. ReplyShape'
    BY <1>0, <2>b, <2>c, <2>0, <2>4 DEF ReplyShape
  <2>6. Runs(r)'
    BY <1>0, <2>b, <2>0, <2>1, <2>4 DEF Runs, TaskStates
  <2>7. Leaves(r)'
    BY <1>0, <1>c, <2>0, <2>1, <2>4 DEF Leaves, Empty
  <2>8. SendsAs(ask'[r], sends'[r])
    BY <1>0, <2>0, <2>4 DEF SendsAs
  <2> QED BY <1>0, <2>b, <2>c, <2>0, <2>4, <2>5, <2>6, <2>7, <2>8, RestKept
<1>4. CASE Leave(r)
  <2>0. /\ ask[r].at \notin {"idle", "over"} /\ UNCHANGED <<closure, sub, sends>>
        /\ task' = [task EXCEPT ![r] = Aborted(@)] /\ ask' = [ask EXCEPT ![r].at = "over", ![r].answer = "nobody"]
        /\ failed' = IF ask[r].at = "fanout" THEN failed \union {r} ELSE failed
    BY <1>4 DEF Leave, At, Over
  <2>b. /\ task' \in [Incoming -> [Ordinals -> TaskStates]] /\ \A q \in Incoming \ {r} : task'[q] = task[q]
        /\ \A m \in Ordinals : task'[r][m] = IF task[r][m] \in {"spawned", "waiting", "ready"} THEN "aborted" ELSE task[r][m]
    BY <1>a, <2>0
  <2>2. ask' = [ask EXCEPT ![r] = [ask[r] EXCEPT !.at = "over", !.answer = "nobody"]]
    BY <1>0, <2>0
  <2>3. [ask[r] EXCEPT !.at = "over", !.answer = "nobody"] \in AskRecords
    BY <1>k DEF AskRecords, AskPlaces
  <2>4. /\ ask' \in [Incoming -> AskRecords] /\ \A q \in Incoming \ {r} : ask'[q] = ask[q]
        /\ ask'[r].at = "over" /\ ask'[r].sid = ask[r].sid /\ ask'[r].plan = ask[r].plan
        /\ ask'[r].answer = "nobody" /\ ask'[r].kind = ask[r].kind
    BY <1>0, <1>k, <2>2, <2>3 DEF AskRecords
  <2>5. ReplyShape'
    BY <1>0, <2>b, <2>0, <2>4 DEF ReplyShape
  <2>6. Runs(r)'
    <3>1. \A m \in Ordinals : task[r][m] \in {"spawned", "waiting", "ready"} => r \in failed'
      BY <1>0, <2>0 DEF Runs
    <3>2. r \in failed => r \in failed'
      BY <2>0
    <3>3. \A m \in Ordinals :
            /\ task'[r][m] \in {"none", "spawned"} => closure'[r][m] = "none"
            /\ task'[r][m] \in {"ready", "joined"} => closure'[r][m] = "ended"
            /\ closure'[r][m] \in {"queued", "adapting"} => task'[r][m] = "waiting" \/ r \in failed'
            /\ task'[r][m] \in {"failed", "aborted"} => r \in failed'
            /\ task'[r][m] # "none" => m <= ask'[r].plan
      <4> SUFFICES ASSUME NEW m \in Ordinals
                   PROVE  /\ task'[r][m] \in {"none", "spawned"} => closure'[r][m] = "none"
                          /\ task'[r][m] \in {"ready", "joined"} => closure'[r][m] = "ended"
                          /\ closure'[r][m] \in {"queued", "adapting"} => task'[r][m] = "waiting" \/ r \in failed'
                          /\ task'[r][m] \in {"failed", "aborted"} => r \in failed'
                          /\ task'[r][m] # "none" => m <= ask'[r].plan
        OBVIOUS
      <4>1. /\ task[r][m] \in {"none", "spawned"} => closure[r][m] = "none"
            /\ task[r][m] \in {"ready", "joined"} => closure[r][m] = "ended"
            /\ closure[r][m] \in {"queued", "adapting"} => task[r][m] = "waiting" \/ r \in failed
            /\ task[r][m] \in {"failed", "aborted"} => r \in failed
            /\ task[r][m] # "none" => m <= ask[r].plan
        BY <1>0 DEF Runs
      <4>2. task'[r][m] = IF task[r][m] \in {"spawned", "waiting", "ready"} THEN "aborted" ELSE task[r][m]
        BY <2>b
      <4> QED BY <2>0, <2>4, <3>1, <3>2, <4>1, <4>2
    <3>4. r \notin failed' => \A m \in Ordinals : task'[r][m] \in {"none", "joined"}
      BY <1>0, <2>b, <2>0, <3>1, <3>2 DEF Runs
    <3> QED BY <2>4, <3>3, <3>4 DEF Runs
  <2>7. Leaves(r)'
    BY <1>0, <2>0, <2>4 DEF Leaves, Empty
  <2>8. SendsAs(ask'[r], sends'[r])
    <3>1. /\ Len(sends[r]) <= IF ask[r].kind = "chat" THEN 2 ELSE 3
          /\ \A i \in DOMAIN sends[r] : i < Len(sends[r]) => sends[r][i].is \in {"bad", "network"}
      BY ReplyHolds DEF RelaySound, SentInMeasure
    <3> QED BY <2>0, <2>4, <3>1 DEF SendsAs
  <2> QED BY <1>0, <2>b, <2>0, <2>4, <2>5, <2>6, <2>7, <2>8, RestKept
<1> QED BY <1>1, <1>2, <1>3, <1>4

\* What is asked before anything is sent, and what is sent: the fan-out is over, or was none.
LEMMA SendAction ==
  ASSUME ReplyInv, NEW r \in Incoming, NEW x \in AskRecords,
         ask' = [ask EXCEPT ![r] = x], x.sid = ask[r].sid, x.plan = ask[r].plan,
         ask[r].at # "fanout", x.at \notin {"idle", "fanout"},
         UNCHANGED <<task, closure, sub, failed>>, sends' = [sends EXCEPT ![r] = sends'[r]],
         SendsAs(x, sends'[r])
  PROVE  ReplyInv'
<1>0. /\ ask \in [Incoming -> AskRecords] /\ sends = [q \in Incoming |-> sends[q]]
      /\ ReplyShape /\ Runs(r) /\ Leaves(r)
  BY DEF ReplyInv, ReplyShape
<1>1. /\ ask' \in [Incoming -> AskRecords] /\ ask'[r] = x /\ \A q \in Incoming \ {r} : ask'[q] = ask[q]
      /\ sends' = [q \in Incoming |-> sends'[q]] /\ \A q \in Incoming \ {r} : sends'[q] = sends[q]
  BY <1>0
<1>2. ReplyShape'
  BY <1>0, <1>1 DEF ReplyShape
<1>3. Runs(r)'
  BY <1>0, <1>1 DEF Runs
<1>4. Leaves(r)'
  BY <1>0, <1>1 DEF Leaves, Empty
<1>5. SendsAs(ask'[r], sends'[r])
  BY <1>1
<1> QED BY <1>1, <1>2, <1>3, <1>4, <1>5, RestKept

\* A place before anything is sent, or after.
LEMMA ChatAction ==
  ASSUME ReplyInv, NEW r \in Incoming, (\E heavy \in BOOLEAN : Chat(r, heavy)) \/ AdaptChat(r) \/ Local(r)
  PROVE  ReplyInv'
<1>0. /\ ask \in [Incoming -> AskRecords] /\ ask[r] \in AskRecords /\ SendsAs(ask[r], sends[r])
      /\ sends = [q \in Incoming |-> sends[q]]
  BY DEF ReplyInv, ReplyShape
<1>f. /\ UNCHANGED <<task, closure, sub, sends, failed>> /\ ask[r].at \in {"idle", "adapting", "local"}
      /\ sends'[r] = <<>> /\ sends' = [sends EXCEPT ![r] = sends'[r]] /\ ~ask[r].fellBack /\ ask[r].at # "fanout"
  BY <1>0 DEF Chat, AdaptChat, Local, At, SendsAs
<1>1. ASSUME NEW heavy \in BOOLEAN, Chat(r, heavy) PROVE ReplyInv'
  <2>1. PICK a \in {"adapting", "local"} : ask' = [ask EXCEPT ![r].kind = "chat", ![r].at = a]
    BY <1>1 DEF Chat
  <2>2. PICK x : x = [ask[r] EXCEPT !.kind = "chat", !.at = a]
    OBVIOUS
  <2>3. x \in AskRecords /\ x.at = a /\ x.sid = ask[r].sid /\ x.plan = ask[r].plan /\ x.fellBack = ask[r].fellBack
    BY <1>0, <2>1, <2>2 DEF AskRecords, AskPlaces
  <2>4. ask' = [ask EXCEPT ![r] = x]
    BY <1>0, <2>1, <2>2
  <2>5. SendsAs(x, sends'[r])
    BY <1>f, <2>1, <2>3 DEF SendsAs
  <2> QED BY <1>f, <2>1, <2>3, <2>4, <2>5, SendAction
<1>o. ASSUME NEW e \in {"ok", "error"}, ask' = [ask EXCEPT ![r].at = "over", ![r].answer = e] PROVE ReplyInv'
  <2>2. PICK x : x = [ask[r] EXCEPT !.at = "over", !.answer = e]
    OBVIOUS
  <2>3. x \in AskRecords /\ x.at = "over" /\ x.sid = ask[r].sid /\ x.plan = ask[r].plan
    BY <1>0, <2>2 DEF AskRecords, AskPlaces, Answers
  <2>4. ask' = [ask EXCEPT ![r] = x]
    BY <1>0, <1>o, <2>2
  <2>5. SendsAs(x, sends'[r])
    BY <1>f, <2>3 DEF SendsAs
  <2> QED BY <1>f, <2>3, <2>4, <2>5, SendAction
<1>g. ASSUME NEW t \in BOOLEAN, NEW a \in {"local", "first"}, ask' = [ask EXCEPT ![r] = [ask[r] EXCEPT !.at = a, !.lean = t]] PROVE ReplyInv'
  <2>2. PICK x : x = [ask[r] EXCEPT !.at = a, !.lean = t]
    OBVIOUS
  <2>3. x \in AskRecords /\ x.at = a /\ x.sid = ask[r].sid /\ x.plan = ask[r].plan /\ x.fellBack = ask[r].fellBack
    BY <1>0, <2>2 DEF AskRecords, AskPlaces
  <2>4. ask' = [ask EXCEPT ![r] = x]
    BY <1>g, <2>2
  <2>5. SendsAs(x, sends'[r])
    BY <1>f, <2>3 DEF SendsAs
  <2> QED BY <1>f, <2>3, <2>4, <2>5, SendAction
<1>2. CASE AdaptChat(r)
  <2>1. CASE Over(r, "error")
    BY <1>o, <2>1 DEF Over
  <2>2. CASE ask' = [ask EXCEPT ![r].at = "local", ![r].lean = TRUE]
    <3>1. ask' = [ask EXCEPT ![r] = [ask[r] EXCEPT !.at = "local", !.lean = TRUE]]
      BY <1>0, <2>2
    <3> QED BY <1>g, <3>1
  <2> QED BY <1>2, <2>1, <2>2 DEF AdaptChat
<1>3. CASE Local(r)
  <2>1. CASE Over(r, "ok") \/ Over(r, "error")
    BY <1>o, <2>1 DEF Over
  <2>2. CASE GoTo(r, "first")
    <3>1. ask' = [ask EXCEPT ![r] = [ask[r] EXCEPT !.at = "first"]]
      BY <1>0, <2>2 DEF GoTo
    <3>2. [ask[r] EXCEPT !.at = "first"] = [ask[r] EXCEPT !.at = "first", !.lean = ask[r].lean] /\ ask[r].lean \in BOOLEAN
      BY <1>0 DEF AskRecords
    <3> QED BY <1>g, <3>1, <3>2
  <2> QED BY <1>3, <2>1, <2>2 DEF Local
<1> QED BY <1>1, <1>2, <1>3

\* A list of sends with one more.
LEMMA MoreSends ==
  ASSUME NEW a, NEW b, NEW c
  PROVE  /\ Append(<<>>, a) = <<a>> /\ Append(<<a>>, b) = <<a, b>> /\ Append(<<a, b>>, c) = <<a, b, c>>
<1>1. Append(<<>>, a) = <<a>>
  <2>1. <<>> \in Seq({a}) /\ <<a>> \in Seq({a}) /\ a \in {a} /\ Len(<<>>) = 0 /\ Len(<<a>>) = 1 /\ <<a>>[1] = a
    OBVIOUS
  <2>2. Append(<<>>, a) \in Seq({a}) /\ Len(Append(<<>>, a)) = 1 /\ Append(<<>>, a)[1] = a
    BY <2>1, AppendProperties
  <2>3. \A i \in 1 .. Len(Append(<<>>, a)) : Append(<<>>, a)[i] = <<a>>[i]
    BY <2>1, <2>2
  <2> QED BY <2>1, <2>2, <2>3, SeqEqual
<1>2. Append(<<a>>, b) = <<a, b>>
  <2>1. /\ <<a>> \in Seq({a, b}) /\ <<a, b>> \in Seq({a, b}) /\ b \in {a, b} /\ Len(<<a>>) = 1 /\ Len(<<a, b>>) = 2
        /\ <<a>>[1] = a /\ <<a, b>>[1] = a /\ <<a, b>>[2] = b
    OBVIOUS
  <2>2. /\ Append(<<a>>, b) \in Seq({a, b}) /\ Len(Append(<<a>>, b)) = 2
        /\ Append(<<a>>, b)[1] = a /\ Append(<<a>>, b)[2] = b
    BY <2>1, AppendProperties
  <2>3. \A i \in 1 .. Len(Append(<<a>>, b)) : Append(<<a>>, b)[i] = <<a, b>>[i]
    BY <2>1, <2>2
  <2> QED BY <2>1, <2>2, <2>3, SeqEqual
<1>3. Append(<<a, b>>, c) = <<a, b, c>>
  <2>1. /\ <<a, b>> \in Seq({a, b, c}) /\ <<a, b, c>> \in Seq({a, b, c}) /\ c \in {a, b, c}
        /\ Len(<<a, b>>) = 2 /\ Len(<<a, b, c>>) = 3 /\ <<a, b>>[1] = a /\ <<a, b>>[2] = b
        /\ <<a, b, c>>[1] = a /\ <<a, b, c>>[2] = b /\ <<a, b, c>>[3] = c
    OBVIOUS
  <2>2. /\ Append(<<a, b>>, c) \in Seq({a, b, c}) /\ Len(Append(<<a, b>>, c)) = 3
        /\ Append(<<a, b>>, c)[1] = a /\ Append(<<a, b>>, c)[2] = b /\ Append(<<a, b>>, c)[3] = c
    BY <2>1, AppendProperties
  <2>3. \A i \in 1 .. Len(Append(<<a, b>>, c)) : Append(<<a, b>>, c)[i] = <<a, b, c>>[i]
    BY <2>1, <2>2
  <2> QED BY <2>1, <2>2, <2>3, SeqEqual
<1> QED BY <1>1, <1>2, <1>3

\* What a request is when its answer is there.
LEMMA AnsweredFacts ==
  ASSUME ReplyInv, NEW r \in Incoming, NEW e \in Answers \cup {"error"},
         ask' = [ask EXCEPT ![r].at = "over", ![r].answer = e]
  PROVE  \E x \in AskRecords :
           /\ ask' = [ask EXCEPT ![r] = x] /\ x.at = "over" /\ x.answer = e
           /\ x.sid = ask[r].sid /\ x.plan = ask[r].plan /\ x.kind = ask[r].kind
<1>0. ask \in [Incoming -> AskRecords] /\ ask[r] \in AskRecords
  BY DEF ReplyInv, ReplyShape
<1>1. PICK x : x = [ask[r] EXCEPT !.at = "over", !.answer = e]
  OBVIOUS
<1>2. /\ x \in AskRecords /\ x.at = "over" /\ x.answer = e
      /\ x.sid = ask[r].sid /\ x.plan = ask[r].plan /\ x.kind = ask[r].kind
  BY <1>0, <1>1 DEF AskRecords, AskPlaces
<1>3. ask' = [ask EXCEPT ![r] = x]
  BY <1>0, <1>1
<1> QED BY <1>2, <1>3

\* The same of a request that goes on to its last sending.
LEMMA LastFacts ==
  ASSUME ReplyInv, NEW r \in Incoming, GoTo(r, "last")
  PROVE  \E x \in AskRecords :
           /\ ask' = [ask EXCEPT ![r] = x] /\ x.at = "last" /\ (x.lean <=> ask[r].lean)
           /\ x.sid = ask[r].sid /\ x.plan = ask[r].plan /\ x.kind = ask[r].kind
<1>0. ask \in [Incoming -> AskRecords] /\ ask[r] \in AskRecords
  BY DEF ReplyInv, ReplyShape
<1>1. PICK x : x = [ask[r] EXCEPT !.at = "last"]
  OBVIOUS
<1>2. /\ x \in AskRecords /\ x.at = "last" /\ (x.lean <=> ask[r].lean)
      /\ x.sid = ask[r].sid /\ x.plan = ask[r].plan /\ x.kind = ask[r].kind
  BY <1>0, <1>1 DEF AskRecords, AskPlaces
<1>3. ask' = [ask EXCEPT ![r] = x]
  BY <1>0, <1>1 DEF GoTo
<1> QED BY <1>2, <1>3

\* The sends of a request to its upstream keep the invariant.
LEMMA SendingAction ==
  ASSUME ReplyInv, NEW r \in Incoming, NEW a \in Answers,
         SendFirst(r, a) \/ SendAgain(r, a) \/ SendLast(r, a)
  PROVE  ReplyInv'
<1>0. /\ ask \in [Incoming -> AskRecords] /\ ask[r] \in AskRecords /\ SendsAs(ask[r], sends[r])
      /\ sends = [q \in Incoming |-> sends[q]]
      /\ Answers = {"ok", "bad", "refused", "network", "noauth"}
  BY DEF ReplyInv, ReplyShape, Answers
<1>f. UNCHANGED <<task, closure, sub, failed>> /\ ask[r].at # "fanout"
  BY DEF SendFirst, SendAgain, SendLast, At
<1>1. CASE SendFirst(r, a)
  <2>1. PICK body \in {"lean", "own"} : body = IF ask[r].lean THEN "lean" ELSE "own"
    OBVIOUS
  <2>2. ask[r].at = "first" /\ sends[r] = <<>> /\ ~ask[r].fellBack
    BY <1>0, <1>1 DEF SendFirst, At, SendsAs
  <2>3. sends' = [sends EXCEPT ![r] = <<Sending(body, a)>>]
    <3>1. sends' = [sends EXCEPT ![r] = Append(@, Sending(body, a))]
      BY <1>1, <2>1 DEF SendFirst, Sent, Sending
    <3>2. Append(sends[r], Sending(body, a)) = <<Sending(body, a)>>
      BY <2>2, MoreSends
    <3> QED BY <1>0, <3>1, <3>2
  <2>4. sends'[r] = <<Sending(body, a)>> /\ sends' = [sends EXCEPT ![r] = sends'[r]]
    BY <1>0, <2>3
  <2>5. Len(sends'[r]) = 1 /\ DOMAIN sends'[r] = {1} /\ sends'[r][1].body = body /\ sends'[r][1].is = a
    BY <2>4, ShortSends DEF Sending
  <2>6. CASE a = "network" /\ ask[r].lean /\ ask' = [ask EXCEPT ![r].at = "again", ![r].fellBack = TRUE]
    <3>1. PICK x : x = [ask[r] EXCEPT !.at = "again", !.fellBack = TRUE]
      OBVIOUS
    <3>2. /\ x \in AskRecords /\ x.at = "again" /\ x.fellBack /\ (x.lean <=> ask[r].lean)
          /\ x.sid = ask[r].sid /\ x.plan = ask[r].plan
      BY <1>0, <3>1 DEF AskRecords, AskPlaces
    <3>3. ask' = [ask EXCEPT ![r] = x]
      BY <1>0, <2>6, <3>1
    <3>4. SendsAs(x, sends'[r])
      BY <2>1, <2>4, <2>6, <3>2 DEF SendsAs
    <3> QED BY <1>f, <2>4, <3>2, <3>3, <3>4, SendAction
  <2>7. CASE a = "bad" /\ MayRetry(r) /\ GoTo(r, "last")
    <3>1. PICK x \in AskRecords :
           /\ ask' = [ask EXCEPT ![r] = x] /\ x.at = "last" /\ (x.lean <=> ask[r].lean)
           /\ x.sid = ask[r].sid /\ x.plan = ask[r].plan /\ x.kind = ask[r].kind
      BY <2>7, LastFacts
    <3>2. SendsAs(x, sends'[r])
      BY <2>1, <2>4, <2>7, <3>1 DEF SendsAs, MayRetry
    <3> QED BY <1>f, <2>4, <3>1, <3>2, SendAction
  <2>8. CASE ~(a \in {"network", "bad"} /\ ask[r].lean) /\ Answered(r, a)
    <3>1. PICK e \in Answers \cup {"error"} : e = IF Failure(a) THEN "error" ELSE a
      BY <1>0
    <3>2. PICK x \in AskRecords :
           /\ ask' = [ask EXCEPT ![r] = x] /\ x.at = "over" /\ x.answer = e
           /\ x.sid = ask[r].sid /\ x.plan = ask[r].plan /\ x.kind = ask[r].kind
      BY <2>8, <3>1, AnsweredFacts DEF Answered, Over
    <3>3. SendsAs(x, sends'[r])
      BY <1>0, <2>1, <2>5, <2>8, <3>1, <3>2 DEF SendsAs, Failure
    <3> QED BY <1>f, <2>4, <3>2, <3>3, SendAction
  <2> QED BY <1>1, <2>6, <2>7, <2>8 DEF SendFirst
<1>2. CASE SendAgain(r, a)
  <2>2. ask[r].at = "again" /\ ask[r].lean /\ ask[r].fellBack /\ sends[r] = <<Sending("lean", "network")>>
    BY <1>0, <1>2 DEF SendAgain, At, SendsAs
  <2>3. sends' = [sends EXCEPT ![r] = <<Sending("lean", "network"), Sending("own", a)>>]
    <3>1. sends' = [sends EXCEPT ![r] = Append(@, Sending("own", a))]
      BY <1>2 DEF SendAgain, Sent, Sending
    <3>2. Append(sends[r], Sending("own", a)) = <<Sending("lean", "network"), Sending("own", a)>>
      BY <2>2, MoreSends
    <3> QED BY <1>0, <3>1, <3>2
  <2>4. sends'[r] = <<Sending("lean", "network"), Sending("own", a)>> /\ sends' = [sends EXCEPT ![r] = sends'[r]]
    BY <1>0, <2>3
  <2>5. /\ Len(sends'[r]) = 2 /\ DOMAIN sends'[r] = {1, 2} /\ sends'[r][1].body = "lean" /\ sends'[r][1].is = "network"
        /\ sends'[r][2].body = "own" /\ sends'[r][2].is = a
    BY <2>4, ShortSends DEF Sending
  <2>7. CASE a = "bad" /\ MayRetry(r) /\ GoTo(r, "last")
    <3>1. PICK x \in AskRecords :
           /\ ask' = [ask EXCEPT ![r] = x] /\ x.at = "last" /\ (x.lean <=> ask[r].lean)
           /\ x.sid = ask[r].sid /\ x.plan = ask[r].plan /\ x.kind = ask[r].kind
      BY <2>7, LastFacts
    <3>2. SendsAs(x, sends'[r])
      BY <2>2, <2>4, <2>7, <3>1 DEF SendsAs, MayRetry
    <3> QED BY <1>f, <2>4, <3>1, <3>2, SendAction
  <2>8. CASE Answered(r, a)
    <3>1. PICK e \in Answers \cup {"error"} : e = IF Failure(a) THEN "error" ELSE a
      BY <1>0
    <3>2. PICK x \in AskRecords :
           /\ ask' = [ask EXCEPT ![r] = x] /\ x.at = "over" /\ x.answer = e
           /\ x.sid = ask[r].sid /\ x.plan = ask[r].plan /\ x.kind = ask[r].kind
      BY <2>8, <3>1, AnsweredFacts, ZenonT(60) DEF Answered, Over
    <3>3. SendsAs(x, sends'[r])
      <4>1. e \in {"bad", "error"} => Tried(sends'[r])
        BY <1>0, <2>5, <3>1 DEF Tried, Failure
      <4>2. \A i \in DOMAIN sends'[r] : i < Len(sends'[r]) => sends'[r][i].is \in {"bad", "network"}
        BY <2>5
      <4>3. e = "error" => \A i \in DOMAIN sends'[r] : Failure(sends'[r][i].is)
        BY <1>0, <2>5, <3>1 DEF Failure
      <4> QED BY <2>5, <3>2, <4>1, <4>2, <4>3 DEF SendsAs
    <3> QED BY <1>f, <2>4, <3>2, <3>3, SendAction
  <2> QED BY <1>2, <2>7, <2>8 DEF SendAgain
<1>3. CASE SendLast(r, a)
  <2>1. ask[r].at = "last" /\ ask[r].lean
    BY <1>0, <1>3 DEF SendLast, At, SendsAs
  <2>2. sends' = [sends EXCEPT ![r] = Append(@, Sending("own", a))] /\ sends'[r] = Append(sends[r], Sending("own", a))
        /\ sends' = [sends EXCEPT ![r] = sends'[r]]
    <3>1. sends' = [sends EXCEPT ![r] = Append(@, Sending("own", a))]
      BY <1>3 DEF SendLast, Sent, Sending
    <3> QED BY <1>0, <3>1
  <2>3. PICK e \in Answers : e = IF Failure(a) THEN "bad" ELSE a
    BY <1>0
  <2>4. PICK x \in AskRecords :
           /\ ask' = [ask EXCEPT ![r] = x] /\ x.at = "over" /\ x.answer = e
           /\ x.sid = ask[r].sid /\ x.plan = ask[r].plan /\ x.kind = ask[r].kind
    <3>1. e \in Answers \cup {"error"} /\ ask' = [ask EXCEPT ![r].at = "over", ![r].answer = e]
      BY <1>3, <2>3 DEF SendLast, Over
    <3> QED BY <3>1, AnsweredFacts
  <2>5. e # "error" /\ (e = "bad" => a # "ok")
    BY <1>0, <2>3 DEF Failure
  <2>6. SendsAs(x, sends'[r])
    <3>1. CASE sends[r] = <<Sending("lean", "bad")>>
      <4>1. sends'[r] = <<Sending("lean", "bad"), Sending("own", a)>>
        BY <2>2, <3>1, MoreSends
      <4>2. /\ Len(sends'[r]) = 2 /\ DOMAIN sends'[r] = {1, 2} /\ sends'[r][1].is = "bad"
            /\ sends'[r][2].body = "own" /\ sends'[r][2].is = a
        BY <4>1, ShortSends DEF Sending
      <4>3. e = "bad" => Tried(sends'[r])
        BY <2>5, <4>2 DEF Tried
      <4>4. \A i \in DOMAIN sends'[r] : i < Len(sends'[r]) => sends'[r][i].is \in {"bad", "network"}
        BY <4>2
      <4> QED BY <2>4, <2>5, <4>2, <4>3, <4>4 DEF SendsAs
    <3>2. CASE ask[r].kind = "responses" /\ sends[r] = <<Sending("lean", "network"), Sending("own", "bad")>>
      <4>1. sends'[r] = <<Sending("lean", "network"), Sending("own", "bad"), Sending("own", a)>>
        <5>1. Append(<<Sending("lean", "network"), Sending("own", "bad")>>, Sending("own", a))
                = <<Sending("lean", "network"), Sending("own", "bad"), Sending("own", a)>>
          BY MoreSends
        <5> QED BY <2>2, <3>2, <5>1
      <4>2. /\ Len(sends'[r]) = 3 /\ DOMAIN sends'[r] = {1, 2, 3} /\ sends'[r][1].is = "network"
            /\ sends'[r][2].is = "bad" /\ sends'[r][3].body = "own" /\ sends'[r][3].is = a
        BY <4>1, ShortSends DEF Sending
      <4>3. e = "bad" => Tried(sends'[r])
        BY <2>5, <4>2 DEF Tried
      <4>4. \A i \in DOMAIN sends'[r] : i < Len(sends'[r]) => sends'[r][i].is \in {"bad", "network"}
        BY <4>2
      <4> QED BY <2>4, <2>5, <3>2, <4>2, <4>3, <4>4 DEF SendsAs
    <3> QED BY <1>0, <2>1, <3>1, <3>2 DEF SendsAs
  <2> QED BY <1>f, <2>2, <2>4, <2>6, SendAction
<1> QED BY <1>1, <1>2, <1>3

\* Every step keeps the invariant.
LEMMA ReplyStep == ReplyInv /\ [ReplyNext]_replyVars => ReplyInv'
<1> SUFFICES ASSUME ReplyInv, [ReplyNext]_replyVars PROVE ReplyInv'
  OBVIOUS
<1>1. CASE UNCHANGED replyVars
  <2>1. ReplyShape'
    BY <1>1 DEF replyVars, ReplyInv, ReplyShape
  <2>2. (\A r \in Incoming : Runs(r) /\ Leaves(r))'
    BY <1>1 DEF replyVars, ReplyInv, Runs, Leaves, Empty
  <2>3. \A r \in Incoming : SendsAs(ask[r], sends[r])' <=> SendsAs(ask[r], sends[r])
    BY <1>1 DEF replyVars, SendsAs, Tried, Sending, Failure
  <2> QED BY <2>1, <2>2, <2>3 DEF ReplyInv
<1>2. ASSUME NEW r \in Incoming,
        \/ \E sid \in {r, Shared} : Respond(r, sid)
        \/ \E heavy \in BOOLEAN : Chat(r, heavy)
        \/ \E n \in Ordinals : \/ Submit(r, n) \/ Open(r, n) \/ Adapt(r, n) \/ AdaptFails(r, n)
                               \/ Join(r, n) \/ JoinFails(r, n)
        \/ Apply(r) \/ Leave(r) \/ AdaptChat(r) \/ Local(r)
        \/ \E a \in Answers : SendFirst(r, a) \/ SendAgain(r, a) \/ SendLast(r, a)
      PROVE ReplyInv'
  BY <1>2, FanAction, AskAction, ChatAction, SendingAction
<1> QED BY <1>1, <1>2 DEF ReplyNext

\* No sub-session of an anonymous request outlives a fan-out that succeeded; a turn that fails
\* after its lean body was sent has failed with the client's own too; nothing is sent after a
\* usable answer or more often than the route allows; the last answer is the client's.  For
\* any requests and any number of planned runs (server/routes_responses.rs, server/routes_messages.rs).
THEOREM RelaySoundCorrect == ReplySpec => []RelaySound
BY ReplyStart, ReplyStep, ReplyHolds, PTL DEF ReplySpec

-----------------------------------------------------------------------------
(* What concurrent tool calls share *)

BegunLoops == [map : Maps, milestone : Nat, corrections : Nat]
AlignLoops == {NoLoop} \cup BegunLoops
Tallies == [map : Maps \cup {"none"}, near : Nat, far : Nat, shared : BOOLEAN]

\* What a thread carries, by where it is.
ThreadOK(k) ==
  /\ k.at \in {"idle"} \cup Posting \cup Aligning
  /\ k.at = "idle" => k = NoCall
  /\ k.at # "idle" => k.sid \in Agents
  /\ k.at \in {"compare", "lower"} => k \in [at : {"compare", "lower"}, sid : Agents, to : Nat]
  /\ k.at \in Aligning => k.loop \in AlignLoops
  /\ k.at = "check" => k.map \in Maps

ToolShape ==
  /\ call = [c \in Callers |-> call[c]] /\ \A c \in Callers : ThreadOK(call[c])
  /\ budget \in [Agents -> Nat] /\ cap \in Nat /\ loose \subseteq Agents
  /\ loops \in [Agents -> AlignLoops] /\ tally \in [Agents -> Tallies]

\* The cap: two reports that overlap leave their sessions loose, and of the sessions that are
\* not, the cap is within the target, or one thread is about to see to that.
Reporting(s) == \E c \in Callers : call[c].at \in Posting /\ call[c].sid = s
Fast(s) == s \notin loose /\ budget[s] # 0
\* Of two threads in a report neither has a session that counts on its cap.
CapAlone ==
  \A c, d \in Callers : c # d /\ call[c].at \in Posting /\ call[d].at \in Posting => ~Fast(call[c].sid)
CapSet == \A s \in Agents : Fast(s) /\ ~Reporting(s) => cap <= Target(budget[s])
CapRead ==
  \A c \in Callers : call[c].at \in {"compare", "lower"} /\ Fast(call[c].sid) =>
    call[c].to = Target(budget[call[c].sid])
CapNext ==
  \A c \in Callers, s \in Agents : call[c].at = "lower" /\ Fast(s) /\ ~Reporting(s) =>
    call[c].to <= Target(budget[s])
CapInv == CapAlone /\ CapSet /\ CapRead /\ CapNext

\* The loops: while its calls come one at a time, a session's loop, in the map or in the hands
\* of its call, stands where the answers have brought it.
Stands(l, t) ==
  /\ l.map = t.map
  /\ t.map = "none" => l = NoLoop
  /\ t.map # "none" =>
       /\ l \in BegunLoops
       /\ Milestones[t.map] > 0 =>
            /\ l.milestone = t.near
            /\ l.corrections = IF t.far < MaxCorrections THEN t.far ELSE MaxCorrections
InHand(s, c) == call[c].at \in Aligning /\ call[c].sid = s
LoopInv ==
  \A s \in Agents : ~tally[s].shared =>
    /\ \A c, d \in Callers : InHand(s, c) /\ InHand(s, d) => c = d
    /\ (\A c \in Callers : ~InHand(s, c)) => Stands(loops[s], tally[s])
    /\ \A c \in Callers : InHand(s, c) => loops[s] = NoLoop /\ Stands(call[c].loop, tally[s])

ToolInv == ToolShape /\ CapInv /\ LoopInv

\* The target of a budget is a number.
LEMMA TargetType == \A n \in Nat : Target(n) \in Nat
BY ToolAssumption DEF Target

\* The invariant holds before the first call.
LEMMA ToolStart == ToolInit => ToolInv
<1> SUFFICES ASSUME ToolInit PROVE ToolInv
  OBVIOUS
<1>1. NoCall.at = "idle" /\ NoTally \in Tallies /\ NoLoop.map = "none" /\ NoTally.map = "none"
  <2>1. FALSE \in BOOLEAN
    OBVIOUS
  <2> QED BY <2>1 DEF NoCall, NoTally, NoLoop, Tallies
<1>2. ToolShape
  <2>1. \A c \in Callers : call[c] = NoCall
    BY DEF ToolInit
  <2>2. \A c \in Callers : ThreadOK(call[c])
    BY <1>1, <2>1 DEF ThreadOK, Posting, Aligning
  <2>3. call = [c \in Callers |-> call[c]]
    BY DEF ToolInit
  <2>4. tally \in [Agents -> Tallies] /\ loops \in [Agents -> AlignLoops]
    BY <1>1 DEF ToolInit, AlignLoops
  <2> QED BY <2>2, <2>3, <2>4, ToolAssumption DEF ToolInit, ToolShape
<1>3. CapInv
  BY <1>1 DEF ToolInit, CapInv, CapAlone, CapSet, CapRead, CapNext, Fast, Posting
<1>4. LoopInv
  BY <1>1 DEF ToolInit, LoopInv, InHand, Aligning, Stands
<1> QED BY <1>2, <1>3, <1>4 DEF ToolInv

\* A thread goes on; the others stay where they are.
LEMMA GoesOn ==
  ASSUME ToolShape, NEW c \in Callers, NEW k, Goes(c, k), ThreadOK(k)
  PROVE  /\ call' = [d \in Callers |-> call'[d]] /\ \A d \in Callers : ThreadOK(call'[d])
         /\ call'[c] = k /\ \A d \in Callers \ {c} : call'[d] = call[d]
BY DEF ToolShape, Goes

CapPart == <<budget, cap, loose>>

\* The calls that have nothing to do with the cap leave its part of the invariant alone.
LEMMA CapStays ==
  ASSUME CapInv, UNCHANGED CapPart,
         \A c \in Callers : \/ call'[c] = call[c]
                            \/ call'[c].at \notin Posting /\ call[c].at \notin Posting
  PROVE  CapInv'
<1>1. \A c \in Callers : /\ call'[c].at \in Posting <=> call[c].at \in Posting
                         /\ call'[c].at \in Posting => call'[c] = call[c]
  OBVIOUS
<1>2. \A s : Reporting(s)' <=> Reporting(s)
  BY <1>1 DEF Reporting
<1>3. \A s : Fast(s)' <=> Fast(s)
  BY DEF Fast, CapPart
<1>4. {"compare", "lower"} \subseteq Posting /\ "lower" \in Posting
  BY DEF Posting
<1>5. cap' = cap /\ budget' = budget
  BY DEF CapPart
<1>6. CapAlone'
  BY <1>1, <1>3 DEF CapInv, CapAlone
<1>7. CapSet'
  BY <1>2, <1>3, <1>5 DEF CapInv, CapSet
<1>8. CapRead'
  BY <1>1, <1>3, <1>4, <1>5 DEF CapInv, CapRead
<1>9. CapNext'
  BY <1>1, <1>2, <1>3, <1>4, <1>5 DEF CapInv, CapNext
<1> QED BY <1>6, <1>7, <1>8, <1>9 DEF CapInv

LoopPart == <<loops, tally>>

\* The same of the loops.
LEMMA LoopStays ==
  ASSUME LoopInv, UNCHANGED LoopPart,
         \A c \in Callers : \/ call'[c] = call[c]
                            \/ call'[c].at \notin Aligning /\ call[c].at \notin Aligning
  PROVE  LoopInv'
<1>1. \A c \in Callers, s \in Agents : /\ InHand(s, c)' <=> InHand(s, c)
                                       /\ InHand(s, c)' => call'[c] = call[c]
  BY DEF InHand
<1>2. loops' = loops /\ tally' = tally
  BY DEF LoopPart
<1> QED BY <1>1, <1>2 DEF LoopInv

\* The steps of a budget report keep the part of the cap.
LEMMA CapAction ==
  ASSUME ToolShape, CapInv, NEW c \in Callers,
         \/ \E s \in Agents, tokens \in Reports : PostBudget(c, s, tokens)
         \/ ReadTarget(c) \/ CompareCap(c) \/ LowerCap(c)
  PROVE  CapInv'
<1>0. /\ budget \in [Agents -> Nat] /\ cap \in Nat /\ \A d \in Callers : ThreadOK(call[d])
      /\ call = [d \in Callers |-> call[d]] /\ ThreadOK(call[c])
      /\ CapAlone /\ CapSet /\ CapRead /\ CapNext
  BY DEF ToolShape, CapInv
<1>1. ASSUME NEW s \in Agents, NEW tokens \in Reports, PostBudget(c, s, tokens) PROVE CapInv'
  <2>1. /\ call[c].at = "idle" /\ call'[c] = [at |-> "target", sid |-> s]
        /\ \A d \in Callers \ {c} : call'[d] = call[d]
    BY <1>0, <1>1 DEF PostBudget, Arrives, Goes, NoCall
  <2>2. cap' = cap /\ budget' = [budget EXCEPT ![s] = tokens]
    BY <1>1 DEF PostBudget
  <2>3. "idle" \notin Posting /\ "target" \in Posting /\ {"compare", "lower"} \subseteq Posting
    BY DEF Posting
  <2>4. \A q \in Agents : Reporting(q)' <=> Reporting(q) \/ q = s
    BY <2>1, <2>3 DEF Reporting
  <2>5. \A q \in Agents : q # s => budget'[q] = budget[q]
    BY <1>0, <2>2
  <2>6. CASE Doing(Posting) = {}
    <3>1. loose' = loose \ {s}
      BY <1>1, <2>6 DEF PostBudget
    <3>2. \A d \in Callers : call[d].at \notin Posting
      BY <2>6 DEF Doing
    <3>3. \A d \in Callers : call'[d].at \in Posting => d = c
      BY <2>1, <3>2
    <3>4. CapAlone'
      BY <3>3 DEF CapAlone
    <3>5. \A q \in Agents : Fast(q)' /\ ~Reporting(q)' => Fast(q) /\ ~Reporting(q) /\ budget'[q] = budget[q]
      BY <2>4, <2>5, <3>1 DEF Fast
    <3>6. CapSet'
      BY <1>0, <2>2, <3>5 DEF CapSet
    <3>7. \A d \in Callers : call'[d].at \notin {"compare", "lower"}
      BY <2>1, <2>3, <3>2
    <3>8. CapRead' /\ CapNext'
      BY <3>7 DEF CapRead, CapNext
    <3> QED BY <3>4, <3>6, <3>8 DEF CapInv
  <2>7. CASE Doing(Posting) # {}
    <3>1. loose' = loose \union {s} \union {call[d].sid : d \in Doing(Posting)}
      BY <1>1, <2>7 DEF PostBudget
    <3>2. \A d \in Callers : call'[d].at \in Posting => call'[d].sid \in loose'
      BY <2>1, <3>1 DEF Doing
    <3>3. CapAlone' /\ CapRead'
      BY <2>3, <3>2 DEF CapAlone, CapRead, Fast
    <3>5. \A q \in Agents : Fast(q)' /\ ~Reporting(q)' => Fast(q) /\ ~Reporting(q) /\ budget'[q] = budget[q]
      BY <2>4, <2>5, <3>1 DEF Fast
    <3>6. CapSet'
      BY <1>0, <2>2, <3>5 DEF CapSet
    <3>7. \A d \in Callers : call'[d].at = "lower" => d # c /\ call'[d] = call[d]
      BY <2>1
    <3>8. CapNext'
      BY <1>0, <3>5, <3>7 DEF CapNext
    <3> QED BY <3>3, <3>6, <3>8 DEF CapInv
  <2> QED BY <2>6, <2>7
<1>2. CASE ReadTarget(c)
  <2>1. /\ call[c].at = "target" /\ call'[c] = [at |-> "compare", sid |-> call[c].sid, to |-> Target(budget[call[c].sid])]
        /\ \A d \in Callers \ {c} : call'[d] = call[d]
    BY <1>0, <1>2 DEF ReadTarget, Goes
  <2>2. UNCHANGED <<cap, budget, loose>>
    BY <1>2 DEF ReadTarget
  <2>3. {"target", "compare", "lower"} \subseteq Posting
    BY DEF Posting
  <2>4. \A d \in Callers : (call'[d].at \in Posting <=> call[d].at \in Posting) /\ call'[d].sid = call[d].sid
    BY <2>1, <2>3
  <2>5. \A q : (Reporting(q)' <=> Reporting(q)) /\ (Fast(q)' <=> Fast(q))
    BY <2>2, <2>4 DEF Reporting, Fast
  <2>6. CapAlone'
    BY <1>0, <2>4, <2>5 DEF CapAlone
  <2>7. CapSet'
    BY <1>0, <2>2, <2>5 DEF CapSet
  <2>8. CapRead'
    BY <1>0, <2>1, <2>2, <2>5 DEF CapRead
  <2>9. CapNext'
    BY <1>0, <2>1, <2>2, <2>5 DEF CapNext
  <2> QED BY <2>6, <2>7, <2>8, <2>9 DEF CapInv
<1>3. CASE CompareCap(c)
  <2>0. call[c].at = "compare" /\ UNCHANGED <<cap, budget, loose>>
    BY <1>3 DEF CompareCap
  <2>1. call[c] \in [at : {"compare", "lower"}, sid : Agents, to : Nat]
    BY <1>0, <2>0 DEF ThreadOK
  <2>2. {"target", "compare", "lower"} \subseteq Posting /\ "idle" \notin Posting
    BY DEF Posting
  <2>3. \A q : Fast(q)' <=> Fast(q)
    BY <2>0 DEF Fast
  <2>4. CASE Lowers(call[c].to)
    <3>1. /\ call'[c].at = "lower" /\ call'[c].sid = call[c].sid /\ call'[c].to = call[c].to
          /\ \A d \in Callers \ {c} : call'[d] = call[d]
      BY <1>0, <1>3, <2>1, <2>4 DEF CompareCap, Goes
    <3>2. \A d \in Callers : (call'[d].at \in Posting <=> call[d].at \in Posting) /\ call'[d].sid = call[d].sid
      BY <2>0, <2>2, <3>1
    <3>3. \A q : Reporting(q)' <=> Reporting(q)
      BY <3>2 DEF Reporting
    <3>4. CapAlone'
      BY <1>0, <2>3, <3>2 DEF CapAlone
    <3>5. CapSet'
      BY <1>0, <2>0, <2>3, <3>3 DEF CapSet
    <3>6. CapRead'
      BY <1>0, <2>0, <2>3, <3>1 DEF CapRead
    <3>7. \A q \in Agents : Fast(q) /\ ~Reporting(q) => call[c].to <= Target(budget[q])
      <4>1. \A q \in Agents : Target(budget[q]) \in Nat
        BY <1>0, TargetType
      <4> QED BY <1>0, <2>1, <2>4, <4>1 DEF CapSet, Lowers
    <3>8. CapNext'
      BY <1>0, <2>0, <2>3, <3>1, <3>3, <3>7 DEF CapNext
    <3> QED BY <3>4, <3>5, <3>6, <3>8 DEF CapInv
  <2>5. CASE ~Lowers(call[c].to)
    <3>1. /\ call'[c].at = "idle" /\ \A d \in Callers \ {c} : call'[d] = call[d]
      BY <1>0, <1>3, <2>5 DEF CompareCap, Goes, NoCall
    <3>2. \A q : Reporting(q) /\ ~Reporting(q)' => q = call[c].sid
      BY <3>1 DEF Reporting
    <3>3. \A d \in Callers : call'[d].at \in Posting => d # c /\ call'[d] = call[d]
      BY <2>2, <3>1
    <3>4. CapAlone'
      BY <1>0, <2>3, <3>3 DEF CapAlone
    <3>5. Fast(call[c].sid) => cap <= Target(budget[call[c].sid])
      BY <1>0, <2>0, <2>1, <2>5 DEF CapRead, Lowers
    <3>6. CapSet'
      BY <1>0, <2>0, <2>3, <3>2, <3>5 DEF CapSet
    <3>7. CapRead'
      BY <1>0, <2>0, <2>2, <2>3, <3>3 DEF CapRead
    <3>8. \A d \in Callers : call'[d].at = "lower" => ~Fast(call[c].sid) /\ call[d].at = "lower" /\ call'[d] = call[d]
      BY <1>0, <2>0, <2>2, <3>3 DEF CapAlone
    <3>9. CapNext'
      BY <1>0, <2>0, <2>3, <3>2, <3>8 DEF CapNext
    <3> QED BY <3>4, <3>6, <3>7, <3>9 DEF CapInv
  <2> QED BY <2>4, <2>5
<1>4. CASE LowerCap(c)
  <2>0. call[c].at = "lower" /\ UNCHANGED <<budget, loose>> /\ cap' = call[c].to
    BY <1>4 DEF LowerCap
  <2>2. {"target", "compare", "lower"} \subseteq Posting /\ "idle" \notin Posting
    BY DEF Posting
  <2>3. \A q : Fast(q)' <=> Fast(q)
    BY <2>0 DEF Fast
  <2>4. call'[c].at = "idle" /\ \A d \in Callers \ {c} : call'[d] = call[d]
    BY <1>0, <1>4 DEF LowerCap, Goes, NoCall
  <2>5. \A q : Reporting(q) /\ ~Reporting(q)' => q = call[c].sid
    BY <2>4 DEF Reporting
  <2>6. \A d \in Callers : call'[d].at \in Posting => d # c /\ call'[d] = call[d]
    BY <2>2, <2>4
  <2>7. CapAlone'
    BY <1>0, <2>3, <2>6 DEF CapAlone
  <2>8. Fast(call[c].sid) => call[c].to <= Target(budget[call[c].sid])
    <3>1. call[c].sid \in Agents
      BY <1>0, <2>0 DEF ThreadOK
    <3>2. Target(budget[call[c].sid]) \in Nat
      BY <1>0, <3>1, TargetType
    <3> QED BY <1>0, <2>0, <3>2 DEF CapRead
  <2>9. CapSet'
    BY <1>0, <2>0, <2>3, <2>5, <2>8 DEF CapSet, CapNext
  <2>10. CapRead'
    BY <1>0, <2>0, <2>2, <2>3, <2>6 DEF CapRead
  <2>11. \A d \in Callers : call'[d].at = "lower" => ~Fast(call[c].sid) /\ call[d].at = "lower" /\ call'[d] = call[d]
    BY <1>0, <2>0, <2>2, <2>6 DEF CapAlone
  <2>12. CapNext'
    BY <1>0, <2>0, <2>3, <2>5, <2>11 DEF CapNext
  <2> QED BY <2>7, <2>9, <2>10, <2>12 DEF CapInv
<1> QED BY <1>1, <1>2, <1>3, <1>4

\* Records that are changed in a field.
LEMMA LoopChanges ==
  ASSUME NEW l \in BegunLoops, NEW n \in Nat, NEW k \in Nat
  PROVE  /\ [l EXCEPT !.milestone = n, !.corrections = k] \in BegunLoops
         /\ [l EXCEPT !.milestone = n, !.corrections = k].map = l.map
         /\ [l EXCEPT !.milestone = n, !.corrections = k].milestone = n
         /\ [l EXCEPT !.milestone = n, !.corrections = k].corrections = k
BY DEF BegunLoops

\* A check of the loop that goes on: it stands where one more answer brings it.
LEMMA CheckStands ==
  ASSUME NEW l, NEW t \in Tallies, Stands(l, t), NEW m \in Maps, NEW drift \in {"near", "edge", "far"},
         NEW old \in Tallies, old.map = m,
         IF t.map = m THEN old = t ELSE old.near = 0 /\ old.far = 0,
         NEW new \in Tallies, new.map = m,
         new.near = (IF drift = "near" THEN old.near + 1 ELSE old.near),
         new.far = (IF drift = "far" THEN old.far + 1 ELSE old.far)
  PROVE  Stands(Checked(IF l.map = m THEN l ELSE Fresh(m), drift), new)
<1>k. PICK k : k = IF l.map = m THEN l ELSE Fresh(m)
  OBVIOUS
<1>0. /\ MaxCorrections \in Nat /\ m # "none" /\ Milestones[m] \in Nat
      /\ old.near \in Nat /\ old.far \in Nat /\ new.near \in Nat /\ new.far \in Nat
  BY ToolAssumption DEF Tallies
<1>1. /\ k \in BegunLoops /\ k.map = m
      /\ Milestones[m] > 0 => /\ k.milestone = old.near
                              /\ k.corrections = IF old.far < MaxCorrections THEN old.far ELSE MaxCorrections
  <2>1. CASE l.map = m
    BY <1>0, <1>k, <2>1 DEF Stands
  <2>2. CASE l.map # m
    <3>1. k = [map |-> m, milestone |-> 0, corrections |-> 0] /\ old.near = 0 /\ old.far = 0
      BY <1>k, <2>2 DEF Fresh, Stands
    <3> QED BY <1>0, <3>1 DEF BegunLoops
  <2> QED BY <2>1, <2>2
<1>2. CASE Milestones[m] = 0
  <2>1. Checked(k, drift) = k
    BY <1>1, <1>2 DEF Checked
  <2> QED BY <1>0, <1>k, <1>1, <1>2, <2>1 DEF Stands
<1>3. CASE Milestones[m] # 0
  <2>1. k.milestone \in Nat /\ k.corrections \in Nat
    BY <1>1 DEF BegunLoops
  <2>2. PICK n \in Nat : n = IF drift = "near" THEN k.milestone + 1 ELSE k.milestone
    BY <2>1
  <2>3. PICK j \in Nat : j = IF drift = "far" /\ k.corrections < MaxCorrections THEN k.corrections + 1 ELSE k.corrections
    BY <2>1
  <2>4. Checked(k, drift) = [k EXCEPT !.milestone = n, !.corrections = j]
    BY <1>1, <1>3, <2>2, <2>3 DEF Checked, BegunLoops
  <2>5. /\ Checked(k, drift) \in BegunLoops /\ Checked(k, drift).map = m
        /\ Checked(k, drift).milestone = n /\ Checked(k, drift).corrections = j
    <3>1. k \in BegunLoops /\ k.map = m
      BY <1>1
    <3>2. /\ [k EXCEPT !.milestone = n, !.corrections = j] \in BegunLoops
          /\ [k EXCEPT !.milestone = n, !.corrections = j].map = k.map
          /\ [k EXCEPT !.milestone = n, !.corrections = j].milestone = n
          /\ [k EXCEPT !.milestone = n, !.corrections = j].corrections = j
      BY <2>2, <2>3, <3>1 DEF BegunLoops
    <3> QED BY <2>4, <3>1, <3>2
  <2>6. n = new.near
    BY <1>0, <1>1, <1>3, <2>2
  <2>7. j = IF new.far < MaxCorrections THEN new.far ELSE MaxCorrections
    BY <1>0, <1>1, <1>3, <2>3
  <2>8. Stands(Checked(k, drift), new)
    BY <1>0, <2>5, <2>6, <2>7 DEF Stands
  <2> QED BY <1>k, <2>8
<1> QED BY <1>2, <1>3

\* A tally after an answer: one more than before, or than nothing when the map is another.
ToldAs(s, m, drift, old) ==
  /\ old.map = m /\ (IF tally[s].map = m THEN old = tally[s] ELSE old.near = 0 /\ old.far = 0)
  /\ Told(s, m, drift) \in Tallies /\ Told(s, m, drift).map = m
  /\ (Told(s, m, drift).shared <=> tally[s].shared)
  /\ Told(s, m, drift).near = IF drift = "near" THEN old.near + 1 ELSE old.near
  /\ Told(s, m, drift).far = IF drift = "far" THEN old.far + 1 ELSE old.far

\* What one more answer adds to the tally, to what it held of the same map.
LEMMA ToldFacts ==
  ASSUME tally \in [Agents -> Tallies], NEW s \in Agents, NEW m \in Maps, NEW drift \in {"near", "edge", "far"}
  PROVE  \E old \in Tallies : ToldAs(s, m, drift, old)
<1>0. tally[s] \in Tallies /\ tally[s].shared \in BOOLEAN
  BY DEF Tallies
<1>1. PICK b : b = tally[s].shared
  OBVIOUS
<1>2. PICK old : old = IF tally[s].map = m THEN tally[s] ELSE [NoTally EXCEPT !.map = m, !.shared = tally[s].shared]
  OBVIOUS
<1>3. /\ old \in Tallies /\ old.map = m /\ (old.shared <=> b)
      /\ IF tally[s].map = m THEN old = tally[s] ELSE old.near = 0 /\ old.far = 0
  <2>1. CASE tally[s].map = m
    BY <1>0, <1>1, <1>2, <2>1
  <2>2. CASE tally[s].map # m
    <3>1. old = [map |-> m, near |-> 0, far |-> 0, shared |-> b]
      BY <1>0, <1>1, <1>2, <2>2 DEF NoTally
    <3>2. b \in BOOLEAN
      BY <1>0, <1>1
    <3> QED BY <2>2, <3>1, <3>2 DEF Tallies
  <2> QED BY <2>1, <2>2
<1>4. old.near \in Nat /\ old.far \in Nat
  BY <1>3 DEF Tallies
<1>5. PICK n \in Nat : n = IF drift = "near" THEN old.near + 1 ELSE old.near
  BY <1>4
<1>6. PICK k \in Nat : k = IF drift = "far" THEN old.far + 1 ELSE old.far
  BY <1>4
<1>7. Told(s, m, drift) = [old EXCEPT !.near = n, !.far = k]
  BY <1>2, <1>3, <1>5, <1>6 DEF Told, Tallies
<1>8. /\ [old EXCEPT !.near = n, !.far = k] \in Tallies
      /\ [old EXCEPT !.near = n, !.far = k].map = old.map /\ [old EXCEPT !.near = n, !.far = k].shared = old.shared
      /\ [old EXCEPT !.near = n, !.far = k].near = n /\ [old EXCEPT !.near = n, !.far = k].far = k
  BY <1>3 DEF Tallies
<1> QED BY <1>1, <1>3, <1>5, <1>6, <1>7, <1>8 DEF ToldAs

\* Every step keeps the types.
LEMMA ShapeAction ==
  ASSUME ToolShape, NEW c \in Callers,
         \/ \E s \in Agents, tokens \in Reports : PostBudget(c, s, tokens)
         \/ ReadTarget(c) \/ CompareCap(c) \/ LowerCap(c) \/ PostConfig(c)
         \/ \E s \in Agents, m \in Maps : TakeLoop(c, s, m)
         \/ \E drift \in {"near", "edge", "far"} : CheckAlignment(c, drift)
         \/ Malformed(c) \/ InsertLoop(c)
  PROVE  ToolShape'
<1>0. /\ budget \in [Agents -> Nat] /\ cap \in Nat /\ loose \subseteq Agents
      /\ \A d \in Callers : ThreadOK(call[d]) /\ ThreadOK(call[c])
      /\ loops \in [Agents -> AlignLoops] /\ tally \in [Agents -> Tallies]
      /\ Reports \subseteq Nat /\ Levels \subseteq Nat
  BY ToolAssumption DEF ToolShape
<1>i. ThreadOK(NoCall)
  BY DEF ThreadOK, NoCall, Posting, Aligning
<1>p. \A d \in Callers : call[d].at \in Posting => call[d].sid \in Agents
  BY <1>0 DEF ThreadOK, Posting
<1>1. ASSUME NEW s \in Agents, NEW tokens \in Reports, PostBudget(c, s, tokens) PROVE ToolShape'
  <2>1. ThreadOK([at |-> "target", sid |-> s])
    BY DEF ThreadOK, Posting, Aligning
  <2>2. budget' \in [Agents -> Nat] /\ loose' \subseteq Agents
    BY <1>0, <1>1, <1>p DEF PostBudget, Doing
  <2> QED BY <1>0, <1>1, <2>1, <2>2, GoesOn DEF PostBudget, ToolShape
<1>2. CASE ReadTarget(c)
  <2>1. call[c].sid \in Agents /\ Target(budget[call[c].sid]) \in Nat
    BY <1>0, <1>2, TargetType DEF ReadTarget, ThreadOK
  <2>2. ThreadOK([at |-> "compare", sid |-> call[c].sid, to |-> Target(budget[call[c].sid])])
    BY <2>1 DEF ThreadOK, Posting, Aligning
  <2> QED BY <1>0, <1>2, <2>2, GoesOn DEF ReadTarget, ToolShape
<1>3. CASE CompareCap(c)
  <2>1. call[c] \in [at : {"compare", "lower"}, sid : Agents, to : Nat]
    BY <1>0, <1>3 DEF CompareCap, ThreadOK
  <2>2. ThreadOK([call[c] EXCEPT !.at = "lower"])
    BY <2>1 DEF ThreadOK, Posting, Aligning
  <2> QED BY <1>0, <1>3, <1>i, <2>2, GoesOn DEF CompareCap, ToolShape
<1>4. CASE LowerCap(c)
  <2>1. call[c].to \in Nat
    BY <1>0, <1>4 DEF LowerCap, ThreadOK
  <2> QED BY <1>0, <1>4, <1>i, <2>1, GoesOn DEF LowerCap, ToolShape
<1>5. CASE PostConfig(c)
  <2>1. cap' \in Nat /\ loose' \subseteq Agents
    BY <1>0, <1>5 DEF PostConfig
  <2> QED BY <1>0, <1>5, <2>1 DEF PostConfig, ToolShape
<1>6. ASSUME NEW s \in Agents, NEW m \in Maps, TakeLoop(c, s, m) PROVE ToolShape'
  <2>1. ThreadOK([at |-> "check", sid |-> s, map |-> m, loop |-> loops[s]])
    BY <1>0 DEF ThreadOK, Posting, Aligning
  <2>2. loops' \in [Agents -> AlignLoops]
    BY <1>0, <1>6 DEF TakeLoop, AlignLoops
  <2>3. tally' \in [Agents -> Tallies]
    <3>1. PICK b \in BOOLEAN : b = (tally[s].shared \/ \E d \in Doing(Aligning) : call[d].sid = s)
      BY Zenon
    <3>2. tally' = [tally EXCEPT ![s] = [tally[s] EXCEPT !.shared = b]]
      BY <1>0, <1>6, <3>1 DEF TakeLoop
    <3>3. [tally[s] EXCEPT !.shared = b] \in Tallies
      BY <1>0, <3>1 DEF Tallies
    <3> QED BY <1>0, <3>2, <3>3
  <2> QED BY <1>0, <1>6, <2>1, <2>2, <2>3, GoesOn DEF TakeLoop, ToolShape
<1>7. ASSUME NEW drift \in {"near", "edge", "far"}, CheckAlignment(c, drift) PROVE ToolShape'
  <2>1. call[c].at = "check" /\ call[c].sid \in Agents /\ call[c].map \in Maps /\ call[c].loop \in AlignLoops
    BY <1>0, <1>7 DEF CheckAlignment, ThreadOK, Aligning
  <2>2. Told(call[c].sid, call[c].map, drift) \in Tallies
    BY <1>0, <2>1, ToldFacts DEF ToldAs
  <2>3. Resumed(c) \in BegunLoops /\ Resumed(c).map = call[c].map
    <3>1. call[c].map # "none"
      BY <2>1, ToolAssumption
    <3>2. call[c].loop.map = call[c].map => call[c].loop \in BegunLoops
      BY <2>1, <3>1 DEF AlignLoops, NoLoop
    <3> QED BY <2>1, <3>2 DEF Resumed, Fresh, BegunLoops
  <2>4. Checked(Resumed(c), drift) \in BegunLoops
    <3>1. PICK l \in BegunLoops : l = Resumed(c)
      BY <2>3
    <3>2. PICK n \in Nat : n = IF drift = "near" THEN l.milestone + 1 ELSE l.milestone
      BY DEF BegunLoops
    <3>3. PICK k \in Nat : k = IF drift = "far" /\ l.corrections < MaxCorrections THEN l.corrections + 1 ELSE l.corrections
      BY DEF BegunLoops
    <3>4. [l EXCEPT !.milestone = n, !.corrections = k] \in BegunLoops
      BY LoopChanges
    <3>5. Checked(l, drift) = IF Milestones[l.map] = 0 THEN l ELSE [l EXCEPT !.milestone = n, !.corrections = k]
      BY <3>2, <3>3 DEF Checked, BegunLoops
    <3> QED BY <3>1, <3>4, <3>5
  <2>5. ThreadOK([at |-> "insert", sid |-> call[c].sid, loop |-> Checked(Resumed(c), drift)])
    BY <2>1, <2>4 DEF ThreadOK, Posting, Aligning, AlignLoops
  <2> QED BY <1>0, <1>7, <2>1, <2>2, <2>5, GoesOn DEF CheckAlignment, ToolShape
<1>8. CASE Malformed(c)
  <2>1. call[c].sid \in Agents /\ call[c].loop \in AlignLoops
    BY <1>0, <1>8 DEF Malformed, ThreadOK, Aligning
  <2>2. ThreadOK([at |-> "insert", sid |-> call[c].sid, loop |-> call[c].loop])
    BY <2>1 DEF ThreadOK, Posting, Aligning
  <2> QED BY <1>0, <1>8, <1>i, <2>2, GoesOn DEF Malformed, ToolShape
<1>9. CASE InsertLoop(c)
  <2>1. call[c].sid \in Agents /\ call[c].loop \in AlignLoops
    BY <1>0, <1>9 DEF InsertLoop, ThreadOK, Aligning
  <2> QED BY <1>0, <1>9, <1>i, <2>1, GoesOn DEF InsertLoop, ToolShape
<1> QED BY <1>1, <1>2, <1>3, <1>4, <1>5, <1>6, <1>7, <1>8, <1>9

\* The tallies and loops of the other sessions stay; of this one, the invariant is shown.
LEMMA LoopMoves ==
  ASSUME LoopInv, NEW c \in Callers, NEW s \in Agents,
         \A d \in Callers \ {c} : call'[d] = call[d],
         \A q \in Agents : InHand(q, c) \/ InHand(q, c)' => q = s,
         \A q \in Agents \ {s} : loops'[q] = loops[q] /\ tally'[q] = tally[q],
         ~tally'[s].shared =>
           /\ \A d, e \in Callers : InHand(s, d)' /\ InHand(s, e)' => d = e
           /\ (\A d \in Callers : ~InHand(s, d)') => Stands(loops'[s], tally'[s])
           /\ \A d \in Callers : InHand(s, d)' => loops'[s] = NoLoop /\ Stands(call'[d].loop, tally'[s])
  PROVE  LoopInv'
<1>1. ASSUME NEW q \in Agents \ {s}, NEW d \in Callers
      PROVE  (InHand(q, d)' <=> InHand(q, d)) /\ (InHand(q, d) => call'[d] = call[d])
  <2>1. CASE d = c
    BY <2>1
  <2>2. CASE d # c
    BY <2>2 DEF InHand
  <2> QED BY <2>1, <2>2
<1>2. ASSUME NEW q \in Agents, ~tally'[q].shared
      PROVE  /\ \A d, e \in Callers : InHand(q, d)' /\ InHand(q, e)' => d = e
             /\ (\A d \in Callers : ~InHand(q, d)') => Stands(loops'[q], tally'[q])
             /\ \A d \in Callers : InHand(q, d)' => loops'[q] = NoLoop /\ Stands(call'[d].loop, tally'[q])
  <2>1. CASE q = s
    BY <1>2, <2>1
  <2>2. CASE q # s
    <3>1. loops'[q] = loops[q] /\ tally'[q] = tally[q] /\ ~tally[q].shared
      BY <1>2, <2>2
    <3>2. \A d \in Callers : (InHand(q, d)' <=> InHand(q, d)) /\ (InHand(q, d) => call'[d] = call[d])
      BY <1>1, <2>2
    <3> QED BY <3>1, <3>2 DEF LoopInv
  <2> QED BY <2>1, <2>2
<1> QED BY <1>2 DEF LoopInv, Stands, BegunLoops, NoLoop

\* The steps of an alignment check keep the part of the loops.
LEMMA LoopAction ==
  ASSUME ToolShape, LoopInv, NEW c \in Callers,
         \/ \E s \in Agents, m \in Maps : TakeLoop(c, s, m)
         \/ \E drift \in {"near", "edge", "far"} : CheckAlignment(c, drift)
         \/ Malformed(c) \/ InsertLoop(c)
  PROVE  LoopInv'
<1>0. /\ \A d \in Callers : ThreadOK(call[d]) /\ ThreadOK(call[c])
      /\ call = [d \in Callers |-> call[d]]
      /\ loops \in [Agents -> AlignLoops] /\ tally \in [Agents -> Tallies]
  BY DEF ToolShape
<1>i. NoCall.at = "idle" /\ "idle" \notin Aligning /\ "check" \in Aligning /\ "insert" \in Aligning
  BY DEF NoCall, Aligning
<1>1. ASSUME NEW s \in Agents, NEW m \in Maps, TakeLoop(c, s, m) PROVE LoopInv'
  <2>1. /\ call[c].at = "idle" /\ call'[c] = [at |-> "check", sid |-> s, map |-> m, loop |-> loops[s]]
        /\ \A d \in Callers \ {c} : call'[d] = call[d]
    BY <1>0, <1>1, <1>i DEF TakeLoop, Arrives, Goes
  <2>2. loops' = [loops EXCEPT ![s] = NoLoop]
    BY <1>1 DEF TakeLoop
  <2>3. /\ \A q \in Agents \ {s} : tally'[q] = tally[q]
        /\ tally'[s] = [tally[s] EXCEPT !.shared = @ \/ \E d \in Doing(Aligning) : call[d].sid = s]
    BY <1>0, <1>1 DEF TakeLoop
  <2>4. /\ tally'[s].map = tally[s].map /\ tally'[s].near = tally[s].near /\ tally'[s].far = tally[s].far
        /\ tally'[s].shared <=> (tally[s].shared \/ \E d \in Doing(Aligning) : call[d].sid = s)
    <3>1. tally[s] \in Tallies
      BY <1>0
    <3> QED BY <2>3, <3>1 DEF Tallies
  <2>5. \A q \in Agents : InHand(q, c) \/ InHand(q, c)' => q = s
    BY <1>i, <2>1 DEF InHand
  <2>6. ASSUME ~tally'[s].shared
        PROVE  /\ \A d, e \in Callers : InHand(s, d)' /\ InHand(s, e)' => d = e
               /\ (\A d \in Callers : ~InHand(s, d)') => Stands(loops'[s], tally'[s])
               /\ \A d \in Callers : InHand(s, d)' => loops'[s] = NoLoop /\ Stands(call'[d].loop, tally'[s])
    <3>1. ~tally[s].shared /\ \A d \in Callers : ~InHand(s, d)
      BY <2>4, <2>6 DEF Doing, InHand
    <3>2. \A d \in Callers : InHand(s, d)' <=> d = c
      BY <1>i, <2>1, <3>1 DEF InHand
    <3>3. Stands(loops[s], tally[s])
      BY <3>1 DEF LoopInv
    <3>4. Stands(loops[s], tally'[s])
      BY <2>4, <3>3 DEF Stands
    <3>5. loops'[s] = NoLoop /\ call'[c].loop = loops[s]
      BY <1>0, <2>1, <2>2
    <3> QED BY <3>2, <3>4, <3>5
  <2>7. \A q \in Agents \ {s} : loops'[q] = loops[q] /\ tally'[q] = tally[q]
    BY <1>0, <2>2, <2>3
  <2> QED BY <2>1, <2>5, <2>6, <2>7, LoopMoves
<1>2. ASSUME NEW drift \in {"near", "edge", "far"}, CheckAlignment(c, drift) PROVE LoopInv'
  <2>0. PICK s \in Agents : s = call[c].sid
    BY <1>0, <1>2 DEF CheckAlignment, ThreadOK
  <2>1. /\ call[c].at = "check" /\ call[c].map \in Maps
        /\ call'[c] = [at |-> "insert", sid |-> s, loop |-> Checked(Resumed(c), drift)]
        /\ \A d \in Callers \ {c} : call'[d] = call[d]
    BY <1>0, <1>2, <2>0 DEF CheckAlignment, Goes, ThreadOK
  <2>2. loops' = loops /\ tally' = [tally EXCEPT ![s] = Told(s, call[c].map, drift)]
    BY <1>2, <2>0 DEF CheckAlignment
  <2>m. PICK m \in Maps : m = call[c].map
    BY <2>1
  <2>3. PICK old \in Tallies : ToldAs(s, m, drift, old)
    BY <1>0, <2>0, <2>m, ToldFacts
  <2>4. \A d \in Callers, q \in Agents : InHand(q, d)' <=> InHand(q, d)
    BY <1>i, <2>0, <2>1 DEF InHand
  <2>5. \A q \in Agents : InHand(q, c) \/ InHand(q, c)' => q = s
    BY <2>0, <2>4 DEF InHand
  <2>6. ASSUME ~tally'[s].shared
        PROVE  /\ \A d, e \in Callers : InHand(s, d)' /\ InHand(s, e)' => d = e
               /\ (\A d \in Callers : ~InHand(s, d)') => Stands(loops'[s], tally'[s])
               /\ \A d \in Callers : InHand(s, d)' => loops'[s] = NoLoop /\ Stands(call'[d].loop, tally'[s])
    <3>0. tally'[s] = Told(s, m, drift)
      BY <1>0, <2>m, <2>2
    <3>1. ~tally[s].shared
      BY <2>3, <2>6, <3>0 DEF ToldAs
    <3>2. InHand(s, c)
      BY <1>i, <2>0, <2>1 DEF InHand
    <3>3. \A d \in Callers : InHand(s, d)' <=> d = c
      BY <2>4, <3>1, <3>2 DEF LoopInv
    <3>4. loops[s] = NoLoop /\ Stands(call[c].loop, tally[s])
      BY <3>1, <3>2 DEF LoopInv
    <3>5. PICK new \in Tallies : new = Told(s, m, drift)
      BY <2>3 DEF ToldAs
    <3>6. tally[s] \in Tallies
      BY <1>0
    <3>7. Stands(Checked(IF call[c].loop.map = call[c].map THEN call[c].loop ELSE Fresh(call[c].map), drift), new)
      <4>1. /\ old.map = m /\ (IF tally[s].map = m THEN old = tally[s] ELSE old.near = 0 /\ old.far = 0)
            /\ new.map = m /\ new.near = (IF drift = "near" THEN old.near + 1 ELSE old.near)
            /\ new.far = (IF drift = "far" THEN old.far + 1 ELSE old.far)
        BY <2>3, <3>5 DEF ToldAs
      <4>2. Stands(Checked(IF call[c].loop.map = m THEN call[c].loop ELSE Fresh(m), drift), new)
        BY <2>m, <2>3, <3>4, <3>5, <3>6, <4>1, CheckStands
      <4> QED BY <2>m, <4>2
    <3>8. Stands(call'[c].loop, tally'[s])
      BY <2>1, <3>0, <3>5, <3>7 DEF Resumed
    <3> QED BY <2>2, <3>3, <3>4, <3>8
  <2>7. \A q \in Agents \ {s} : loops'[q] = loops[q] /\ tally'[q] = tally[q]
    BY <1>0, <2>2
  <2> QED BY <2>1, <2>5, <2>6, <2>7, LoopMoves
<1>3. CASE Malformed(c)
  <2>0. PICK s \in Agents : s = call[c].sid
    BY <1>0, <1>3 DEF Malformed, ThreadOK
  <2>1. /\ call[c].at = "check" /\ \A d \in Callers \ {c} : call'[d] = call[d]
        /\ call'[c] = IF call[c].loop = NoLoop THEN NoCall ELSE [at |-> "insert", sid |-> s, loop |-> call[c].loop]
    BY <1>0, <1>3, <2>0 DEF Malformed, Goes
  <2>2. loops' = loops /\ tally' = tally
    BY <1>3 DEF Malformed
  <2>3. InHand(s, c)
    BY <1>i, <2>0, <2>1 DEF InHand
  <2>5. \A q \in Agents : InHand(q, c) \/ InHand(q, c)' => q = s
    BY <1>i, <2>0, <2>1 DEF InHand
  <2>6. ASSUME ~tally'[s].shared
        PROVE  /\ \A d, e \in Callers : InHand(s, d)' /\ InHand(s, e)' => d = e
               /\ (\A d \in Callers : ~InHand(s, d)') => Stands(loops'[s], tally'[s])
               /\ \A d \in Callers : InHand(s, d)' => loops'[s] = NoLoop /\ Stands(call'[d].loop, tally'[s])
    <3>1. /\ \A d \in Callers : InHand(s, d) <=> d = c
          /\ loops[s] = NoLoop /\ Stands(call[c].loop, tally[s])
      BY <2>2, <2>3, <2>6 DEF LoopInv
    <3>2. \A d \in Callers \ {c} : ~InHand(s, d)'
      BY <2>1, <3>1 DEF InHand
    <3>3. CASE call[c].loop = NoLoop
      <4>1. ~InHand(s, c)'
        BY <1>i, <2>1, <3>3 DEF InHand
      <4> QED BY <2>2, <3>1, <3>2, <3>3, <4>1
    <3>4. CASE call[c].loop # NoLoop
      <4>1. call'[c].loop = call[c].loop
        BY <2>1, <3>4
      <4>2. InHand(s, c)'
        BY <1>i, <2>1, <3>4 DEF InHand
      <4> QED BY <2>2, <3>1, <3>2, <4>1, <4>2
    <3> QED BY <3>3, <3>4
  <2> QED BY <2>1, <2>2, <2>5, <2>6, LoopMoves
<1>4. CASE InsertLoop(c)
  <2>0. PICK s \in Agents : s = call[c].sid
    BY <1>0, <1>4 DEF InsertLoop, ThreadOK
  <2>1. /\ call[c].at = "insert" /\ \A d \in Callers \ {c} : call'[d] = call[d]
        /\ call'[c] = NoCall
    BY <1>0, <1>4 DEF InsertLoop, Goes
  <2>2. loops' = [loops EXCEPT ![s] = call[c].loop] /\ tally' = tally
    BY <1>4, <2>0 DEF InsertLoop
  <2>3. InHand(s, c) /\ \A q : ~InHand(q, c)'
    BY <1>i, <2>0, <2>1 DEF InHand
  <2>5. \A q \in Agents : InHand(q, c) \/ InHand(q, c)' => q = s
    BY <2>0, <2>3 DEF InHand
  <2>6. ASSUME ~tally'[s].shared
        PROVE  /\ \A d, e \in Callers : InHand(s, d)' /\ InHand(s, e)' => d = e
               /\ (\A d \in Callers : ~InHand(s, d)') => Stands(loops'[s], tally'[s])
               /\ \A d \in Callers : InHand(s, d)' => loops'[s] = NoLoop /\ Stands(call'[d].loop, tally'[s])
    <3>1. /\ \A d \in Callers : InHand(s, d) <=> d = c
          /\ Stands(call[c].loop, tally[s])
      BY <2>2, <2>3, <2>6 DEF LoopInv
    <3>2. \A d \in Callers : ~InHand(s, d)'
      BY <2>1, <2>3, <3>1 DEF InHand
    <3> QED BY <1>0, <2>2, <3>1, <3>2
  <2>7. \A q \in Agents \ {s} : loops'[q] = loops[q] /\ tally'[q] = tally[q]
    BY <1>0, <2>2
  <2> QED BY <2>1, <2>5, <2>6, <2>7, LoopMoves
<1> QED BY <1>1, <1>2, <1>3, <1>4

\* Every step keeps the invariant.
LEMMA ToolStep == ToolInv /\ [ToolNext]_toolVars => ToolInv'
<1> SUFFICES ASSUME ToolInv, [ToolNext]_toolVars PROVE ToolInv'
  OBVIOUS
<1>0. ToolShape /\ CapInv /\ LoopInv
  BY DEF ToolInv
<1>u. CASE UNCHANGED toolVars
  <2>1. ToolShape'
    BY <1>0, <1>u DEF toolVars, ToolShape, ThreadOK
  <2>2. CapInv'
    BY <1>0, <1>u, CapStays DEF toolVars, CapPart
  <2>3. LoopInv'
    BY <1>0, <1>u, LoopStays DEF toolVars, LoopPart
  <2> QED BY <2>1, <2>2, <2>3 DEF ToolInv
<1>n. ASSUME NEW c \in Callers,
         \/ \E s \in Agents, tokens \in Reports : PostBudget(c, s, tokens)
         \/ ReadTarget(c) \/ CompareCap(c) \/ LowerCap(c) \/ PostConfig(c)
         \/ \E s \in Agents, m \in Maps : TakeLoop(c, s, m)
         \/ \E drift \in {"near", "edge", "far"} : CheckAlignment(c, drift)
         \/ Malformed(c) \/ InsertLoop(c)
      PROVE ToolInv'
  <2>0. /\ NoCall.at = "idle" /\ "idle" \notin Posting \cup Aligning
        /\ \A t \in Posting : t \notin Aligning /\ {"check", "insert"} = Aligning
    BY DEF NoCall, Posting, Aligning
  <2>1. ToolShape'
    BY <1>0, <1>n, ShapeAction
  <2>2. CASE \/ \E s \in Agents, tokens \in Reports : PostBudget(c, s, tokens)
             \/ ReadTarget(c) \/ CompareCap(c) \/ LowerCap(c)
    <3>1. CapInv'
      BY <1>0, <2>2, CapAction
    <3>2. /\ UNCHANGED LoopPart
          /\ call[c].at \in {"idle"} \cup Posting /\ call'[c].at \in {"idle"} \cup Posting
          /\ \A d \in Callers \ {c} : call'[d] = call[d]
      <4>1. ASSUME NEW s \in Agents, NEW tokens \in Reports, PostBudget(c, s, tokens)
            PROVE /\ UNCHANGED LoopPart
                  /\ call[c].at \in {"idle"} \cup Posting /\ call'[c].at \in {"idle"} \cup Posting
                  /\ \A d \in Callers \ {c} : call'[d] = call[d]
        BY <1>0, <2>0, <4>1 DEF PostBudget, Arrives, Goes, LoopPart, Posting, ToolShape
      <4>2. CASE ReadTarget(c)
        BY <1>0, <4>2 DEF ReadTarget, Goes, LoopPart, Posting, ToolShape
      <4>3. CASE CompareCap(c)
        <5>1. call[c] \in [at : {"compare", "lower"}, sid : Agents, to : Nat]
          BY <1>0, <4>3 DEF CompareCap, ThreadOK, ToolShape
        <5> QED BY <1>0, <2>0, <4>3, <5>1 DEF CompareCap, Goes, LoopPart, Posting, ToolShape
      <4>4. CASE LowerCap(c)
        BY <1>0, <2>0, <4>4 DEF LowerCap, Goes, LoopPart, Posting, ToolShape
      <4> QED BY <2>2, <4>1, <4>2, <4>3, <4>4
    <3>3. LoopInv'
      BY <1>0, <2>0, <3>2, LoopStays
    <3> QED BY <2>1, <3>1, <3>3 DEF ToolInv
  <2>3. CASE PostConfig(c)
    <3>1. LoopInv'
      BY <1>0, <2>3, LoopStays DEF PostConfig, LoopPart
    <3>2. CapInv'
      <4>1. CASE UNCHANGED <<cap, loose>>
        BY <1>0, <2>3, <4>1, CapStays DEF PostConfig, CapPart
      <4>2. CASE loose' = {s \in Agents : budget[s] # 0}
        <5>1. \A s \in Agents : ~Fast(s)'
          BY <2>3, <4>2 DEF PostConfig, Fast
        <5>2. \A d \in Callers : call'[d].at \in Posting => call'[d].sid \in Agents
          BY <2>1 DEF ToolShape, ThreadOK, Posting
        <5>3. {"compare", "lower"} \subseteq Posting
          BY DEF Posting
        <5> QED BY <5>1, <5>2, <5>3 DEF CapInv, CapAlone, CapSet, CapRead, CapNext, Fast
      <4> QED BY <2>3, <4>1, <4>2 DEF PostConfig
    <3> QED BY <2>1, <3>1, <3>2 DEF ToolInv
  <2>4. CASE \/ \E s \in Agents, m \in Maps : TakeLoop(c, s, m)
             \/ \E drift \in {"near", "edge", "far"} : CheckAlignment(c, drift)
             \/ Malformed(c) \/ InsertLoop(c)
    <3>1. LoopInv'
      BY <1>0, <2>4, LoopAction
    <3>2. /\ UNCHANGED CapPart
          /\ call[c].at \in {"idle"} \cup Aligning /\ call'[c].at \in {"idle"} \cup Aligning
          /\ \A d \in Callers \ {c} : call'[d] = call[d]
      <4>1. ASSUME NEW s \in Agents, NEW m \in Maps, TakeLoop(c, s, m)
            PROVE /\ UNCHANGED CapPart
                  /\ call[c].at \in {"idle"} \cup Aligning /\ call'[c].at \in {"idle"} \cup Aligning
                  /\ \A d \in Callers \ {c} : call'[d] = call[d]
        BY <1>0, <2>0, <4>1 DEF TakeLoop, Arrives, Goes, CapPart, Aligning, ToolShape
      <4>2. ASSUME NEW drift \in {"near", "edge", "far"}, CheckAlignment(c, drift)
            PROVE /\ UNCHANGED CapPart
                  /\ call[c].at \in {"idle"} \cup Aligning /\ call'[c].at \in {"idle"} \cup Aligning
                  /\ \A d \in Callers \ {c} : call'[d] = call[d]
        BY <1>0, <4>2 DEF CheckAlignment, Goes, CapPart, Aligning, ToolShape
      <4>3. CASE Malformed(c)
        BY <1>0, <2>0, <4>3 DEF Malformed, Goes, CapPart, Aligning, ToolShape
      <4>4. CASE InsertLoop(c)
        BY <1>0, <2>0, <4>4 DEF InsertLoop, Goes, CapPart, Aligning, ToolShape
      <4> QED BY <2>4, <4>1, <4>2, <4>3, <4>4
    <3>3. CapInv'
      BY <1>0, <2>0, <3>2, CapStays
    <3> QED BY <2>1, <3>1, <3>3 DEF ToolInv
  <2> QED BY <1>n, <2>2, <2>3, <2>4
<1> QED BY <1>u, <1>n DEF ToolNext

\* The invariant is what ToolsSound asks, and more.
LEMMA ToolHolds == ToolInv => ToolsSound
<1> SUFFICES ASSUME ToolInv PROVE ToolsSound
  OBVIOUS
<1>1. CapHolds
  BY DEF ToolInv, CapInv, CapSet, CapHolds, Fast, Reporting, Doing
<1>2. ProgressKept
  BY DEF ToolInv, LoopInv, InHand, Stands, ProgressKept, Doing
<1> QED BY <1>1, <1>2 DEF ToolsSound

\* A session keeps the cap its budget asks for whatever the others report, and its loop stands
\* where the answers have brought it, unless calls of it overlapped, for any threads,
\* sessions, reports, state maps and milestones (mcp_stdio.rs).
THEOREM ToolsSoundCorrect == ToolSpec => []ToolsSound
BY ToolStart, ToolStep, ToolHolds, PTL DEF ToolSpec

-----------------------------------------------------------------------------
(* A child process with a time limit *)

\* How long the caller has waited, by what it waits for.
OnTime ==
  /\ phase \in {"wait", "kill"} => now <= Limit /\ ~again
  /\ runner = "jit" => phase \in {"wait", "kill", "done"} /\ now <= Limit
  /\ runner = "verify" =>
       /\ phase # "in"
       /\ phase = "out" => mark <= Limit + (IF again THEN Grace ELSE 0) /\ now <= mark + Grace
       /\ phase = "err" => mark <= Limit + 2 * Grace + (IF again THEN Grace ELSE 0) /\ now <= mark + Grace
       /\ phase = "done" => now <= Limit + 4 * Grace
  /\ runner = "cli" =>
       /\ ~again
       /\ phase \in {"out", "err", "in"} => child = "quit"
       /\ now > Limit => child = "quit" /\ helper # "none" /\ holds # {}

\* Who is left: past the limit nobody of the group, and nobody once the output is collected
\* for the second time.
Survivors ==
  /\ alive => helper # "none"
  /\ phase = "wait" => ~late
  /\ phase = "kill" => late
  /\ phase \in {"out", "err", "in"} => child # "runs"
  /\ late /\ phase # "kill" => child # "runs" /\ (runner # "cli" => ~(alive /\ helper = "group"))
  /\ again => runner = "verify" /\ child # "runs" /\ ~(alive /\ helper = "group")

\* A pipe that is behind the caller was closed and read, or is held by one apart.
Past(s) == IF s = "out" THEN phase \in {"err", "in", "done"} ELSE phase \in {"in", "done"}
ReadOut(s) == (Eof(s) /\ (s \in printed => s \in got)) \/ (helper = "apart" /\ s \in holds)
Collected ==
  /\ runner # "jit" /\ (late => runner = "verify") =>
       \A s \in {"out", "err"} : Past(s) => ReadOut(s)
  /\ runner = "jit" /\ phase = "done" /\ ~late => printed \subseteq got

RunInv == RunTypeOK /\ OnTime /\ Survivors /\ Collected

\* The invariant holds when the child is started.
LEMMA RunStart == RunInit => RunInv
<1> SUFFICES ASSUME RunInit PROVE RunInv
  OBVIOUS
<1>0. runner \in {"verify", "jit", "cli"} /\ Limit \in Nat /\ Grace \in Nat /\ Horizon \in Nat
  BY RunAssumption DEF RunInit
<1>1. RunTypeOK
  <2>1. ok \in BOOLEAN /\ alive \in BOOLEAN /\ late \in BOOLEAN /\ again \in BOOLEAN
    BY Zenon DEF RunInit
  <2> QED BY <1>0, <2>1 DEF RunInit, RunTypeOK
<1>2. OnTime
  BY <1>0 DEF RunInit, OnTime
<1>3. Survivors /\ Collected
  BY <1>0 DEF RunInit, Survivors, Collected, Past
<1> QED BY <1>1, <1>2, <1>3 DEF RunInv

\* What the child and its helper do keeps it.
LEMMA ProcessKeeps == RunInv /\ phase # "done" /\ Process => RunInv'
<1> SUFFICES ASSUME RunInv, phase # "done", Process PROVE RunInv'
  OBVIOUS
<1> USE DEF RunInv
<1>1. ASSUME NEW where \in {"group", "apart"}, NEW pipes \in SUBSET {"in", "out", "err"}, Fork(where, pipes)
      PROVE RunInv'
  BY <1>1 DEF Fork, RunTypeOK, OnTime, Survivors, Collected, Past, ReadOut, Eof
<1>2. ASSUME NEW s \in {"out", "err"}, Write(s) PROVE RunInv'
  BY <1>2 DEF Write, RunTypeOK, OnTime, Survivors, Collected, Past, ReadOut, Eof
<1>3. ASSUME NEW success \in BOOLEAN, Quit(success) PROVE RunInv'
  BY <1>3 DEF Quit, RunTypeOK, OnTime, Survivors, Collected, Past, ReadOut, Eof
<1>4. CASE LeaveGroup
  BY <1>4 DEF LeaveGroup, RunTypeOK, OnTime, Survivors, Collected, Past, ReadOut, Eof
<1>5. CASE HelperEnds
  <2>1. alive' \in BOOLEAN
    BY <1>5, Zenon DEF HelperEnds
  <2>2. RunTypeOK'
    BY <1>5, <2>1 DEF HelperEnds, RunTypeOK
  <2> QED BY <1>5, <2>2 DEF HelperEnds, RunTypeOK, OnTime, Survivors, Collected, Past, ReadOut, Eof
<1>6. CASE Recycle
  BY <1>6 DEF Recycle, RunTypeOK, OnTime, Survivors, Collected, Past, ReadOut, Eof
<1> QED BY <1>1, <1>2, <1>3, <1>4, <1>5, <1>6 DEF Process

\* What the caller does keeps it, and time passes only when nobody must act.
LEMMA RunStep == RunInv /\ [RunNext]_runVars => RunInv'
<1> SUFFICES ASSUME RunInv, [RunNext]_runVars PROVE RunInv'
  OBVIOUS
<1>0. runner \in {"verify", "jit", "cli"} /\ Limit \in Nat /\ Grace \in Nat /\ Horizon \in Nat
      /\ now \in Nat /\ mark \in Nat
  BY RunAssumption DEF RunInv, RunTypeOK
<1>1. CASE phase # "done" /\ Process
  BY <1>1, ProcessKeeps
<1>2. CASE SeesExit
  BY <1>0, <1>2 DEF SeesExit, CanReturn, RunInv, RunTypeOK, OnTime, Survivors, Collected, Past, ReadOut, Eof
<1>3. CASE Expires
  BY <1>0, <1>3 DEF Expires, RunInv, RunTypeOK, OnTime, Survivors, Collected, Past, ReadOut, Eof
<1>4. CASE Kill
  BY <1>0, <1>4 DEF Kill, Victims, RunInv, RunTypeOK, OnTime, Survivors, Collected, Past, ReadOut, Eof
<1>5. CASE Tick
  BY <1>0, <1>5 DEF Tick, Urgent, Overdue, RunInv, RunTypeOK, OnTime, Survivors, Collected, Past, ReadOut, Eof
<1>6. ASSUME NEW s \in {"out", "err", "in"}, Collect(s) PROVE RunInv'
  <2>1. RunTypeOK'
    <3>1. again' \in BOOLEAN
      BY <1>6, Zenon DEF Collect
    <3>2. phase' \in {"wait", "kill", "out", "err", "in", "done"}
      BY <1>0, <1>6 DEF Collect, NextPipe
    <3> QED BY <1>0, <1>6, <3>1, <3>2 DEF Collect, RunInv, RunTypeOK
  <2>2. OnTime'
    BY <1>0, <1>6 DEF Collect, NextPipe, RunInv, RunTypeOK, OnTime, Survivors, Eof
  <2>3. Survivors'
    BY <1>0, <1>6 DEF Collect, NextPipe, RunInv, RunTypeOK, OnTime, Survivors, Eof
  <2>4. Collected'
    BY <1>0, <1>6 DEF Collect, NextPipe, RunInv, RunTypeOK, OnTime, Survivors, Collected, Past, ReadOut, Eof
  <2> QED BY <2>1, <2>2, <2>3, <2>4 DEF RunInv
<1>7. ASSUME NEW s \in {"out", "err", "in"}, KillHolders(s) PROVE RunInv'
  BY <1>0, <1>7 DEF KillHolders, Overdue, Victims, RunInv, RunTypeOK, OnTime, Survivors, Collected, Past, ReadOut, Eof
<1>8. ASSUME NEW s \in {"out", "err", "in"}, GiveUp(s) PROVE RunInv'
  <2>1. RunTypeOK'
    <3>1. again' \in BOOLEAN
      BY <1>8, Zenon DEF GiveUp
    <3>2. phase' \in {"wait", "kill", "out", "err", "in", "done"}
      BY <1>0, <1>8 DEF GiveUp, NextPipe, Overdue
    <3> QED BY <1>0, <1>8, <3>1, <3>2 DEF GiveUp, RunInv, RunTypeOK
  <2>2. OnTime'
    BY <1>0, <1>8 DEF GiveUp, NextPipe, Overdue, RunInv, RunTypeOK, OnTime, Survivors, Eof
  <2>3. Survivors'
    BY <1>0, <1>8 DEF GiveUp, NextPipe, Overdue, RunInv, RunTypeOK, OnTime, Survivors, Eof
  <2>4. Collected'
    BY <1>0, <1>8 DEF GiveUp, NextPipe, Overdue, RunInv, RunTypeOK, OnTime, Survivors, Collected, Past, ReadOut, Eof
  <2> QED BY <2>1, <2>2, <2>3, <2>4 DEF RunInv
<1>9. CASE UNCHANGED runVars
  BY <1>9 DEF runVars, RunInv, RunTypeOK, OnTime, Survivors, Collected, Past, ReadOut, Eof
<1> QED BY <1>1, <1>2, <1>3, <1>4, <1>5, <1>6, <1>7, <1>8, <1>9 DEF RunNext

\* The invariant is what the caller relies on, and more.
LEMMA RunHolds == RunInv => RunsBounded /\ RunTypeOK
<1> SUFFICES ASSUME RunInv PROVE RunsBounded
  BY DEF RunInv
<1>0. runner \in {"verify", "jit", "cli"} /\ Limit \in Nat /\ Grace \in Nat
      /\ now \in Nat /\ mark \in Nat /\ phase \in {"wait", "kill", "out", "err", "in", "done"}
  BY RunAssumption DEF RunInv, RunTypeOK
<1>1. Bounded
  BY <1>0 DEF RunInv, OnTime, Bounded
<1>2. NoSurvivors
  BY DEF RunInv, Survivors, NoSurvivors
<1>3. OutputKept
  BY <1>0 DEF RunInv, RunTypeOK, Collected, Past, ReadOut, OutputKept
<1> QED BY <1>1, <1>2, <1>3 DEF RunsBounded

\* No child and no helper holds its caller up beyond the limit and its graces, a run that was
\* late leaves no process of its group behind, and what was printed is returned but for a
\* pipe held by a helper apart, for any limit and grace (proc_bound.rs, poly_jit.rs,
\* cli_backend.rs).
THEOREM RunsBoundedCorrect == RunSpec => [](RunsBounded /\ RunTypeOK)
BY RunStart, RunStep, RunHolds, PTL DEF RunSpec

-----------------------------------------------------------------------------
(* The patched runs of the hypervisor *)

JitRecords == [at : Stages \cup Finished, step : 0..JitSteps, backup : Contents,
               excerpt : Contents \cup {"none"}, patched : BOOLEAN]

\* Who is counted in the books: begun, passed, given up.
Begun == {r \in JitRequests : jit[r].at # "new"}
PassedRuns == {r \in JitRequests : jit[r].at = "passed"}
GivenUp == {"restore", "failed", "error", "left"}
Gone == {r \in JitRequests : jit[r].at \in GivenUp}
StatusRecords == [total : Nat, repaired : Nat, failed : Nat, last : {"none", "running", "passed", "failed"}]

Books ==
  /\ status \in StatusRecords
  /\ status.total <= Cardinality(Begun)
  /\ status.repaired <= Cardinality(PassedRuns)
  /\ status.failed <= Cardinality(Gone)

\* Somebody has left what the file holds.
Marred(text) == \E q \in JitRequests : jit[q].at \in {"error", "left"} /\ (Patched(q) \/ text = "torn")

\* While requests do not overlap: a request that has not patched yet finds the file as it
\* backed it up, and its backup is as good as what it found.
Tidy ==
  ~crossed =>
    /\ \A r, q \in JitRequests : Busy(r) /\ Busy(q) => r = q
    /\ Quiet => artifact = sound \/ Marred(artifact)
    /\ \A r \in JitRequests : Busy(r) =>
         /\ jit[r].backup = sound \/ Marred(jit[r].backup)
         /\ ~Patched(r) => artifact = jit[r].backup

JitShape ==
  /\ artifact \in Contents /\ sound \in Contents /\ crossed \in BOOLEAN
  /\ jit \in [JitRequests -> JitRecords]
  /\ \A r \in JitRequests : jit[r].at = "new" => ~Patched(r)

JitInv == JitShape /\ Books /\ Tidy

\* One more of a finite set, and no fewer.
LEMMA OneMore ==
  ASSUME NEW S, NEW T, IsFiniteSet(S), T \subseteq S, NEW U, U \subseteq T, NEW r \in T, r \notin U
  PROVE  Cardinality(T) \in Nat /\ Cardinality(U) \in Nat /\ Cardinality(U) + 1 <= Cardinality(T)
<1>1. IsFiniteSet(T)
  BY FS_Subset
<1>2. IsFiniteSet(U) /\ U \cup {r} \subseteq T
  BY <1>1, FS_Subset
<1>3. Cardinality(U \cup {r}) = Cardinality(U) + 1
  BY <1>2, FS_AddElement
<1>4. Cardinality(U \cup {r}) <= Cardinality(T)
  BY <1>1, <1>2, FS_Subset
<1>5. Cardinality(T) \in Nat /\ Cardinality(U) \in Nat
  BY <1>1, <1>2, FS_CardinalityType
<1> QED BY <1>3, <1>4, <1>5

\* A subset of a finite set has no more elements.
LEMMA NoFewer ==
  ASSUME NEW S, NEW T, IsFiniteSet(S), T \subseteq S, NEW U, U \subseteq T
  PROVE  Cardinality(T) \in Nat /\ Cardinality(U) \in Nat /\ Cardinality(U) <= Cardinality(T)
<1>1. IsFiniteSet(T)
  BY FS_Subset
<1>2. IsFiniteSet(U) /\ Cardinality(U) <= Cardinality(T)
  BY <1>1, FS_Subset
<1> QED BY <1>1, <1>2, FS_CardinalityType

\* The invariant holds before the first request.
LEMMA JitStart == JitInit => JitInv
<1> SUFFICES ASSUME JitInit PROVE JitInv
  OBVIOUS
<1>1. JitShape
  <2>1. FALSE \in BOOLEAN /\ crossed \in BOOLEAN
    BY Zenon DEF JitInit
  <2>2. [at |-> "new", step |-> 0, backup |-> "old", excerpt |-> "none", patched |-> FALSE] \in JitRecords
    BY JitAssumption, <2>1 DEF JitRecords, Stages, Contents
  <2>3. jit \in [JitRequests -> JitRecords]
    BY <2>2, Zenon DEF JitInit
  <2>4. \A r \in JitRequests : ~Patched(r)
    BY DEF JitInit, Patched
  <2> QED BY <2>1, <2>3, <2>4 DEF JitInit, JitShape, Contents
<1>2. Books
  <2>1. IsFiniteSet(Begun) /\ IsFiniteSet(PassedRuns) /\ IsFiniteSet(Gone)
    BY JitAssumption, FS_Subset DEF Begun, PassedRuns, Gone, GivenUp
  <2>2. Cardinality(Begun) \in Nat /\ Cardinality(PassedRuns) \in Nat /\ Cardinality(Gone) \in Nat
    BY <2>1, FS_CardinalityType
  <2> QED BY <2>2 DEF JitInit, Books, StatusRecords
<1>3. Tidy
  BY DEF JitInit, Tidy, Quiet, Busy, Stages
<1> QED BY <1>1, <1>2, <1>3 DEF JitInv

(* Every action moves one request on: where to, with which backup, patched or not.  *)
Moves(r, a, b, p) ==
  \E x \in JitRecords :
    /\ jit' = [jit EXCEPT ![r] = x]
    /\ x.at = a /\ x.backup = b /\ (x.patched <=> p)

\* A request that moves leaves the others where they are.
LEMMA MoveFacts ==
  ASSUME JitShape, NEW r \in JitRequests, NEW a, NEW b, NEW p, Moves(r, a, b, p)
  PROVE  /\ jit' \in [JitRequests -> JitRecords]
         /\ jit'[r].at = a /\ jit'[r].backup = b /\ (Patched(r)' <=> p)
         /\ \A q \in JitRequests \ {r} : jit'[q] = jit[q]
<1>1. PICK x \in JitRecords : jit' = [jit EXCEPT ![r] = x] /\ x.at = a /\ x.backup = b /\ (x.patched <=> p)
  BY DEF Moves
<1>2. jit' \in [JitRequests -> JitRecords] /\ jit'[r] = x /\ \A q \in JitRequests \ {r} : jit'[q] = jit[q]
  BY <1>1 DEF JitShape
<1> QED BY <1>1, <1>2 DEF Patched

\* What a move does to those who are counted: nobody is counted less, and who begins, passes
\* or gives up is counted.
LEMMA MoveCounts ==
  ASSUME JitShape, NEW r \in JitRequests, NEW a, NEW b, NEW p, Moves(r, a, b, p),
         a # "new", jit[r].at # "passed", jit[r].at \in GivenUp => a \in GivenUp
  PROVE  /\ Cardinality(Begun) \in Nat /\ Cardinality(PassedRuns) \in Nat /\ Cardinality(Gone) \in Nat
         /\ Cardinality(Begun') \in Nat /\ Cardinality(PassedRuns') \in Nat /\ Cardinality(Gone') \in Nat
         /\ Cardinality(Begun) <= Cardinality(Begun') /\ Cardinality(PassedRuns) <= Cardinality(PassedRuns')
         /\ Cardinality(Gone) <= Cardinality(Gone')
         /\ jit[r].at = "new" => Cardinality(Begun) + 1 <= Cardinality(Begun')
         /\ a = "passed" => Cardinality(PassedRuns) + 1 <= Cardinality(PassedRuns')
         /\ a = "restore" /\ jit[r].at = "patch" => Cardinality(Gone) + 1 <= Cardinality(Gone')
<1>0. IsFiniteSet(JitRequests)
  BY JitAssumption
<1>1. jit'[r].at = a /\ \A q \in JitRequests \ {r} : jit'[q].at = jit[q].at
  BY MoveFacts
<1>2. /\ Begun' \subseteq JitRequests /\ PassedRuns' \subseteq JitRequests /\ Gone' \subseteq JitRequests
      /\ Begun \subseteq Begun' /\ PassedRuns \subseteq PassedRuns' /\ Gone \subseteq Gone'
  BY <1>1 DEF Begun, PassedRuns, Gone, GivenUp
<1>3. Cardinality(Begun) \in Nat /\ Cardinality(Begun') \in Nat /\ Cardinality(Begun) <= Cardinality(Begun')
  BY <1>0, <1>2, NoFewer
<1>4. Cardinality(PassedRuns) \in Nat /\ Cardinality(PassedRuns') \in Nat /\ Cardinality(PassedRuns) <= Cardinality(PassedRuns')
  BY <1>0, <1>2, NoFewer
<1>5. Cardinality(Gone) \in Nat /\ Cardinality(Gone') \in Nat /\ Cardinality(Gone) <= Cardinality(Gone')
  BY <1>0, <1>2, NoFewer
<1>6. ASSUME jit[r].at = "new" PROVE Cardinality(Begun) + 1 <= Cardinality(Begun')
  <2>1. r \in Begun' /\ r \notin Begun
    BY <1>1, <1>6 DEF Begun
  <2> QED BY <1>0, <1>2, <2>1, OneMore
<1>7. ASSUME a = "passed" PROVE Cardinality(PassedRuns) + 1 <= Cardinality(PassedRuns')
  <2>1. r \in PassedRuns' /\ r \notin PassedRuns
    BY <1>1, <1>7 DEF PassedRuns
  <2> QED BY <1>0, <1>2, <2>1, OneMore
<1>8. ASSUME a = "restore", jit[r].at = "patch" PROVE Cardinality(Gone) + 1 <= Cardinality(Gone')
  <2>1. r \in Gone' /\ r \notin Gone
    BY <1>1, <1>8 DEF Gone, GivenUp
  <2> QED BY <1>0, <1>2, <2>1, OneMore
<1> QED BY <1>3, <1>4, <1>5, <1>6, <1>7, <1>8

\* The counters of the books, one raised.
LEMMA BooksRise ==
  ASSUME NEW s \in StatusRecords, NEW n \in Nat, NEW l \in {"none", "running", "passed", "failed"}
  PROVE  /\ [s EXCEPT !.total = n, !.last = l] \in StatusRecords
         /\ [s EXCEPT !.repaired = n, !.last = l] \in StatusRecords
         /\ [s EXCEPT !.failed = n, !.last = l] \in StatusRecords
BY DEF StatusRecords

\* Where only the stage of a request changes.
LEMMA AtMoves ==
  ASSUME JitShape, NEW r \in JitRequests, NEW a \in Stages \cup Finished,
         jit' = [jit EXCEPT ![r].at = a]
  PROVE  Moves(r, a, jit[r].backup, Patched(r))
<1>1. PICK x : x = [jit[r] EXCEPT !.at = a]
  OBVIOUS
<1>2. jit[r] \in JitRecords /\ jit' = [jit EXCEPT ![r] = x]
  BY <1>1 DEF JitShape
<1>3. x \in JitRecords /\ x.at = a /\ x.backup = jit[r].backup
  BY <1>1, <1>2 DEF JitRecords
<1>4. x.patched <=> Patched(r)
  BY <1>1, <1>2 DEF JitRecords, Patched
<1> QED BY <1>2, <1>3, <1>4 DEF Moves

\* The books hold when a request moves and they are left alone.
LEMMA BooksKept ==
  ASSUME JitShape, Books, NEW r \in JitRequests, NEW a, NEW b, NEW p, Moves(r, a, b, p),
         a # "new", jit[r].at # "passed", jit[r].at \in GivenUp => a \in GivenUp, UNCHANGED status
  PROVE  Books'
<1>1. /\ Cardinality(Begun) \in Nat /\ Cardinality(PassedRuns) \in Nat /\ Cardinality(Gone) \in Nat
      /\ Cardinality(Begun') \in Nat /\ Cardinality(PassedRuns') \in Nat /\ Cardinality(Gone') \in Nat
      /\ Cardinality(Begun) <= Cardinality(Begun') /\ Cardinality(PassedRuns) <= Cardinality(PassedRuns')
      /\ Cardinality(Gone) <= Cardinality(Gone')
  BY MoveCounts
<1> QED BY <1>1 DEF Books, StatusRecords

\* Every step of a request keeps it.
LEMMA JitAction ==
  ASSUME JitInv, NEW r \in JitRequests,
         \/ BackUp(r) \/ NoBackUp(r) \/ CommandPasses(r) \/ CommandFails(r) \/ CommandErrs(r)
         \/ \E text \in {artifact} \cup (IF "read" \in JitFaults THEN {"none"} ELSE {}) : ReadExcerpt(r, text)
         \/ \E edit \in Edits \cup {jit[r].excerpt} : Patch(r, edit)
         \/ PatchFails(r) \/ JitGivesUp(r) \/ PutBack(r) \/ PutBackFails(r) \/ Hangup(r)
  PROVE  JitInv'
<1>0. /\ jit \in [JitRequests -> JitRecords] /\ jit[r] \in JitRecords
      /\ jit[r].at \in Stages \cup Finished /\ jit[r].step \in 0..JitSteps /\ jit[r].backup \in Contents
      /\ jit[r].excerpt \in Contents \cup {"none"} /\ jit[r].patched \in BOOLEAN
      /\ JitSteps \in Nat \ {0} /\ IsFiniteSet(JitRequests) /\ artifact \in Contents
      /\ JitShape /\ Books /\ Tidy
  BY JitAssumption DEF JitInv, JitShape, JitRecords
<1>1. CASE BackUp(r)
  <2>1. Moves(r, "run", artifact, Patched(r))
    <3>1. jit' = [jit EXCEPT ![r] = [jit[r] EXCEPT !.at = "run", !.step = 1, !.backup = artifact]]
      BY <1>0, <1>1 DEF BackUp
    <3>2. [jit[r] EXCEPT !.at = "run", !.step = 1, !.backup = artifact] \in JitRecords
      <4>1. "run" \in Stages \cup Finished /\ 1 \in 0..JitSteps
        BY <1>0 DEF Stages
      <4> QED BY <1>0, <4>1 DEF JitRecords
    <3> DEFINE x == [jit[r] EXCEPT !.at = "run", !.step = 1, !.backup = artifact]
    <3>3. x.at = "run" /\ x.backup = artifact
      BY <1>0 DEF JitRecords
    <3>4. x.patched <=> Patched(r)
      BY <1>0 DEF JitRecords, Patched
    <3> QED BY <3>1, <3>2, <3>3, <3>4 DEF Moves
  <2>2. /\ jit' \in [JitRequests -> JitRecords]
        /\ jit'[r].at = "run" /\ jit'[r].backup = artifact /\ (Patched(r)' <=> Patched(r))
        /\ \A q \in JitRequests \ {r} : jit'[q] = jit[q]
    BY <1>0, <2>1, MoveFacts
  <2>3. JitShape'
    BY <1>0, <1>1, <2>2 DEF BackUp, JitShape, Patched, Contents
  <2>4. Books'
    <3>1. jit[r].at # "passed" /\ (jit[r].at \in GivenUp => "run" \in GivenUp)
      BY <1>1 DEF BackUp, Stages, GivenUp
    <3>2. /\ Cardinality(Begun) \in Nat /\ Cardinality(PassedRuns) \in Nat /\ Cardinality(Gone) \in Nat
          /\ Cardinality(Begun') \in Nat /\ Cardinality(PassedRuns') \in Nat /\ Cardinality(Gone') \in Nat
          /\ Cardinality(Begun) <= Cardinality(Begun') /\ Cardinality(PassedRuns) <= Cardinality(PassedRuns')
          /\ Cardinality(Gone) <= Cardinality(Gone')
          /\ jit[r].at = "new" => Cardinality(Begun) + 1 <= Cardinality(Begun')
          /\ "run" = "passed" => Cardinality(PassedRuns) + 1 <= Cardinality(PassedRuns')
          /\ "run" = "restore" /\ jit[r].at = "patch" => Cardinality(Gone) + 1 <= Cardinality(Gone')
      BY <1>0, <2>1, <3>1, MoveCounts
    <3>3. /\ status'.total = status.total + 1 /\ status'.repaired = status.repaired /\ status'.failed = status.failed /\ status'.last = "running"
          /\ status' \in StatusRecords
      <4>1. status' = [status EXCEPT !.total = @ + 1, !.last = "running"]
        BY <1>1 DEF BackUp
      <4>2. status \in StatusRecords
        BY <1>0 DEF Books
      <4>3. PICK n \in Nat : n = status.total + 1
        BY <4>2 DEF StatusRecords
      <4>4. status' = [status EXCEPT !.total = n, !.last = "running"]
        BY ONLY <4>1, <4>2, <4>3 DEF StatusRecords
      <4>5. status' \in StatusRecords
        BY <4>2, <4>4, BooksRise
      <4> QED BY ONLY <4>2, <4>3, <4>4, <4>5 DEF StatusRecords
    <3>4. jit[r].at = "new"
      BY <1>1 DEF BackUp
    <3> QED BY <1>0, <3>2, <3>3, <3>4 DEF Books, StatusRecords
  <2>5. Tidy'
    <3>1. /\ UNCHANGED <<artifact, sound>> /\ jit[r].at = "new"
          /\ ~crossed' => ~crossed /\ \A q \in JitRequests : ~Busy(q)
      BY <1>1 DEF BackUp
    <3>2. ~Patched(r)
      BY <1>0, <3>1 DEF JitShape
    <3>3. \A q \in JitRequests \ {r} : (Busy(q)' <=> Busy(q)) /\ (Patched(q)' <=> Patched(q)) /\ jit'[q] = jit[q]
      BY <2>2 DEF Busy, Patched
    <3>4. Busy(r)' /\ jit'[r].backup = artifact /\ (Patched(r)' <=> Patched(r))
      BY <2>2 DEF Busy, Stages
    <3>5. \A text : Marred(text) => Marred(text)'
      BY <3>1, <3>3 DEF Marred
    <3>6. ASSUME ~crossed' PROVE artifact = sound \/ Marred(artifact)
      BY <1>0, <3>1, <3>6 DEF Tidy, Quiet
    <3> QED BY <3>1, <3>2, <3>3, <3>4, <3>5, <3>6 DEF Tidy, Quiet
  <2> QED BY <2>3, <2>4, <2>5 DEF JitInv
<1>2. CASE NoBackUp(r)
  <2>1. Moves(r, "refused", jit[r].backup, Patched(r))
    <3>1. jit' = [jit EXCEPT ![r].at = "refused"] /\ "refused" \in Stages \cup Finished
      BY <1>2 DEF NoBackUp, Stages, Finished
    <3> QED BY <1>0, <3>1, AtMoves
  <2>2. /\ jit' \in [JitRequests -> JitRecords]
        /\ jit'[r].at = "refused" /\ jit'[r].backup = jit[r].backup /\ (Patched(r)' <=> Patched(r))
        /\ \A q \in JitRequests \ {r} : jit'[q] = jit[q]
    BY <1>0, <2>1, MoveFacts
  <2>3. JitShape'
    BY <1>0, <1>2, <2>2 DEF NoBackUp, JitShape, Patched, Contents
  <2>4. Books'
    <3>1. /\ jit[r].at # "passed" /\ (jit[r].at \in GivenUp => "refused" \in GivenUp)
          /\ UNCHANGED status
      BY <1>2 DEF NoBackUp, Stages, GivenUp
    <3> QED BY <1>0, <2>1, <3>1, BooksKept
  <2>5. Tidy'
    BY <1>0, <1>2, <2>2 DEF NoBackUp, JitShape, Tidy, Quiet, Busy, Patched, Marred, Stages, Finished
  <2> QED BY <2>3, <2>4, <2>5 DEF JitInv
<1>3. CASE CommandPasses(r)
  <2>1. Moves(r, "passed", jit[r].backup, Patched(r))
    <3>1. jit' = [jit EXCEPT ![r].at = "passed"] /\ "passed" \in Stages \cup Finished
      BY <1>3 DEF CommandPasses, Stages, Finished
    <3> QED BY <1>0, <3>1, AtMoves
  <2>2. /\ jit' \in [JitRequests -> JitRecords]
        /\ jit'[r].at = "passed" /\ jit'[r].backup = jit[r].backup /\ (Patched(r)' <=> Patched(r))
        /\ \A q \in JitRequests \ {r} : jit'[q] = jit[q]
    BY <1>0, <2>1, MoveFacts
  <2>3. JitShape'
    BY <1>0, <1>3, <2>2 DEF CommandPasses, JitShape, Patched, Contents
  <2>4. Books'
    <3>1. jit[r].at # "passed" /\ (jit[r].at \in GivenUp => "passed" \in GivenUp)
      BY <1>3 DEF CommandPasses, Stages, GivenUp
    <3>2. /\ Cardinality(Begun) \in Nat /\ Cardinality(PassedRuns) \in Nat /\ Cardinality(Gone) \in Nat
          /\ Cardinality(Begun') \in Nat /\ Cardinality(PassedRuns') \in Nat /\ Cardinality(Gone') \in Nat
          /\ Cardinality(Begun) <= Cardinality(Begun') /\ Cardinality(PassedRuns) <= Cardinality(PassedRuns')
          /\ Cardinality(Gone) <= Cardinality(Gone')
          /\ jit[r].at = "new" => Cardinality(Begun) + 1 <= Cardinality(Begun')
          /\ "passed" = "passed" => Cardinality(PassedRuns) + 1 <= Cardinality(PassedRuns')
          /\ "passed" = "restore" /\ jit[r].at = "patch" => Cardinality(Gone) + 1 <= Cardinality(Gone')
      BY <1>0, <2>1, <3>1, MoveCounts
    <3>3. /\ status'.total = status.total /\ status'.repaired <= status.repaired + 1 /\ status'.failed = status.failed /\ status'.last = "passed"
          /\ status' \in StatusRecords
      <4>1. status' = [status EXCEPT !.repaired = IF jit[r].patched THEN @ + 1 ELSE @, !.last = "passed"]
        BY <1>3 DEF CommandPasses
      <4>2. status \in StatusRecords
        BY <1>0 DEF Books
      <4>3. PICK n \in Nat : n = IF jit[r].patched THEN status.repaired + 1 ELSE status.repaired
        BY <4>2 DEF StatusRecords
      <4>4. status' = [status EXCEPT !.repaired = n, !.last = "passed"]
        BY ONLY <4>1, <4>2, <4>3 DEF StatusRecords
      <4>5. status' \in StatusRecords
        BY <4>2, <4>4, BooksRise
      <4> QED BY ONLY <4>2, <4>3, <4>4, <4>5 DEF StatusRecords
    <3>4. jit[r].at = "run"
      BY <1>3 DEF CommandPasses
    <3> QED BY <1>0, <3>2, <3>3, <3>4 DEF Books, StatusRecords
  <2>5. Tidy'
    BY <1>0, <1>3, <2>2 DEF CommandPasses, JitShape, Tidy, Quiet, Busy, Patched, Marred, Stages, Finished
  <2> QED BY <2>3, <2>4, <2>5 DEF JitInv
<1>4. CASE CommandFails(r)
  <2>1. Moves(r, "excerpt", jit[r].backup, Patched(r))
    <3>1. jit' = [jit EXCEPT ![r].at = "excerpt"] /\ "excerpt" \in Stages \cup Finished
      BY <1>4 DEF CommandFails, Stages, Finished
    <3> QED BY <1>0, <3>1, AtMoves
  <2>2. /\ jit' \in [JitRequests -> JitRecords]
        /\ jit'[r].at = "excerpt" /\ jit'[r].backup = jit[r].backup /\ (Patched(r)' <=> Patched(r))
        /\ \A q \in JitRequests \ {r} : jit'[q] = jit[q]
    BY <1>0, <2>1, MoveFacts
  <2>3. JitShape'
    BY <1>0, <1>4, <2>2 DEF CommandFails, JitShape, Patched, Contents
  <2>4. Books'
    <3>1. /\ jit[r].at # "passed" /\ (jit[r].at \in GivenUp => "excerpt" \in GivenUp)
          /\ UNCHANGED status
      BY <1>4 DEF CommandFails, Stages, GivenUp
    <3> QED BY <1>0, <2>1, <3>1, BooksKept
  <2>5. Tidy'
    BY <1>0, <1>4, <2>2 DEF CommandFails, JitShape, Tidy, Quiet, Busy, Patched, Marred, Stages, Finished
  <2> QED BY <2>3, <2>4, <2>5 DEF JitInv
<1>5. CASE CommandErrs(r)
  <2>1. Moves(r, "error", jit[r].backup, Patched(r))
    <3>1. jit' = [jit EXCEPT ![r].at = "error"] /\ "error" \in Stages \cup Finished
      BY <1>5 DEF CommandErrs, Stages, Finished
    <3> QED BY <1>0, <3>1, AtMoves
  <2>2. /\ jit' \in [JitRequests -> JitRecords]
        /\ jit'[r].at = "error" /\ jit'[r].backup = jit[r].backup /\ (Patched(r)' <=> Patched(r))
        /\ \A q \in JitRequests \ {r} : jit'[q] = jit[q]
    BY <1>0, <2>1, MoveFacts
  <2>3. JitShape'
    BY <1>0, <1>5, <2>2 DEF CommandErrs, JitShape, Patched, Contents
  <2>4. Books'
    <3>1. /\ jit[r].at # "passed" /\ (jit[r].at \in GivenUp => "error" \in GivenUp)
          /\ UNCHANGED status
      BY <1>5 DEF CommandErrs, Stages, GivenUp
    <3> QED BY <1>0, <2>1, <3>1, BooksKept
  <2>5. Tidy'
    BY <1>0, <1>5, <2>2 DEF CommandErrs, JitShape, Tidy, Quiet, Busy, Patched, Marred, Stages, Finished
  <2> QED BY <2>3, <2>4, <2>5 DEF JitInv
<1>6. ASSUME NEW text \in {artifact} \cup (IF "read" \in JitFaults THEN {"none"} ELSE {}), ReadExcerpt(r, text)
      PROVE JitInv'
  <2>1. Moves(r, "patch", jit[r].backup, Patched(r))
    <3>1. jit' = [jit EXCEPT ![r] = [jit[r] EXCEPT !.at = "patch", !.excerpt = text]]
      BY <1>0, <1>6 DEF ReadExcerpt
    <3>2. [jit[r] EXCEPT !.at = "patch", !.excerpt = text] \in JitRecords
      BY <1>0, <1>6 DEF ReadExcerpt, JitRecords, Stages, Finished, Contents
    <3> DEFINE x == [jit[r] EXCEPT !.at = "patch", !.excerpt = text]
    <3>3. x.at = "patch" /\ x.backup = jit[r].backup
      BY <1>0 DEF JitRecords
    <3>4. x.patched <=> Patched(r)
      BY <1>0 DEF JitRecords, Patched
    <3> QED BY <3>1, <3>2, <3>3, <3>4 DEF Moves
  <2>2. /\ jit' \in [JitRequests -> JitRecords]
        /\ jit'[r].at = "patch" /\ jit'[r].backup = jit[r].backup /\ (Patched(r)' <=> Patched(r))
        /\ \A q \in JitRequests \ {r} : jit'[q] = jit[q]
    BY <1>0, <2>1, MoveFacts
  <2>3. JitShape'
    BY <1>0, <1>6, <2>2 DEF ReadExcerpt, JitShape, Patched, Contents
  <2>4. Books'
    <3>1. /\ jit[r].at # "passed" /\ (jit[r].at \in GivenUp => "patch" \in GivenUp)
          /\ UNCHANGED status
      BY <1>6 DEF ReadExcerpt, Stages, GivenUp
    <3> QED BY <1>0, <2>1, <3>1, BooksKept
  <2>5. Tidy'
    <3>1. UNCHANGED <<artifact, sound, crossed>> /\ jit[r].at = "excerpt"
      BY <1>6 DEF ReadExcerpt
    <3> QED BY <1>0, <3>1, <2>2 DEF JitShape, Tidy, Quiet, Busy, Patched, Marred, Stages, Finished
  <2> QED BY <2>3, <2>4, <2>5 DEF JitInv
<1>7. ASSUME NEW edit \in Edits \cup {jit[r].excerpt}, Patch(r, edit)
      PROVE JitInv'
  <2>1. Moves(r, "run", jit[r].backup, TRUE)
    <3>1. jit' = [jit EXCEPT ![r] = [jit[r] EXCEPT !.at = "run", !.step = @ + 1, !.patched = TRUE]]
      BY <1>0, <1>7 DEF Patch
    <3>2. [jit[r] EXCEPT !.at = "run", !.step = @ + 1, !.patched = TRUE] \in JitRecords
      BY <1>0, <1>7 DEF Patch, MayPatch, JitRecords, Stages, Finished, Contents
    <3> DEFINE x == [jit[r] EXCEPT !.at = "run", !.step = @ + 1, !.patched = TRUE]
    <3>3. x.at = "run" /\ x.backup = jit[r].backup
      BY <1>0 DEF JitRecords
    <3>4. x.patched <=> TRUE
      BY <1>0 DEF JitRecords, Patched
    <3> QED BY <3>1, <3>2, <3>3, <3>4 DEF Moves
  <2>2. /\ jit' \in [JitRequests -> JitRecords]
        /\ jit'[r].at = "run" /\ jit'[r].backup = jit[r].backup /\ (Patched(r)' <=> TRUE)
        /\ \A q \in JitRequests \ {r} : jit'[q] = jit[q]
    BY <1>0, <2>1, MoveFacts
  <2>3. JitShape'
    BY <1>0, <1>7, <2>2 DEF Patch, MayPatch, JitShape, Patched, Contents
  <2>4. Books'
    <3>1. /\ jit[r].at # "passed" /\ (jit[r].at \in GivenUp => "run" \in GivenUp)
          /\ UNCHANGED status
      BY <1>7 DEF Patch, MayPatch, Stages, GivenUp
    <3> QED BY <1>0, <2>1, <3>1, BooksKept
  <2>5. Tidy'
    BY <1>0, <1>7, <2>2 DEF Patch, MayPatch, JitShape, Tidy, Quiet, Busy, Patched, Marred, Stages, Finished
  <2> QED BY <2>3, <2>4, <2>5 DEF JitInv
<1>8. CASE PatchFails(r)
  <2>1. Moves(r, "error", jit[r].backup, Patched(r))
    <3>1. jit' = [jit EXCEPT ![r].at = "error"] /\ "error" \in Stages \cup Finished
      BY <1>8 DEF PatchFails, Stages, Finished
    <3> QED BY <1>0, <3>1, AtMoves
  <2>2. /\ jit' \in [JitRequests -> JitRecords]
        /\ jit'[r].at = "error" /\ jit'[r].backup = jit[r].backup /\ (Patched(r)' <=> Patched(r))
        /\ \A q \in JitRequests \ {r} : jit'[q] = jit[q]
    BY <1>0, <2>1, MoveFacts
  <2>3. JitShape'
    BY <1>0, <1>8, <2>2 DEF PatchFails, MayPatch, JitShape, Patched, Contents
  <2>4. Books'
    <3>1. /\ jit[r].at # "passed" /\ (jit[r].at \in GivenUp => "error" \in GivenUp)
          /\ UNCHANGED status
      BY <1>8 DEF PatchFails, MayPatch, Stages, GivenUp
    <3> QED BY <1>0, <2>1, <3>1, BooksKept
  <2>5. Tidy'
    BY <1>0, <1>8, <2>2 DEF PatchFails, MayPatch, JitShape, Tidy, Quiet, Busy, Patched, Marred, Stages, Finished
  <2> QED BY <2>3, <2>4, <2>5 DEF JitInv
<1>9. CASE JitGivesUp(r)
  <2>1. Moves(r, "restore", jit[r].backup, Patched(r))
    <3>1. jit' = [jit EXCEPT ![r].at = "restore"] /\ "restore" \in Stages \cup Finished
      BY <1>9 DEF JitGivesUp, Stages, Finished
    <3> QED BY <1>0, <3>1, AtMoves
  <2>2. /\ jit' \in [JitRequests -> JitRecords]
        /\ jit'[r].at = "restore" /\ jit'[r].backup = jit[r].backup /\ (Patched(r)' <=> Patched(r))
        /\ \A q \in JitRequests \ {r} : jit'[q] = jit[q]
    BY <1>0, <2>1, MoveFacts
  <2>3. JitShape'
    BY <1>0, <1>9, <2>2 DEF JitGivesUp, MayPatch, JitShape, Patched, Contents
  <2>4. Books'
    <3>1. jit[r].at # "passed" /\ (jit[r].at \in GivenUp => "restore" \in GivenUp)
      BY <1>9 DEF JitGivesUp, MayPatch, Stages, GivenUp
    <3>2. /\ Cardinality(Begun) \in Nat /\ Cardinality(PassedRuns) \in Nat /\ Cardinality(Gone) \in Nat
          /\ Cardinality(Begun') \in Nat /\ Cardinality(PassedRuns') \in Nat /\ Cardinality(Gone') \in Nat
          /\ Cardinality(Begun) <= Cardinality(Begun') /\ Cardinality(PassedRuns) <= Cardinality(PassedRuns')
          /\ Cardinality(Gone) <= Cardinality(Gone')
          /\ jit[r].at = "new" => Cardinality(Begun) + 1 <= Cardinality(Begun')
          /\ "restore" = "passed" => Cardinality(PassedRuns) + 1 <= Cardinality(PassedRuns')
          /\ "restore" = "restore" /\ jit[r].at = "patch" => Cardinality(Gone) + 1 <= Cardinality(Gone')
      BY <1>0, <2>1, <3>1, MoveCounts
    <3>3. /\ status'.total = status.total /\ status'.repaired = status.repaired /\ status'.failed = status.failed + 1 /\ status'.last = "failed"
          /\ status' \in StatusRecords
      <4>1. status' = [status EXCEPT !.failed = @ + 1, !.last = "failed"]
        BY <1>9 DEF JitGivesUp
      <4>2. status \in StatusRecords
        BY <1>0 DEF Books
      <4>3. PICK n \in Nat : n = status.failed + 1
        BY <4>2 DEF StatusRecords
      <4>4. status' = [status EXCEPT !.failed = n, !.last = "failed"]
        BY ONLY <4>1, <4>2, <4>3 DEF StatusRecords
      <4>5. status' \in StatusRecords
        BY <4>2, <4>4, BooksRise
      <4> QED BY ONLY <4>2, <4>3, <4>4, <4>5 DEF StatusRecords
    <3>4. jit[r].at = "patch"
      BY <1>9 DEF JitGivesUp
    <3> QED BY <1>0, <3>2, <3>3, <3>4 DEF Books, StatusRecords
  <2>5. Tidy'
    BY <1>0, <1>9, <2>2 DEF JitGivesUp, MayPatch, JitShape, Tidy, Quiet, Busy, Patched, Marred, Stages, Finished
  <2> QED BY <2>3, <2>4, <2>5 DEF JitInv
<1>10. CASE PutBack(r)
  <2>1. Moves(r, "failed", jit[r].backup, Patched(r))
    <3>1. jit' = [jit EXCEPT ![r].at = "failed"] /\ "failed" \in Stages \cup Finished
      BY <1>10 DEF PutBack, Stages, Finished
    <3> QED BY <1>0, <3>1, AtMoves
  <2>2. /\ jit' \in [JitRequests -> JitRecords]
        /\ jit'[r].at = "failed" /\ jit'[r].backup = jit[r].backup /\ (Patched(r)' <=> Patched(r))
        /\ \A q \in JitRequests \ {r} : jit'[q] = jit[q]
    BY <1>0, <2>1, MoveFacts
  <2>3. JitShape'
    BY <1>0, <1>10, <2>2 DEF PutBack, JitShape, Patched, Contents
  <2>4. Books'
    <3>1. /\ jit[r].at # "passed" /\ (jit[r].at \in GivenUp => "failed" \in GivenUp)
          /\ UNCHANGED status
      BY <1>10 DEF PutBack, Stages, GivenUp
    <3> QED BY <1>0, <2>1, <3>1, BooksKept
  <2>5. Tidy'
    BY <1>0, <1>10, <2>2 DEF PutBack, JitShape, Tidy, Quiet, Busy, Patched, Marred, Stages, Finished
  <2> QED BY <2>3, <2>4, <2>5 DEF JitInv
<1>11. CASE PutBackFails(r)
  <2>1. Moves(r, "error", jit[r].backup, Patched(r))
    <3>1. jit' = [jit EXCEPT ![r].at = "error"] /\ "error" \in Stages \cup Finished
      BY <1>11 DEF PutBackFails, Stages, Finished
    <3> QED BY <1>0, <3>1, AtMoves
  <2>2. /\ jit' \in [JitRequests -> JitRecords]
        /\ jit'[r].at = "error" /\ jit'[r].backup = jit[r].backup /\ (Patched(r)' <=> Patched(r))
        /\ \A q \in JitRequests \ {r} : jit'[q] = jit[q]
    BY <1>0, <2>1, MoveFacts
  <2>3. JitShape'
    BY <1>0, <1>11, <2>2 DEF PutBackFails, JitShape, Patched, Contents
  <2>4. Books'
    <3>1. /\ jit[r].at # "passed" /\ (jit[r].at \in GivenUp => "error" \in GivenUp)
          /\ UNCHANGED status
      BY <1>11 DEF PutBackFails, Stages, GivenUp
    <3> QED BY <1>0, <2>1, <3>1, BooksKept
  <2>5. Tidy'
    BY <1>0, <1>11, <2>2 DEF PutBackFails, JitShape, Tidy, Quiet, Busy, Patched, Marred, Stages, Finished
  <2> QED BY <2>3, <2>4, <2>5 DEF JitInv
<1>12. CASE Hangup(r)
  <2>1. Moves(r, "left", jit[r].backup, Patched(r))
    <3>1. jit' = [jit EXCEPT ![r].at = "left"] /\ "left" \in Stages \cup Finished
      BY <1>12 DEF Hangup, Stages, Finished
    <3> QED BY <1>0, <3>1, AtMoves
  <2>2. /\ jit' \in [JitRequests -> JitRecords]
        /\ jit'[r].at = "left" /\ jit'[r].backup = jit[r].backup /\ (Patched(r)' <=> Patched(r))
        /\ \A q \in JitRequests \ {r} : jit'[q] = jit[q]
    BY <1>0, <2>1, MoveFacts
  <2>3. JitShape'
    BY <1>0, <1>12, <2>2 DEF Hangup, Busy, JitShape, Patched, Contents
  <2>4. Books'
    <3>1. /\ jit[r].at # "passed" /\ (jit[r].at \in GivenUp => "left" \in GivenUp)
          /\ UNCHANGED status
      BY <1>12 DEF Hangup, Busy, Stages, GivenUp
    <3> QED BY <1>0, <2>1, <3>1, BooksKept
  <2>5. Tidy'
    BY <1>0, <1>12, <2>2 DEF Hangup, JitShape, Tidy, Quiet, Busy, Patched, Marred, Stages, Finished
  <2> QED BY <2>3, <2>4, <2>5 DEF JitInv
<1> QED BY <1>1, <1>2, <1>3, <1>4, <1>5, <1>6, <1>7, <1>8, <1>9, <1>10, <1>11, <1>12

\* Every step, or none, keeps it.
LEMMA JitStep == JitInv /\ [JitNext]_jitVars => JitInv'
<1> SUFFICES ASSUME JitInv, [JitNext]_jitVars PROVE JitInv'
  OBVIOUS
<1>1. CASE UNCHANGED jitVars
  BY <1>1 DEF jitVars, JitInv, JitShape, Books, Tidy, Quiet, Busy, Patched, Marred, Begun, PassedRuns, Gone, GivenUp
<1>2. CASE JitNext
  BY <1>2, JitAction DEF JitNext
<1> QED BY <1>1, <1>2

\* The invariant is what SourceKept asks, and bounds the counters by the requests.
LEMMA JitHolds == JitInv => SourceKept /\ JitTypeOK
<1> SUFFICES ASSUME JitInv PROVE SourceKept /\ JitTypeOK
  OBVIOUS
<1>1. SourceKept
  BY DEF JitInv, Tidy, Marred, SourceKept
<1>2. JitTypeOK
  <2>1. IsFiniteSet(JitRequests) /\ Begun \subseteq JitRequests /\ PassedRuns \subseteq JitRequests /\ Gone \subseteq JitRequests
    BY JitAssumption DEF Begun, PassedRuns, Gone
  <2>2. Cardinality(JitRequests) \in Nat /\ Cardinality(Begun) \in Nat /\ Cardinality(Begun) <= Cardinality(JitRequests)
    BY <2>1, NoFewer
  <2>3. Cardinality(PassedRuns) \in Nat /\ Cardinality(PassedRuns) <= Cardinality(JitRequests)
    BY <2>1, NoFewer
  <2>4. Cardinality(Gone) \in Nat /\ Cardinality(Gone) <= Cardinality(JitRequests)
    BY <2>1, NoFewer
  <2>5. status \in [total : 0..Cardinality(JitRequests), repaired : 0..Cardinality(JitRequests),
                    failed : 0..Cardinality(JitRequests), last : {"none", "running", "passed", "failed"}]
    BY <2>2, <2>3, <2>4 DEF JitInv, Books, StatusRecords
  <2> QED BY <2>5 DEF JitInv, JitShape, JitRecords, JitTypeOK
<1> QED BY <1>1, <1>2

\* When no request is under way the file is the last sound one, unless requests overlapped or
\* one that had patched it was cut off, and the status counts no request twice, for any
\* finite set of requests, any edits and any number of attempts (routes_hypervisor.rs).
THEOREM SourceKeptCorrect == JitSpec => [](SourceKept /\ JitTypeOK)
BY JitStart, JitStep, JitHolds, PTL DEF JitSpec

-----------------------------------------------------------------------------
(* The services together *)

\* A step of the services is, for each of them, a step of its own or none.
LEMMA ServicesStep ==
  ASSUME [ServicesNext]_servicesVars
  PROVE  /\ [ReplyNext]_replyVars /\ [ToolNext]_toolVars /\ [RunNext]_runVars /\ [JitNext]_jitVars
         /\ [TalkNext]_talkVars /\ [GroundNext]_groundVars /\ [AskNext]_askVars /\ [PlanNext]_planVars
         /\ [EditNext]_editVars
<1>1. CASE UNCHANGED servicesVars
  BY <1>1, Zenon DEF servicesVars
<1>2. CASE ServicesNext
  <2>1. CASE part = "board" /\ Still(part)
    BY <2>1 DEF Still
  <2>2. CASE part = "reply" /\ ReplyNext /\ Still(part)
    BY <2>2 DEF Still
  <2>3. CASE part = "tools" /\ ToolNext /\ Still(part)
    BY <2>3 DEF Still
  <2>4. CASE part = "grounding" /\ GroundNext /\ Still(part)
    BY <2>4 DEF Still
  <2>5. CASE part = "plan" /\ PlanNext /\ Still(part)
    BY <2>5 DEF Still
  <2>6. CASE part = "runs" /\ RunNext /\ Still(part)
    BY <2>6 DEF Still
  <2>7. CASE part = "jit" /\ JitNext /\ Still(part)
    BY <2>7 DEF Still
  <2>8. CASE part = "talk" /\ TalkNext /\ Still(part)
    BY <2>8 DEF Still
  <2>9. CASE part = "inquiry" /\ AskNext /\ Still(part)
    BY <2>9 DEF Still
  <2>10. CASE part = "edits" /\ EditNext /\ Still(part)
    BY <2>10 DEF Still
  <2> QED
    BY <1>2, <2>1, <2>2, <2>3, <2>4, <2>5, <2>6, <2>7, <2>8, <2>9, <2>10, Zenon DEF ServicesNext
<1> QED BY <1>1, <1>2

\* The services run side by side as each runs alone, the task board aside.
LEMMA ServicesApart ==
  ServicesSpec =>
    ReplySpec /\ ToolSpec /\ RunSpec /\ JitSpec /\ TalkSpec /\ GroundSpec /\ AskSpec /\ PlanSpec
      /\ EditSpec
<1>1. ServicesInit =>
        ReplyInit /\ ToolInit /\ RunInit /\ JitInit /\ TalkInit /\ GroundInit /\ AskInit /\ PlanInit
          /\ EditInit
  BY Zenon DEF ServicesInit
<1> QED
  BY <1>1, ServicesStep, PTL DEF ServicesSpec, ReplySpec, ToolSpec, RunSpec, JitSpec, TalkSpec,
                                 GroundSpec, AskSpec, PlanSpec, EditSpec

\* The HTTP routes keep what they promise side by side: sub-sessions and retries, budgets and
\* loops shared by calls, child processes with a time limit, the patched file of jit_run, the
\* messages forwarded, the verdicts of /v1/verify, the answers and beliefs of providers; for
\* every value of the constants (server/routes_responses.rs, mcp_stdio.rs, proc_bound.rs,
\* server/routes_hypervisor.rs, anthropic_forwarder.rs, hallucination.rs, backend_router.rs).
THEOREM RoutesSoundCorrect == ServicesSpec => []RoutesSound
<1>1. RelaySound /\ ToolsSound /\ (RunsBounded /\ RunTypeOK) /\ (SourceKept /\ JitTypeOK) /\ TalkSound
        /\ GroundingSound /\ InquirySound => RoutesSound
  BY Zenon DEF RoutesSound
<1> QED
  BY <1>1, ServicesApart, RelaySoundCorrect, ToolsSoundCorrect, RunsBoundedCorrect, SourceKeptCorrect,
     TalkSoundCorrect, GroundingSoundCorrect, InquirySoundCorrect, PTL

\* Among the routes a repair's evidence leads: its plan always, and its edits wherever they write
\* other texts in place or turn back a fault of one token, for every list of hints, every line and
\* every table of words (plan and line_mutations in mutation_repair.rs).
THEOREM EvidenceLeadsInReach == ServicesSpec => [](InReach => EvidenceLeads)
<1>1. PlanSound /\ (InReach => EditsSound) => (InReach => EvidenceLeads)
  BY Zenon DEF EvidenceLeads
<1> QED BY <1>1, ServicesApart, PlanSoundCorrect, EditsSoundCorrect, PTL
=============================================================================
