----------------------------- MODULE FilesProofs -----------------------------
(***************************************************************************)
(* Proofs about the files several processes work on, for any values of the *)
(* constants: the recall log, the patch store, the daemon's pid file and the *)
(* files of a checkpoint.                                                  *)
(***************************************************************************)
EXTENDS MCFiles, TLAPS

------------------------------------------------------------------------------
(* The recall log *)

Pieces == [id : Memories, tomb : BOOLEAN, state : {"whole", "part"}]
Lines == Seq(Pieces)

LogShape ==
  /\ lines \in Seq(Lines) /\ last \in Lines
  /\ said \in [Memories -> {"nothing", "kept", "forgotten", "unsure"}]
  /\ writer \in [Writers -> [pc : {"resting", "text", "newline"},
                             id : Memories \union {"none"}, tomb : BOOLEAN]]
  /\ \A w \in Writers : writer[w].pc # "resting" => writer[w].id \in Memories

\* The last piece about an id, in a file, and what it says.
Says(p) == IF p.tomb THEN "forgotten" ELSE "kept"
LastOf(f, m, i, k) ==
  /\ i \in DOMAIN f /\ k \in DOMAIN f[i] /\ f[i][k].id = m
  /\ \A k2 \in DOMAIN f[i] : k2 > k => f[i][k2].id # m
  /\ \A j \in DOMAIN f : j > i => ~Holds(f[j], m)
Word(f, m, word) ==
  \/ word = "nothing" /\ \A i \in DOMAIN f : ~Holds(f[i], m)
  \/ \E i, k : LastOf(f, m, i, k) /\ word = Says(f[i][k])

\* What a call is taken to have said is what the file says, the unfinished line
\* with it, whatever other pieces are on the same line.
All == Append(lines, last)
WordsKept == \A m \in Memories : said[m] # "unsure" => Word(All, m, said[m])

LogInv == LogShape /\ WordsKept

LEMMA LogInitInv == LogInit => LogInv
<1> SUFFICES ASSUME LogInit PROVE LogInv
  OBVIOUS
<1>1. LogShape
  BY DEF LogInit, LogShape, Lines, Resting
<1>2. All = <<<<>>>>
  BY DEF LogInit, All
<1>3. \A m \in Memories : Word(All, m, "nothing")
  BY <1>2 DEF Word, Holds
<1> QED BY <1>1, <1>3 DEF LogInv, LogInit, WordsKept

\* A file to which an empty line is added, and one whose last line gets a piece.
LEMMA EmptyLine ==
  ASSUME NEW f \in Seq(Lines), NEW m, NEW word, Word(f, m, word)
  PROVE  Word(Append(f, <<>>), m, word)
<1> DEFINE g == Append(f, <<>>)
<1>1. /\ g \in Seq(Lines) /\ Len(g) = Len(f) + 1 /\ g[Len(g)] = <<>>
      /\ \A i \in DOMAIN f : i \in DOMAIN g /\ g[i] = f[i]
      /\ \A i \in DOMAIN g : i \in DOMAIN f \/ i = Len(g)
  <2>1. <<>> \in Lines /\ DOMAIN f = 1 .. Len(f) /\ Len(f) \in Nat
    BY DEF Lines
  <2>2. g \in Seq(Lines) /\ Len(g) = Len(f) + 1 /\ DOMAIN g = 1 .. (Len(f) + 1)
    BY <2>1
  <2>3. g[Len(f) + 1] = <<>> /\ \A i \in 1 .. Len(f) : g[i] = f[i]
    BY <2>1
  <2> QED BY <2>1, <2>2, <2>3
<1>2. ~Holds(<<>>, m)
  BY DEF Holds
<1> HIDE DEF g
<1>3. CASE word = "nothing" /\ \A i \in DOMAIN f : ~Holds(f[i], m)
  BY <1>1, <1>2, <1>3 DEF Word
<1>4. ASSUME NEW i, NEW k, LastOf(f, m, i, k), word = Says(f[i][k])
      PROVE  Word(g, m, word)
  <2>1. LastOf(g, m, i, k) /\ g[i][k] = f[i][k]
    BY <1>1, <1>2, <1>4 DEF LastOf
  <2> QED BY <1>4, <2>1 DEF Word
<1> QED BY <1>3, <1>4 DEF Word, g

LEMMA MorePieces ==
  ASSUME NEW f \in Seq(Lines), NEW l \in Lines, NEW p \in Pieces, NEW m
  PROVE  /\ p.id = m => Word(Append(f, Append(l, p)), m, Says(p))
         /\ \A word : p.id # m /\ Word(Append(f, l), m, word)
              => Word(Append(f, Append(l, p)), m, word)
<1> DEFINE g == Append(f, l)
           h == Append(f, Append(l, p))
           n == Len(f) + 1
<1>1. /\ DOMAIN g = 1 .. n /\ DOMAIN h = 1 .. n /\ n \in Nat \ {0}
      /\ \A i \in 1 .. n : i # n => g[i] = h[i]
      /\ g[n] = l /\ h[n] = Append(l, p)
  BY DEF Lines
<1>2. /\ DOMAIN h[n] = 1 .. (Len(l) + 1) /\ Len(l) \in Nat /\ DOMAIN l = 1 .. Len(l)
      /\ \A k \in 1 .. Len(l) : h[n][k] = l[k]
      /\ h[n][Len(l) + 1] = p
  BY <1>1 DEF Lines
<1> HIDE DEF g, h, n
<1>3. ASSUME p.id = m PROVE Word(h, m, Says(p))
  <2>1. LastOf(h, m, n, Len(l) + 1)
    BY <1>1, <1>2, <1>3 DEF LastOf
  <2> QED BY <1>2, <2>1 DEF Word
<1>4. ASSUME NEW word, p.id # m, Word(g, m, word) PROVE Word(h, m, word)
  <2>1. Holds(h[n], m) <=> Holds(g[n], m)
    BY <1>1, <1>2, <1>4 DEF Holds
  <2>2. \A i \in 1 .. n : Holds(h[i], m) <=> Holds(g[i], m)
    BY <1>1, <2>1
  <2>3. CASE word = "nothing" /\ \A i \in DOMAIN g : ~Holds(g[i], m)
    BY <1>1, <2>2, <2>3 DEF Word
  <2>4. ASSUME NEW i, NEW k, LastOf(g, m, i, k), word = Says(g[i][k])
        PROVE  Word(h, m, word)
    <3>1. i \in 1 .. n /\ \A j \in DOMAIN h : j > i => ~Holds(h[j], m)
      BY <1>1, <2>2, <2>4 DEF LastOf
    <3>2. CASE i # n
      <4>1. h[i] = g[i]
        BY <1>1, <3>1, <3>2
      <4>2. LastOf(h, m, i, k)
        BY <1>1, <2>4, <3>1, <4>1 DEF LastOf
      <4> QED BY <2>4, <4>1, <4>2 DEF Word
    <3>3. CASE i = n
      <4>1. k \in 1 .. Len(l) /\ h[i][k] = g[i][k]
        BY <1>1, <1>2, <2>4, <3>3 DEF LastOf
      <4>2. LastOf(h, m, i, k)
        BY <1>1, <1>2, <1>4, <2>4, <3>1, <3>3, <4>1 DEF LastOf
      <4> QED BY <2>4, <4>1, <4>2 DEF Word
    <3> QED BY <3>2, <3>3
  <2> QED BY <1>4, <2>3, <2>4 DEF Word
<1> QED BY <1>3, <1>4 DEF g, h

LEMMA PieceIn ==
  ASSUME LogInv, NEW w \in Writers, writer[w].pc # "resting", NEW s \in {"whole", "part"}
  PROVE  Piece(w, s) \in Pieces /\ Piece(w, s).id = writer[w].id
         /\ Says(Piece(w, s)) = (IF writer[w].tomb THEN "forgotten" ELSE "kept")
BY DEF Piece, Pieces, Says, LogInv, LogShape

LEMMA LogStep ==
  ASSUME "midchar" \notin LogFaults, LogInv, [LogNext]_logVars
  PROVE  LogInv'
<1>1. LogShape
  BY DEF LogInv
<1>2. CASE UNCHANGED logVars
  BY <1>2 DEF logVars, LogInv, LogShape, WordsKept, All
<1>3. ASSUME NEW w \in Writers, NEW m \in Memories, NEW tomb \in BOOLEAN, Call(w, m, tomb)
      PROVE  LogInv'
  <2>1. LogShape'
    BY <1>1, <1>3 DEF Call, LogShape
  <2> QED BY <1>3, <2>1 DEF Call, LogInv, WordsKept, All
<1>4. ASSUME NEW w \in Writers, WriteText(w)
      PROVE  LogInv'
  <2> DEFINE p == Piece(w, "whole")
  <2>1. p \in Pieces /\ p.id = writer[w].id /\ p.id \in Memories
        /\ Says(p) = (IF writer[w].tomb THEN "forgotten" ELSE "kept")
    BY <1>4, PieceIn DEF WriteText, Pieces
  <2>2. last' = Append(last, p) /\ lines' = lines /\ said' = [said EXCEPT ![p.id] = Says(p)]
    BY <1>4, <2>1 DEF WriteText
  <2> HIDE DEF p
  <2>3. LogShape'
    <3>1. writer' = [writer EXCEPT ![w].pc = "newline"] /\ writer[w].pc = "text"
      BY <1>4 DEF WriteText
    <3>2. last' \in Lines /\ lines' \in Seq(Lines)
      BY <1>1, <2>1, <2>2 DEF LogShape, Lines
    <3>3. said' \in [Memories -> {"nothing", "kept", "forgotten", "unsure"}]
      BY <1>1, <2>1, <2>2 DEF LogShape, Says
    <3> QED BY <1>1, <3>1, <3>2, <3>3 DEF LogShape
  <2>4. WordsKept'
    <3> SUFFICES ASSUME NEW m \in Memories, said'[m] # "unsure"
                 PROVE  Word(Append(lines, Append(last, p)), m, said'[m])
      BY <2>2 DEF WordsKept, All
    <3>1. lines \in Seq(Lines) /\ last \in Lines
      BY <1>1 DEF LogShape
    <3>2. CASE m = p.id
      <4>1. said'[m] = Says(p)
        BY <1>1, <2>2, <3>2 DEF LogShape
      <4> QED BY <2>1, <3>1, <3>2, <4>1, MorePieces
    <3>3. CASE m # p.id
      <4>1. said'[m] = said[m]
        BY <1>1, <2>2, <3>3 DEF LogShape
      <4>2. Word(Append(lines, last), m, said'[m])
        BY <4>1 DEF LogInv, WordsKept, All
      <4> QED BY <2>1, <3>1, <3>3, <4>2, MorePieces
    <3> QED BY <3>2, <3>3
  <2> QED BY <2>3, <2>4 DEF LogInv
<1>5. ASSUME NEW w \in Writers, WriteNewline(w)
      PROVE  LogInv'
  <2>1. /\ lines' = All /\ last' = <<>> /\ said' = said
        /\ writer' = [writer EXCEPT ![w] = Resting]
    BY <1>5 DEF WriteNewline, All
  <2>2. All \in Seq(Lines) /\ <<>> \in Lines
    BY <1>1 DEF All, LogShape, Lines
  <2>3. LogShape'
    BY <1>1, <2>1, <2>2 DEF LogShape, Resting
  <2>4. WordsKept'
    BY <2>1, <2>2, EmptyLine DEF LogInv, WordsKept, All
  <2> QED BY <2>3, <2>4 DEF LogInv
<1>6. ASSUME NEW w \in Writers, Cut(w)
      PROVE  LogInv'
  <2> DEFINE p == Piece(w, "part")
  <2>1. writer[w].pc # "resting" /\ lines' = lines /\ said' = [said EXCEPT ![p.id] = "unsure"]
        /\ writer' = [writer EXCEPT ![w] = Resting] /\ (last' = last \/ last' = Append(last, p))
    BY <1>6 DEF Cut, Piece
  <2>2. p \in Pieces /\ p.id \in Memories
    BY <2>1, PieceIn DEF Pieces
  <2> HIDE DEF p
  <2>3. LogShape'
    <3>1. last' \in Lines /\ lines' \in Seq(Lines)
      <4>1. last \in Lines /\ lines \in Seq(Lines)
        BY <1>1 DEF LogShape
      <4>2. Append(last, p) \in Lines
        BY <2>2, <4>1 DEF Lines
      <4> QED BY <2>1, <4>1, <4>2
    <3>2. said' \in [Memories -> {"nothing", "kept", "forgotten", "unsure"}]
      BY <1>1, <2>1, <2>2 DEF LogShape
    <3> QED BY <1>1, <2>1, <3>1, <3>2 DEF LogShape, Resting
  <2>4. WordsKept'
    <3> SUFFICES ASSUME NEW m \in Memories, said'[m] # "unsure"
                 PROVE  Word(Append(lines', last'), m, said'[m])
      BY DEF WordsKept, All
    <3>1. lines \in Seq(Lines) /\ last \in Lines
      BY <1>1 DEF LogShape
    <3>2. m # p.id /\ said'[m] = said[m]
      BY <1>1, <2>1, <2>2 DEF LogShape
    <3>3. Word(Append(lines, last), m, said'[m])
      BY <3>2 DEF LogInv, WordsKept, All
    <3> QED BY <2>1, <2>2, <3>1, <3>2, <3>3, MorePieces
  <2> QED BY <2>3, <2>4 DEF LogInv
<1> QED BY <1>2, <1>3, <1>4, <1>5, <1>6 DEF LogNext

\* Every line is read: no piece ends in the middle of a character.
LEMMA AllReached == ASSUME LogInv PROVE Reached(File) = DOMAIN File
<1>1. File \in Seq(Lines)
  BY DEF File, LogInv, LogShape
<1>2. \A i \in DOMAIN File : \A j \in 1 .. i : j \in DOMAIN File
  BY <1>1
<1>3. \A j \in DOMAIN File : \A k \in DOMAIN File[j] : File[j][k].state # "midchar"
  <2> SUFFICES ASSUME NEW j \in DOMAIN File, NEW k \in DOMAIN File[j]
               PROVE  File[j][k].state # "midchar"
    OBVIOUS
  <2>1. File[j] \in Lines
    BY <1>1
  <2>2. File[j][k] \in Pieces
    BY <2>1 DEF Lines
  <2> QED BY <2>2 DEF Pieces
<1> QED BY <1>2, <1>3 DEF Reached

\* The file and its unfinished line, be it empty, say the same.
LEMMA FileSays ==
  ASSUME LogInv, NEW m, NEW word
  PROVE  Word(All, m, word) => Word(File, m, word)
<1>1. lines \in Seq(Lines) /\ last \in Lines
  BY DEF LogInv, LogShape
<1>2. CASE last # <<>>
  BY <1>2 DEF File, All
<1>3. CASE last = <<>>
  <2>1. /\ DOMAIN lines \subseteq DOMAIN All /\ \A i \in DOMAIN lines : All[i] = lines[i]
        /\ \A i \in DOMAIN All : i \in DOMAIN lines \/ All[i] = <<>>
    BY <1>1, <1>3 DEF All
  <2>2. File = lines
    BY <1>3 DEF File
  <2>3. \A i, k : LastOf(All, m, i, k) => LastOf(lines, m, i, k) /\ All[i] = lines[i]
    <3> SUFFICES ASSUME NEW i, NEW k, LastOf(All, m, i, k)
                 PROVE  LastOf(lines, m, i, k) /\ All[i] = lines[i]
      OBVIOUS
    <3>1. All[i] # <<>>
      BY DEF LastOf
    <3> QED BY <2>1, <3>1 DEF LastOf
  <2> QED BY <2>1, <2>2, <2>3 DEF Word
<1> QED BY <1>2, <1>3

\* Unless a record ends in the middle of a character, what goes wrong with one
\* record changes nothing for the other ids nor for a later record of the same id:
\* what was remembered is recalled, and what was forgotten is not (memory_store.rs
\* load_scope), for any ids, processes and number of calls.
THEOREM LastWordStandsCorrect ==
  ASSUME "midchar" \notin LogFaults PROVE LogSpec => []LastWordStands
<1>1. LogInv => LastWordStands
  <2> SUFFICES ASSUME LogInv, NEW m \in Memories, ~Spoilt(m)
               PROVE  m \in Live <=> said[m] = "kept"
    BY DEF LastWordStands
  <2>1. Word(File, m, said[m])
    BY FileSays DEF LogInv, WordsKept, Spoilt
  <2>2. \A i \in DOMAIN File : Parses(File[i]) /\ File[i][1].id = m => Holds(File[i], m)
    BY DEF Parses, Holds
  <2>3. m \in Live <=> \E i \in DOMAIN File : /\ Parses(File[i]) /\ File[i][1].id = m /\ ~File[i][1].tomb
                          /\ \A j \in DOMAIN File : Parses(File[j]) /\ j > i => File[j][1].id # m
    BY AllReached DEF Live
  <2>4. CASE said[m] = "nothing" /\ \A i \in DOMAIN File : ~Holds(File[i], m)
    BY <2>2, <2>3, <2>4
  <2>5. ASSUME NEW i, NEW k, LastOf(File, m, i, k), said[m] = Says(File[i][k])
        PROVE  m \in Live <=> said[m] = "kept"
    <3>1. i \in DOMAIN File /\ Holds(File[i], m) /\ \A j \in DOMAIN File : j > i => ~Holds(File[j], m)
      BY <2>5 DEF LastOf, Holds
    <3>2. Parses(File[i])
      BY <3>1 DEF Spoilt
    <3>3. k = 1
      BY <2>5, <3>2 DEF LastOf, Parses
    <3>4. File[i][1].id = m /\ (said[m] = "kept" <=> ~File[i][1].tomb)
      BY <2>5, <3>3 DEF LastOf, Says
    <3>5. \A j \in DOMAIN File : Parses(File[j]) /\ j > i => File[j][1].id # m
      BY <2>2, <3>1
    <3>6. \A j \in DOMAIN File : (/\ Parses(File[j]) /\ File[j][1].id = m
            /\ \A j2 \in DOMAIN File : Parses(File[j2]) /\ j2 > j => File[j2][1].id # m) => j = i
      <4>1. DOMAIN File \subseteq Nat
        BY DEF File, LogInv, LogShape
      <4> QED BY <3>1, <3>2, <3>4, <3>5, <4>1
    <3> QED BY <2>3, <3>1, <3>2, <3>4, <3>5, <3>6
  <2> QED BY <2>1, <2>4, <2>5 DEF Word
<1> QED BY <1>1, LogInitInv, LogStep, PTL DEF LogSpec

------------------------------------------------------------------------------
(* The patch store *)

CountsHold == [Patches -> Nat]
HandStates == [pc : {"rest", "save", "fill"}, copy : CountsHold]

PatchShape ==
  /\ store \in [Homes -> CountsHold \union {Torn}]
  /\ hand \in [Homes -> [Hands -> HandStates]]
  /\ exported \subseteq CountsHold
  /\ verified \in [Homes -> CountsHold] /\ merged \in [Homes -> Nat]
  /\ learnt \in [Homes -> SUBSET Patches] /\ mixed \in [Homes -> BOOLEAN]

\* Some node has verified what a copy of a store ranks, wherever the copy is.
Vouched(c) == \A p \in Patches : c[p] > 0 => \E m \in Homes : verified[m][p] > 0
Earned(n, c) == \A p \in Patches : c[p] <= verified[n][p] + merged[n]
Trusted ==
  /\ \A n \in Homes : Vouched(Loaded(n)) /\ Earned(n, Loaded(n))
  /\ \A n \in Homes, h \in Hands : Vouched(hand[n][h].copy) /\ Earned(n, hand[n][h].copy)
  /\ \A e \in exported : Vouched(e)

\* One hand at a time: its copy, like the file, has all that was learnt.
Knows(n, c) == \A p \in learnt[n] : c[p] > 0
Kept(n) ==
  /\ \A h, g \in Hands : hand[n][h] # AtRest /\ hand[n][g] # AtRest => h = g
  /\ \A h \in Hands : hand[n][h] # AtRest => Knows(n, hand[n][h].copy)
  /\ store[n] # Torn => Knows(n, store[n])

PatchInv == PatchShape /\ Trusted /\ \A n \in Homes : ~mixed[n] => Kept(n)

LEMMA RestFacts ==
  /\ Empty \in CountsHold /\ AtRest \in HandStates /\ AtRest.pc = "rest" /\ AtRest.copy = Empty
  /\ \A p \in Patches : Empty[p] = 0
  /\ Torn \notin CountsHold
BY PatchAssumption DEF Empty, AtRest, CountsHold, HandStates

LEMMA LoadedCounts ==
  ASSUME PatchShape, NEW n \in Homes
  PROVE  Loaded(n) \in CountsHold /\ (store[n] # Torn => Loaded(n) = store[n])
BY RestFacts DEF Loaded, PatchShape

LEMMA PatchInitInv == PatchInit => PatchInv
<1> SUFFICES ASSUME PatchInit PROVE PatchInv
  OBVIOUS
<1>1. PatchShape
  BY RestFacts DEF PatchInit, PatchShape
<1>2. \A n \in Homes : Loaded(n) = Empty
  BY RestFacts DEF PatchInit, Loaded
<1>3. Trusted
  BY <1>2, RestFacts DEF PatchInit, Trusted, Vouched, Earned
<1>4. \A n \in Homes : Kept(n)
  BY DEF PatchInit, Kept, Knows
<1> QED BY <1>1, <1>3, <1>4 DEF PatchInv

\* Verifications and merges are only added to.
LEMMA MoreVouches ==
  ASSUME PatchShape, PatchShape',
         \A n \in Homes : merged'[n] >= merged[n] /\ \A p \in Patches : verified'[n][p] >= verified[n][p]
  PROVE  \A c \in CountsHold : /\ Vouched(c) => (\A p \in Patches : c[p] > 0 => \E m \in Homes : verified'[m][p] > 0)
                           /\ \A n \in Homes : Earned(n, c)
                                => \A p \in Patches : c[p] <= verified'[n][p] + merged'[n]
<1>1. \A n \in Homes : /\ merged[n] \in Nat /\ merged'[n] \in Nat
                       /\ \A p \in Patches : verified[n][p] \in Nat /\ verified'[n][p] \in Nat
  BY DEF PatchShape, CountsHold
<1>2. \A c \in CountsHold, p \in Patches : c[p] \in Nat
  BY DEF CountsHold
<1>3. ASSUME NEW c \in CountsHold, Vouched(c), NEW p \in Patches, c[p] > 0
      PROVE  \E m \in Homes : verified'[m][p] > 0
  <2>1. PICK m \in Homes : verified[m][p] > 0
    BY <1>3 DEF Vouched
  <2> QED BY <1>1, <2>1
<1>4. ASSUME NEW c \in CountsHold, NEW n \in Homes, Earned(n, c), NEW p \in Patches
      PROVE  c[p] <= verified'[n][p] + merged'[n]
  BY <1>1, <1>2, <1>4 DEF Earned
<1> QED BY <1>3, <1>4

\* A hand begins to save a copy it has made from what it loaded.
LEMMA BeginsKeeps ==
  ASSUME PatchInv, NEW n \in Homes, NEW h \in Hands, NEW copy \in CountsHold, Begins(n, h, copy),
         UNCHANGED <<store, exported, learnt>>,
         verified' \in [Homes -> CountsHold], merged' \in [Homes -> Nat],
         \A m \in Homes : merged'[m] >= merged[m] /\ \A p \in Patches : verified'[m][p] >= verified[m][p],
         Vouched(copy)', Earned(n, copy)',
         \A p \in Patches : copy[p] >= Loaded(n)[p]
  PROVE  PatchInv'
<1>1. /\ hand[n][h] = AtRest
      /\ hand' = [hand EXCEPT ![n][h] = [pc |-> "save", copy |-> copy]]
      /\ mixed' = [mixed EXCEPT ![n] = @ \/ store[n] = Torn \/ \E g \in Hands : hand[n][g] # AtRest]
  BY DEF Begins, HandTo
<1>2. PICK r : r = [pc |-> "save", copy |-> copy]
  OBVIOUS
<1>3. r \in HandStates /\ r.copy = copy
  BY <1>2 DEF HandStates
<1>4. hand' \in [Homes -> [Hands -> HandStates]]
  BY <1>1, <1>2, <1>3 DEF PatchInv, PatchShape
<1>5. mixed' \in [Homes -> BOOLEAN]
  BY <1>1 DEF PatchInv, PatchShape
<1>6. PatchShape'
  BY <1>4, <1>5 DEF PatchInv, PatchShape
<1>7. \A m \in Homes, g \in Hands : hand'[m][g] = IF m = n /\ g = h THEN r ELSE hand[m][g]
  BY <1>1, <1>2 DEF PatchInv, PatchShape
<1>8. \A m \in Homes, g \in Hands : hand[m][g].copy \in CountsHold
  BY DEF PatchInv, PatchShape, HandStates
<1>9. Trusted'
  <2>1. \A m \in Homes : Loaded(m)' = Loaded(m) /\ Loaded(m) \in CountsHold
    BY LoadedCounts DEF Loaded, PatchInv
  <2>2. \A c \in CountsHold : (Vouched(c) => Vouched(c)') /\ \A m \in Homes : Earned(m, c) => Earned(m, c)'
    BY <1>6, MoreVouches DEF PatchInv, Vouched, Earned
  <2>3. \A e \in exported' : Vouched(e)'
    BY <2>2 DEF PatchInv, PatchShape, Trusted
  <2>4. \A m \in Homes : Vouched(Loaded(m))' /\ Earned(m, Loaded(m))'
    <3> SUFFICES ASSUME NEW m \in Homes PROVE Vouched(Loaded(m))' /\ Earned(m, Loaded(m))'
      OBVIOUS
    <3>1. PICK c \in CountsHold : c = Loaded(m) /\ c = Loaded(m)'
      BY <2>1
    <3>2. Vouched(c)' /\ Earned(m, c)'
      BY <2>2, <3>1 DEF PatchInv, Trusted
    <3> QED BY <3>1, <3>2 DEF Vouched, Earned
  <2>5. \A m \in Homes, g \in Hands : Vouched(hand[m][g].copy)' /\ Earned(m, hand[m][g].copy)'
    <3> SUFFICES ASSUME NEW m \in Homes, NEW g \in Hands
                 PROVE  Vouched(hand[m][g].copy)' /\ Earned(m, hand[m][g].copy)'
      OBVIOUS
    <3>1. PICK c : c = hand'[m][g].copy
      OBVIOUS
    <3>2. Vouched(c)' /\ Earned(m, c)'
      BY <1>3, <1>7, <1>8, <2>2, <3>1 DEF PatchInv, Trusted
    <3> QED BY <3>1, <3>2 DEF Vouched, Earned
  <2> QED BY <2>3, <2>4, <2>5 DEF Trusted
<1>10. ASSUME NEW m \in Homes, ~mixed'[m] PROVE Kept(m)'
  <2>1. ~mixed[m] /\ Kept(m)
    BY <1>1, <1>10 DEF PatchInv, PatchShape
  <2>2. CASE m # n
    BY <1>7, <2>1, <2>2 DEF Kept, Knows
  <2>3. CASE m = n
    <3>1. store[n] # Torn /\ \A g \in Hands : hand[n][g] = AtRest
      BY <1>1, <1>10, <2>3 DEF PatchInv, PatchShape
    <3>2. \A p \in learnt[n] : p \in Patches /\ Loaded(n)[p] > 0
      BY <2>1, <2>3, <3>1, LoadedCounts DEF Kept, Knows, PatchInv, PatchShape
    <3>3. \A p \in Patches : copy[p] \in Nat /\ Loaded(n)[p] \in Nat
      BY LoadedCounts DEF PatchInv, CountsHold
    <3>4. Knows(n, copy)'
      BY <3>2, <3>3 DEF Knows
    <3>5. Knows(n, store[n])'
      BY <2>1, <2>3, <3>1 DEF Kept, Knows
    <3> QED BY <1>3, <1>7, <2>3, <3>1, <3>4, <3>5 DEF Kept, Knows
  <2> QED BY <2>2, <2>3
<1> QED BY <1>6, <1>9, <1>10 DEF PatchInv

LEMMA VerifyKeeps ==
  ASSUME PatchInv, NEW n \in Homes, NEW h \in Hands, NEW p \in Patches, Verify(n, h, p)
  PROVE  PatchInv'
<1> DEFINE copy == [Loaded(n) EXCEPT ![p] = @ + 1]
<1>1. /\ Begins(n, h, copy) /\ UNCHANGED <<store, exported, merged, learnt>>
      /\ verified' = [verified EXCEPT ![n][p] = @ + 1]
  BY DEF Verify
<1>2. PICK c : c = copy
  OBVIOUS
<1>3. Loaded(n) \in CountsHold /\ verified \in [Homes -> CountsHold] /\ merged \in [Homes -> Nat]
  BY LoadedCounts DEF PatchInv, PatchShape
<1>4. c \in CountsHold /\ c[p] = Loaded(n)[p] + 1 /\ \A q \in Patches : q # p => c[q] = Loaded(n)[q]
  BY <1>2, <1>3 DEF CountsHold
<1>5. /\ verified' \in [Homes -> CountsHold] /\ verified'[n][p] = verified[n][p] + 1
      /\ \A m \in Homes, q \in Patches : m # n \/ q # p => verified'[m][q] = verified[m][q]
  BY <1>1, <1>3 DEF CountsHold
<1>6. \A q \in Patches : Loaded(n)[q] \in Nat /\ \A m \in Homes : verified[m][q] \in Nat /\ merged[m] \in Nat
  BY <1>3 DEF CountsHold
<1>7. \A m \in Homes : merged'[m] >= merged[m] /\ \A q \in Patches : verified'[m][q] >= verified[m][q]
  BY <1>1, <1>5, <1>6
<1>8. Vouched(Loaded(n)) /\ Earned(n, Loaded(n))
  BY DEF PatchInv, Trusted
<1>9. Vouched(c)'
  <2> SUFFICES ASSUME NEW q \in Patches, c[q] > 0 PROVE \E m \in Homes : verified'[m][q] > 0
    BY DEF Vouched
  <2>1. CASE q = p
    BY <1>5, <1>6, <2>1
  <2>2. CASE q # p
    BY <1>4, <1>5, <1>8, <2>2 DEF Vouched
  <2> QED BY <2>1, <2>2
<1>10. Earned(n, c)'
  BY <1>1, <1>4, <1>5, <1>6, <1>8 DEF Earned
<1>11. \A q \in Patches : c[q] >= Loaded(n)[q]
  BY <1>4, <1>6
<1>12. Begins(n, h, c) /\ merged' \in [Homes -> Nat]
  BY <1>1, <1>2, <1>3
<1> HIDE DEF copy
<1> QED BY <1>1, <1>4, <1>5, <1>7, <1>9, <1>10, <1>11, <1>12, BeginsKeeps

LEMMA MergeKeeps ==
  ASSUME PatchInv, NEW n \in Homes, NEW h \in Hands, NEW e \in exported, Merge(n, h, e)
  PROVE  PatchInv'
<1>1. PICK S \in Admitted(Loaded(n), e) :
        Begins(n, h, [p \in Patches |-> IF Loaded(n)[p] > 0 \/ p \in S
                                        THEN Loaded(n)[p] + Bump(e[p]) ELSE 0])
  BY DEF Merge
<1>2. UNCHANGED <<store, exported, verified, learnt>> /\ merged' = [merged EXCEPT ![n] = @ + 1]
  BY DEF Merge
<1>3. PICK c : c = [p \in Patches |-> IF Loaded(n)[p] > 0 \/ p \in S
                                      THEN Loaded(n)[p] + Bump(e[p]) ELSE 0]
  OBVIOUS
<1>4. /\ Loaded(n) \in CountsHold /\ verified \in [Homes -> CountsHold] /\ merged \in [Homes -> Nat]
      /\ e \in CountsHold
  BY LoadedCounts DEF PatchInv, PatchShape
<1>5. \A q \in Patches : /\ Loaded(n)[q] \in Nat /\ e[q] \in Nat
                         /\ \A m \in Homes : verified[m][q] \in Nat /\ merged[m] \in Nat
  BY <1>4 DEF CountsHold
<1>6. \A q \in Patches : Bump(e[q]) \in Nat /\ Bump(e[q]) <= 1
  BY <1>5 DEF Bump
<1>7. \A q \in S : q \in Patches /\ e[q] > 0
  BY <1>1 DEF Admitted, New
<1>8. c \in CountsHold
  BY <1>3, <1>5, <1>6 DEF CountsHold
<1>9. \A q \in Patches : /\ c[q] \in Nat /\ Loaded(n)[q] <= c[q] /\ c[q] <= Loaded(n)[q] + 1
                         /\ c[q] > 0 => Loaded(n)[q] > 0 \/ e[q] > 0
  BY <1>3, <1>5, <1>6, <1>7
<1>10. merged' \in [Homes -> Nat] /\ merged'[n] = merged[n] + 1 /\ \A m \in Homes : merged'[m] >= merged[m]
  BY <1>2, <1>4
<1>11. Vouched(Loaded(n)) /\ Earned(n, Loaded(n)) /\ Vouched(e)
  BY DEF PatchInv, Trusted
<1>12. Vouched(c)'
  BY <1>2, <1>9, <1>11 DEF Vouched
<1>13. Earned(n, c)'
  BY <1>2, <1>5, <1>9, <1>10, <1>11 DEF Earned
<1>14. \A m \in Homes, q \in Patches : verified'[m][q] >= verified[m][q]
  BY <1>2, <1>5
<1>15. \A q \in Patches : c[q] >= Loaded(n)[q]
  BY <1>5, <1>9
<1> QED BY <1>1, <1>2, <1>3, <1>4, <1>8, <1>10, <1>12, <1>13, <1>14, <1>15, BeginsKeeps

\* What a hand does with its copy, and what it leaves of it.
LEMMA HandKeeps ==
  ASSUME PatchInv, NEW n \in Homes, NEW h \in Hands, NEW r \in HandStates,
         hand[n][h] # AtRest, hand' = [hand EXCEPT ![n][h] = r],
         r = AtRest \/ r.copy = hand[n][h].copy,
         UNCHANGED <<exported, verified, merged>>,
         store' \in [Homes -> CountsHold \union {Torn}], learnt' \in [Homes -> SUBSET Patches],
         mixed' \in [Homes -> BOOLEAN], \A m \in Homes : mixed[m] => mixed'[m],
         \A m \in Homes : m # n => store'[m] = store[m] /\ learnt'[m] = learnt[m],
         \/ store'[n] = Torn /\ learnt'[n] = learnt[n]
         \/ store'[n] = store[n] /\ learnt'[n] = learnt[n]
         \/ /\ store'[n] = hand[n][h].copy /\ r = AtRest
            /\ learnt'[n] = learnt[n] \union {p \in Patches : hand[n][h].copy[p] > 0}
  PROVE  PatchInv'
<1> DEFINE copy == hand[n][h].copy
<1>1. PatchShape'
  BY DEF PatchInv, PatchShape
<1>2. \A m \in Homes, g \in Hands : hand'[m][g] = IF m = n /\ g = h THEN r ELSE hand[m][g]
  BY DEF PatchInv, PatchShape
<1>3. copy \in CountsHold
  BY DEF PatchInv, PatchShape, HandStates
<1>4. \A c : (Vouched(c) <=> Vouched(c)') /\ \A m \in Homes : Earned(m, c) <=> Earned(m, c)'
  BY DEF Vouched, Earned
<1>5. Vouched(Empty) /\ \A m \in Homes : Earned(m, Empty)
  BY RestFacts DEF Vouched, Earned, PatchInv, PatchShape, CountsHold
<1>6. Trusted'
  <2>1. \A e \in exported' : Vouched(e)'
    BY <1>4 DEF PatchInv, Trusted
  <2>2. \A m \in Homes : Vouched(Loaded(m))' /\ Earned(m, Loaded(m))'
    <3> SUFFICES ASSUME NEW m \in Homes PROVE Vouched(Loaded(m))' /\ Earned(m, Loaded(m))'
      OBVIOUS
    <3>1. PICK c : c = Loaded(m)'
      OBVIOUS
    <3>2. c = Empty \/ c = Loaded(m) \/ (m = n /\ c = copy)
      BY <1>3, <3>1, RestFacts DEF Loaded
    <3>3. Vouched(c)' /\ Earned(m, c)'
      BY <1>4, <1>5, <3>2 DEF PatchInv, Trusted
    <3> QED BY <3>1, <3>3 DEF Vouched, Earned
  <2>3. \A m \in Homes, g \in Hands : Vouched(hand[m][g].copy)' /\ Earned(m, hand[m][g].copy)'
    <3> SUFFICES ASSUME NEW m \in Homes, NEW g \in Hands
                 PROVE  Vouched(hand[m][g].copy)' /\ Earned(m, hand[m][g].copy)'
      OBVIOUS
    <3>1. PICK c : c = hand'[m][g].copy
      OBVIOUS
    <3>2. c = Empty \/ c = hand[m][g].copy
      BY <1>2, <3>1, RestFacts
    <3>3. Vouched(c)' /\ Earned(m, c)'
      BY <1>4, <1>5, <3>2 DEF PatchInv, Trusted
    <3> QED BY <3>1, <3>3 DEF Vouched, Earned
  <2> QED BY <2>1, <2>2, <2>3 DEF Trusted
<1>7. ASSUME NEW m \in Homes, ~mixed'[m] PROVE Kept(m)'
  <2>1. Kept(m)
    BY <1>7 DEF PatchInv
  <2>2. CASE m # n
    BY <1>2, <2>1, <2>2 DEF Kept, Knows
  <2>3. CASE m = n
    <3>1. (\A g \in Hands : g # h => hand[n][g] = AtRest) /\ Knows(n, copy)
      BY <2>1, <2>3 DEF Kept
    <3>2. \A g \in Hands : hand'[n][g] # AtRest => g = h /\ r # AtRest /\ hand'[n][g].copy = copy
      BY <1>2, <3>1
    <3>3. CASE learnt'[n] = learnt[n]
      <4>1. store'[n] # Torn => Knows(n, store[n])'
        BY <2>1, <2>3, <3>1, <3>3 DEF Kept, Knows
      <4>2. \A g \in Hands : hand'[n][g] # AtRest => Knows(n, hand[n][g].copy)'
        BY <3>1, <3>2, <3>3 DEF Knows
      <4> QED BY <2>3, <3>2, <4>1, <4>2 DEF Kept
    <3>4. CASE /\ store'[n] = copy /\ r = AtRest
               /\ learnt'[n] = learnt[n] \union {p \in Patches : copy[p] > 0}
      <4>1. Knows(n, store[n])'
        BY <3>1, <3>4 DEF Knows
      <4> QED BY <2>3, <3>2, <3>4, <4>1 DEF Kept
    <3> QED BY <3>3, <3>4
  <2> QED BY <2>2, <2>3
<1> QED BY <1>1, <1>6, <1>7 DEF PatchInv

LEMMA SaveKeeps ==
  ASSUME PatchInv, NEW n \in Homes, NEW h \in Hands, Truncate(n, h) \/ Fill(n, h) \/ SaveFails(n, h)
  PROVE  PatchInv'
<1>1. /\ store \in [Homes -> CountsHold \union {Torn}] /\ learnt \in [Homes -> SUBSET Patches]
      /\ mixed \in [Homes -> BOOLEAN] /\ hand[n][h] \in HandStates /\ hand[n][h].copy \in CountsHold
  BY DEF PatchInv, PatchShape, HandStates
<1>2. CASE Truncate(n, h)
  <2>1. PICK r : r = [hand[n][h] EXCEPT !.pc = "fill"]
    OBVIOUS
  <2>2. /\ hand[n][h].pc = "save" /\ store' = [store EXCEPT ![n] = Torn]
        /\ hand' = [hand EXCEPT ![n][h] = r]
        /\ UNCHANGED <<exported, verified, merged, learnt, mixed>>
    BY <1>2, <2>1 DEF Truncate, HandTo
  <2>3. r \in HandStates /\ r.copy = hand[n][h].copy /\ hand[n][h] # AtRest
    BY <1>1, <2>1, <2>2, RestFacts DEF HandStates
  <2>4. store' \in [Homes -> CountsHold \union {Torn}] /\ store'[n] = Torn
        /\ \A m \in Homes : m # n => store'[m] = store[m]
    BY <1>1, <2>2
  <2> QED BY <1>1, <2>2, <2>3, <2>4, HandKeeps
<1>3. CASE Fill(n, h)
  <2>1. /\ hand[n][h].pc = "fill" /\ store' = [store EXCEPT ![n] = hand[n][h].copy]
        /\ learnt' = [learnt EXCEPT ![n] = @ \union {p \in Patches : hand[n][h].copy[p] > 0}]
        /\ hand' = [hand EXCEPT ![n][h] = AtRest]
        /\ UNCHANGED <<exported, verified, merged, mixed>>
    BY <1>3 DEF Fill, HandTo
  <2>2. hand[n][h] # AtRest /\ AtRest \in HandStates
    BY <2>1, RestFacts
  <2>3. /\ store' \in [Homes -> CountsHold \union {Torn}] /\ store'[n] = hand[n][h].copy
        /\ \A m \in Homes : m # n => store'[m] = store[m]
    BY <1>1, <2>1
  <2>4. /\ learnt' \in [Homes -> SUBSET Patches]
        /\ learnt'[n] = learnt[n] \union {p \in Patches : hand[n][h].copy[p] > 0}
        /\ \A m \in Homes : m # n => learnt'[m] = learnt[m]
    BY <1>1, <2>1
  <2> QED BY <1>1, <2>1, <2>2, <2>3, <2>4, HandKeeps
<1>4. CASE SaveFails(n, h)
  <2>1. /\ hand[n][h] # AtRest /\ mixed' = [mixed EXCEPT ![n] = @ \/ hand[n][h].pc = "fill"]
        /\ hand' = [hand EXCEPT ![n][h] = AtRest]
        /\ UNCHANGED <<store, exported, verified, merged, learnt>>
    BY <1>4 DEF SaveFails, HandTo
  <2>2. mixed' \in [Homes -> BOOLEAN]
    BY <1>1, <2>1
  <2>3. \A m \in Homes : mixed[m] => mixed'[m]
    BY <1>1, <2>1
  <2> QED BY <1>1, <2>1, <2>2, <2>3, RestFacts, HandKeeps
<1> QED BY <1>2, <1>3, <1>4

LEMMA PatchStep == PatchInv /\ [PatchNext]_patchVars => PatchInv'
<1> SUFFICES ASSUME PatchInv, [PatchNext]_patchVars
             PROVE  PatchInv'
  OBVIOUS
<1>1. CASE UNCHANGED patchVars
  BY <1>1 DEF patchVars, PatchInv, PatchShape, Trusted, Vouched, Earned, Loaded, Kept, Knows
<1>2. ASSUME NEW n \in Homes, Export(n)
      PROVE  PatchInv'
  <2>1. Loaded(n) \in CountsHold /\ Vouched(Loaded(n))
    BY LoadedCounts DEF PatchInv, Trusted
  <2>2. /\ exported' = exported \union {Loaded(n)}
        /\ UNCHANGED <<store, hand, verified, merged, learnt, mixed>>
    BY <1>2 DEF Export
  <2> QED BY <2>1, <2>2 DEF PatchInv, PatchShape, Trusted, Vouched, Earned, Loaded, Kept, Knows
<1>3. ASSUME NEW n \in Homes, NEW h \in Hands, Truncate(n, h) \/ Fill(n, h) \/ SaveFails(n, h)
      PROVE  PatchInv'
  BY <1>3, SaveKeeps
<1>4. ASSUME NEW n \in Homes, NEW h \in Hands, NEW p \in Patches, Verify(n, h, p)
      PROVE  PatchInv'
  BY <1>4, VerifyKeeps
<1>5. ASSUME NEW n \in Homes, NEW h \in Hands, NEW e \in exported, Merge(n, h, e)
      PROVE  PatchInv'
  BY <1>5, MergeKeeps
<1> QED BY <1>1, <1>2, <1>3, <1>4, <1>5 DEF PatchNext

\* A patch once saved stays in the file unless two hands of the node overlapped or a
\* save broke off in the middle, and a count grows by one for each own verification
\* and each merge at most, of a patch that some node has verified (patch_memory.rs):
\* for any nodes, hands and patches, and however often exports go back and forth.
THEOREM PatchesSoundCorrect == PatchSpec => []PatchesSound
<1>1. PatchInv => PatchesSound
  <2> SUFFICES ASSUME PatchInv PROVE LearningKept /\ TrustBounded
    BY DEF PatchesSound
  <2>1. LearningKept
    BY DEF PatchInv, Kept, Knows, LearningKept
  <2>2. TrustBounded
    BY DEF PatchInv, Trusted, Vouched, Earned, TrustBounded
  <2> QED BY <2>1, <2>2
<1> QED BY <1>1, PatchInitInv, PatchStep, PTL DEF PatchSpec

------------------------------------------------------------------------------
(* The daemon's pid file *)

Processes == {"free", "loading", "serving", "ending", "zombie", "stranger"}
Doings == [pc : {"idle", "read", "spawn", "truncate", "fill", "kill", "remove"},
           what : {"none", "start", "stop"}, pid : Pids \union {Nobody}]

DaemonShape ==
  /\ process \in [Pids -> Processes] /\ tool \in [Tools -> Doings]
  /\ pidFile \in Pids \union {Nobody}

\* The servers that were not told to end.
Serves(p) == process[p] \in {"loading", "serving"}
Only(pid) == \A p \in Pids : Serves(p) => p = pid
None == \A p \in Pids : ~Serves(p)

\* What a tool at work may rely on, as long as it is the only one.
PidKnown(r) ==
  /\ r.pc \in {"read", "kill"} => r.pid = pidFile /\ Only(pidFile)
  /\ r.pc \in {"spawn", "remove"} => None
  /\ r.pc \in {"truncate", "fill"} => Only(r.pid)

Alone(t) == \A u \in Tools : u # t => tool[u] = Idle
InTurn == \A t \in Tools : tool[t] # Idle => Alone(t) /\ tool[t].pc # "idle" /\ PidKnown(tool[t])
StateReached == (\A t \in Tools : tool[t] = Idle) => Only(pidFile)

DaemonInv == DaemonShape /\ (~crossed /\ ~astray => InTurn /\ StateReached)

LEMMA IdleDoing ==
  /\ Idle = [pc |-> "idle", what |-> "none", pid |-> Nobody]
  /\ Idle \in Doings
BY DEF Idle, Doing, Doings

LEMMA DaemonInitInv == DaemonInit => DaemonInv
BY IdleDoing DEF DaemonInit, DaemonInv, DaemonShape, Processes, InTurn, StateReached, Only, Serves

\* The servers go their way: none starts but by a tool.
LEMMA ServersKeep ==
  ASSUME DaemonInv, UNCHANGED <<pidFile, tool, crossed, astray>>,
         process' \in [Pids -> Processes],
         \A p \in Pids : Serves(p)' => Serves(p)
  PROVE  DaemonInv'
<1>1. \A pid : Only(pid) => \A p \in Pids : Serves(p)' => p = pid
  BY DEF Only
<1>2. None => None'
  BY DEF None
<1>3. \A t \in Tools : PidKnown(tool[t]) => PidKnown(tool[t])'
  BY <1>1, <1>2 DEF PidKnown, Only
<1>4. InTurn => InTurn'
  BY <1>3 DEF InTurn, Alone
<1>5. StateReached => StateReached'
  BY <1>1 DEF StateReached, Only
<1> QED BY <1>4, <1>5 DEF DaemonInv, DaemonShape

LEMMA LeavesNobody == ASSUME NEW p \in Pids PROVE Leaves(p) \in {"zombie", "free"}
BY DEF Leaves

LEMMA ProcessesKeep ==
  ASSUME DaemonInv,
         \/ \E p \in Pids : Bind(p) \/ BindFails(p) \/ Ended(p) \/ Dies(p) \/ Reused(p)
         \/ \E t \in Tools : Close(t)
  PROVE  DaemonInv'
<1>1. UNCHANGED <<pidFile, tool, crossed, astray>>
  BY DEF Bind, BindFails, Ended, Dies, Reused, Close, Ends
<1>2. process \in [Pids -> Processes]
  BY DEF DaemonInv, DaemonShape
<1>3. ASSUME NEW p \in Pids, Bind(p) \/ BindFails(p) \/ Ended(p) \/ Dies(p) \/ Reused(p)
      PROVE  DaemonInv'
  <2>1. /\ process' \in [Pids -> Processes] /\ \A q \in Pids : q # p => process'[q] = process[q]
        /\ process'[p] \in {"zombie", "free", "stranger"} \/ (Serves(p) /\ process'[p] = "serving")
    BY <1>2, <1>3, LeavesNobody
       DEF Bind, BindFails, Ended, Dies, Reused, Ends, Processes, Serves
  <2> QED BY <1>1, <2>1, ServersKeep DEF Serves
<1>4. ASSUME NEW t \in Tools, Close(t)
      PROVE  DaemonInv'
  BY <1>1, <1>2, <1>4, ServersKeep DEF Close, Processes, Serves
<1> QED BY <1>3, <1>4

\* A tool that is at work alone takes a step.
LEMMA ToolKeeps ==
  ASSUME DaemonInv, NEW t \in Tools, NEW r \in Doings, tool' = [tool EXCEPT ![t] = r],
         process' \in [Pids -> Processes], pidFile' \in Pids \union {Nobody},
         UNCHANGED <<crossed, astray>>, tool[t] # Idle,
         r # Idle => r.pc # "idle",
         InTurn /\ StateReached => IF r = Idle THEN Only(pidFile)' ELSE PidKnown(r)'
  PROVE  DaemonInv'
<1>1. DaemonShape' /\ tool \in [Tools -> Doings]
  BY DEF DaemonInv, DaemonShape
<1>2. SUFFICES ASSUME ~crossed, ~astray PROVE InTurn' /\ StateReached'
  BY <1>1 DEF DaemonInv
<1>3. InTurn /\ StateReached
  BY <1>2 DEF DaemonInv
<1>4. tool'[t] = r /\ \A u \in Tools : u # t => tool'[u] = Idle
  BY <1>1, <1>3 DEF InTurn, Alone
<1>5. InTurn'
  BY <1>3, <1>4 DEF InTurn, Alone
<1>6. StateReached'
  BY <1>3, <1>4 DEF StateReached
<1> QED BY <1>5, <1>6

LEMMA ReadPidKeeps ==
  ASSUME DaemonInv, NEW t \in Tools, NEW what \in {"start", "stop"}, ReadPid(t, what)
  PROVE  DaemonInv'
<1>1. /\ tool[t] = Idle /\ tool' = [tool EXCEPT ![t] = Doing("read", what, pidFile)]
      /\ UNCHANGED <<process, pidFile, astray>>
      /\ crossed' = (crossed \/ \E u \in Tools : tool[u] # Idle)
  BY DEF ReadPid, Does
<1>2. PICK r : r = Doing("read", what, pidFile)
  OBVIOUS
<1>3. r \in Doings /\ r.pc = "read" /\ r.pid = pidFile /\ r # Idle
  BY <1>2, IdleDoing DEF Doing, Doings, DaemonInv, DaemonShape
<1>4. DaemonShape' /\ tool' = [tool EXCEPT ![t] = r]
  BY <1>1, <1>2, <1>3 DEF DaemonInv, DaemonShape
<1>5. ASSUME ~crossed', ~astray'
      PROVE  InTurn' /\ StateReached'
  <2>1. (\A u \in Tools : tool[u] = Idle) /\ ~crossed /\ ~astray
    BY <1>1, <1>5
  <2>2. Only(pidFile) /\ tool'[t] = r /\ \A u \in Tools : u # t => tool'[u] = Idle
    BY <1>4, <2>1 DEF DaemonInv, DaemonShape, StateReached
  <2>3. Only(pidFile)' /\ pidFile' = pidFile
    BY <1>1, <2>2 DEF Only, Serves
  <2>4. PidKnown(r)'
    BY <1>3, <2>3 DEF PidKnown
  <2> QED BY <1>3, <2>2, <2>4 DEF InTurn, StateReached, Alone
<1> QED BY <1>4, <1>5 DEF DaemonInv

LEMMA AtWork ==
  ASSUME DaemonInv, NEW t \in Tools
  PROVE  /\ process \in [Pids -> Processes] /\ tool[t] \in Doings
         /\ pidFile \in Pids \union {Nobody} /\ Nobody \notin Pids
         /\ tool[t].pc # "idle" => tool[t] # Idle
         /\ tool[t] # Idle /\ InTurn => PidKnown(tool[t])
BY IdleDoing, DaemonAssumption DEF DaemonInv, DaemonShape, InTurn

LEMMA ProbeKeeps ==
  ASSUME DaemonInv, NEW t \in Tools, Probe(t)
  PROVE  DaemonInv'
<1> DEFINE pid == tool[t].pid
<1>1. /\ tool[t].pc = "read" /\ UNCHANGED <<process, pidFile, crossed, astray>>
  BY DEF Probe
<1>2. InTurn => PidKnown(tool[t])
  BY <1>1, AtWork
<1>3. InTurn => Only(pidFile)' /\ pid = pidFile
  BY <1>1, <1>2 DEF PidKnown, Only, Serves
<1>4. InTurn /\ ~Exists(pid) => None'
  BY <1>1, <1>3, AtWork DEF Only, Serves, None, Exists
<1>5. PICK r : tool' = [tool EXCEPT ![t] = r] /\ r = (IF Finds(t) THEN Doing("spawn", "start", Nobody)
             ELSE IF tool[t].what = "start" THEN Idle
             ELSE IF Exists(tool[t].pid) THEN [tool[t] EXCEPT !.pc = "kill"]
             ELSE [tool[t] EXCEPT !.pc = "remove"])
  BY DEF Probe, Does
<1>6. \/ r = Doing("spawn", "start", Nobody) /\ ~Exists(pid)
      \/ r = Idle
      \/ r = [tool[t] EXCEPT !.pc = "kill"]
      \/ r = [tool[t] EXCEPT !.pc = "remove"] /\ ~Exists(pid)
  BY <1>5 DEF Finds
<1>7. \/ r \in Doings /\ r.pc = "spawn" /\ ~Exists(pid)
      \/ r = Idle
      \/ r \in Doings /\ r.pc = "kill" /\ r.pid = pid
      \/ r \in Doings /\ r.pc = "remove" /\ ~Exists(pid)
  BY <1>6, AtWork DEF Doing, Doings
<1>8. r \in Doings /\ (r # Idle => r.pc # "idle")
  BY <1>7, IdleDoing
<1>9. InTurn => IF r = Idle THEN Only(pidFile)' ELSE PidKnown(r)'
  BY <1>1, <1>3, <1>4, <1>7 DEF PidKnown
<1>10. process' \in [Pids -> Processes] /\ pidFile' \in Pids \union {Nobody} /\ tool[t] # Idle
  BY <1>1, AtWork
<1> QED BY <1>1, <1>5, <1>8, <1>9, <1>10, ToolKeeps

LEMMA SpawnKeeps ==
  ASSUME DaemonInv, NEW t \in Tools, NEW p \in Pids, Spawn(t, p)
  PROVE  DaemonInv'
<1> DEFINE r == Doing("truncate", "start", p)
<1>1. /\ tool[t].pc = "spawn" /\ tool' = [tool EXCEPT ![t] = r]
      /\ process' = [process EXCEPT ![p] = "loading"] /\ UNCHANGED <<pidFile, crossed, astray>>
  BY DEF Spawn, Does
<1>2. r \in Doings /\ r.pc = "truncate" /\ r.pid = p /\ r # Idle
  BY IdleDoing DEF Doing, Doings
<1>3. InTurn => None
  BY <1>1, AtWork DEF PidKnown
<1>4. InTurn => Only(p)'
  BY <1>1, <1>3, AtWork DEF Only, None, Serves
<1>5. InTurn => PidKnown(r)'
  BY <1>2, <1>4 DEF PidKnown, Only
<1>6. process' \in [Pids -> Processes] /\ pidFile' \in Pids \union {Nobody} /\ tool[t] # Idle
  BY <1>1, AtWork DEF Processes
<1> HIDE DEF r
<1> QED BY <1>1, <1>2, <1>5, <1>6, ToolKeeps

LEMMA WriteKeeps ==
  ASSUME DaemonInv, NEW t \in Tools, TruncatePid(t) \/ FillPid(t) \/ RemovePid(t)
  PROVE  DaemonInv'
<1>1. process' = process /\ UNCHANGED <<crossed, astray>>
  BY DEF TruncatePid, FillPid, RemovePid
<1>2. CASE TruncatePid(t)
  <2>1. /\ tool[t].pc = "truncate" /\ pidFile' = Nobody
        /\ tool' = [tool EXCEPT ![t] = [tool[t] EXCEPT !.pc = "fill"]]
    BY <1>2 DEF TruncatePid, Does
  <2>2. PICK r : r = [tool[t] EXCEPT !.pc = "fill"]
    OBVIOUS
  <2>3. r \in Doings /\ r.pc = "fill" /\ r.pid = tool[t].pid
    BY <2>2, AtWork DEF Doings
  <2>4. InTurn => Only(tool[t].pid)
    BY <2>1, AtWork DEF PidKnown
  <2>5. InTurn => PidKnown(r)'
    BY <1>1, <2>3, <2>4 DEF PidKnown, Only, Serves
  <2> QED BY <1>1, <2>1, <2>2, <2>3, <2>5, AtWork, IdleDoing, ToolKeeps
<1>3. CASE FillPid(t)
  <2>1. tool[t].pc = "fill" /\ pidFile' = tool[t].pid /\ tool' = [tool EXCEPT ![t] = Idle]
    BY <1>3 DEF FillPid, Does
  <2>2. InTurn => Only(tool[t].pid)
    BY <2>1, AtWork DEF PidKnown
  <2>3. InTurn => Only(pidFile)'
    BY <1>1, <2>1, <2>2 DEF Only, Serves
  <2>4. pidFile' \in Pids \union {Nobody} /\ process' \in [Pids -> Processes] /\ tool[t] # Idle
    BY <1>1, <2>1, AtWork DEF Doings
  <2> QED BY <1>1, <2>1, <2>3, <2>4, IdleDoing, ToolKeeps
<1>4. CASE RemovePid(t)
  <2>1. tool[t].pc = "remove" /\ pidFile' = Nobody /\ tool' = [tool EXCEPT ![t] = Idle]
    BY <1>4 DEF RemovePid, Does
  <2>2. InTurn => None
    BY <2>1, AtWork DEF PidKnown
  <2>3. InTurn => Only(pidFile)'
    BY <1>1, <2>2 DEF Only, Serves, None
  <2> QED BY <1>1, <2>1, <2>3, AtWork, IdleDoing, ToolKeeps
<1> QED BY <1>2, <1>3, <1>4

LEMMA KillKeeps ==
  ASSUME DaemonInv, NEW t \in Tools, Kill(t)
  PROVE  DaemonInv'
<1> DEFINE p == tool[t].pid
<1>1. tool[t].pc = "kill" /\ UNCHANGED <<pidFile, crossed, astray>>
  BY DEF Kill
<1>2. InTurn => p = pidFile /\ Only(pidFile)
  BY <1>1, AtWork DEF PidKnown
<1>3. CASE Exists(p)
  <2>1. /\ process' = [process EXCEPT ![p] = IF @ \in {"serving", "ending"} THEN "ending"
                                             ELSE IF @ = "zombie" THEN @ ELSE Leaves(p)]
        /\ tool' = [tool EXCEPT ![t] = [tool[t] EXCEPT !.pc = "remove"]]
    BY <1>3 DEF Kill, Does
  <2>2. p \in Pids
    BY <1>3, AtWork DEF Exists, Doings
  <2>3. /\ process' \in [Pids -> Processes] /\ process'[p] \in {"ending", "zombie", "free"}
        /\ \A q \in Pids : q # p => process'[q] = process[q]
    BY <2>1, <2>2, AtWork, LeavesNobody DEF Processes
  <2>4. PICK r : r = [tool[t] EXCEPT !.pc = "remove"]
    OBVIOUS
  <2>5. r \in Doings /\ r.pc = "remove"
    BY <2>4, AtWork DEF Doings
  <2>6. InTurn => None'
    BY <1>2, <2>3 DEF None, Only, Serves
  <2>7. InTurn => PidKnown(r)'
    BY <2>5, <2>6 DEF PidKnown
  <2>8. /\ tool' = [tool EXCEPT ![t] = r] /\ tool[t] # Idle /\ r # Idle
        /\ pidFile' \in Pids \union {Nobody}
    BY <1>1, <2>1, <2>4, <2>5, AtWork, IdleDoing
  <2> QED BY <1>1, <2>3, <2>5, <2>7, <2>8, ToolKeeps
<1>4. CASE ~Exists(p)
  <2>1. process' = process /\ tool' = [tool EXCEPT ![t] = Idle]
    BY <1>4 DEF Kill, Does
  <2>2. InTurn => Only(pidFile)'
    BY <1>1, <1>2, <2>1 DEF Only, Serves
  <2> QED BY <1>1, <2>1, <2>2, AtWork, IdleDoing, ToolKeeps
<1> QED BY <1>3, <1>4

LEMMA DaemonStep == DaemonInv /\ [DaemonNext]_daemonVars => DaemonInv'
<1> SUFFICES ASSUME DaemonInv, [DaemonNext]_daemonVars
             PROVE  DaemonInv'
  OBVIOUS
<1>1. CASE UNCHANGED daemonVars
  BY <1>1, ServersKeep DEF daemonVars, Serves, DaemonInv, DaemonShape
<1>2. CASE \E t \in Tools : \E what \in {"start", "stop"} : ReadPid(t, what)
  BY <1>2, ReadPidKeeps
<1>3. CASE \E t \in Tools : Probe(t)
  BY <1>3, ProbeKeeps
<1>4. CASE \E t \in Tools : TruncatePid(t) \/ FillPid(t) \/ RemovePid(t)
  BY <1>4, WriteKeeps
<1>5. CASE \E t \in Tools : WriteCut(t)
  BY <1>5, IdleDoing DEF WriteCut, Does, DaemonInv, DaemonShape
<1>6. CASE \E t \in Tools : Kill(t)
  BY <1>6, KillKeeps
<1>7. CASE \E t \in Tools : \E p \in Pids : Spawn(t, p)
  BY <1>7, SpawnKeeps
<1>8. CASE \/ \E p \in Pids : Bind(p) \/ BindFails(p) \/ Ended(p) \/ Dies(p) \/ Reused(p)
           \/ \E t \in Tools : Close(t)
  BY <1>8, ProcessesKeep
<1> QED BY <1>1, <1>2, <1>3, <1>4, <1>5, <1>6, <1>7, <1>8 DEF DaemonNext

\* As long as the tools take turns and each start gets to write its pid, the pid
\* file names every server that was not told to end (daemon.rs start, stop): for
\* any pids, tools and faults, and however many servers are started.
THEOREM NoOrphanCorrect == DaemonSpec => []NoOrphan
<1>1. DaemonInv => NoOrphan
  BY DEF DaemonInv, StateReached, Only, Serves, NoOrphan
<1> QED BY <1>1, DaemonInitInv, DaemonStep, PTL DEF DaemonSpec

------------------------------------------------------------------------------
(* The files of a checkpoint *)

Marks == Nat \X Nat
WeightFiles == {Missing, TornFile} \union [state : {"whole"}, of : Marks, arch : Arch, val : 0 .. Infinity]
MomentFiles == {Missing, TornFile} \union [state : {"whole"}, of : Marks, dim : Dims]
SidecarFiles == {Missing, TornFile} \union [state : {"whole"}, of : Marks, arch : Arch]
AfterWeights == {"moments", "fill moments", "sidecar", "fill sidecar"}
TrainerStages == {"steps", "eval", "weights", "fill weights"} \union AfterWeights
TrainerRuns == [at : TrainerStages, kind : {"semantic", "plain"}, arch : Arch,
                params : Marks, moments : Marks, count : Marks, step : Nat,
                best : 0 .. Infinity, lowest : 0 .. Infinity, since : Nat, skipped : BOOLEAN]
Loaders == {IdleLoader}
  \union [at : {"dims"}, overlapped : BOOLEAN, onBroken : BOOLEAN, dim : Dims]
  \union [at : {"built"}, overlapped : BOOLEAN, onBroken : BOOLEAN, arch : Arch]
  \union [at : {"untrained", "refused", "mismatched", "loaded"}, overlapped : BOOLEAN, onBroken : BOOLEAN]

CkptShape ==
  /\ weights \in WeightFiles /\ moments \in MomentFiles /\ sidecar \in SidecarFiles
  /\ trainer \in TrainerRuns \union {IdleTrainer} /\ loader \in Loaders
  /\ runs \in Nat /\ broken \in BOOLEAN

Agree ==
  \/ weights = Missing /\ moments = Missing /\ sidecar = Missing
  \/ /\ weights.state = "whole" /\ moments.state = "whole" /\ sidecar.state = "whole"
     /\ moments.of = weights.of /\ sidecar.of = weights.of
     /\ sidecar.arch = weights.arch /\ moments.dim = weights.arch.dim

\* The best loss is the lowest, marks are of runs begun, a save under way is broken, and a
\* run's weights on disk are its best.
Advancing(t) ==
  /\ t.lowest = t.best /\ t.params[1] <= runs
  /\ t.at # "steps" => t.step # 0
  /\ t.at \in {"fill weights"} \union AfterWeights => broken
  /\ t.at \in {"steps", "eval"} /\ ~broken /\ weights.state = "whole" /\ weights.of[1] = runs
       => weights.val = t.best
\* What has been written of a save is the trainer's.
Written(t) ==
  /\ t.at \in AfterWeights =>
       weights.state = "whole" /\ weights.of = t.params /\ weights.arch = t.arch /\ weights.val = t.best
  /\ t.at \in {"sidecar", "fill sidecar"} /\ ~t.skipped =>
       moments.state = "whole" /\ moments.of = t.moments /\ moments.dim = t.arch.dim
Warmed(t) ==
  t.at = "steps" /\ t.kind = "semantic" /\ t.step = 0 /\ ~broken /\ weights.state = "whole" /\ Fits(t.arch)
  => t.params = weights.of /\ t.moments = weights.of /\ t.count = weights.of

\* A server that reads while nothing is saved reads files that agree.
SidecarArch == IF sidecar.state = "whole" THEN sidecar.arch ELSE [dim |-> BaseDim, gate |-> FALSE, stab |-> FALSE]
Serving(l) ==
  /\ l.at \in {"dims", "built"} /\ ~l.overlapped /\ ~l.onBroken => Agree
  /\ l.at = "dims" /\ ~l.overlapped /\ ~l.onBroken => l.dim = SidecarArch.dim
  /\ l.at = "built" /\ ~l.overlapped /\ ~l.onBroken => l.arch = SidecarArch
  /\ l.at # "off" /\ ~l.overlapped /\ ~l.onBroken => l.at \notin {"refused", "mismatched"}

CkptInv ==
  /\ CkptShape
  /\ ~broken => Agree
  /\ weights.state = "whole" => weights.of[1] <= runs
  /\ trainer.at # "off" => Advancing(trainer) /\ Written(trainer) /\ Warmed(trainer)
  /\ Serving(loader)

LEMMA Losses == Infinity \in 0 .. Infinity /\ 0 \in Nat /\ Infinity \in Nat
BY CheckpointAssumption DEF Infinity

LEMMA CkptStart == CkptInit => CkptInv
<1> SUFFICES ASSUME CkptInit PROVE CkptInv
  OBVIOUS
<1>1. CkptShape
  BY DEF CkptInit, CkptShape, WeightFiles, MomentFiles, SidecarFiles, Loaders
<1>2. trainer.at = "off" /\ loader.at = "off" /\ weights.state = "missing"
  BY DEF CkptInit, IdleTrainer, IdleLoader, Missing
<1>3. Agree /\ Serving(loader)
  BY <1>2 DEF CkptInit, Agree, Serving
<1> QED BY <1>1, <1>2, <1>3 DEF CkptInv

\* A run that moves on, or ends, and leaves the files alone.
LEMMA Moves ==
  ASSUME CkptInv, NEW t \in TrainerRuns \union {IdleTrainer}, trainer' = t,
         UNCHANGED <<weights, moments, sidecar, loader, broken>>, runs' \in Nat, runs' >= runs,
         t.at # "off" => Advancing(t)' /\ Written(t) /\ Warmed(t)
  PROVE  CkptInv'
<1>1. CkptShape'
  BY DEF CkptInv, CkptShape
<1>2. (~broken => Agree)' /\ Serving(loader)'
  BY DEF CkptInv, Agree, Serving, SidecarArch
<1>3. (weights.state = "whole" => weights.of[1] <= runs)'
  <2>1. weights.state = "whole" => weights.of[1] \in Nat
    BY DEF CkptInv, CkptShape, WeightFiles, Missing, TornFile, Marks
  <2> QED BY <2>1 DEF CkptInv, CkptShape
<1>4. (trainer.at # "off" => Advancing(trainer) /\ Written(trainer) /\ Warmed(trainer))'
  BY DEF Advancing, Written, Warmed, Fits
<1> QED BY <1>1, <1>2, <1>3, <1>4 DEF CkptInv

LEMMA Stops ==
  ASSUME CkptInv, trainer' = IdleTrainer, UNCHANGED <<weights, moments, sidecar, loader, broken, runs>>
  PROVE  CkptInv'
<1>1. IdleTrainer.at = "off"
  BY DEF IdleTrainer
<1>2. runs \in Nat /\ runs' >= runs
  BY DEF CkptInv, CkptShape
<1> QED BY <1>1, <1>2, Moves

\* A run that is under way.
LEMMA UnderWay ==
  ASSUME CkptInv, trainer.at # "off"
  PROVE  /\ trainer \in TrainerRuns /\ Advancing(trainer) /\ Written(trainer) /\ Warmed(trainer)
         /\ runs \in Nat /\ runs >= runs
BY DEF CkptInv, CkptShape, IdleTrainer

LEMMA FilesKnown ==
  ASSUME CkptInv
  PROVE  /\ weights.state = "whole" => weights \in [state : {"whole"}, of : Marks, arch : Arch, val : 0 .. Infinity]
         /\ moments.state = "whole" => moments \in [state : {"whole"}, of : Marks, dim : Dims]
         /\ sidecar.state = "whole" => sidecar \in [state : {"whole"}, of : Marks, arch : Arch]
         /\ weights.state \in {"missing", "torn", "whole"}
BY DEF CkptInv, CkptShape, WeightFiles, MomentFiles, SidecarFiles, Missing, TornFile

LEMMA ResumeKeeps ==
  ASSUME CkptInv, NEW env \in Envs, NEW dim \in Dims, NEW stab \in Stabs, Resume(env, dim, stab)
  PROVE  CkptInv'
<1>1. PICK arch : arch = [dim |-> dim, gate |-> Gated(env), stab |-> stab]
  OBVIOUS
<1>2. PICK fresh : fresh = <<runs + 1, 0>>
  OBVIOUS
<1>3. PICK params : params = IF Fits(arch) THEN weights.of ELSE fresh
  OBVIOUS
<1>4. PICK ms : ms = IF moments.state = "whole" /\ moments.dim = dim THEN moments.of ELSE fresh
  OBVIOUS
<1>5. PICK count : count = IF moments.state = "whole" THEN moments.of ELSE fresh
  OBVIOUS
<1>6. PICK t : t = [at |-> "steps", kind |-> "semantic", arch |-> arch, params |-> params,
                    moments |-> ms, count |-> count, step |-> 0, best |-> Infinity,
                    lowest |-> Infinity, since |-> 0, skipped |-> FALSE]
  OBVIOUS
<1>7. /\ trainer' = t /\ runs' = runs + 1
      /\ UNCHANGED <<weights, moments, sidecar, loader, broken>>
  BY <1>1, <1>2, <1>3, <1>4, <1>5, <1>6 DEF Resume
<1>8. runs \in Nat
  BY DEF CkptInv, CkptShape
<1>9. fresh \in Marks /\ fresh[1] = runs + 1
  BY <1>2, <1>8 DEF Marks
<1>10. arch \in Arch
  <2>1. Gated(env) \in BOOLEAN
    BY FilesKnown DEF Gated, Arch
  <2> QED BY <1>1, <2>1, CheckpointAssumption DEF Arch
<1>11. params \in Marks /\ ms \in Marks /\ count \in Marks
  BY <1>3, <1>4, <1>5, <1>9, FilesKnown DEF Fits
<1>12. params[1] <= runs + 1
  <2>1. CASE Fits(arch)
    <3>1. weights.of[1] <= runs /\ weights.of \in Marks
      BY <2>1, FilesKnown DEF Fits, CkptInv
    <3> QED BY <1>3, <1>8, <2>1, <3>1 DEF Marks
  <2>2. CASE ~Fits(arch)
    BY <1>3, <1>8, <1>9, <2>2
  <2> QED BY <2>1, <2>2
<1>13. t \in TrainerRuns
  BY <1>6, <1>10, <1>11, Losses DEF TrainerRuns, TrainerStages
<1>14. Advancing(t)'
  <2>1. weights.state = "whole" => weights.of[1] # runs + 1
    <3>1. weights.state = "whole" => weights.of[1] <= runs /\ weights.of[1] \in Nat
      BY FilesKnown DEF CkptInv, Marks
    <3> QED BY <1>8, <3>1
  <2> QED BY <1>6, <1>7, <1>12, <2>1 DEF Advancing, AfterWeights
<1>15. Warmed(t)
  <2>1. ASSUME ~broken, weights.state = "whole", Fits(arch)
        PROVE  params = weights.of /\ ms = weights.of /\ count = weights.of
    <3>1. moments.state = "whole" /\ moments.of = weights.of /\ moments.dim = weights.arch.dim
      BY <2>1 DEF CkptInv, Agree, Missing
    <3>2. weights.arch.dim = dim
      BY <1>1, <2>1 DEF Fits
    <3> QED BY <1>3, <1>4, <1>5, <2>1, <3>1, <3>2
  <2> QED BY <1>6, <2>1 DEF Warmed
<1>16. Written(t)
  BY <1>6 DEF Written, AfterWeights
<1>17. runs' \in Nat /\ runs' >= runs
  BY <1>7, <1>8
<1> QED BY <1>7, <1>13, <1>14, <1>15, <1>16, <1>17, Moves

LEMMA PlainKeeps ==
  ASSUME CkptInv, NEW dim \in Dims, StartPlain(dim)
  PROVE  CkptInv'
<1>1. PICK arch : arch = [dim |-> dim, gate |-> FALSE, stab |-> FALSE]
  OBVIOUS
<1>2. PICK fresh : fresh = <<runs + 1, 0>>
  OBVIOUS
<1>3. PICK t : t = [at |-> "steps", kind |-> "plain", arch |-> arch, params |-> fresh,
                    moments |-> fresh, count |-> fresh, step |-> 0, best |-> Infinity,
                    lowest |-> Infinity, since |-> 0, skipped |-> FALSE]
  OBVIOUS
<1>4. /\ trainer' = t /\ runs' = runs + 1
      /\ UNCHANGED <<weights, moments, sidecar, loader, broken>>
  BY <1>1, <1>2, <1>3 DEF StartPlain
<1>5. runs \in Nat
  BY DEF CkptInv, CkptShape
<1>6. fresh \in Marks /\ fresh[1] = runs + 1
  BY <1>2, <1>5 DEF Marks
<1>7. arch \in Arch
  BY <1>1 DEF Arch
<1>8. t \in TrainerRuns
  BY <1>3, <1>6, <1>7, Losses DEF TrainerRuns, TrainerStages
<1>9. Advancing(t)'
  <2>1. weights.state = "whole" => weights.of[1] # runs + 1
    <3>1. weights.state = "whole" => weights.of[1] <= runs /\ weights.of[1] \in Nat
      BY FilesKnown DEF CkptInv, Marks
    <3> QED BY <1>5, <3>1
  <2> QED BY <1>3, <1>4, <1>5, <1>6, <2>1 DEF Advancing, AfterWeights
<1>10. Written(t) /\ Warmed(t)
  BY <1>3 DEF Written, Warmed, AfterWeights
<1>11. runs' \in Nat /\ runs' >= runs
  BY <1>4, <1>5
<1> QED BY <1>4, <1>8, <1>9, <1>10, <1>11, Moves

\* What stays of a record that goes to another stage.
To(r, to) == [r EXCEPT !.at = to]
LEMMA ToStage ==
  ASSUME NEW r \in TrainerRuns, NEW to \in TrainerStages
  PROVE  /\ To(r, to) \in TrainerRuns /\ To(r, to).at = to
         /\ To(r, to).kind = r.kind /\ To(r, to).arch = r.arch /\ To(r, to).params = r.params
         /\ To(r, to).moments = r.moments /\ To(r, to).step = r.step /\ To(r, to).best = r.best
         /\ To(r, to).lowest = r.lowest /\ To(r, to).skipped = r.skipped
BY DEF TrainerRuns, To

\* The run after a window, trained or skipped.
LEMMA WindowKeeps ==
  ASSUME CkptInv, NEW whole \in BOOLEAN, Train(whole) \/ TrainPlain(whole)
  PROVE  CkptInv'
<1>1. PICK r \in TrainerRuns : r = trainer /\ Advancing(r) /\ Written(r) /\ Warmed(r)
  BY UnderWay DEF Train, TrainPlain
<1>2. r.at = "steps" /\ UNCHANGED <<weights, moments, sidecar, loader, runs, broken>>
  BY <1>1 DEF Train, TrainPlain
<1>3. runs \in Nat /\ runs' = runs /\ runs' >= runs
  BY <1>2 DEF CkptInv, CkptShape
<1>4. PICK now : now = <<runs, r.step + 1>>
  OBVIOUS
<1>5. now \in Marks /\ now[1] = runs
  BY <1>3, <1>4 DEF TrainerRuns, Marks
<1>6. /\ Advanced \in TrainerRuns /\ Advanced.lowest = r.lowest /\ Advanced.best = r.best
      /\ Advanced.step = r.step + 1 /\ Advanced.params = now
  <2>1. Advanced = [r EXCEPT !.params = now, !.moments = now, !.count = now, !.step = r.step + 1]
    BY <1>1, <1>4 DEF Advanced, TrainerRuns
  <2>2. r.step + 1 \in Nat
    BY DEF TrainerRuns
  <2> QED BY <1>5, <2>1, <2>2 DEF TrainerRuns
<1>7. /\ Skipped \in TrainerRuns /\ Skipped.lowest = r.lowest /\ Skipped.best = r.best
      /\ Skipped.step = r.step + 1 /\ Skipped.params = r.params
  <2>1. Skipped = [r EXCEPT !.step = r.step + 1]
    BY <1>1 DEF Skipped, TrainerRuns
  <2>2. r.step + 1 \in Nat
    BY DEF TrainerRuns
  <2> QED BY <2>1, <2>2 DEF TrainerRuns
<1>8. PICK a \in {Advanced, Skipped} :
        trainer' = IdleTrainer \/ \E to \in {"steps", "eval", "weights"} : trainer' = To(a, to)
  <2>1. CASE Train(whole)
    BY <2>1 DEF Train, Then, To
  <2>2. CASE TrainPlain(whole)
    BY <2>2 DEF TrainPlain, Then, Goes, To
  <2> QED BY <2>1, <2>2
<1>9. ASSUME NEW to \in {"steps", "eval", "weights"}, trainer' = To(a, to)
      PROVE  CkptInv'
  <2>1. PICK t : t = To(a, to)
    OBVIOUS
  <2>2. to \in TrainerStages /\ a \in TrainerRuns
    BY <1>6, <1>7 DEF TrainerStages
  <2>3. /\ t \in TrainerRuns /\ t.at = to /\ t.params = a.params /\ t.step = a.step
        /\ t.best = a.best /\ t.lowest = a.lowest
    BY <2>1, <2>2, ToStage
  <2>4. r.step + 1 # 0 /\ t.step = r.step + 1 /\ t.lowest = r.lowest /\ t.best = r.best
    BY <1>6, <1>7, <2>3 DEF TrainerRuns
  <2>5. t.params[1] <= runs'
    BY <1>1, <1>3, <1>5, <1>6, <1>7, <2>3 DEF Advancing
  <2>6. Advancing(t)'
    BY <1>1, <1>2, <2>3, <2>4, <2>5 DEF Advancing, AfterWeights
  <2>7. Written(t) /\ Warmed(t)
    BY <2>3, <2>4 DEF Written, Warmed, AfterWeights
  <2> QED BY <1>2, <1>3, <1>9, <2>1, <2>3, <2>6, <2>7, Moves
<1>10. CASE trainer' = IdleTrainer
  BY <1>2, <1>10, Stops
<1> QED BY <1>8, <1>9, <1>10

LEMMA EvaluateKeeps ==
  ASSUME CkptInv, NEW v \in 0 .. Infinity, Evaluate(v)
  PROVE  CkptInv'
<1>1. PICK r \in TrainerRuns : r = trainer /\ Advancing(r) /\ Written(r) /\ Warmed(r)
  BY UnderWay DEF Evaluate
<1>2. r.at = "eval" /\ UNCHANGED <<weights, moments, sidecar, loader, runs, broken>>
  BY <1>1 DEF Evaluate
<1>3. runs \in Nat /\ runs' = runs /\ runs' >= runs
  BY <1>2 DEF CkptInv, CkptShape
<1>4. PICK low : low = IF v < r.lowest THEN v ELSE r.lowest
  OBVIOUS
<1>5. low \in 0 .. Infinity /\ r.best = r.lowest
  BY <1>1, <1>4 DEF TrainerRuns, Advancing
<1>6. CASE v < r.best
  <2>1. PICK t : t = [r EXCEPT !.best = v, !.since = 0, !.lowest = low, !.at = "weights"]
    OBVIOUS
  <2>2. trainer' = t
    BY <1>1, <1>2, <1>4, <1>6, <2>1 DEF Evaluate, Improves, Then, TrainerRuns
  <2>3. t \in TrainerRuns
    BY <1>5, <2>1, Losses DEF TrainerRuns, TrainerStages
  <2>4. t.at = "weights" /\ t.best = v /\ t.lowest = low /\ t.step = r.step /\ t.params = r.params
    BY <2>1 DEF TrainerRuns
  <2>5. Advancing(t)'
    BY <1>1, <1>2, <1>3, <1>4, <1>5, <1>6, <2>2, <2>4 DEF Advancing, AfterWeights
  <2>6. Written(t) /\ Warmed(t)
    BY <2>4 DEF Written, Warmed, AfterWeights
  <2> QED BY <1>2, <1>3, <2>2, <2>3, <2>5, <2>6, Moves
<1>7. CASE ~(v < r.best)
  <2>1. low = r.lowest
    BY <1>4, <1>5, <1>7
  <2>2. CASE AfterWorse = "off"
    <3>1. trainer' = IdleTrainer
      BY <1>1, <1>2, <1>7, <2>2 DEF Evaluate, Improves, Then
    <3> QED BY <1>2, <3>1, Stops
  <2>3. CASE AfterWorse = "steps"
    <3>1. PICK t : t = [r EXCEPT !.since = r.since + 1, !.lowest = low, !.at = "steps"]
      OBVIOUS
    <3>2. trainer' = t
      BY <1>1, <1>2, <1>4, <1>7, <2>3, <3>1 DEF Evaluate, Improves, Then, TrainerRuns
    <3>3. t \in TrainerRuns
      <4>1. r.since + 1 \in Nat
        BY DEF TrainerRuns
      <4> QED BY <1>5, <3>1, <4>1 DEF TrainerRuns, TrainerStages
    <3>4. /\ t.at = "steps" /\ t.best = r.best /\ t.lowest = r.lowest /\ t.step = r.step
          /\ t.params = r.params
      BY <2>1, <3>1 DEF TrainerRuns
    <3>5. Advancing(t)'
      BY <1>1, <1>2, <1>3, <3>2, <3>4 DEF Advancing, AfterWeights
    <3>6. r.step # 0
      BY <1>1, <1>2 DEF Advancing
    <3>7. Written(t) /\ Warmed(t)
      BY <3>4, <3>6 DEF Written, Warmed, AfterWeights
    <3> QED BY <1>2, <1>3, <3>2, <3>3, <3>5, <3>7, Moves
  <2> QED BY <2>2, <2>3 DEF AfterWorse, Worse, NextEpoch
<1> QED BY <1>6, <1>7

\* A file that changes while a server reads marks what it reads.
LEMMA OverlapServes ==
  ASSUME CkptInv, Overlaps
  PROVE  loader' \in Loaders /\ Serving(loader)'
<1>1. CASE loader.at \in {"dims", "built"}
  <2>1. PICK l : l = [loader EXCEPT !.overlapped = TRUE]
    OBVIOUS
  <2>2. loader' = l
    BY <1>1, <2>1 DEF Overlaps
  <2>3. l \in Loaders /\ l.overlapped /\ l.at = loader.at
    <3>1. CASE loader.at = "dims"
      <4>1. loader \in [at : {"dims"}, overlapped : BOOLEAN, onBroken : BOOLEAN, dim : Dims]
        BY <3>1 DEF CkptInv, CkptShape, Loaders, IdleLoader
      <4>2. l \in [at : {"dims"}, overlapped : BOOLEAN, onBroken : BOOLEAN, dim : Dims]
        BY <2>1, <4>1
      <4> QED BY <2>1, <3>1, <4>1, <4>2 DEF Loaders
    <3>2. CASE loader.at = "built"
      <4>1. loader \in [at : {"built"}, overlapped : BOOLEAN, onBroken : BOOLEAN, arch : Arch]
        BY <3>2 DEF CkptInv, CkptShape, Loaders, IdleLoader
      <4>2. l \in [at : {"built"}, overlapped : BOOLEAN, onBroken : BOOLEAN, arch : Arch]
        BY <2>1, <4>1
      <4> QED BY <2>1, <3>2, <4>1, <4>2 DEF Loaders
    <3> QED BY <1>1, <3>1, <3>2
  <2> QED BY <2>2, <2>3 DEF Serving
<1>2. CASE loader.at \notin {"dims", "built"}
  BY <1>2 DEF Overlaps, CkptInv, CkptShape, Serving
<1> QED BY <1>1, <1>2

\* A file is truncated or filled.
LEMMA FileKeeps ==
  ASSUME CkptInv, Overlaps, NEW t \in TrainerRuns \union {IdleTrainer}, trainer' = t, runs' = runs,
         weights' \in WeightFiles, moments' \in MomentFiles, sidecar' \in SidecarFiles,
         broken' \in BOOLEAN, ~broken' => Agree', weights'.state = "whole" => weights'.of[1] <= runs,
         t.at # "off" => Advancing(t)' /\ Written(t)' /\ (t.at = "steps" => t.step # 0)
  PROVE  CkptInv'
<1>1. CkptShape'
  BY OverlapServes DEF CkptInv, CkptShape
<1>2. t.at # "off" => Warmed(trainer)'
  BY DEF Warmed
<1>3. t.at # "off" => (Advancing(trainer) /\ Written(trainer))'
  BY DEF Advancing, Written
<1> QED BY <1>1, <1>2, <1>3, OverlapServes DEF CkptInv

\* A stage of a save under way.
LEMMA SaveUnderWay ==
  ASSUME CkptInv, trainer.at # "off"
  PROVE  \E r \in TrainerRuns :
           /\ r = trainer /\ Advancing(r) /\ Written(r)
           /\ \A to \in TrainerStages : [r EXCEPT !.at = to] \in TrainerRuns
           /\ runs \in Nat
           /\ weights \in WeightFiles /\ moments \in MomentFiles /\ sidecar \in SidecarFiles
<1>1. PICK r \in TrainerRuns : r = trainer /\ Advancing(r) /\ Written(r)
  BY UnderWay
<1>2. ASSUME NEW to \in TrainerStages PROVE [r EXCEPT !.at = to] \in TrainerRuns
  BY DEF TrainerRuns
<1> QED BY <1>1, <1>2 DEF CkptInv, CkptShape

LEMMA TruncateWeightsKeeps ==
  ASSUME CkptInv, TruncateWeights
  PROVE  CkptInv'
<1>1. PICK r \in TrainerRuns : r = trainer /\ Advancing(r) /\ Written(r)
  BY SaveUnderWay DEF TruncateWeights
<1>2. PICK t : t = [r EXCEPT !.at = "fill weights", !.skipped = FALSE]
  OBVIOUS
<1>3. /\ r.at = "weights" /\ weights' = TornFile /\ broken' = TRUE /\ trainer' = t /\ Overlaps
      /\ UNCHANGED <<moments, sidecar, runs>>
  BY <1>1, <1>2 DEF TruncateWeights
<1>4. t \in TrainerRuns
  BY <1>2 DEF TrainerRuns, TrainerStages
<1>5. t.at = "fill weights" /\ t.params = r.params /\ t.step = r.step /\ t.best = r.best /\ t.lowest = r.lowest
  BY <1>2 DEF TrainerRuns
<1>6. Advancing(t)'
  BY <1>1, <1>3, <1>5 DEF Advancing
<1>7. Written(t)'
  BY <1>5 DEF Written, AfterWeights
<1>8. weights' \in WeightFiles /\ weights'.state = "torn" /\ moments' \in MomentFiles /\ sidecar' \in SidecarFiles
  BY <1>3, SaveUnderWay DEF WeightFiles, TornFile, CkptInv, CkptShape
<1> QED BY <1>3, <1>4, <1>5, <1>6, <1>7, <1>8, FileKeeps

LEMMA FillWeightsKeeps ==
  ASSUME CkptInv, FillWeights
  PROVE  CkptInv'
<1>1. PICK r \in TrainerRuns : r = trainer /\ Advancing(r) /\ Written(r)
  BY SaveUnderWay DEF FillWeights
<1>2. PICK w : w = [state |-> "whole", of |-> r.params, arch |-> r.arch, val |-> r.best]
  OBVIOUS
<1>3. PICK t : t = IF r.kind = "plain" THEN IdleTrainer ELSE To(r, "moments")
  OBVIOUS
<1>4. r.at = "fill weights" /\ weights' = w /\ Overlaps /\ UNCHANGED <<moments, sidecar, runs, broken>>
  BY <1>1, <1>2 DEF FillWeights
<1>5. trainer' = t
  BY <1>1, <1>3 DEF FillWeights, Goes, Then, To
<1>6. w \in WeightFiles /\ w.of = r.params /\ w.arch = r.arch /\ w.val = r.best /\ w.state = "whole"
  BY <1>2 DEF WeightFiles, TrainerRuns
<1>7. broken /\ r.params[1] <= runs /\ broken \in BOOLEAN
  BY <1>1, <1>4 DEF Advancing, CkptInv, CkptShape
<1>8. moments \in MomentFiles /\ sidecar \in SidecarFiles
  BY DEF CkptInv, CkptShape
<1>9. CASE r.kind = "plain"
  <2>1. t.at = "off"
    BY <1>3, <1>9 DEF IdleTrainer
  <2> QED BY <1>3, <1>4, <1>5, <1>6, <1>7, <1>8, <1>9, <2>1, FileKeeps
<1>10. CASE r.kind # "plain"
  <2>1. t = To(r, "moments") /\ "moments" \in TrainerStages
    BY <1>3, <1>10 DEF TrainerStages, AfterWeights
  <2>2. /\ t \in TrainerRuns /\ t.at = "moments" /\ t.params = r.params /\ t.step = r.step
        /\ t.best = r.best /\ t.lowest = r.lowest /\ t.arch = r.arch
    BY <2>1, ToStage
  <2>3. Advancing(t)'
    BY <1>1, <1>4, <1>7, <2>2 DEF Advancing
  <2>4. Written(t)'
    BY <1>4, <1>6, <2>2 DEF Written, AfterWeights
  <2> QED BY <1>4, <1>5, <1>6, <1>7, <1>8, <2>2, <2>3, <2>4, FileKeeps
<1> QED BY <1>9, <1>10

\* The moments and the sidecar are truncated, and the moments filled.
LEMMA MiddleKeeps ==
  ASSUME CkptInv, TruncateMoments \/ FillMoments \/ TruncateSidecar
  PROVE  CkptInv'
<1>1. PICK r \in TrainerRuns : r = trainer /\ Advancing(r) /\ Written(r)
  BY SaveUnderWay DEF TruncateMoments, FillMoments, TruncateSidecar
<1>2. PICK to \in {"fill moments", "sidecar", "fill sidecar"} :
        /\ trainer' = To(r, to) /\ Overlaps /\ UNCHANGED <<weights, runs, broken>>
        /\ r.at \in AfterWeights
        /\ \/ to = "fill moments" /\ moments' = TornFile /\ sidecar' = sidecar
           \/ /\ to = "sidecar" /\ sidecar' = sidecar
              /\ moments' = [state |-> "whole", of |-> r.moments, dim |-> r.arch.dim]
           \/ to = "fill sidecar" /\ moments' = moments /\ sidecar' = TornFile /\ r.at = "sidecar"
  <2>1. CASE TruncateMoments
    BY <1>1, <2>1 DEF TruncateMoments, Goes, Then, To, AfterWeights
  <2>2. CASE FillMoments
    BY <1>1, <2>2 DEF FillMoments, Goes, Then, To, AfterWeights
  <2>3. CASE TruncateSidecar
    BY <1>1, <2>3 DEF TruncateSidecar, Goes, Then, To, AfterWeights
  <2> QED BY <2>1, <2>2, <2>3
<1>3. PICK t : t = To(r, to)
  OBVIOUS
<1>4. to \in TrainerStages /\ to \in AfterWeights
  BY DEF TrainerStages, AfterWeights
<1>5. /\ t \in TrainerRuns /\ t.at = to /\ t.params = r.params /\ t.step = r.step /\ t.moments = r.moments
      /\ t.best = r.best /\ t.lowest = r.lowest /\ t.arch = r.arch /\ t.skipped = r.skipped
  BY <1>3, <1>4, ToStage
<1>6. broken /\ broken \in BOOLEAN
  BY <1>1, <1>2 DEF Advancing, CkptInv, CkptShape
<1>7. /\ weights \in WeightFiles /\ moments \in MomentFiles /\ sidecar \in SidecarFiles
      /\ weights.state = "whole" => weights.of[1] <= runs
  BY DEF CkptInv, CkptShape
<1>8. [state |-> "whole", of |-> r.moments, dim |-> r.arch.dim] \in MomentFiles
  BY DEF MomentFiles, TrainerRuns, Arch
<1>9. moments' \in MomentFiles /\ sidecar' \in SidecarFiles
  BY <1>2, <1>7, <1>8 DEF MomentFiles, SidecarFiles
<1>10. Advancing(t)'
  BY <1>1, <1>2, <1>5, <1>6 DEF Advancing, AfterWeights
<1>11. Written(t)'
  <2>1. weights'.state = "whole" /\ weights'.of = t.params /\ weights'.arch = t.arch /\ weights'.val = t.best
    BY <1>1, <1>2, <1>5 DEF Written
  <2>2. CASE to = "fill moments"
    BY <1>5, <2>1, <2>2 DEF Written
  <2>3. CASE to = "sidecar"
    <3>1. moments' = [state |-> "whole", of |-> r.moments, dim |-> r.arch.dim]
      BY <1>2, <2>3
    <3>2. moments'.state = "whole" /\ moments'.of = r.moments /\ moments'.dim = r.arch.dim
      BY <3>1
    <3> QED BY <1>5, <2>1, <3>2 DEF Written
  <2>4. CASE to = "fill sidecar"
    <3>1. moments' = moments /\ r.at = "sidecar"
      BY <1>2, <2>4
    <3> QED BY <1>1, <1>5, <2>1, <3>1 DEF Written
  <2> QED BY <2>2, <2>3, <2>4
<1>12. t.at # "off" /\ t.at # "steps"
  BY <1>5
<1> QED BY <1>2, <1>3, <1>5, <1>6, <1>7, <1>9, <1>10, <1>11, <1>12, FileKeeps

LEMMA FillSidecarKeeps ==
  ASSUME CkptInv, FillSidecar
  PROVE  CkptInv'
<1>1. PICK r \in TrainerRuns : r = trainer /\ Advancing(r) /\ Written(r)
  BY SaveUnderWay DEF FillSidecar
<1>2. PICK f : f = [state |-> "whole", of |-> r.params, arch |-> r.arch]
  OBVIOUS
<1>3. PICK t \in {IdleTrainer, To(r, "steps")} : trainer' = t
  BY <1>1 DEF FillSidecar, Goes, Then, NextEpoch, To
<1>4. /\ r.at = "fill sidecar" /\ sidecar' = f /\ Overlaps /\ UNCHANGED <<weights, moments, runs>>
      /\ broken' = (r.skipped \/ r.moments # r.params)
  BY <1>1, <1>2 DEF FillSidecar
<1>5. f \in SidecarFiles /\ f.state = "whole" /\ f.of = r.params /\ f.arch = r.arch
  BY <1>2 DEF SidecarFiles, TrainerRuns
<1>6. weights.state = "whole" /\ weights.of = r.params /\ weights.arch = r.arch /\ weights.val = r.best
  BY <1>1, <1>4 DEF Written, AfterWeights
<1>7. /\ weights \in WeightFiles /\ moments \in MomentFiles /\ weights.of[1] <= runs /\ broken' \in BOOLEAN
  BY <1>4, <1>6 DEF CkptInv, CkptShape
<1>8. ~broken' => Agree'
  BY <1>1, <1>4, <1>5, <1>6 DEF Agree, Written
<1>9. CASE t = IdleTrainer
  <2>1. t.at = "off"
    BY <1>9 DEF IdleTrainer
  <2> QED BY <1>3, <1>4, <1>5, <1>7, <1>8, <1>9, <2>1, FileKeeps
<1>10. CASE t = To(r, "steps")
  <2>1. "steps" \in TrainerStages
    BY DEF TrainerStages
  <2>2. /\ t \in TrainerRuns /\ t.at = "steps" /\ t.params = r.params /\ t.step = r.step
        /\ t.best = r.best /\ t.lowest = r.lowest
    BY <1>10, <2>1, ToStage
  <2>3. Advancing(t)'
    BY <1>1, <1>4, <1>6, <2>2 DEF Advancing, AfterWeights
  <2>4. Written(t)'
    BY <2>2 DEF Written, AfterWeights
  <2>5. t.step # 0
    BY <1>1, <1>4, <2>2 DEF Advancing
  <2> QED BY <1>3, <1>4, <1>5, <1>7, <1>8, <2>2, <2>3, <2>4, <2>5, FileKeeps
<1> QED BY <1>9, <1>10

\* A file that cannot be written is left as it is.
LEMMA SkipsKeep ==
  ASSUME CkptInv, SkipsMoments \/ SkipsSidecar
  PROVE  CkptInv'
<1>1. PICK r \in TrainerRuns : r = trainer /\ Advancing(r) /\ Written(r)
  BY SaveUnderWay DEF SkipsMoments, SkipsSidecar
<1>2. /\ UNCHANGED <<weights, moments, sidecar, loader, runs, broken>>
      /\ r.at \in AfterWeights /\ runs \in Nat /\ runs' >= runs
  <2>1. /\ UNCHANGED <<weights, moments, sidecar, loader, runs, broken>>
        /\ r.at \in AfterWeights
    BY <1>1 DEF SkipsMoments, SkipsSidecar, AfterWeights
  <2>2. runs \in Nat
    BY DEF CkptInv, CkptShape
  <2> QED BY <2>1, <2>2
<1>3. broken /\ r.step # 0
  BY <1>1, <1>2 DEF Advancing, AfterWeights
<1>4. CASE SkipsMoments
  <2>1. PICK t : t = [r EXCEPT !.at = "sidecar", !.skipped = TRUE]
    OBVIOUS
  <2>2. trainer' = t
    BY <1>1, <1>4, <2>1 DEF SkipsMoments
  <2>3. t \in TrainerRuns
    BY <2>1 DEF TrainerRuns, TrainerStages, AfterWeights
  <2>4. /\ t.at = "sidecar" /\ t.skipped /\ t.params = r.params /\ t.step = r.step /\ t.best = r.best
        /\ t.lowest = r.lowest /\ t.arch = r.arch
    BY <2>1 DEF TrainerRuns
  <2>5. Advancing(t)'
    BY <1>1, <1>2, <1>3, <2>4 DEF Advancing
  <2>6. Written(t) /\ Warmed(t)
    BY <1>1, <1>2, <2>4 DEF Written, Warmed, AfterWeights
  <2> QED BY <1>2, <2>2, <2>3, <2>5, <2>6, Moves
<1>5. CASE SkipsSidecar
  <2>1. PICK t \in {IdleTrainer, To(r, "steps")} : trainer' = t
    BY <1>1, <1>5 DEF SkipsSidecar, Goes, Then, NextEpoch, To
  <2>2. CASE t = IdleTrainer
    BY <1>2, <2>1, <2>2, Stops
  <2>3. CASE t = To(r, "steps")
    <3>1. "steps" \in TrainerStages
      BY DEF TrainerStages
    <3>2. /\ t \in TrainerRuns /\ t.at = "steps" /\ t.params = r.params /\ t.step = r.step
          /\ t.best = r.best /\ t.lowest = r.lowest
      BY <2>3, <3>1, ToStage
    <3>3. Advancing(t)'
      BY <1>1, <1>2, <1>3, <3>2 DEF Advancing, AfterWeights
    <3>4. Written(t) /\ Warmed(t)
      BY <1>3, <3>2 DEF Written, Warmed, AfterWeights
    <3> QED BY <1>2, <2>1, <3>2, <3>3, <3>4, Moves
  <2> QED BY <2>2, <2>3
<1> QED BY <1>4, <1>5

LEMMA DiesKeeps ==
  ASSUME CkptInv, TrainerDies
  PROVE  CkptInv'
BY Stops DEF TrainerDies, Goes, Then

\* A server starts.
LEMMA Starts ==
  ASSUME CkptInv, NEW l \in Loaders, loader' = l, Serving(l),
         UNCHANGED <<weights, moments, sidecar, trainer, runs, broken>>
  PROVE  CkptInv'
<1>1. CkptShape'
  BY DEF CkptInv, CkptShape
<1>2. Serving(loader)' /\ (~broken => Agree)'
  BY DEF CkptInv, Serving, Agree, SidecarArch
<1>3. (trainer.at # "off" => Advancing(trainer) /\ Written(trainer) /\ Warmed(trainer))'
  BY DEF CkptInv, Advancing, Written, Warmed, Fits
<1> QED BY <1>1, <1>2, <1>3 DEF CkptInv

LEMMA LoaderKeeps ==
  ASSUME CkptInv, ReadDims \/ Build \/ ReadWeights
  PROVE  CkptInv'
<1>1. UNCHANGED <<weights, moments, sidecar, trainer, runs, broken>>
  BY DEF ReadDims, Build, ReadWeights
<1>2. SidecarArch \in Arch
  BY FilesKnown, CheckpointAssumption DEF SidecarArch, Arch
<1>3. CASE ReadDims
  <2>1. PICK l : l = [at |-> "dims", overlapped |-> trainer.at \notin {"off", "steps", "eval"},
                      onBroken |-> broken,
                      dim |-> IF sidecar.state = "whole" THEN sidecar.arch.dim ELSE BaseDim]
    OBVIOUS
  <2>2. loader' = l
    BY <1>3, <2>1 DEF ReadDims
  <2>3. l.at = "dims" /\ l.dim = SidecarArch.dim /\ l.onBroken = broken
    BY <2>1 DEF SidecarArch
  <2>4. l \in Loaders
    BY <1>2, <2>1, <2>3 DEF Loaders, Arch, CkptInv, CkptShape
  <2>5. Serving(l)
    BY <2>3 DEF Serving, CkptInv
  <2> QED BY <1>1, <2>2, <2>4, <2>5, Starts
<1>4. CASE Build
  <2>1. loader \in [at : {"dims"}, overlapped : BOOLEAN, onBroken : BOOLEAN, dim : Dims]
    BY <1>4 DEF Build, CkptInv, CkptShape, Loaders, IdleLoader
  <2>2. PICK l : l = [at |-> "built", overlapped |-> loader.overlapped, onBroken |-> loader.onBroken,
                      arch |-> IF sidecar.state = "whole" THEN [sidecar.arch EXCEPT !.dim = loader.dim]
                               ELSE [dim |-> loader.dim, gate |-> FALSE, stab |-> FALSE]]
    OBVIOUS
  <2>3. loader' = l
    BY <1>4, <2>2 DEF Build
  <2>4. l.at = "built" /\ l.overlapped = loader.overlapped /\ l.onBroken = loader.onBroken
    BY <2>2
  <2>5. l.arch \in Arch /\ (loader.dim = SidecarArch.dim => l.arch = SidecarArch)
    <3>1. CASE sidecar.state = "whole"
      <4>1. sidecar.arch \in Arch /\ SidecarArch = sidecar.arch
        BY <3>1, FilesKnown DEF SidecarArch
      <4>2. l.arch = [sidecar.arch EXCEPT !.dim = loader.dim]
        BY <2>2, <3>1
      <4> QED BY <2>1, <4>1, <4>2 DEF Arch
    <3>2. CASE sidecar.state # "whole"
      BY <2>1, <2>2, <3>2 DEF SidecarArch, Arch
    <3> QED BY <3>1, <3>2
  <2>6. l \in Loaders
    BY <2>1, <2>2, <2>5 DEF Loaders
  <2>7. Serving(l)
    BY <2>1, <2>4, <2>5 DEF Serving, CkptInv
  <2> QED BY <1>1, <2>3, <2>6, <2>7, Starts
<1>5. CASE ReadWeights
  <2>1. loader \in [at : {"built"}, overlapped : BOOLEAN, onBroken : BOOLEAN, arch : Arch]
    BY <1>5 DEF ReadWeights, CkptInv, CkptShape, Loaders, IdleLoader
  <2>2. PICK at \in {"untrained", "refused", "mismatched", "loaded"} :
          /\ loader' = [at |-> at, overlapped |-> loader.overlapped, onBroken |-> loader.onBroken]
          /\ at \in {"refused", "mismatched"} =>
               weights.state = "torn" \/ (weights.state = "whole" /\ weights.arch # loader.arch)
    BY <1>5 DEF ReadWeights
  <2>3. PICK l : l = [at |-> at, overlapped |-> loader.overlapped, onBroken |-> loader.onBroken]
    OBVIOUS
  <2>4. l \in Loaders /\ l.at = at /\ l.overlapped = loader.overlapped /\ l.onBroken = loader.onBroken
    BY <2>1, <2>3 DEF Loaders
  <2>5. ASSUME ~loader.overlapped, ~loader.onBroken PROVE at \notin {"refused", "mismatched"}
    <3>1. Agree /\ loader.arch = SidecarArch
      BY <2>1, <2>5 DEF CkptInv, Serving
    <3> QED BY <2>2, <3>1 DEF Agree, SidecarArch, Missing
  <2>6. Serving(l)
    BY <2>4, <2>5 DEF Serving
  <2> QED BY <1>1, <2>2, <2>3, <2>4, <2>6, Starts
<1> QED BY <1>3, <1>4, <1>5

LEMMA CkptStep ==
  ASSUME CkptInv, [CkptNext]_ckptVars
  PROVE  CkptInv'
<1>1. CASE UNCHANGED ckptVars
  <2>1. UNCHANGED <<weights, moments, sidecar, trainer, runs, broken>> /\ loader' = loader
    BY <1>1 DEF ckptVars
  <2>2. loader \in Loaders /\ Serving(loader)
    BY DEF CkptInv, CkptShape
  <2> QED BY <2>1, <2>2, Starts
<1>2. CASE CkptNext
  BY <1>2, ResumeKeeps, PlainKeeps, WindowKeeps, EvaluateKeeps, TruncateWeightsKeeps, FillWeightsKeeps,
     MiddleKeeps, FillSidecarKeeps, SkipsKeep, DiesKeeps, LoaderKeeps DEF CkptNext, Saves
<1> QED BY <1>1, <1>2

LEMMA CkptGives == CkptInv => CheckpointSound
<1> SUFFICES ASSUME CkptInv PROVE CheckpointSound
  OBVIOUS
<1>1. FilesAgree
  <2>1. ASSUME ~Saving, ~broken, Three # {Missing} PROVE
          /\ \A f \in Three : f.state = "whole" /\ f.of = weights.of
          /\ sidecar.arch = weights.arch /\ moments.dim = weights.arch.dim
    BY <2>1 DEF CkptInv, Agree, Three
  <2>2. ASSUME ~Saving, ~broken, Three # {Missing}, trainer.at # "off", weights.of[1] = runs
        PROVE  weights.val <= trainer.lowest
    <3>1. trainer \in TrainerRuns /\ Advancing(trainer) /\ trainer.at \in {"steps", "eval"}
      BY <2>2, UnderWay DEF Saving
    <3>2. weights.state = "whole"
      BY <2>1, <2>2 DEF Three
    <3>3. weights.val = trainer.best /\ trainer.best = trainer.lowest
      BY <2>2, <3>1, <3>2 DEF Advancing
    <3> QED BY <3>1, <3>3, Losses DEF TrainerRuns
  <2> QED BY <2>1, <2>2 DEF FilesAgree
<1>2. ResumesWarm
  BY DEF CkptInv, Warmed, ResumesWarm
<1>3. ServedAsTrained
  BY DEF CkptInv, Serving, ServedAsTrained
<1> QED BY <1>1, <1>2, <1>3 DEF CheckpointSound

\* Wherever a trainer dies and whichever file it cannot write: while nothing is saved and
\* the last save was whole, the three files of a checkpoint are of one save and one model,
\* a run resumes from exactly there, and a server runs the weights as they were trained.
THEOREM CheckpointSoundCorrect == CkptSpec => []CheckpointSound
<1>1. CkptInit => CkptInv
  BY CkptStart
<1>2. CkptInv /\ [CkptNext]_ckptVars => CkptInv'
  BY CkptStep
<1> QED BY <1>1, <1>2, CkptGives, PTL DEF CkptSpec

==============================================================================
