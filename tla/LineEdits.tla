------------------------------ MODULE LineEdits -------------------------------
(***************************************************************************)
(* The one-line edits axiom solve tries (line_mutations in                 *)
(* mutation_repair.rs), and the faults scripts/seed_faults.py plants to    *)
(* measure it.                                                             *)
(*                                                                         *)
(* A line is a sequence of tokens [k, v, n, sp]: a kind, a text, the value *)
(* of an integer, and whether white space comes before.  Operators and     *)
(* escapes are tokens already; what hides in a literal or a comment is     *)
(* found here, as code_mask does.  An edit is a line; its label is left    *)
(* out, and so is the order in which a class offers its edits.             *)
(***************************************************************************)
EXTENDS Integers, Sequences, FiniteSets, SequencesExt

CONSTANTS
  Sources,           \* lines to begin with: [lang, text, closes], closes if the next begins with }
  MaxShifted,        \* MAX_SHIFTED_LITERAL
  MaxShiftedArgs,    \* MAX_SHIFTED_ARGS
  MaxSwapIdents,     \* MAX_SWAP_IDENTS
  StatementWords,    \* STATEMENT_KEYWORDS
  NotSwappable,      \* NOT_SWAPPABLE
  RustKeywords       \* RUST_KEYWORDS of seed_faults.py

\* What begins, ends or spares a literal or a comment; no word has such a text.
Signs == {"#", "//", "$", "{", "dq", "'", "tick"}
ASSUME EditAssumption ==
  /\ \A s \in Sources :
       /\ s.text \in Seq([k : STRING, v : STRING, n : Nat, sp : BOOLEAN])
       /\ \A i \in DOMAIN s.text : s.text[i].k = "word" => s.text[i].v \notin Signs
  /\ MaxShifted \in Nat

VARIABLES
  shape,       \* "sound", "faulty", "edited"
  written,     \* the line as its author wrote it
  fault,       \* [kind, text] planted in it
  rewrite      \* the edit tried

editVars == <<shape, written, fault, rewrite>>

Tok(k, v, n, sp) == [k |-> k, v |-> v, n |-> n, sp |-> sp]
NoFault == [kind |-> "none", text |-> <<>>]
NoEdit  == [class |-> "none", text |-> <<>>]

EditInit == shape = "sound" /\ written \in Sources /\ fault = NoFault /\ rewrite = NoEdit

HashComments  == {"python", "shell", "ruby"}
CLike         == {"javascript", "go", "rust", "c", "java"}
WordLogic     == {"python", "ruby"}

(***************************************************************************)
(* Tokens of a line, and what of them is code.                             *)
(***************************************************************************)
TokAt(l, i)    == IF i \in DOMAIN l THEN l[i] ELSE Tok("none", "", 0, TRUE)
Is(l, i, vs) == TokAt(l, i).v \in vs
Word(l, i)  == TokAt(l, i).k \in {"word", "Word", "WORD"}
Ident(l, i) == Word(l, i) \/ TokAt(l, i).k = "int"
Joined(l, i) == ~TokAt(l, i).sp                       \* nothing between i - 1 and i
Spaced(l, i) == i < Len(l) /\ l[i].sp /\ l[i + 1].sp

Comments(g, l, i) ==
  \/ /\ g \in HashComments \cup {"other"} /\ Is(l, i, {"#"})
     /\ ~(Is(l, i - 1, {"$", "{"}) /\ Joined(l, i))
  \/ g \in CLike \cup {"other"} /\ Is(l, i, {"//"})

\* The last token hidden by a literal or comment that begins at i; i - 1 if none does.  In
\* Rust a quote with no other two tokens on opens a lifetime.
Hides(g, l, i) ==
  LET ends == {j \in (i + 1) .. Len(l) : l[j].v = l[i].v}
      closed == IF ends = {} THEN Len(l) ELSE Min(ends) IN
  CASE Comments(g, l, i) -> Len(l)
    [] Is(l, i, {"'"}) /\ g = "rust" -> IF Is(l, i + 2, {"'"}) THEN i + 2 ELSE i - 1
    [] Is(l, i, {"tick"}) -> IF g \in {"javascript", "go"} THEN closed ELSE i - 1
    [] Is(l, i, {"dq", "'"}) -> closed
    [] OTHER -> i - 1

Hidden(g, l) ==
  LET upTo[i \in 0 .. Len(l)] ==
        IF i = 0 THEN 0 ELSE IF i <= upTo[i - 1] THEN upTo[i - 1] ELSE Hides(g, l, i)
  IN  {i \in DOMAIN l : i <= upTo[i]}
Code(g, l) == DOMAIN l \ Hidden(g, l)

Opens  == {"(", "[", "{"}
Closes == {")", "]", "}"}
Depth(l, c, from, to) ==
  Cardinality({j \in c \cap (from .. to) : Is(l, j, Opens)})
    - Cardinality({j \in c \cap (from .. to) : Is(l, j, Closes)})

\* The bracket that closes the one at i; 0 if none does.
Match(l, c, i) ==
  LET ends == {j \in c \cap (i .. Len(l)) : Is(l, j, Closes) /\ Depth(l, c, i, j) = 0}
  IN  IF ends = {} THEN 0 ELSE Min(ends)
TopCommas(l, c, from, to) ==
  {j \in c \cap (from .. to) : Is(l, j, {","}) /\ Depth(l, c, from, j) = 0}

\* An operator here has an operand before it.  `return` counts as one.
Binary(l, i) == Ident(l, i - 1) \/ Is(l, i - 1, {")", "]", "dq", "'", "tick"})

(***************************************************************************)
(* Rewriting.                                                              *)
(***************************************************************************)
Cut(l, a, b) == SubSeq(l, a, b)
Upto(l, i) == SubSeq(l, 1, i - 1)
Behind(l, i)  == SubSeq(l, i + 1, Len(l))
Lead(s, sp)  == IF s = <<>> THEN s ELSE [s EXCEPT ![1].sp = sp]
Same(s, t)   == Lead(s, TRUE) = Lead(t, TRUE)

Op(v, sp)  == Tok("op", v, 0, sp)
PlusOne    == <<Op("+", TRUE), Tok("int", "", 1, TRUE)>>
MinusOne   == <<Op("-", TRUE), Tok("int", "", 1, TRUE)>>
Retext(l, i, v) == [l EXCEPT ![i].v = v]
Both(u, v) == {<<u, v>>, <<v, u>>}                    \* u may become v, and v become u
Others(l, I, alts) ==
  UNION {{Retext(l, i, a[2]) : a \in {b \in alts : b[1] = l[i].v}} : i \in I}

\* A prefix ! or not suffices for one name with its calls, indices and fields.
Simple(g, s) ==
  LET c == Code(g, s) IN
  /\ Word(s, 1) /\ Depth(s, c, 1, Len(s)) = 0
  /\ \A i \in c : (Depth(s, c, 1, i - 1) = 0 /\ ~Is(s, i, Opens \cup Closes)) =>
       Ident(s, i) \/ Is(s, i, {".", ":", "::", "?"})
  /\ \A i \in DOMAIN s : (i > 1 /\ i \in c /\ s[i].sp) => Depth(s, c, 1, i - 1) # 0
Negated(g, s) ==
  LET no == IF g \in WordLogic THEN Tok("word", "not", 0, TRUE) ELSE Op("!", TRUE) IN
  IF Simple(g, s) THEN <<no>> \o Lead(s, g \in WordLogic)
  ELSE <<no, Op("(", g \in WordLogic)>> \o Lead(s, FALSE) \o <<Op(")", FALSE)>>

(***************************************************************************)
(* The classes of edits.  g is the language, c the code of the line.       *)
(***************************************************************************)
CompareAlts ==
  UNION {Both("<", "<="), Both("<", ">"), Both("<=", ">="), Both(">", ">="),
         Both("==", "!="), Both("===", "!==")}

\* Unspaced < and > in a C-like language are generics, in a shell they redirect.
Compares(g, l, i) ==
  /\ Is(l, i, {"<", ">", "<=", ">="}) => g # "shell"
  /\ Is(l, i, {"<", ">"}) /\ g \in CLike => Spaced(l, i)
InCondition(l) ==
  Is(l, 1, {"if", "while", "elif"}) \/ (Is(l, 1, {"}"}) /\ Is(l, 2, {"else"}) /\ Is(l, 3, {"if"}))
Comparison(g, l, c) ==
  Others(l, {i \in c : Compares(g, l, i)}, CompareAlts)
    \cup (IF g \in CLike /\ InCondition(l) THEN Others(l, c, {<<"=", "==">>}) ELSE {})

\* `+ 1` and `- 1` go or are turned; a length loses one; range(n) and literals move by one.
Adjusts(l, c) ==
  {i \in c : /\ Is(l, i, {"+", "-"}) /\ Binary(l, i)
             /\ TokAt(l, i + 1).k = "int" /\ TokAt(l, i + 1).n = 1
             /\ ~(Is(l, i + 2, {".", "..", "..="}) /\ Joined(l, i + 2))}
CallEnds(l, c) ==
  {Match(l, c, i + 1) : i \in {j \in c :
     /\ Is(l, j + 1, {"("}) /\ Joined(l, j + 1)
     /\ IF Is(l, j - 1, {"."}) /\ Joined(l, j) THEN Is(l, j, {"len", "size", "count"})
        ELSE Is(l, j, {"len"})}} \ {0}
FieldEnds(l, c) ==
  {i \in c : /\ Is(l, i, {"length", "size", "count", "Length", "Count"})
             /\ Is(l, i - 1, {"."}) /\ Joined(l, i)
             /\ ~(Is(l, i + 1, {"("}) /\ Joined(l, i + 1))}
Lengths(l, c) ==
  {i \in CallEnds(l, c) \cup FieldEnds(l, c) : ~Is(l, i + 1, {"+", "-", "+=", "-=", "->"})}
Ranges(l, c) ==
  {i \in c : LET e == Match(l, c, i + 1) IN
     /\ Is(l, i, {"range"}) /\ Is(l, i + 1, {"("}) /\ Joined(l, i + 1) /\ e > i + 2
     /\ TopCommas(l, c, i + 2, e - 1) = {}
     /\ ~(Is(l, e - 2, {"-"}) /\ TokAt(l, e - 1).k = "int" /\ TokAt(l, e - 1).n = 1)}
Literals(l, c) ==
  {i \in c : /\ l[i].k = "int" /\ l[i].n <= MaxShifted
             /\ ~(Is(l, i - 1, {".", "..", "..="}) /\ Joined(l, i))
             /\ ~(Is(l, i + 1, {".", "..", "..="}) /\ Joined(l, i + 1))}
OffByOne(g, l, c) ==
  {Upto(l, i) \o Behind(l, i + 1) : i \in Adjusts(l, c)}
  \cup Others(l, Adjusts(l, c), Both("+", "-"))
  \cup {Cut(l, 1, i) \o MinusOne \o Behind(l, i) : i \in Lengths(l, c)}
  \cup (IF g # "python" THEN {}
        ELSE {LET e == Match(l, c, i + 1) IN Upto(l, e) \o PlusOne \o Cut(l, e, Len(l)) :
                i \in Ranges(l, c)})
  \cup (IF g # "rust" THEN {} ELSE Others(l, c, Both("..", "..=")))
  \cup {[l EXCEPT ![p[1]].n = @ + p[2]] :
          p \in {p \in Literals(l, c) \X {1, -1} : l[p[1]].n + p[2] >= 0}}

TruthAlts ==
  UNION {Both("True", "False"), Both("true", "false"), Both("TRUE", "FALSE")}
Nots(g, l, c) ==
  {i \in c : \/ g \in WordLogic /\ Is(l, i, {"not"}) /\ i < Len(l) /\ l[i + 1].sp
             \/ /\ Is(l, i, {"!"}) /\ Joined(l, i + 1) /\ (Ident(l, i + 1) \/ Is(l, i + 1, {"("}))
                /\ ~(g = "rust" /\ Ident(l, i - 1) /\ Joined(l, i))}
NegateReturn(g, l) ==
  LET semi == Is(l, Len(l), {";"})
      body == Cut(l, 2, IF semi THEN Len(l) - 1 ELSE Len(l))
      no   == IF g \in WordLogic THEN Tok("word", "not", 0, TRUE) ELSE Op("!", TRUE) IN
  IF /\ Is(l, 1, {"return"}) /\ g # "shell" /\ body # <<>> /\ body[1].sp
     /\ ~Is(body, 1, {"!", "not"})
  THEN {<<l[1], no, Op("(", g \in WordLogic)>> \o Lead(body, FALSE) \o <<Op(")", FALSE)>>
          \o (IF semi THEN <<Op(";", FALSE)>> ELSE <<>>)}
  ELSE {}
\* !( ... ) as a whole condition, argument or right-hand side.
NegatedGroups(l, c) ==
  {i \in c : LET e == Match(l, c, i + 1) IN
     /\ Is(l, i, {"!"}) /\ Is(l, i + 1, {"("}) /\ Joined(l, i + 1) /\ e # 0
     /\ ~(Ident(l, i - 1) /\ Joined(l, i))
     /\ i = 1 \/ Ident(l, i - 1) \/ Is(l, i - 1, {"(", "=", "==", "<=", ">=", "+=", "-="})
     /\ e = Len(l) \/ Is(l, e + 1, {"{", ")", ";", ","})}
Unwrap(l, c, i) ==
  LET e == Match(l, c, i + 1)
  IN  Upto(l, i) \o Lead(Cut(l, i + 2, e - 1), l[i].sp) \o Behind(l, e)
Conditions(g, l, c) ==
  {i \in c : LET cond == Cut(l, i + 1, Len(l) - 1) IN
     /\ Is(l, i, {"if", "while", "elif"}) /\ g # "shell"
     /\ Is(l, Len(l), {IF g \in WordLogic THEN ":" ELSE "{"})
     /\ cond # <<>> /\ ~Is(cond, 1, {"let", "!", "not"}) /\ \E j \in c : i < j /\ j < Len(l)
     /\ Match(l, c, i + 1) = Len(l) - 1 /\ Is(l, i + 1, {"("}) => ~Is(l, i + 2, {"!"})}
NegateCondition(g, l, c, i) ==
  LET cond == Cut(l, i + 1, Len(l) - 1)
      whole == Is(cond, 1, {"("}) /\ Match(l, c, i + 1) = Len(l) - 1 IN
  Cut(l, 1, i)
    \o (IF whole
        THEN <<l[i + 1]>> \o Lead(Negated(g, Cut(cond, 2, Len(cond) - 1)), FALSE)
               \o <<cond[Len(cond)]>>
        ELSE Lead(Negated(g, cond), TRUE))
    \o <<l[Len(l)]>>
\* The body of a closure that is the last argument begins behind its bars or its arrow.
BodyStart(g, l, i, e) ==
  LET bars == {j \in (i + 2) .. (e - 1) : Is(l, j, {"|"})}
      arrows == {j \in (i + 1) .. (e - 1) : Is(l, j, {"=>"})} IN
  CASE g = "rust" /\ Is(l, i + 1, {"|"}) /\ bars # {} -> Min(bars) + 1
    [] g = "javascript" /\ arrows # {} -> Min(arrows) + 1
    [] OTHER -> 0
ClosureBodies(g, l, c) ==
  {p \in {<<BodyStart(g, l, i, Match(l, c, i)), Match(l, c, i)>> :
            i \in {j \in c : Is(l, j, {"("})}} :
     0 < p[1] /\ p[1] < p[2] /\ ~Is(l, p[1], {"!", "{"})}
Boolean(g, l, c) ==
  Others(l, c, TruthAlts)
  \cup {Upto(l, i) \o Lead(Behind(l, i), l[i].sp) : i \in Nots(g, l, c)}
  \cup NegateReturn(g, l)
  \cup (IF g \in CLike THEN {Unwrap(l, c, i) : i \in NegatedGroups(l, c)} ELSE {})
  \cup {NegateCondition(g, l, c, i) : i \in Conditions(g, l, c)}
  \cup {Upto(l, p[1]) \o Lead(Negated(g, Cut(l, p[1], p[2] - 1)), l[p[1]].sp)
          \o Cut(l, p[2], Len(l)) : p \in ClosureBodies(g, l, c)}

Logic(g, l, c) ==
  Others(l, c, Both("&&", "||"))
    \cup (IF g \in WordLogic THEN Others(l, c, Both("and", "or")) ELSE {})

\* A - in a shell is an option unless the line computes.
SumAlts == UNION {Both("+", "-"), Both("+", "*"), Both("*", "/")}
AssignAlts == Both("+=", "-=") \cup Both("*=", "/=")
Arithmetic(g, l, c) ==
  IF /\ g = "shell"
     /\ ~\E i \in DOMAIN l : Is(l, i, {"$"}) /\ Is(l, i + 1, {"("}) /\ Is(l, i + 2, {"("})
  THEN {} ELSE Others(l, {i \in c : Binary(l, i)}, SumAlts) \cup Others(l, c, AssignAlts)
Bits == {"^", "&", "|"}
Bitwise(g, l, c) ==
  LET turned == {i \in c : Is(l, i, Bits) /\
                   ((Is(l, i + 1, {"="}) /\ Joined(l, i + 1)) \/ Spaced(l, i))} IN
  IF g = "shell" THEN {} ELSE Others(l, turned, {a \in Bits \X Bits : a[1] # a[2]})

\* Two of two or three arguments change places; the spaces around them are written anew, and
\* every space behind a ( on the line is dropped, also in literals.
Tighten(l) ==
  [i \in DOMAIN l |-> IF i > 1 /\ Is(l, i - 1, {"("}) THEN [l[i] EXCEPT !.sp = FALSE] ELSE l[i]]
ArgSpans(l, c, i) ==
  LET e == Match(l, c, i)
      ends == SetToSortSeq(TopCommas(l, c, i + 1, e - 1) \cup {e}, <)
  IN  [j \in DOMAIN ends |-> <<IF j = 1 THEN i + 1 ELSE ends[j - 1] + 1, ends[j] - 1>>]
CallsAt(l, c) ==
  {i \in c : /\ Is(l, i, {"("}) /\ Ident(l, i - 1) /\ Joined(l, i) /\ Match(l, c, i) # 0
             /\ Len(ArgSpans(l, c, i)) \in 2 .. 3
             /\ \A j \in DOMAIN ArgSpans(l, c, i) :
                  ArgSpans(l, c, i)[j][1] <= ArgSpans(l, c, i)[j][2]}
Exchange(l, a, b) ==
  Tighten(Upto(l, a[1]) \o Lead(Cut(l, b[1], b[2]), TRUE) \o <<Op(",", FALSE)>>
            \o Lead(Cut(l, a[1], a[2]), TRUE) \o Lead(Behind(l, b[2]), FALSE))
SwapArgs(l, c) ==
  UNION {LET s == ArgSpans(l, c, i) IN
         {Exchange(l, s[j], s[j + 1]) : j \in {k \in 1 .. (Len(s) - 1) :
            ~Same(Cut(l, s[k][1], s[k][2]), Cut(l, s[k + 1][1], s[k + 1][2]))}} :
         i \in CallsAt(l, c)}

\* A bare name as an argument or index moves by one, the first few of a line.
Arguments(l, c) ==
  {i \in c : Word(l, i) /\ Is(l, i - 1, {"(", ",", "["}) /\ Is(l, i + 1, {")", ",", "]"})
             /\ l[i].v \notin NotSwappable /\ l[i].k # "WORD"}
ShiftArgument(g, l, c) ==
  LET few == {i \in Arguments(l, c) :
                Cardinality({j \in Arguments(l, c) : j < i}) < MaxShiftedArgs} IN
  IF g = "shell" THEN {}
  ELSE {Cut(l, 1, i) \o one \o Behind(l, i) : i \in few, one \in {PlusOne, MinusOne}}
SwapSubscript(l, c) ==
  {LET e == Match(l, c, i)  m == Min(TopCommas(l, c, i + 1, e - 1)) IN
     Cut(l, 1, i) \o Lead(Cut(l, m + 1, e - 1), FALSE) \o <<Op(",", FALSE)>>
       \o Lead(Cut(l, i + 1, m - 1), TRUE) \o Lead(Cut(l, e, Len(l)), FALSE) :
   i \in {j \in c : LET e == Match(l, c, j)  k == TopCommas(l, c, j + 1, e - 1) IN
     /\ Is(l, j, {"["}) /\ (Ident(l, j - 1) \/ Is(l, j - 1, {"]", ")"})) /\ Joined(l, j) /\ e # 0
     /\ Cardinality(k) = 1 /\ Min(k) \in (j + 2) .. (e - 2)
     /\ ~Same(Cut(l, j + 1, Min(k) - 1), Cut(l, Min(k) + 1, e - 1))}}
\* The operands of the only top-level + behind an = or a return.
RightSide(l, c) ==
  LET eqs == {i \in c : Is(l, i, {"=", "=>", "..="})} IN
  IF Is(l, 1, {"return"}) /\ Len(l) > 1 /\ l[2].sp THEN 2
  ELSE IF eqs = {} \/ Is(l, Min(eqs), {"=>"}) THEN Len(l) + 1 ELSE Min(eqs) + 1
SwapSum(g, l, c) ==
  LET a == RightSide(l, c)
      e == IF Is(l, Len(l), {";"}) THEN Len(l) - 1 ELSE Len(l)
      top == {i \in c \cap (a .. e) : Depth(l, c, a, i) = 0 /\ l[i].k = "op" /\ ~Is(l, i, Closes)}
      plus == {i \in top : Is(l, i, {"+"}) /\ Binary(l, i)}
      p == Min(plus) IN
  IF /\ g # "shell" /\ Cardinality(plus) = 1
     /\ \A i \in top \ plus :
          Is(l, i, {"=", "==", "!=", "!", ".", "..", "..=", ",", ";", "?", "::", ":", "^", "+", "+="})
     /\ p \in (a + 1) .. (e - 1) /\ ~Same(Cut(l, a, p - 1), Cut(l, p + 1, e))
  THEN {Upto(l, a) \o Lead(Cut(l, p + 1, e), TRUE) \o <<Op("+", TRUE)>>
          \o Lead(Cut(l, a, p - 1), TRUE) \o Behind(l, e)}
  ELSE {}

\* A block's last statement keeps its value; an expression statement becomes a return.
DropSemicolon(l, c, closes) ==
  LET semis == {i \in DOMAIN l : Is(l, i, {";"})}
      s == Max(semis)
      here == Is(l, s + 1, {"}"}) IN
  IF /\ semis # {} /\ s \in c /\ s > 1 /\ (s = Len(l) \/ here) /\ (here \/ closes)
     /\ ~Is(l, 1, {"let", "use", "return", "break", "continue", "}"})
  THEN {Upto(l, s) \o Behind(l, s)} ELSE {}
PrependReturn(g, l, c) ==
  IF /\ Word(l, 1) /\ l[1].v \notin StatementWords
     /\ ~\E i \in c : Is(l, i, {"="})
     /\ ~Is(l, Len(l), {"{", ":", ",", "(", "[", "backslash"})
     /\ g = "python" /\ Is(l, Len(l), {")", "]"}) => \E i \in DOMAIN l : Is(l, i, {"("})
  THEN {<<Tok("word", "return", 0, l[1].sp)>> \o Lead(l, TRUE)} ELSE {}
MissingReturn(g, l, c, closes) ==
  IF g = "rust" THEN DropSemicolon(l, c, closes)
  ELSE IF g \in {"ruby", "shell"} THEN {} ELSE PrependReturn(g, l, c)

TestAlts ==
  UNION {Both("-lt", "-le"), Both("-lt", "-gt"), Both("-le", "-ge"), Both("-gt", "-ge"),
         Both("-eq", "-ne"), Both("-z", "-n"), Both("-a", "-o"),
         {<<"-f", "-e">>, <<"-f", "-d">>, <<"-d", "-e">>}}
ShellTest(g, l, c) ==
  IF g # "shell" \/ ~\E i \in DOMAIN l : Is(l, i, {"[", "test"}) THEN {}
  ELSE Others(l, {i \in c : l[i].sp /\ (TokAt(l, i + 1).sp \/ Is(l, i + 1, {"]"}))}, TestAlts)
         \cup Others(l, {i \in c : Spaced(l, i)}, Both("=", "!="))

PairAlts ==
  UNION {Both("min", "max"), Both("floor", "ceil"), Both("first", "last"), Both("any", "all"),
         Both("starts_with", "ends_with")}
FlowAlts == Both("break", "continue")
ApiSwap(g, l, c) ==
  Others(l, {i \in c : Is(l, i + 1, {"("})}, PairAlts)
    \cup (IF g = "shell" THEN {} ELSE Others(l, c, FlowAlts))

\* NamesOf of the line, but for types, keywords, macros and what follows a path.
NamesOf(l, c) ==
  {i \in c : /\ l[i].k = "word" /\ l[i].v \notin NotSwappable
             /\ ~(Is(l, i - 1, {"::"}) /\ Joined(l, i))
             /\ ~(Is(l, i + 1, {"!", "!="}) /\ Joined(l, i + 1))}
FirstOf(l, I) == {i \in I : ~\E j \in I : j < i /\ l[j].v = l[i].v}
Renamed(l, I, a, b) ==
  [i \in DOMAIN l |-> IF i \in I /\ l[i].v = a THEN [l[i] EXCEPT !.v = b]
                      ELSE IF i \in I /\ l[i].v = b THEN [l[i] EXCEPT !.v = a] ELSE l[i]]
IdentSwap(g, l, c) ==
  LET I == NamesOf(l, c)
      F == FirstOf(l, I)
      few == {l[i].v : i \in {j \in F : Cardinality({k \in F : k < j}) < MaxSwapIdents}} IN
  IF g = "shell" THEN {}
  ELSE {Renamed(l, I, p[1], p[2]) : p \in {q \in few \X few : q[1] # q[2]}}

Classes == {"comparison", "off-by-one", "boolean", "logic", "arithmetic", "swap-args",
            "missing-return", "shell-test", "api-swap", "arg-shift", "ident-swap"}
EditsOf(class, g, l, closes) ==
  LET c == Code(g, l) IN
  CASE class = "comparison"     -> Comparison(g, l, c)
    [] class = "off-by-one"     -> OffByOne(g, l, c)
    [] class = "boolean"        -> Boolean(g, l, c)
    [] class = "logic"          -> Logic(g, l, c)
    [] class = "arithmetic"     -> Arithmetic(g, l, c) \cup Bitwise(g, l, c)
    [] class = "swap-args"      -> SwapArgs(l, c)
    [] class = "missing-return" -> MissingReturn(g, l, c, closes)
    [] class = "shell-test"     -> ShellTest(g, l, c)
    [] class = "api-swap"       -> ApiSwap(g, l, c)
    [] class = "arg-shift"      ->
         ShiftArgument(g, l, c) \cup SwapSubscript(l, c) \cup SwapSum(g, l, c)
    [] class = "ident-swap"     -> IdentSwap(g, l, c)

\* A line that is part of the oracle offers nothing.
Oracle(l) ==
  \E i \in DOMAIN l : \/ Is(l, i, {"assert", "panic", "unreachable", "raise", "throw"})
                     \/ (Is(l, i, {"expect", "fail", "verify"}) /\ Is(l, i + 1, {"("}))
Offered(g, l, closes) ==
  IF Oracle(l) THEN {} ELSE UNION {EditsOf(class, g, l, closes) : class \in Classes}

(***************************************************************************)
(* The faults of the seeder: one place of a Rust line gets another text.   *)
(***************************************************************************)
Passed(l) ==
  \/ Is(l, 1, {"//", "#", "use", "mod", "impl", "struct", "enum", "trait", "fn"})
  \/ (Is(l, 1, {"pub"}) /\ Is(l, 2, {"mod", "fn"}))
  \/ \E i \in DOMAIN l : Is(l, i, {"assert", "panic", "unreachable"})
Kind(kind, texts) == {[kind |-> kind, text |-> x] : x \in texts}

SeedAssign == Both("+=", "-=") \cup {<<"+=", "=">>, <<"*=", "/=">>}
SeedConst(l, c) ==
  UNION {LET n == l[i].n IN
         {[l EXCEPT ![i].n = m] : m \in {n + 1} \cup (IF n >= 1 THEN {n - 1} ELSE {})
                                          \cup (IF n \in 1 .. 64 THEN {2 * n} ELSE {})} :
         i \in Literals(l, c)}
SeedNegation(l, c) ==
  LET first == IF Is(l, 1, {"if"}) THEN 1
               ELSE IF Is(l, 1, {"}"}) /\ Is(l, 2, {"else"}) /\ Is(l, 3, {"if"}) THEN 3 ELSE 0
      cond == Cut(l, first + 1, Len(l) - 1) IN
  {Upto(l, i) \o Lead(Behind(l, i), l[i].sp) : i \in {j \in c :
     /\ Is(l, j, {"!"}) /\ Joined(l, j + 1) /\ (Word(l, j + 1) \/ Is(l, j + 1, {"("}))
     /\ ~((Ident(l, j - 1) \/ Is(l, j - 1, {"!", "="})) /\ Joined(l, j))}}
  \cup (IF /\ first # 0 /\ cond # <<>> /\ Is(l, Len(l), {"{"}) /\ ~Is(cond, 1, {"let"})
           /\ (first + 1) .. (Len(l) - 1) \subseteq c
           /\ ~\E i \in DOMAIN cond : Is(cond, i, {"!"}) /\ Is(cond, i + 1, {"("})
        THEN {Cut(l, 1, first) \o <<Op("!", TRUE), Op("(", FALSE)>> \o Lead(cond, FALSE)
                \o <<Op(")", FALSE), l[Len(l)]>>}
        ELSE {})
SeedLength(l, c) ==
  {Cut(l, 1, i + 2) \o one \o Behind(l, i + 2) : one \in {PlusOne, MinusOne}, i \in {j \in c :
     /\ Is(l, j, {"len"}) /\ Is(l, j - 1, {"."}) /\ Is(l, j + 1, {"("}) /\ Is(l, j + 2, {")"})
     /\ ~Is(l, j + 3, {"+", "-"})}}
SeedPairs(l, c) ==
  Others(l, {i \in c : Is(l, i - 1, {"."}) /\ Is(l, i + 1, {"("})},
         Both("min", "max"))
  \cup Others(l, {i \in c : Is(l, i + 1, {"("})}, Both("floor", "ceil"))
\* The first two names of the code change places on the whole line, text and comments too.
SeedNames(l, c) ==
  LET I == {i \in c : l[i].k = "word" /\ l[i].v \notin RustKeywords /\ ~Is(l, i - 1, {"::"})}
      two == {i \in FirstOf(l, I) : Cardinality({k \in FirstOf(l, I) : k < i}) < 2} IN
  IF Cardinality(two) < 2 THEN {} ELSE {Renamed(l, DOMAIN l, l[Min(two)].v, l[Max(two)].v)}
SeedArgs(l, c) ==
  {LET e == Match(l, c, i)  m == Min(TopCommas(l, c, i + 1, e - 1)) IN
     Cut(l, 1, i) \o Lead(Cut(l, m + 1, e - 1), FALSE) \o <<l[m]>>
       \o Lead(Cut(l, i + 1, m - 1), TRUE) \o Cut(l, e, Len(l)) :
   i \in {j \in c : LET e == Match(l, c, j) IN
     /\ Is(l, j, {"("}) /\ Word(l, j - 1) /\ Joined(l, j) /\ e # 0 /\ (j .. e) \subseteq c
     /\ ~\E k \in (j + 1) .. (e - 1) : Is(l, k, {"(", ")"})
     /\ Cardinality({k \in (j + 1) .. (e - 1) : Is(l, k, {","})}) = 1
     /\ Min(TopCommas(l, c, j + 1, e - 1)) \in (j + 2) .. (e - 2)}}

Sites(l) ==
  LET c == Code("rust", l)
      spaced == {i \in c : Spaced(l, i)} IN
  IF Passed(l) THEN {}
  ELSE UNION {Kind("cmp", Others(l, spaced, CompareAlts)),
              Kind("logic", Others(l, spaced, Both("&&", "||"))),
              Kind("arith", Others(l, spaced, SumAlts) \cup Others(l, spaced, SeedAssign)),
              Kind("range", Others(l, c, Both("..", "..="))),
              Kind("shift", Others(l, spaced, Both("<<", ">>"))),
              Kind("const", SeedConst(l, c)),
              Kind("bool", Others(l, c, Both("true", "false"))),
              Kind("neg", SeedNegation(l, c)), Kind("offbyone", SeedLength(l, c)),
              Kind("minmax", SeedPairs(l, c)), Kind("flow", Others(l, c, FlowAlts)),
              Kind("idswap", SeedNames(l, c)), Kind("argswap", SeedArgs(l, c))}

(***************************************************************************)
(* A fault may be planted, then an edit is tried.                          *)
(***************************************************************************)
Text == IF fault = NoFault THEN written.text ELSE fault.text

Plant(f) ==
  /\ shape = "sound" /\ written.lang = "rust" /\ f \in Sites(written.text) /\ f.text # written.text
  /\ shape' = "faulty" /\ fault' = f
  /\ UNCHANGED <<written, rewrite>>

Try(class, l) ==
  /\ shape \in {"sound", "faulty"} /\ ~Oracle(Text)
  /\ l \in EditsOf(class, written.lang, Text, written.closes)
  /\ shape' = "edited" /\ rewrite' = [class |-> class, text |-> l]
  /\ UNCHANGED <<written, fault>>

EditNext ==
  \/ \E f \in Sites(written.text) : Plant(f)
  \/ \E class \in Classes : \E l \in EditsOf(class, written.lang, Text, written.closes) :
       Try(class, l)

EditSpec == EditInit /\ [][EditNext]_editVars

-----------------------------------------------------------------------------
(* Properties *)

\* Parentheses around a whole condition or value, or doubled ones, change nothing.
Redundant(l) ==
  LET c == Code("rust", l) IN
  UNION {{i, Match(l, c, i)} : i \in {j \in c : LET e == Match(l, c, j) IN
    /\ Is(l, j, {"("}) /\ e # 0
    /\ Is(l, j - 1, {"if", "return", "("}) /\ Is(l, e + 1, {"{", ";", ")"})}}
Reads(l) ==
  LET upTo[i \in 0 .. Len(l)] ==
        IF i = 0 THEN <<>>
        ELSE IF i \in Redundant(l) THEN upTo[i - 1]
        ELSE Append(upTo[i - 1], [l[i] EXCEPT !.sp = TRUE])
  IN  upTo[Len(l)]

FirstChange(f, l) == Min({i \in DOMAIN l : i \notin DOMAIN f \/ f[i] # l[i]})
\* The ! at i negates all that a condition, a return or a closure is made of.
WholeNegation(l, i) ==
  LET closed == Match(l, Code("rust", l), i + 1) IN
  /\ Is(l, i - 1, {"if", "return", "|"})
  /\ IF Is(l, i + 1, {"("}) THEN closed = Len(l) - 1
     ELSE \E e \in (i + 2) .. Len(l) :
            Is(l, e, {"{", ";", ")"}) /\ Simple("rust", Cut(l, i + 1, e - 1))

\* What the classes of edits are not made for: lines of the oracle, shifts, a ! dropped within
\* an expression, constants doubled or too large, an operand that ends in ?, an assignment
\* that lost its operator, names that also occur where a rename does not look.
OutOfReach ==
  LET l == written.text
      f == fault.text
      i == FirstChange(f, l) IN
  \/ Oracle(f)
  \/ fault.kind = "shift"
  \/ fault.kind = "neg" /\ Len(f) < Len(l) /\ ~WholeNegation(l, i)
  \/ fault.kind = "const" /\ (f[i].n > MaxShifted \/ f[i].n \notin {l[i].n - 1, l[i].n + 1})
  \/ fault.kind = "arith" /\ (Is(f, i, {"="}) \/ Is(l, i - 1, {"?"}))
  \/ /\ fault.kind = "idswap"
     /\ \E j \in DOMAIN f : f[j] # l[j] /\ j \notin NamesOf(f, Code("rust", f))

\* "the kinds that account for a large share of real one-line bugs": of the faults the seeder
\* plants, every other one is undone by some edit of the line, though another mask, another
\* list of keywords and another notion of an operand planted it.
SeedsReached ==
  shape = "faulty" /\ ~OutOfReach =>
    Reads(written.text) \in {Reads(l) : l \in Offered(written.lang, fault.text, written.closes)}

\* What a literal or a comment says, token by token.
Said(g, l) ==
  LET h == Hidden(g, l) IN [i \in h |-> IF i - 1 \in h THEN l[i] ELSE Lead(<<l[i]>>, TRUE)[1]]
Bag(f) == [t \in {f[i] : i \in DOMAIN f} |-> Cardinality({i \in DOMAIN f : f[i] = t})]
EndsInComment(g, l) ==
  \E i \in DOMAIN l : Comments(g, l, i) /\ {i, Len(l)} \subseteq Hidden(g, l)

\* An edit changes code: no literal or comment says more, less or something else afterwards.
\* Except that a closing parenthesis or an operand may end up in the comment at the end of a
\* line, and that swapping arguments closes up `( ` in literals too.
LiteralsKept ==
  shape = "edited" =>
    \/ Bag(Said(written.lang, rewrite.text)) = Bag(Said(written.lang, Text))
    \/ EndsInComment(written.lang, Text) /\ rewrite.class \in {"boolean", "arg-shift"}
    \/ /\ rewrite.class = "swap-args"
       /\ \E i \in Hidden(written.lang, Text) : Is(Text, i - 1, {"("}) /\ Text[i].sp

EditsSound == SeedsReached /\ LiteralsKept
=============================================================================
