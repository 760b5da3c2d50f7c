----------------------------- MODULE MCServices ------------------------------
(***************************************************************************)
(* Small instances of ten components that share no state, checked by one  *)
(* run: the task board, the replies of the OpenAI side of the proxy, what  *)
(* concurrent tool calls share, the grounding verifier, the repair plan of *)
(* axiom solve, a child process with a time limit, the patched runs of the *)
(* hypervisor, the messages that are forwarded, the questions put to       *)
(* providers and the edits of a line.  `part`, chosen once, says which of  *)
(* them takes steps; the others stay in their initial state, one where     *)
(* there are several.                                                      *)
(***************************************************************************)
EXTENDS MCTaskBoard, ReplyRoute, ToolServer, Grounding, MutationPlan, BoundedRun, Partition,
        Inquiry, LineEdits

CONSTANTS ta, tb, tc, m0, m2

VARIABLE part

\* Two state maps: one without a milestone, one with two.
TwoMaps == m0 :> 0 @@ m2 :> 2

GroundSpans == {{ta, tb}, {tb, tc}, {tc}}

\* Two files to repair.  A Rust file: a helper, the function that calls it and ends with an
\* assertion, a line outside of both, and the test that calls the function.  A script: an
\* import, a function of two lines, and an assertion that names the module.
Line(kind, test, fn, calls, edits, import) ==
  [kind |-> kind, test |-> test, fn |-> fn, calls |-> calls, edits |-> edits,
   import |-> import, text |-> "old"]
To(class, text) == [class |-> class, text |-> text]
Three == <<To("cmp", "a"), To("off", "a"), To("swap", "b")>>
RustFile ==
  << Line("code", FALSE, "helper", <<>>, Three, "old"),
     Line("code", FALSE, "target", <<"helper">>, Three, "old"),
     Line("oracle", FALSE, "target", <<>>, <<To("off", "c")>>, "old"),
     Line("code", FALSE, "none", <<>>, <<To("cmp", "old"), To("swap", "b")>>, "old"),
     Line("oracle", TRUE, "test", <<"target">>, <<To("cmp", "a")>>, "old") >>
ScriptFile ==
  << Line("code", FALSE, "none", <<>>, <<>>, "new"),
     Line("code", FALSE, "main", <<>>, Three, "old"),
     Line("code", FALSE, "main", <<>>, <<To("off", "c"), To("cmp", "d")>>, "old"),
     Line("oracle", FALSE, "none", <<>>, <<To("cmp", "a")>>, "new") >>
TwoFiles  == {RustFile, ScriptFile}
TwoOrders == {<<"cmp", "off", "swap", "import">>, <<"import", "off", "cmp", "swap">>}

\* A conversation: texts that are light or heavy, with reminders or nothing else, tool uses
\* and results, an assistant turn without content, a tool message of the chat path.
Say(role, form, parts) == [role |-> role, form |-> form, parts |-> parts]
LightText == Part("text", "light", FALSE)
HeavyText == Part("text", "heavy", FALSE)
NotedText == Part("text", "heavy", TRUE)
ToolUse   == Part("other", "light", FALSE)
Talk ==
  {Say("user", "string", <<p>>) : p \in {LightText, HeavyText, NotedText}}
  \cup {Say("user", "blocks", ps) : ps \in {
         <<HeavyText, Part("result", "heavy", TRUE)>>, <<Part("result", "light", FALSE)>>,
         <<Part("result", "heavy", FALSE), LightText>>, <<HeavyText, Part("text", "none", TRUE)>>}}
  \cup {Say("assistant", "string", <<p>>) : p \in {LightText, HeavyText}}
  \cup {Say("assistant", "blocks", <<HeavyText, ToolUse>>), Say("assistant", "null", <<>>),
         Say("tool", "string", <<HeavyText>>), Say("system", "string", <<HeavyText>>)}

Item(role, kind, text) == [role |-> role, kind |-> kind, text |-> text]
Inputs ==
  {Item("user", "message", t) : t \in {"some", "missing"}}
  \cup {Item("assistant", "message", t) : t \in {"some", "blank", "other"}}
  \cup {Item("none", "structural", "missing"), Item("system", "message", "some")}

\* Three providers, of which all, the second or none are configured; beliefs that
\* name one, two and three agents.
OneOrder    == {<<"openai", "anthropic", "local">>}
SomeKeyed   == {{"openai", "anthropic", "local"}, {"anthropic"}, {}}
NoneAlike(a, b) == FALSE
OneToThree  == {<< <<"anthropic">> >>, << <<"openai">>, <<>> >>, << <<"openai">>, <<>>, <<>> >>}
AnyPolicy   == [order |-> <<"openai", "anthropic", "local">>, keyed |-> {}, consensus |-> FALSE]

\* Lines of six languages to edit, with literals, comments, negations, calls and indices where
\* the mask or a class of edits may go wrong.  Words and operators have white space before them
\* (Wd, Os) or are joined to what they follow (Wj, Oj), integers (Ns) have it.
Wd(v) == Tok("word", v, 0, TRUE)
Wj(v) == Tok("word", v, 0, FALSE)
Os(v) == Tok("op", v, 0, TRUE)
Oj(v) == Tok("op", v, 0, FALSE)
Ns(n) == Tok("int", "", n, TRUE)
LinesIn(lang, closes, texts) ==
  {[lang |-> lang, closes |-> closes, text |-> x] : x \in texts}
RustLines ==
  { \* if i < xs.len() - 1 {
    <<Wd("if"), Wd("i"), Os("<"), Wd("xs"), Oj("."), Wj("len"), Oj("("), Oj(")"), Os("-"),
      Ns(1), Os("{")>>,
    \* let n = a.min(b) + 1;
    <<Wd("let"), Wd("n"), Os("="), Wd("a"), Oj("."), Wj("min"), Oj("("), Wj("b"), Oj(")"),
      Os("+"), Ns(1), Oj(";")>>,
    \* n += f(a, b)? - 1;
    <<Wd("n"), Os("+="), Wd("f"), Oj("("), Wj("a"), Oj(","), Wd("b"), Oj(")"), Oj("?"),
      Os("-"), Ns(1), Oj(";")>>,
    \* return !(a && b); // a
    <<Wd("return"), Os("!"), Oj("("), Wj("a"), Os("&&"), Wd("b"), Oj(")"), Oj(";"), Os("//"),
      Wd("a")>>,
    \* for k in lo..hi {
    <<Wd("for"), Wd("k"), Wd("in"), Wd("lo"), Oj(".."), Wj("hi"), Os("{")>>,
    \* let s = g("a( x", b);
    <<Wd("let"), Wd("s"), Os("="), Wd("g"), Oj("("), Oj("dq"), Wj("a"), Oj("("), Wd("x"),
      Oj("dq"), Oj(","), Wd("b"), Oj(")"), Oj(";")>>,
    \* let v = a.or(b, c).expect("b");
    <<Wd("let"), Wd("v"), Os("="), Wd("a"), Oj("."), Wj("or"), Oj("("), Wj("b"), Oj(","),
      Wd("c"), Oj(")"), Oj("."), Wj("expect"), Oj("("), Oj("dq"), Wj("b"), Oj("dq"), Oj(")"),
      Oj(";")>>,
    \* let ok = !x;
    <<Wd("let"), Wd("ok"), Os("="), Os("!"), Wj("x"), Oj(";")>>,
    \* p = 4 << 2;
    <<Wd("p"), Os("="), Ns(4), Os("<<"), Ns(2), Oj(";")>>,
    \* } else if a || b {
    <<Os("}"), Wd("else"), Wd("if"), Wd("a"), Os("||"), Wd("b"), Os("{")>>,
    \* if !(a || b) {
    <<Wd("if"), Os("!"), Oj("("), Wj("a"), Os("||"), Wd("b"), Oj(")"), Os("{")>>,
    \* let a = c::a(b, 1);
    <<Wd("let"), Wd("a"), Os("="), Wd("c"), Oj("::"), Wj("a"), Oj("("), Wj("b"), Oj(","),
      Ns(1), Oj(")"), Oj(";")>>,
    \* if c == 'a' { break; }
    <<Wd("if"), Wd("c"), Os("=="), Os("'"), Wj("a"), Oj("'"), Os("{"), Wd("break"), Oj(";"),
      Os("}")>>,
    \* return !(a && b);
    <<Wd("return"), Os("!"), Oj("("), Wj("a"), Os("&&"), Wd("b"), Oj(")"), Oj(";")>> }
RustClosedLines ==
  { \* xs.any(|x| !x.b);
    <<Wd("xs"), Oj("."), Wj("any"), Oj("("), Oj("|"), Wj("x"), Oj("|"), Os("!"), Wj("x"),
      Oj("."), Wj("b"), Oj(")"), Oj(";")>>,
    \* format!("{}", d[i, j])
    <<Wd("format"), Oj("!"), Oj("("), Oj("dq"), Oj("{"), Oj("}"), Oj("dq"), Oj(","), Wd("d"),
      Oj("["), Wj("i"), Oj(","), Wd("j"), Oj("]"), Oj(")")>> }
PythonLines ==
  { \* if not x and y == len(z) - 1:
    <<Wd("if"), Wd("not"), Wd("x"), Wd("and"), Wd("y"), Os("=="), Wd("len"), Oj("("), Wj("z"),
      Oj(")"), Os("-"), Ns(1), Oj(":")>>,
    \* return a + b # c
    <<Wd("return"), Wd("a"), Os("+"), Wd("b"), Os("#"), Wd("c")>>,
    \* for i in range(n):
    <<Wd("for"), Wd("i"), Wd("in"), Wd("range"), Oj("("), Wj("n"), Oj(")"), Oj(":")>>,
    \* f("a # b", c)
    <<Wd("f"), Oj("("), Oj("dq"), Wj("a"), Os("#"), Wd("b"), Oj("dq"), Oj(","), Wd("c"),
      Oj(")")>> }
ScriptLines ==
  { \* const t = f(x => x.ok);
    <<Wd("const"), Wd("t"), Os("="), Wd("f"), Oj("("), Wj("x"), Os("=>"), Wd("x"), Oj("."),
      Wj("ok"), Oj(")"), Oj(";")>>,
    \* if (a = 1) {
    <<Wd("if"), Os("("), Wj("a"), Os("="), Ns(1), Oj(")"), Os("{")>>,
    \* s += `a + b`;
    <<Wd("s"), Os("+="), Os("tick"), Wj("a"), Os("+"), Wd("b"), Oj("tick"), Oj(";")>> }
ShellLines ==
  { \* if [ "$a" -lt 3 ]; then
    <<Wd("if"), Os("["), Os("dq"), Oj("$"), Wj("a"), Oj("dq"), Os("-lt"), Ns(3), Os("]"),
      Oj(";"), Wd("then")>>,
    \* x=$((a - 1))
    <<Wd("x"), Oj("="), Oj("$"), Oj("("), Oj("("), Wj("a"), Os("-"), Ns(1), Oj(")"), Oj(")")>> }
RubyLines ==
  { \* m[i, j] ^ k
    <<Wd("m"), Oj("["), Wj("i"), Oj(","), Wd("j"), Oj("]"), Os("^"), Wd("k")>> }
PlainLines ==
  { \* a = b // c + d
    <<Wd("a"), Os("="), Wd("b"), Os("//"), Wd("c"), Os("+"), Wd("d")>> }
OneLines ==
  LinesIn("rust", FALSE, RustLines)
  \cup LinesIn("rust", TRUE, RustClosedLines)
  \cup LinesIn("python", FALSE, PythonLines)
  \cup LinesIn("javascript", FALSE, ScriptLines)
  \cup LinesIn("shell", FALSE, ShellLines)
  \cup LinesIn("ruby", FALSE, RubyLines)
  \cup LinesIn("other", FALSE, PlainLines)

ServicesInit ==
  /\ part \in {"board", "reply", "tools", "grounding", "plan", "runs", "jit", "talk", "inquiry",
              "edits"}
  /\ Init /\ ToolInit /\ GroundInit /\ PlanInit /\ JitInit /\ TalkInit
  /\ ReplyInit /\ (part # "reply" => swarm /\ cloud)
  /\ RunInit /\ (part # "runs" => runner = "verify")
  /\ AskInit /\ (part # "inquiry" => policy = AnyPolicy)
  /\ EditInit /\ (part # "edits" => written.lang = "other")

\* Of the parts beside the board, all but `p` stand still.
Still(p) ==
  /\ p # "reply"     => UNCHANGED replyVars
  /\ p # "tools"     => UNCHANGED toolVars
  /\ p # "grounding" => UNCHANGED groundVars
  /\ p # "plan"      => UNCHANGED planVars
  /\ p # "runs"      => UNCHANGED runVars
  /\ p # "jit"       => UNCHANGED jitVars
  /\ p # "talk"      => UNCHANGED talkVars
  /\ p # "inquiry"   => UNCHANGED askVars
  /\ p # "edits"     => UNCHANGED editVars

ServicesNext ==
  /\ part' = part
  /\ \/ part = "board" /\ Next /\ Still(part)
     \/ /\ UNCHANGED vars
        /\ \/ part = "reply"     /\ ReplyNext  /\ Still(part)
           \/ part = "tools"     /\ ToolNext   /\ Still(part)
           \/ part = "grounding" /\ GroundNext /\ Still(part)
           \/ part = "plan"      /\ PlanNext   /\ Still(part)
           \/ part = "runs"      /\ RunNext    /\ Still(part)
           \/ part = "jit"       /\ JitNext    /\ Still(part)
           \/ part = "talk"      /\ TalkNext   /\ Still(part)
           \/ part = "inquiry"   /\ AskNext    /\ Still(part)
           \/ part = "edits"     /\ EditNext   /\ Still(part)

servicesVars == <<part, vars, replyVars, toolVars, groundVars, planVars, runVars, jitVars,
                  talkVars, askVars, editVars>>

ServicesSpec == ServicesInit /\ [][ServicesNext]_servicesVars

\* The HTTP routes keep their promises while requests overlap, fail and are given up: what
\* they send and leave out, what they leave in the store and on disk, what they share with
\* other calls, how long they wait for a child process, and that what they answer follows the
\* evidence: the verdicts, calibration and corrections of /v1/verify, the answers of providers
\* and the beliefs made of them.
RoutesSound ==
  /\ RelaySound /\ ToolsSound /\ RunsBounded /\ SourceKept /\ TalkSound
  /\ GroundingSound /\ InquirySound
  /\ RunTypeOK /\ JitTypeOK

\* What a repair tries follows the evidence: the candidates of its plan, in their order, and the
\* edits they are made of.
EvidenceLeads == PlanSound /\ EditsSound
=============================================================================
