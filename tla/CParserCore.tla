----------------------------- MODULE CParserCore -----------------------------
(***************************************************************************)
(* What the methods of the C parser share: the parser's state, expect and  *)
(* report, the three ways to skip behind an error, and how a method is put *)
(* together from others.                                                   *)
(*                                                                         *)
(* The state a method is entered with and the one it leaves is a record:   *)
(*   at     the cursor            loops  m_loop_depth                      *)
(*   diags  m_diagnostics         ok     FALSE where nullptr is returned   *)
(*   out    the tree built so far, in postfix order                        *)
(*   decl   the ParsedDeclarator last returned                             *)
(* A node of the tree is a label <<kind, ...>>.  A node with a list of     *)
(* children stands before them and each child is followed by a label that  *)
(* adds it.  Source ranges are left out.                                   *)
(***************************************************************************)
EXTENDS TokenStream, SequencesExt, Once

TypeQualifiers == {"Const", "Volatile", "Restrict"}

Tags == {"Struct", "Union", "Enum"}

TypeSpecifiers ==
  Tags \cup {"Void", "Char", "Short", "Int", "Long", "Float", "Double",
             "Signed", "Unsigned", "Bool"}

starts_type(kind) == kind \in TypeSpecifiers \cup TypeQualifiers

Label == Seq(STRING)
Tree == Seq(Label)

\* A DeclaratorOp: its kind, the token it starts at, whether it uses a form
\* that only a parameter may, and the labels that build it.
Op == [kind : {"Pointer", "Array", "Function"}, at : Nat,
       param_form : BOOLEAN, out : Tree]

State == [at : Nat, loops : Int, ok : BOOLEAN, out : Tree,
          diags : Seq([kind : STRING, at : Nat]),
          decl : [name : Tree, ops : Seq(Op)]]

NoDeclarator == [name |-> <<>>, ops |-> <<>>]

\* F of what a method left, unless that returned nullptr.
Then(s, F(_)) == With(s, LAMBDA t : IF t.ok THEN F(t) ELSE t)
-----------------------------------------------------------------------------
At(s, i) == [s EXCEPT !.at = i]
Emit(s, label) == [s EXCEPT !.out = Append(@, label)]

report_at(s, kind, i) ==
  [s EXCEPT !.diags = Append(@, [kind |-> kind, at |-> i])]
report(s, kind) == report_at(s, kind, s.at)

Fail(s, kind) == [report(s, kind) EXCEPT !.ok = FALSE]

expect(s, kind) ==
  IF check(s, kind) THEN advance(s) ELSE Fail(s, "ErrorExpectedToken")

\* A failed method's nodes are dropped, its diagnostics stay.
Recover(s, failed) == [failed EXCEPT !.ok = TRUE, !.out = s.out]

\* The first token from i on that Stop holds of, or Eof.
First(i, Stop(_)) ==
  LET first[j \in i .. Len(m_stream)] ==
        IF m_stream[j] = "Eof" \/ Stop(j) THEN j ELSE first[j + 1]
  IN first[i]
-----------------------------------------------------------------------------
Deeper(depth, kind, open, close) ==
  IF kind = open THEN depth + 1
  ELSE IF kind = close /\ depth > 0 THEN depth - 1 ELSE depth

\* The depth at token j, counted from token i; what closes more than it
\* opened is not counted.
Depth(open, close, i, j) ==
  LET depth[k \in i .. j] ==
        IF k = i THEN 0
        ELSE With(depth[k - 1],
                  LAMBDA d : Deeper(d, m_stream[k - 1], open, close))
  IN depth[j]

Braces(i, j) == Depth("LBrace", "RBrace", i, j)
Flat(i, j) ==
  /\ Braces(i, j) = 0
  /\ Depth("LParen", "RParen", i, j) = 0
  /\ Depth("LBrak", "RBrak", i, j) = 0

StatementStart == {"If", "While", "Do", "For", "Switch", "Return", "Break",
                   "Continue", "Goto", "RBrace"}

synchronize(s, top_lvl) ==
  IF end(s) THEN s
  ELSE At(s, First(s.at + 1,
    LAMBDA j : \/ /\ ~top_lvl \/ Braces(s.at, j) = 0
                  /\ \/ m_stream[j - 1] = "Semicolon"
                     \/ starts_type(m_stream[j])
               \/ ~top_lvl /\ m_stream[j] \in StatementStart))

synchronize_record_memberToBrace(s, start) ==
  At(s, First(s.at, LAMBDA j : m_stream[j] = "RBrace" /\ Flat(start, j)))

\* start is where the member began: what it opened before it failed counts.
synchronize_record_member(s, start) ==
  With(At(s, First(s.at,
    LAMBDA j : \/ m_stream[j] = "RBrace" /\ Braces(start, j) = 0
               \/ /\ Flat(start, j)
                  /\ \/ m_stream[j] = "Semicolon"
                     \/ j # start /\ starts_type(m_stream[j]))),
    LAMBDA stop : IF check(stop, "Semicolon") THEN advance(stop) ELSE stop)

synchronize_enumerator(s, start) ==
  At(s, First(s.at,
    LAMBDA j : \/ /\ m_stream[j] \in {"RBrace", "Semicolon"}
                  /\ Braces(start, j) = 0
               \/ m_stream[j] = "Comma" /\ Flat(start, j)))
-----------------------------------------------------------------------------
(***************************************************************************)
(* A method that only calls others in turn, and returns nullptr as soon as *)
(* one of them does, is the sequence of its steps.  parse[m, arg, s] is    *)
(* what method m does to s; most methods take no argument.                 *)
(***************************************************************************)
NoArg == ""
Tok(kind) == <<"expect", kind>>
Sub(method) == <<"call", method, NoArg>>
Call(method, arg) == <<"call", method, arg>>
Unless(kind, method) == <<"unless", kind, method>>
Node(kind) == <<"node", kind>>
Node2(kind, op) == <<"node", kind, op>>
InLoop(kind) == <<"in loop", kind>>

Step(parse, s, step) ==
  CASE step[1] = "expect"  -> expect(s, step[2])
    [] step[1] = "call"    -> parse[step[2], step[3], s]
    [] step[1] = "unless"  -> IF check(s, step[2]) THEN Emit(s, <<"none">>)
                              ELSE parse[step[3], NoArg, s]
    [] step[1] = "node"    -> Emit(s, Tail(step))
    [] step[1] = "in loop" -> IF s.loops = 0 THEN report(s, step[2]) ELSE s

Run(parse, s, steps) ==
  LET run[i \in 1 .. Len(steps) + 1, t \in State] ==
        IF i > Len(steps) \/ ~t.ok THEN t
        ELSE run[i + 1, Step(parse, t, steps[i])]
  IN run[1, s]
=============================================================================
