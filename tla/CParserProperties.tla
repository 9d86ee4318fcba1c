-------------------------- MODULE CParserProperties --------------------------
(***************************************************************************)
(* What the C parser promises.  The reference is C's grammar read the      *)
(* other way: Spell writes a tree out as the tokens it stands for, and     *)
(* writes Ungrammatical where a child binds too weakly for its place.      *)
(***************************************************************************)
EXTENDS CParser

CONSTANTS
  Sentences,  \* token sequences of correct C, without flags
  LastGlobal  \* a global that some units end in

Ungrammatical == <<"not in the grammar">>

\* A spelled tree.  A type has a hole for its declarator between pre and mid,
\* a list takes its next member behind pre, or for a function behind mid.
Text(pre, mid, post, level) ==
  [pre |-> pre, mid |-> mid, post |-> post, level |-> level]
Words(words, level) == Text(words, <<>>, <<>>, level)
Full(t) == t.pre \o t.mid \o t.post

AtLeast(t, level) == IF t.level >= level THEN Full(t) ELSE Ungrammatical

\* Levels of expressions: 0 an assignment, 1 a ternary, 2 to 11 the binary
\* levels, 12 a prefix, 13 a suffix, 14 a primary expression.
Binary(op) == 1 + CHOOSE i \in 1 .. Len(Levels) - 1 : op \in Operators[Levels[i]]

Separated(words, comma) ==
  IF Last(words) \in {"LParen", "LBrace"} THEN words
  ELSE words \o <<comma>>

SpellExpression(label, c, b, a) ==
  CASE label[1] = "atom"     -> Words(<<label[2]>>, 14)
    [] label[1] = "group"    -> Words(<<"LParen">> \o AtLeast(a, 0) \o <<"RParen">>, 14)
    [] label[1] = "suffix"   -> Words(AtLeast(a, 13) \o <<label[2]>>, 13)
    [] label[1] \in {"Dot", "Arrow"} ->
         Words(AtLeast(a, 13) \o <<label[1], "Identifier">>, 13)
    [] label[1] = "index"    ->
         Words(AtLeast(b, 13) \o <<"LBrak">> \o AtLeast(a, 0) \o <<"RBrak">>, 13)
    [] label[1] = "call"     -> Text(AtLeast(a, 13) \o <<"LParen">>, <<>>, <<"RParen">>, 13)
    [] label[1] = "argument" ->
         [b EXCEPT !.pre = Separated(@, "Comma") \o AtLeast(a, 0)]
    [] label[1] = "prefix"   -> Words(<<label[2]>> \o AtLeast(a, 12), 12)
    [] label[1] = "binary"   ->
         LET n == Binary(label[2])
         IN Words(AtLeast(b, n) \o <<label[2]>> \o AtLeast(a, n + 1), n)
    [] label[1] = "ternary"  ->
         Words(AtLeast(c, 2) \o <<"Question">> \o AtLeast(b, 0)
                 \o <<"Colon">> \o AtLeast(a, 1), 1)
    [] label[1] = "assign"   ->
         Words(AtLeast(b, 1) \o <<label[2]>> \o AtLeast(a, 0), 0)

\* A pointer to what has a suffix needs parentheses; level 1 is such a type.
SpellType(label, c, b, a) ==
  CASE label[1] = "base" -> Words(<<>>, 0)
    [] label[1] = "pointer" ->
         IF a.level = 0 THEN Text(a.pre \o <<"Asterisk">>, a.mid, a.post, 0)
         ELSE Text(a.pre \o <<"LParen", "Asterisk">>, <<>>,
                   <<"RParen">> \o a.mid \o a.post, 0)
    [] label[1] = "array" ->
         LET static == IF "Static" \in ToSet(label) THEN <<"Static">> ELSE <<>>
         IN CASE Last(label) = "bound" ->
                   Text(b.pre, <<>>, <<"LBrak">> \o static \o AtLeast(a, 0)
                                       \o <<"RBrak">> \o b.mid \o b.post, 1)
              [] Last(label) = "Asterisk" ->
                   Text(a.pre, <<>>, <<"LBrak", "Asterisk", "RBrak">>
                                       \o a.mid \o a.post, 1)
              [] OTHER -> Text(a.pre, <<>>, <<"LBrak", "RBrak">>
                                              \o a.mid \o a.post, 1)
    [] label[1] = "function" ->
         Text(a.pre, <<"LParen">>, <<"RParen">> \o a.mid \o a.post, 1)
    [] label[1] = "parameter" ->
         [c EXCEPT !.mid = Separated(@, "Comma") \o Full(b) \o Full(a)]
    [] label[1] = "ellipsis" -> [a EXCEPT !.mid = @ \o <<"Comma", "Ellipsis">>]
    [] label[1] = "name" ->
         Words(a.pre \o <<"Identifier">> \o a.mid \o a.post, 0)
    [] label[1] = "primitive" -> Words(Tail(label), 0)
    [] label[1] = "qualified" -> a
    [] label[1] \in Tags ->
         LET head == <<label[1]>> \o (IF label[2] = "no tag" THEN <<>>
                                      ELSE <<"Identifier">>)
         IN IF label[2] = "reference" THEN Words(head, 0)
            ELSE Text(head \o <<"LBrace">>, <<>>, <<"RBrace">>, 0)
    [] label[1] = "member" -> [b EXCEPT !.pre = @ \o Full(a) \o <<"Semicolon">>]
    [] label[1] = "enumerator" ->
         [a EXCEPT !.pre = Separated(@, "Comma") \o <<"Identifier">>]
    [] label[1] = "enumerator value" ->
         [b EXCEPT !.pre = Separated(@, "Comma") \o <<"Identifier", "Equal">>
                             \o AtLeast(a, 1)]
    [] label[1] = "list" -> Text(<<"LBrace">>, <<>>, <<"RBrace">>, 14)
    [] label[1] = "element" ->
         [b EXCEPT !.pre = Separated(@, "Comma") \o AtLeast(a, 0)]

\* level 1: at least one declarator is written behind the base type.
SpellDeclaration(label, c, b, a) ==
  LET Next1(t, words) ==
        Words(Full(t) \o (IF t.level = 1 THEN <<"Comma">> ELSE <<>>) \o words, 1)
  IN CASE label[1] \in {"let", "field"} -> Next1(b, Full(a))
       [] label[1] = "initialized let" ->
            Next1(c, Full(b) \o <<"Equal">> \o AtLeast(a, 0))
       [] label[1] = "body" -> Words(Full(c) \o Full(b) \o Full(a), 0)
       [] label[1] \in {"declaration", "declaration group", "tag"} ->
            Words(Full(a) \o <<"Semicolon">>, 0)

\* level: 0 a closed statement, 1 one that an else could still follow, 2 an
\* if whose own branch is such a statement.
SpellStatement(label, d, c, b, a) ==
  LET open == IF a.level > 0 THEN 1 ELSE 0
  IN CASE label[1] = "block"     -> Text(<<"LBrace">>, <<>>, <<"RBrace">>, 0)
       [] label[1] = "statement" -> [b EXCEPT !.pre = @ \o Full(a)]
       [] label[1] = "empty"     -> Words(<<"Semicolon">>, 0)
       [] label[1] = "none"      -> Words(<<>>, 14)
       [] label[1] = "declaration statement" -> a
       [] label[1] = "expression" -> Words(Full(a) \o <<"Semicolon">>, 0)
       [] label[1] = "break"     -> Words(<<"Break", "Semicolon">>, 0)
       [] label[1] = "continue"  -> Words(<<"Continue", "Semicolon">>, 0)
       [] label[1] = "return"    ->
            Words(<<"Return">> \o Full(a) \o <<"Semicolon">>, 0)
       [] label[1] = "if"        ->
            Words(<<"If", "LParen">> \o Full(b) \o <<"RParen">> \o Full(a), 1 + open)
       [] label[1] = "else"      ->
            Words((IF b.level = 1 THEN Full(b) ELSE Ungrammatical)
                    \o <<"Else">> \o Full(a), open)
       [] label[1] = "while"     ->
            Words(<<"While", "LParen">> \o Full(b) \o <<"RParen">> \o Full(a), open)
       [] label[1] = "do"        ->
            Words(<<"Do">> \o Full(b) \o <<"While", "LParen">> \o Full(a)
                    \o <<"RParen", "Semicolon">>, 0)
       [] label[1] = "for"       ->
            Words(<<"For", "LParen">>
                    \o (IF Full(d) = <<>> THEN <<"Semicolon">> ELSE Full(d))
                    \o Full(c) \o <<"Semicolon">> \o Full(b) \o <<"RParen">>
                    \o Full(a), open)

Arity(label) ==
  CASE label[1] \in {"atom", "base", "primitive", "list", "block", "empty",
                     "none", "break", "continue"} \cup Tags -> 0
    [] label[1] \in {"ternary", "parameter", "initialized let", "body"} -> 3
    [] label[1] = "for" -> 4
    [] label[1] \in {"index", "argument", "binary", "assign", "member",
                     "enumerator value", "element", "let", "field",
                     "statement", "if", "else", "while", "do"} -> 2
    [] label[1] = "array" -> IF Last(label) = "bound" THEN 2 ELSE 1
    [] OTHER -> 1

ExpressionLabels ==
  {"atom", "group", "suffix", "Dot", "Arrow", "index", "call", "argument",
   "prefix", "binary", "ternary", "assign"}
TypeLabels ==
  {"base", "pointer", "array", "function", "parameter", "ellipsis", "name",
   "primitive", "qualified", "member", "enumerator", "enumerator value",
   "list", "element"} \cup Tags
DeclarationLabels ==
  {"let", "field", "initialized let", "body", "declaration",
   "declaration group", "tag"}

\* The stack of spelled trees behind one more label of the postfix order.
Spell(stack, label) ==
  LET n == Len(stack)
      k == Arity(label)
      text ==
        CASE label[1] \in ExpressionLabels ->
               SpellExpression(label, stack[n - 2], stack[n - 1], stack[n])
          [] label[1] \in TypeLabels ->
               SpellType(label, stack[n - 2], stack[n - 1], stack[n])
          [] label[1] \in DeclarationLabels ->
               SpellDeclaration(label, stack[n - 2], stack[n - 1], stack[n])
          [] label[1] = "defined" -> stack[n]
          [] OTHER -> SpellStatement(label, stack[n - 3], stack[n - 2],
                                     stack[n - 1], stack[n])
  IN Append(SubSeq(stack, 1, n - k), text)

Spelled(tree) == Full(Last(FoldLeft(Spell, <<>>, tree)))
-----------------------------------------------------------------------------
\* The tokens without what leaves no trace in a tree: qualifiers (their
\* place among the specifiers is not kept), the void of an empty parameter
\* list, and a comma in front of a closing brace.
Traced(tokens) ==
  LET kept(i) ==
        /\ tokens[i] \notin TypeQualifiers
        /\ ~ /\ tokens[i] = "Void"
             /\ i > 1 /\ tokens[i - 1] = "LParen" /\ tokens[i + 1] = "RParen"
        /\ ~(tokens[i] = "Comma" /\ tokens[i + 1] = "RBrace")
      indices == SelectSeq([i \in 1 .. Len(tokens) |-> i],
                           LAMBDA i : tokens[i] # "Eof" /\ kept(i))
  IN [i \in DOMAIN indices |-> tokens[indices[i]]]

\* Two texts that differ in one pair of parentheses at most: a declarator's
\* own parentheses leave no trace either.
SameButForParentheses(text, tokens) ==
  \/ text = tokens
  \/ \E i, j \in DOMAIN tokens :
       /\ i < j /\ tokens[i] = "LParen" /\ tokens[j] = "RParen"
       /\ text = SubSeq(tokens, 1, i - 1) \o SubSeq(tokens, i + 1, j - 1)
                   \o SubSeq(tokens, j + 1, Len(tokens))

(***************************************************************************)
(* A unit that the parser accepts without a diagnostic is spelled by the   *)
(* trees it returns: no token is lost, invented or attached elsewhere      *)
(* (operators bind as C's levels say, declarators read from the name       *)
(* outwards, an else belongs to the nearest if).                           *)
(***************************************************************************)
TreesSpellTheUnit ==
  Done /\ m_diagnostics = <<>> =>
    SameButForParentheses(FlattenSeq([i \in DOMAIN module |-> Spelled(module[i])]),
                          Traced(m_stream))

\* Correct C is accepted: no method reports what the grammar allows.
AcceptsSentences ==
  m_stream \in {Append(s, "Eof") : s \in Sentences} => m_diagnostics = <<>>

\* Each global that cannot be read adds a diagnostic, and whatever errors there
\* were, within loops or in front of them, what was counted as a loop
\* (Parser_statements.cpp:160) is counted down again behind every global, so a
\* break in a later function is not taken for one inside a loop.
BrokenGlobalsAreReported ==
  [][/\ m_loop_depth' = 0
     /\ ~broken /\ broken' => Len(m_diagnostics') > Len(m_diagnostics)]_vars
-----------------------------------------------------------------------------
EndsInLastGlobal ==
  LET n == Len(LastGlobal)
      k == Len(m_stream) - 1 - n
  IN /\ k > 0
     /\ SubSeq(m_stream, k + 1, k + n) = LastGlobal
     /\ \/ m_stream[k] = "Semicolon"
        \/ m_stream[k] = "RBrace" /\ m_stream[1] = "Void"
     /\ Depth("LBrace", "RBrace", 1, k + 1) = 0

\* An error in one global does not cost the next one, where the braces in
\* front of that are balanced.
LastGlobalSurvives ==
  Done /\ EndsInLastGlobal =>
    begins # <<>> /\ Last(begins) = Len(m_stream) - Len(LastGlobal)

\* What Parser.cpp:93 says of a broken declaration: nothing inside its body
\* is a place to resume.  So where braces match, no global begins in them.
NoGlobalFromABody ==
  LET Kinds(kind) == SelectSeq(m_stream, LAMBDA t : t = kind)
  IN /\ Len(Kinds("LBrace")) = Len(Kinds("RBrace"))
     /\ Braces(1, Len(m_stream)) = 0
     => \A i \in DOMAIN begins : Braces(1, begins[i]) = 0

\* The parser gets through every unit, whatever is wrong with it.
Termination == <>Done
=============================================================================
