------------------------------ MODULE MCCParser ------------------------------
(***************************************************************************)
(* Units for the C parser: correct globals that between them use every     *)
(* method, each of them alone and with one token dropped, inserted or      *)
(* replaced, and a correct global behind it.                               *)
(***************************************************************************)
EXTENDS CParserProperties

\* Abbreviations for the kinds.
A == "Identifier"
N == "Numeric"
I == "Int"
X == "Semicolon"
M == "Comma"
P == "LParen"
Q == "RParen"
O == "LBrace"
C == "RBrace"
L == "LBrak"
R == "RBrak"
S == "Asterisk"

MCLastGlobal == <<"Char", A, X>>

Declarations == {
  <<I, A, X>>,
  <<"Const", "Unsigned", "Const", "Long", A, M, S, "Const", A, X>>,
  <<I, S, A, L, N, R, X>>,
  <<I, P, S, A, L, R, Q, P, "Void", Q, X>>,
  <<I, P, S, P, S, A, Q, P, I, Q, Q, L, N, R, M, A, X>>,
  <<"Struct", A, X>>,
  <<"Struct", A, O, I, A, M, S, A, X, "Union", A, A, X, C, S, A, X>>,
  <<"Struct", O, "Struct", O, I, A, X, C, A, X, I, P, S, A, Q, P, Q, X, C, "Const", A, X>>,
  <<"Enum", O, A, M, A, "Equal", N, M, C, X>>,
  <<"Enum", A, O, A, "Equal", A, "Question", N, "Colon", N, M, A, C, A, "Equal", A, X>>,
  <<I, A, L, R, "Equal", O, N, M, O, N, M, C, C, X>>,
  <<I, A, P, "Void", Q, M, A, P, Q, X>>,
  <<I, A, P, I, A, L, "Const", "Static", N, R, M, "Char", S, L, S, R, M, "Ellipsis", Q, X>>,
  <<I, A, P, I, P, A, Q, Q, X>>,
  <<I, A, P, "Char", M, I, P, S, Q, L, N, R, Q, X>> }

Body(words) == <<"Void", A, P, Q, O>> \o words \o <<C>>

Statements == {
  <<"If", P, A, Q, "If", P, N, Q, X, "Else", A, "PlusPlus", X>>,
  <<"If", P, A, Q, O, C, "Else", "Return", A, X, "Return", X>>,
  <<"While", P, A, Q, "Break", X, A, "Equal", A, "PlusEqual", N, X>>,
  <<"Do", O, "Continue", X, C, "While", P, A, Q, X>>,
  <<"For", P, I, A, "Equal", N, X, A, "Lesser", N, X, "PlusPlus", A, Q, A, P, Q, X>>,
  <<"For", P, X, X, Q, "For", P, A, X, X, Q, "Break", X>>,
  <<I, A, X, O, "Const", "Char", A, X, X, C>> }

Expressions == {
  <<A, "Minus", A, "Minus", A, S, A>>,
  <<A, "PipePipe", A, "AmpAmp", A, "Pipe", A, "Caret", A, "Amp", A>>,
  <<A, "EqualEqual", A, "Lesser", A, "LesserLesser", A, "Plus", A, "Slash", "Exclam", A>>,
  <<A, "Equal", A, "Question", A, "Equal", N, "Colon", A, "Question", A, "Colon", A>>,
  <<S, A, "PlusPlus", "Arrow", A, L, N, R, P, A, M, "Minus", N, Q, "Dot", A>>,
  <<P, A, "Plus", "String", Q, S, "True">> }

MCSentences ==
  Declarations \cup {Body(s) : s \in Statements}
    \cup {Body(e \o <<X>>) : e \in Expressions}

Wrong == {X, M, O, C, P, Q, A, I}

\* A sentence with one token dropped, inserted or replaced.
Damaged(s) ==
  {RemoveAt(s, i) : i \in DOMAIN s}
    \cup {InsertAt(s, i, w) : i \in DOMAIN s, w \in Wrong}
    \cup {ReplaceAt(s, i, w) : i \in DOMAIN s, w \in Wrong}

\* Mistakes of more than one token: an enum written like a struct, members
\* that are no declarations, a break behind a loop that was not read.
Mistakes == {
  <<"Enum", A, O, I, A, X, I, A, X, C, X>>,
  <<"Struct", A, O, I, X, A, A, X, O, I, A, X, C, I, A, X, C, A, X>>,
  <<I, A, "Equal", O, N, X, I, A, X, C, X>>,
  <<"Void", A, P, Q, O, "While", P, A, Q, A, A, X, "Break", X, C>>,
  <<A, A, P, Q, O, I, A, X, O, I, A, X, C, "Return", X, C, X>> }

Kept(words) == [i \in DOMAIN words |-> [kind |-> words[i], flags |-> {}]]
Dropped == << [kind |-> "Int", flags |-> {"DirectiveLine", "LineStart"}],
              [kind |-> "LBrace", flags |-> {"Skipped"}],
              [kind |-> "Eob", flags |-> {}] >>

\* Tokens that are no part of the program, around the ones that are.
Unit(words) == Dropped \o Kept(words) \o Dropped

MCUnits ==
  {Unit(s) : s \in MCSentences}
    \cup {Unit(d \o MCLastGlobal) : d \in Mistakes \cup UNION {Damaged(s) : s \in MCSentences}}
=============================================================================
