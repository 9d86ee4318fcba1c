------------------------------ MODULE MCCLexer ------------------------------
(***************************************************************************)
(* Sources of a few pieces each, whole and cut.  The pieces are chosen so  *)
(* that every lexeme can begin, end, be fused and be cut within.           *)
(***************************************************************************)
EXTENDS CLexerProperties

MCAlpha == {"a", "e", "i", "n", "t", "_"}
MCDigit == {"1"}
MCEscapable == {"n", "bs", "dq", "sq", "1"}
MCPunctuation == {"+", "-", "*", "/", "=", "<", ">", ".", ":", "%", "#"}
MCKeywords == (<<"i", "n", "t">> :> "Int")

One == [p \in {<<c>> : c \in MCPunctuation} |-> p[1]]
MCPunctuators ==
  One @@ [p \in {<<f[1], f[2]>> : f \in {g \in Fusions : g[1] \in MCPunctuation /\ g[2] \in MCPunctuation /\ g[3] # ".."}} |->
            (CHOOSE f \in Fusions : f[1] = p[1] /\ f[2] = p[2])[3]]
      @@ (<<">", ">", "=">> :> ">>=") @@ (<<"<", "<", "=">> :> "<<=")
      @@ (<<".", ".", ".">> :> "...") @@ (<<"%", ":", "%", ":">> :> "##")

Pieces == {
  <<"a">>, <<"i", "n">>, <<"t">>, <<"1", "e">>, <<"1">>, <<"+">>, <<">">>, <<"=">>,
  <<".">>, <<"dq">>, <<"sq">>, <<"/">>, <<"*">>, <<"lf">>, <<"cr", "lf">>,
  <<"bs", "lf">>, <<"bs">>, <<" ">>, <<"/", "*">>, <<"*", "/">>, <<"%">>, <<":">>, <<"?">>}

\* The pieces that cut sources are made of.
CutPieces == {
  <<"a">>, <<"1", "e">>, <<"+">>, <<".">>, <<"dq">>, <<"/">>, <<"*">>, <<"lf">>,
  <<"/", "*">>, <<"*", "/">>, <<"bs">>}

\* The pieces of the lines of a source cut at its line starts.
LinePieces == {
  <<"a">>, <<"+">>, <<".">>, <<"dq">>, <<"/">>, <<"*">>, <<"lf">>, <<"/", "*">>}

Texts(pieces, n) ==
  {FlattenSeq(s) : s \in UNION {[1 .. k -> pieces] : k \in 0 .. n}}

\* Rows of dots, shifts, digraphs and exponents.
Rows ==
  [1 .. 5 -> {".", "1", "a"}] \cup [1 .. 5 -> {"%", ":", "#", ">"}]
    \cup [1 .. 5 -> {"bs", "lf", ">", "="}] \cup [1 .. 5 -> {"_", "1", "e", "+"}]

\* Literals and comments that hold quotes, backslashes and each other's ends.
Nested == [1 .. 5 -> {"dq", "bs", "a", "/", "*"}]

Numbers == [1 .. 4 -> {".", "1", "e", "+", "_"}]

\* Each text with where it is cut in two, which 0 leaves whole.
Whole == {0} \X (Rows \cup Texts(Pieces, 3))
CutAnywhere == (1 .. 5) \X (Nested \cup Numbers \cup Texts(CutPieces, 3))

CutAt(k, text) ==
  [text |-> text, lengths |-> IF k = 0 THEN <<Len(text)>> ELSE <<k, Len(text) - k>>]

\* Three chunks, each of at least one line.
CutInLines ==
  {[text    |-> x[1] \o <<"lf">> \o x[2] \o <<"lf">> \o x[3],
    lengths |-> <<Len(x[1]) + 1, Len(x[2]) + 1, Len(x[3])>>] :
     x \in Texts(LinePieces, 1) \X Texts(LinePieces, 1) \X Texts(LinePieces, 2)}

MCInputs ==
  {CutAt(x[1], x[2]) :
     x \in {y \in Whole \cup CutAnywhere : y[1] = 0 \/ y[1] < Len(y[2])}}
    \cup CutInLines
=============================================================================
