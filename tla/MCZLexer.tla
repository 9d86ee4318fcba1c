------------------------------ MODULE MCZLexer ------------------------------
(***************************************************************************)
(* Sources of a few pieces each, whole and cut.  The pieces are chosen so  *)
(* that every lexeme can begin, end, be fused and be cut within.           *)
(***************************************************************************)
EXTENDS ZLexerProperties

MCAlpha == {"a", "i", "f", "n", "e", "x", "b", "o"}
MCDigit == {"0", "1", "8"}
MCHexDigit == {"0", "1", "8", "a", "b", "e", "f"}
MCOctDigit == {"0", "1"}
MCBinDigit == {"0", "1"}
MCEscapable == {"n", "bs", "dq", "sq", "0"}
MCPunctuation == {"+", "-", "*", "/", "=", "<", ">", ".", ":"}
MCKeywords == (<<"i", "f">> :> "If")

Pairs == {m \in merges : m[1] \in MCPunctuation /\ m[2] \in MCPunctuation}
MCPunctuators ==
  [p \in {<<c>> : c \in MCPunctuation} |-> p[1]]
    @@ [p \in {<<m[1], m[2]>> : m \in Pairs} |->
          (CHOOSE m \in Pairs : m[1] = p[1] /\ m[2] = p[2])[3]]
    @@ (<<"<", "<", "=">> :> "<<=") @@ (<<">", ">", "=">> :> ">>=")

Pieces == {
  <<"a">>, <<"i">>, <<"f">>, <<"0">>, <<"0", "x">>, <<"1">>, <<"e">>, <<"+">>, <<">">>,
  <<"=">>, <<".">>, <<"dq">>, <<"sq">>, <<"/">>, <<"*">>, <<"lf">>, <<"cr", "lf">>,
  <<"bs">>, <<" ">>, <<"/", "*">>, <<"*", "/">>, <<"?">>}

\* The pieces that cut sources are made of.
CutPieces == {
  <<"a">>, <<"i">>, <<"f">>, <<"1">>, <<"e">>, <<"=">>, <<".">>, <<"dq">>, <<"bs">>,
  <<" ">>, <<"/", "*">>, <<"*", "/">>}

\* The pieces of a source in three buffers.
SpanPieces == {<<"a">>, <<"=">>, <<"dq">>, <<"bs">>, <<"/", "*">>, <<"*", "/">>}

Texts(pieces, n) ==
  {FlattenSeq(s) : s \in UNION {[1 .. k -> pieces] : k \in 0 .. n}}

Whole == {[text |-> t, lengths |-> <<Len(t)>>] : t \in Texts(Pieces, 3)}

CutInTwo ==
  UNION {{[text |-> t, lengths |-> <<k, Len(t) - k>>] : k \in 1 .. Len(t) - 1} :
           t \in Texts(CutPieces, 3)}

CutInThree ==
  {[text |-> x \o y \o z, lengths |-> <<Len(x), Len(y), Len(z)>>] :
     x \in Texts(SpanPieces, 2), y \in Texts(SpanPieces, 1), z \in Texts(SpanPieces, 2)}

MCInputs == Whole \cup CutInTwo \cup CutInThree
=============================================================================
