--------------------------- MODULE ZLexerProperties ---------------------------
(***************************************************************************)
(* What the Z lexer promises: the longest lexeme is a token, however the   *)
(* source is cut.                                                          *)
(***************************************************************************)
EXTENDS ZLexer

CONSTANT Punctuators   \* the spellings of punctuators of more than one character

All(w, set) == ToSet(w) \subseteq set

IsWord(w) == w[1] \in Alpha /\ All(w, Alpha \cup Digit)

\* The digits of a number with a radix.
RadixDigits == ("x" :> HexDigit) @@ ("o" :> OctDigit) @@ ("b" :> BinDigit)
IsRadix(w) ==
  /\ Len(w) > 1 /\ w[1] = "0" /\ w[2] \in DOMAIN RadixDigits
  /\ All(SubSeq(w, 3, Len(w)), RadixDigits[w[2]])

\* Digits, a fraction, and an exponent.
IsMantissa(w) ==
  /\ \E d \in Digit : d \in ToSet(w)
  /\ All(w, Digit \cup {"."})
  /\ Cardinality({i \in DOMAIN w : w[i] = "."}) <= 1
IsExponent(w) ==
  /\ w[1] = "e"
  /\ LET rest == IF Len(w) > 1 /\ w[2] \in {"+", "-"} THEN 3 ELSE 2
     IN All(SubSeq(w, rest, Len(w)), Digit)
IsDecimal(w) ==
  \E i \in DOMAIN w : /\ IsMantissa(SubSeq(w, 1, i))
                      /\ w[1] = "." => i > 1 /\ w[2] \in Digit
                      /\ i = Len(w) \/ IsExponent(SubSeq(w, i + 1, Len(w)))
IsNumber(w) == IsRadix(w) \/ IsDecimal(w)

\* A number of which more must follow.
IsUnfinished(w) == w[Len(w)] \in {".", "e", "x", "o", "+", "-"} \/ w = <<"0", "b">>

\* How many backslashes stand in front of i.
Escaped(w, i) ==
  LET run[j \in 0 .. i] == IF j <= 1 \/ w[j - 1] # "bs" THEN 0 ELSE 1 + run[j - 1]
  IN run[i] % 2 = 1

\* Strings and comments: closed ones end where they first can.
Closes(w, i) ==
  IF w[1] \in {"dq", "sq"} THEN i > 1 /\ w[i] = w[1] /\ ~Escaped(w, i)
  ELSE i > 3 /\ w[i - 1] = "*" /\ w[i] = "/"
IsString(w) == w[1] \in {"dq", "sq"}
IsBlock(w) == Len(w) > 1 /\ w[1] = "/" /\ w[2] = "*"
IsLine(w) == Len(w) > 1 /\ w[1] = "/" /\ w[2] = "/" /\ ToSet(w) \cap LineFeed = {}
IsOpen(w) == (IsString(w) \/ IsBlock(w)) /\ ~Closes(w, Len(w))

KindOf(w) ==
  CASE IsWord(w) -> classify_identifier(w)
    [] IsNumber(w) -> "Numeric"
    [] IsString(w) \/ IsBlock(w) ->
         IF \E i \in 1 .. Len(w) - 1 : Closes(w, i) THEN "none"
         ELSE IF IsBlock(w) THEN "trivia" ELSE "String"
    [] IsLine(w) \/ w \in {<<" ">>, <<"lf">>, <<"cr">>} -> "trivia"
    [] w \in DOMAIN Punctuators -> Punctuators[w]
    [] OTHER -> "none"

\* The lexemes of the source, trivia included, from left to right.
Lexemes ==
  LET from[i \in Nat] ==
        IF i > Len(source) THEN <<>>
        ELSE LET ends == {j \in i .. Len(source) : KindOf(SubSeq(source, i, j)) # "none"}
                 end  == IF ends = {} THEN i ELSE Max(ends)
                 w    == SubSeq(source, i, end)
             IN <<[kind |-> IF ends = {} THEN "Dummy" ELSE KindOf(w),
                   begin |-> i - 1, end |-> end, text |-> w]>> \o from[end + 1]
  IN from[1]

Span(x) == [kind |-> x.kind, begin |-> x.begin, end |-> x.end]
Spans(toks) == [i \in DOMAIN toks |-> Span(toks[i])]

Reference ==
  Append(Spans(SelectSeq(Lexemes, LAMBDA x : x.kind # "trivia")),
         [kind |-> "Eof", begin |-> Len(source), end |-> Len(source)])

\* What there is to say of a lexeme, as diagnostics in order.
Faults(x) ==
  LET w == x.text
      bad == {i \in 1 .. Len(w) - 1 :
                IsString(w) /\ w[i] = "bs" /\ ~Escaped(w, i) /\ w[i + 1] \notin Escapable}
      Say(kind, at) == [kind |-> kind, at |-> at]
      escapes == SetToSortSeq({x.begin + i - 1 : i \in bad}, <)
  IN (IF x.kind = "Dummy" THEN <<Say("ErrorInvalidCharacter", x.begin)>> ELSE <<>>)
       \o [k \in DOMAIN escapes |-> Say("ErrorInvalidEscapeSequence", escapes[k])]
       \o (IF IsOpen(w)
           THEN <<Say(IF IsBlock(w) THEN "ErrorUnterminatedComment"
                      ELSE "ErrorUnterminatedString", x.begin)>>
           ELSE <<>>)
-----------------------------------------------------------------------------
Finalized == output # <<>>
Tokens == output[1].toks
Diagnosed == output[1].diags

Cuts == {l.base : l \in ToSet(Tail(lexers))}

\* What the code makes of these numbers is not what it is for: one that is not
\* finished at the end of its buffer, one with a radix that anything follows,
\* 0e, and an exponent that a sign follows.
TidyNumber(x) ==
  LET w == x.text
  IN /\ ~(IsUnfinished(w) /\ x.end \in Cuts \cup {Len(source)})
     /\ IsRadix(w) => x.end = Len(source)
     /\ ~IsPrefix(<<"0", "e">>, w)
     /\ "e" \in ToSet(w) /\ ~IsRadix(w) /\ x.end < Len(source)
        => source[x.end + 1] \notin {"+", "-"}

\* Nor is the first dot of two a token by itself in front of a digit.
Tidy(lexemes) ==
  \A i \in DOMAIN lexemes :
    /\ lexemes[i].kind = "Numeric" => TidyNumber(lexemes[i])
    /\ lexemes[i].kind = ".." /\ lexemes[i].end < Len(source)
       => source[lexemes[i].end + 1] \notin Digit

\* A lexeme that survives a cut within it.
Mends(x, cut) ==
  LET Part(i, j) == SubSeq(source, i + 1, j)
      next == source[cut + 1]
      left == Part(x.begin, cut)
      right == Part(cut, x.end)
  IN CASE IsString(x.text) -> ~Escaped(source, cut + 1) /\ x.begin < Min(Cuts)
       [] IsBlock(x.text)  -> /\ cut >= x.begin + 2 /\ x.begin < Min(Cuts)
                              /\ ~(source[cut] = "*" /\ next = "/")
       [] IsWord(x.text)   -> /\ Cardinality(Cuts) = 1 /\ next \in Alpha
                              /\ {left, right} \cap DOMAIN Keywords = {}
       [] IsNumber(x.text) -> /\ Cardinality(Cuts) = 1 /\ next \in Digit
                              /\ left # <<".">> /\ ~IsRadix(x.text)
       [] OTHER -> x.text \in DOMAIN Punctuators

\* Every cut is between two lexemes or within one that survives it, and none is
\* left open.
CutKindly(lexemes) ==
  /\ \A i \in DOMAIN lexemes :
       \A cut \in Cuts : lexemes[i].begin < cut /\ cut < lexemes[i].end
                         => Mends(lexemes[i], cut)
  /\ Cuts # {} /\ lexemes # <<>> => ~IsOpen(Last(lexemes).text)

\* A source scanned whole becomes its longest lexemes, although scan_impl only
\* adds short punctuators and merge fuses neighbours later: the tokens have the
\* kinds and the ranges of these (ZLexer::scan_impl, scan_fix, merge).
TokensAreZ ==
  Finalized /\ Cuts = {}
  => With(Lexemes, LAMBDA lexemes : Tidy(lexemes) => Spans(Tokens) = Reference)

\* A source that is cut into buffers, scanned in any order and concatenated,
\* keeps its lexemes: a string or a comment over several buffers has the range
\* it would have in one, a word and a number are put together again, nothing is
\* lost or read twice (ZLexer::concat, merge_identifier_boundary,
\* merge_numeric_boundary, scan_fix).  Only the operators of the last buffer,
\* which nobody fuses, are fused here.
SeamsKeepLexemes ==
  Finalized /\ Cuts # {}
  => With(Lexemes, LAMBDA lexemes :
       Tidy(lexemes) /\ CutKindly(lexemes)
       => Spans(merge_double_tokens(Tokens)) = Reference)

\* Each bad character, bad escape and construct left open is reported once, at
\* its place, and nothing else is, even if a buffer was scanned twice because
\* the one in front of it ended within a string or a comment
\* (ZLexer::concat, report, close_open_construct).
FaultsAreReportedOnce ==
  Finalized
  => With(Lexemes, LAMBDA lexemes :
       /\ Tidy(lexemes) /\ CutKindly(lexemes)
       /\ \A i \in DOMAIN lexemes :
            lexemes[i].kind = "Numeric" =>
              \A cut \in Cuts : cut <= lexemes[i].begin \/ lexemes[i].end <= cut
       => Diagnosed = FlattenSeq([i \in DOMAIN lexemes |-> Faults(lexemes[i])]))
-----------------------------------------------------------------------------
\* tests/Zaban/Langs/ZLang/LexerTest.cpp:238 "The split occurs between complete
\* tokens." and :239 "Concatenating them produces the same token stream as the
\* full source.": what ZLexer::concat leaves of a source of tidy lexemes, cut
\* between two of them.
SplitsBetweenTokensAreInvisible ==
  Finalized
  => With(Lexemes, LAMBDA lexemes :
       /\ Tidy(lexemes)
       /\ \A i \in DOMAIN lexemes :
            \A cut \in Cuts : cut <= lexemes[i].begin \/ lexemes[i].end <= cut
       => [i \in DOMAIN Tokens |-> Tokens[i].kind]
            = [i \in DOMAIN Reference |-> Reference[i].kind])
=============================================================================
