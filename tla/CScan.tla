-------------------------------- MODULE CScan --------------------------------
(***************************************************************************)
(* CLexer::scan: the tokens of one chunk of C source, scanned as if it     *)
(* began outside of any token.                                             *)
(*                                                                         *)
(* A chunk b is [text, base]: its characters, and the offset of the first  *)
(* one in the whole source.  A character is a string; "bs" is a backslash, *)
(* "lf" and "cr" are line ends, "dq" and "sq" the quotes.  The kind of a   *)
(* punctuator is its spelling, without digraphs.                           *)
(*                                                                         *)
(* The state of a lexer is [it, pending, toks, diags]: _buffer_it (counted *)
(* from 1; _offset follows from it), _pending, _tokens and _diagnostics.   *)
(***************************************************************************)
EXTENDS Integers, SequencesExt, FiniteSets, TLC, Once

CONSTANTS
  Alpha,      \* letters and _
  Digit,
  Escapable,  \* the characters that is_escape_start knows
  Punctuation,
  Keywords    \* from the spellings of keywords to their kinds

LineFeed == {"lf", "cr"}
ExponentPrefix == {"e", "p"}

Token == [kind : STRING, begin : Nat, end : Nat, flags : SUBSET STRING]
State == [it : Nat, pending : SUBSET STRING, toks : Seq(Token),
          diags : SUBSET [kind : STRING, at : Nat]]

Opened == [it |-> 1, pending |-> {}, toks |-> <<>>, diags |-> {}]
-----------------------------------------------------------------------------
\* The index behind a backslash at i and the line end that follows it; i
\* where there is no such line end, 0 where the buffer ends before it is known.
Splice(b, i) ==
  LET Is(j, c) == j <= Len(b.text) /\ b.text[j] = c
  IN CASE ~Is(i, "bs") -> i
       [] Is(i, "bs") /\ i = Len(b.text) -> 0
       [] Is(i, "bs") /\ Is(i + 1, "lf") -> i + 2
       [] Is(i, "bs") /\ Is(i + 1, "cr") ->
            IF i + 1 = Len(b.text) THEN 0
            ELSE IF Is(i + 2, "lf") THEN i + 3 ELSE i + 2
       [] OTHER -> i

\* The index of the first character from i on that is no splice, or 0.
Unspliced(b, i) ==
  LET from[j \in Nat] ==
        CASE j = 0 \/ j > Len(b.text)  -> 0
          [] Splice(b, j) = j /\ j \in DOMAIN b.text -> j
          [] OTHER -> from[Splice(b, j)]
  IN from[i]

\* peek(n), or "none" for a nullptr.
peek(b, s, n) ==
  LET i == Unspliced(b, s.it)
      j == IF n = 0 \/ i = 0 THEN i ELSE Unspliced(b, i + 1)
  IN IF j = 0 THEN "none" ELSE b.text[j]

Pend(s, flags) == [s EXCEPT !.pending = @ \cup flags]

skip_splice(b, s) ==
  Repeated(LAMBDA t :
      LET next == Splice(b, t.it)
      IN CASE next = t.it -> t
           [] next = 0 -> Pend(t, {"SplicePending"} \cup
                                  IF t.it = Len(b.text) THEN {} ELSE {"CrPending"})
           [] OTHER -> Pend([t EXCEPT !.it = next], {"ContainsSplice"}),
    s, State)

advance(b, s) == skip_splice(b, [s EXCEPT !.it = @ + 1])

\* advance while the next character is in the set.
TakeWhile(b, s, set) ==
  Repeated(LAMBDA t : IF peek(b, t, 0) \in set THEN advance(b, t) ELSE t, s, State)

Offset(b, i) == b.base + i - 1

push_tokenStillPending(b, s, kind, start) ==
  [s EXCEPT !.toks = Append(@, [kind  |-> kind, begin |-> Offset(b, start),
                                end   |-> Offset(b, s.it), flags |-> s.pending])]

\* The token from index start to the cursor.
push_token(b, s, kind, start) ==
  [s EXCEPT !.toks = Append(@, [kind  |-> kind, begin |-> Offset(b, start),
                                end   |-> Offset(b, s.it), flags |-> s.pending]),
            !.pending = {}]

Flag(s, flags) ==
  IF s.toks = <<>> THEN s
  ELSE [s EXCEPT !.toks[Len(s.toks)].flags = @ \cup flags]

report(b, s, kind, start) ==
  [s EXCEPT !.diags = @ \cup {[kind |-> kind, at |-> Offset(b, start)]}]
-----------------------------------------------------------------------------
fold_line_ending(b, s) ==
  IF peek(b, s, 0) = "lf" THEN advance(b, s)
  ELSE With(advance(b, s), LAMBDA t :
         CASE peek(b, t, 0) = "lf"   -> advance(b, t)
           [] peek(b, t, 0) = "none" -> Pend(t, {"CrPending"})
           [] OTHER -> t)

\* A comment that runs off the end leaves a token, for concat to see.
skip_line_comment_body(b, s, start) ==
  With(Repeated(LAMBDA t : IF peek(b, t, 0) \in LineFeed \cup {"none"} THEN t
                           ELSE advance(b, t), s, State),
       LAMBDA t : IF peek(b, t, 0) = "none"
                  THEN push_token(b, t, "LineCommentOpen", start) ELSE t)

AtBlockEnd(b, t) == peek(b, t, 0) = "*" /\ peek(b, t, 1) = "/"

skip_block_comment_body(b, s, start) ==
  With(Repeated(LAMBDA t : IF peek(b, t, 0) = "none" \/ AtBlockEnd(b, t) THEN t
                           ELSE advance(b, t), s, State),
       LAMBDA t : IF peek(b, t, 0) = "none"
                  THEN push_token(b, t, "BlockCommentOpen", start)
                  ELSE advance(b, advance(b, t)))

skip_trivia(b, s) ==
  LET Opens(t, d) == peek(b, t, 0) = "/" /\ peek(b, t, 1) = d
      Inside(t) == advance(b, advance(b, Pend(t, {"WhiteSpaceBefore"})))
  IN Repeated(LAMBDA t :
       CASE peek(b, t, 0) \in LineFeed ->
              Pend(fold_line_ending(b, t), {"AtLineStart", "WhiteSpaceBefore"})
         [] peek(b, t, 0) = " " -> advance(b, Pend(t, {"WhiteSpaceBefore"}))
         [] Opens(t, "/") -> skip_line_comment_body(b, Inside(t), t.it)
         [] Opens(t, "*") -> skip_block_comment_body(b, Inside(t), t.it)
         [] OTHER -> t,
       s, State)
-----------------------------------------------------------------------------
\* unsplice of the text from i to j - 1.
unsplice(b, i, j) ==
  LET Kept(k) == Splice(b, k) \in {0, k}
      from[k \in Nat] ==
        IF k >= j THEN <<>>
        ELSE (IF Kept(k) THEN <<b.text[k]>> ELSE <<>>)
               \o from[IF Kept(k) THEN k + 1 ELSE Splice(b, k)]
  IN from[i]

lex_ident_keyword(b, s) ==
  With(TakeWhile(b, s, Alpha \cup Digit), LAMBDA t :
    LET word == unsplice(b, s.it, t.it)
    IN push_token(b, t, IF word \in DOMAIN Keywords THEN Keywords[word]
                        ELSE "Identifier", s.it))

lex_number(b, s) ==
  LET Continues(c, prev) == \/ c \in {"+", "-"} /\ prev \in ExponentPrefix
                            \/ c \in (Alpha \ {"_"}) \cup Digit \cup {"."}
  IN With(Repeated(LAMBDA r : IF Continues(peek(b, r[1], 0), r[2])
                              THEN <<advance(b, r[1]), peek(b, r[1], 0)>> ELSE r,
                   <<s, "none">>, State \X STRING),
          LAMBDA r :
            Flag(push_token(b, r[1], "Numeric", s.it),
                 IF r[1].it > Len(b.text) /\ r[2] \in ExponentPrefix
                 THEN {"ExponentPending"} ELSE {}))

\* A backslash and what it escapes, unless the buffer ends in between.
take_escape(b, s) ==
  With(advance(b, s), LAMBDA t :
    CASE peek(b, t, 0) = "none" -> <<t, TRUE>>
      [] peek(b, t, 0) \in Escapable -> <<advance(b, t), FALSE>>
      [] OTHER -> <<advance(b, report(b, t, "WarningEscape", s.it)), FALSE>>)

\* lex_string and lex_char.
lex_literal(b, s, quote, kind, open, unterminated) ==
  With(Repeated(LAMBDA r :
         CASE peek(b, r[1], 0) \in LineFeed \cup {"none", quote} -> r
           [] peek(b, r[1], 0) = "bs" -> take_escape(b, r[1])
           [] OTHER -> <<advance(b, r[1]), FALSE>>,
         <<advance(b, s), FALSE>>, State \X BOOLEAN),
       LAMBDA r :
         CASE peek(b, r[1], 0) = "none" ->
                Flag(push_token(b, r[1], open, s.it),
                     IF r[2] THEN {"DanglingEscape"} ELSE {})
           [] peek(b, r[1], 0) = quote -> push_token(b, advance(b, r[1]), kind, s.it)
           [] OTHER -> push_token(b, report(b, r[1], unterminated, s.it), kind, s.it))

\* Each punctuator is one character here, and longer ones are merged later.
lex_punctuator(b, s) ==
  LET c == peek(b, s, 0)
  IN With(advance(b, s), LAMBDA t :
       IF c \in Punctuation THEN push_token(b, t, c, s.it)
       ELSE push_token(b, report(b, t, "ErrorInvalidCharacter", s.it), "Dummy", s.it))

lex_token(b, s) ==
  LET c == peek(b, s, 0)
  IN CASE c \in Alpha -> lex_ident_keyword(b, s)
       [] c \in Digit \/ (c = "." /\ peek(b, s, 1) \in Digit) -> lex_number(b, s)
       [] c = "dq" -> lex_literal(b, s, c, "String", "StringOpen", "ErrorUnterminatedString")
       [] c = "sq" -> lex_literal(b, s, c, "CharLiteral", "CharOpen", "ErrorUnterminatedChar")
       [] OTHER -> lex_punctuator(b, s)
-----------------------------------------------------------------------------
\* What two adjacent punctuators make.
Fusions == {
  <<"+", "+", "++">>, <<"+", "=", "+=">>, <<"-", "-", "--">>, <<"-", "=", "-=">>,
  <<"-", ">", "->">>, <<"*", "=", "*=">>, <<"/", "=", "/=">>, <<"%", "=", "%=">>,
  <<"%", ":", "#">>, <<"%", ">", "}">>, <<"^", "=", "^=">>, <<"=", "=", "==">>,
  <<"!", "=", "!=">>, <<"&", "&", "&&">>, <<"&", "=", "&=">>, <<"|", "|", "||">>,
  <<"|", "=", "|=">>, <<"<", "<", "<<">>, <<"<", "=", "<=">>, <<"<", "<=", "<<=">>,
  <<"<", ":", "[">>, <<"<", "%", "{">>, <<">", ">", ">>">>, <<">", "=", ">=">>,
  <<">", ">=", ">>=">>, <<":", ":", "::">>, <<":", ">", "]">>, <<"#", "#", "##">>,
  <<"<<", "=", "<<=">>, <<">>", "=", ">>=">>, <<".", ".", "..">>,
  <<".", "..", "...">>, <<"..", ".", "...">> }

\* What two tokens make, as a set of at most one kind.
try_mergeAnyExponent(x, y) ==
  IF x.end # y.begin THEN {}
  ELSE CASE x.kind = "Identifier" /\ y.kind \in {"Identifier", "Numeric"} -> {"Identifier"}
         [] x.kind = "Numeric" /\ y.kind \in {"+", "-", "Numeric", "Identifier", "."} ->
              {"Numeric"}
         [] OTHER -> {f[3] : f \in {g \in Fusions : g[1] = x.kind /\ g[2] = y.kind}}

try_merge(x, y) ==
  IF x.end # y.begin THEN {}
  ELSE CASE x.kind = "Identifier" /\ y.kind \in {"Identifier", "Numeric"} -> {"Identifier"}
         [] x.kind = "Numeric" /\ y.kind \in {"+", "-"} ->
              IF "ExponentPending" \in x.flags THEN {"Numeric"} ELSE {}
         [] x.kind = "Numeric" /\ y.kind \in {"Numeric", "Identifier", "."} -> {"Numeric"}
         [] OTHER -> {f[3] : f \in {g \in Fusions : g[1] = x.kind /\ g[2] = y.kind}}

\* One pass from left to right, and passes until one changes nothing.
Fused(x, y) ==
  [kind  |-> CHOOSE k \in try_merge(x, y) : TRUE, begin |-> x.begin, end |-> y.end,
   flags |-> x.flags \cup y.flags]

MergePass(toks) ==
  LET Fuses(i) == i < Len(toks) /\ try_merge(toks[i], toks[i + 1]) # {}
      from[i \in Nat] ==
        IF i > Len(toks) THEN <<>>
        ELSE <<IF Fuses(i) THEN Fused(toks[i], toks[i + 1]) ELSE toks[i]>>
               \o from[IF Fuses(i) THEN i + 2 ELSE i + 1]
  IN from[1]

merge_double_tokens(toks) == Repeated(MergePass, toks, Seq(Token))

\* The loop of scan, and what it does behind the last character.
scan(b) ==
  LET Trivia(s) == skip_trivia(b, IF b.base = 0 /\ s.toks = <<>>
                                  THEN Pend(s, {"AtLineStart"}) ELSE s)
      Step(s) == With(Trivia(s), LAMBDA t :
                   IF peek(b, t, 0) = "none" THEN t ELSE lex_token(b, t))
  IN With(Repeated(Step, Opened, State), LAMBDA s :
       With(Flag(s, s.pending \cap {"SplicePending", "CrPending"}), LAMBDA t :
         LET end == [t EXCEPT !.it = Len(b.text) + 1, !.pending = {}]
             eob == push_token(b, end, "Eob", end.it)
         IN [eob EXCEPT !.toks = merge_double_tokens(@)]))
=============================================================================
