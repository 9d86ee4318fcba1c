-------------------------- MODULE CLexerProperties --------------------------
(***************************************************************************)
(* What the C lexer promises.  The reference is the standard's: splices    *)
(* are taken out first, and then the longest lexeme is a token.            *)
(***************************************************************************)
EXTENDS CLexer

CONSTANT Punctuators   \* from the spellings of C's punctuators to their kinds

HasSplice(text) ==
  \E i \in 1 .. Len(text) - 1 : text[i] = "bs" /\ text[i + 1] \in LineFeed

\* The source without splices, each character with its offset.
Logical ==
  LET b == [text |-> source, base |-> 0]
      from[i \in Nat] ==
        IF Unspliced(b, i) = 0 THEN <<>>
        ELSE <<[c |-> source[Unspliced(b, i)], at |-> Unspliced(b, i) - 1]>>
               \o from[Unspliced(b, i) + 1]
  IN from[1]

IsWord(w) == w[1] \in Alpha /\ ToSet(w) \subseteq Alpha \cup Digit

\* pp-number.
IsNumber(w) ==
  /\ w[1] \in Digit \/ (w[1] = "." /\ Len(w) > 1 /\ w[2] \in Digit)
  /\ \A i \in 2 .. Len(w) :
       \/ w[i] \in Alpha \cup Digit \cup {"."}
       \/ w[i] \in {"+", "-"} /\ w[i - 1] \in ExponentPrefix

\* How many backslashes stand in front of i.
Escaped(w, i) ==
  LET run[j \in 0 .. i] == IF j <= 1 \/ w[j - 1] # "bs" THEN 0 ELSE 1 + run[j - 1]
  IN run[i] % 2 = 1

\* Literals and comments: closed ones end where they first can.
Closes(w, i) ==
  IF w[1] \in {"dq", "sq"} THEN i > 1 /\ w[i] = w[1] /\ ~Escaped(w, i)
  ELSE i > 3 /\ w[i - 1] = "*" /\ w[i] = "/"
IsLiteral(w) == w[1] \in {"dq", "sq"} /\ ToSet(w) \cap LineFeed = {}
IsBlock(w) == Len(w) > 1 /\ w[1] = "/" /\ w[2] = "*"
IsLine(w) == Len(w) > 1 /\ w[1] = "/" /\ w[2] = "/" /\ ToSet(w) \cap LineFeed = {}

KindOf(w) ==
  CASE IsWord(w) -> IF w \in DOMAIN Keywords THEN Keywords[w] ELSE "Identifier"
    [] IsNumber(w) -> "Numeric"
    [] IsLiteral(w) \/ IsBlock(w) ->
         IF \E i \in 1 .. Len(w) - 1 : Closes(w, i) THEN "none"
         ELSE CASE w[1] = "dq" -> "String"
                [] w[1] = "sq" -> "CharLiteral"
                [] OTHER -> "trivia"
    [] IsLine(w) \/ w \in {<<" ">>, <<"lf">>, <<"cr">>} -> "trivia"
    [] w \in DOMAIN Punctuators -> Punctuators[w]
    [] OTHER -> "none"

\* A lexeme that reaches the end, or its line's, without being closed.
IsOpen(w) == (IsLiteral(w) \/ IsBlock(w)) /\ ~Closes(w, Len(w))

\* The tokens of the source, as [kind, begin], and whether all are in order.
Reference ==
  LET l == Logical
      word(i, j) == [k \in 1 .. j - i + 1 |-> l[i + k - 1].c]
      from[i \in Nat] ==
        IF i > Len(l)
        THEN [toks |-> <<[kind |-> "Eob", begin |-> Len(source)]>>, clean |-> TRUE]
        ELSE LET ends == {j \in i .. Len(l) : KindOf(word(i, j)) # "none"}
                 end  == IF ends = {} THEN i ELSE Max(ends)
                 w    == word(i, end)
                 kind == IF ends = {} THEN "Dummy" ELSE KindOf(w)
             IN With(from[end + 1], LAMBDA rest :
                  [toks  |-> (IF kind = "trivia" THEN <<>>
                              ELSE <<[kind |-> kind, begin |-> l[i].at]>>) \o rest.toks,
                   clean |-> rest.clean /\ kind # "Dummy" /\ ~IsOpen(w)])
  IN from[1]

-----------------------------------------------------------------------------
Finalized == output # <<>>
Tokens == output[1].toks
Placed == [i \in DOMAIN Tokens |-> [kind |-> Tokens[i].kind, begin |-> Tokens[i].begin]]
Errors == {d \in output[1].diags : d.kind # "WarningEscape"}

Plain == With(Logical, LAMBDA l : [i \in DOMAIN l |-> l[i].c])

\* Where w stands in the source, splices aside.
Places(text, w) ==
  {i \in 1 .. Len(text) - Len(w) + 1 : SubSeq(text, i, i + Len(w) - 1) = w}

\* A number of C's tokens toks, or a comment right behind one, holds what
\* stands at this offset.
AfterNumber(toks, at) ==
  \E i \in 1 .. Len(toks) - 1 :
    toks[i].kind = "Numeric" /\ toks[i].begin < at /\ at < toks[i + 1].begin

\* The lexer fuses dots in pairs, and takes the last one in front of a digit for
\* a fraction.  It finds C's tokens, and reports no pair, where the dots in a row
\* are one, or three that stand behind no number and in front of no digit.
DotsFuse(toks) ==
  With(Logical, LAMBDA l :
    \A i \in DOMAIN l :
      l[i].c = "." /\ ~(i > 1 /\ l[i - 1].c = ".") =>
        LET row == {k \in i .. Len(l) : \A j \in i .. k : l[j].c = "."}
        IN \/ Cardinality(row) = 1
           \/ /\ Cardinality(row) = 3
              /\ ~(i + 3 <= Len(l) /\ l[i + 3].c \in Digit)
              /\ ~AfterNumber(toks, l[i].at))

\* Fusing other pairs finds the longest token but for these: a shift in front of
\* ==, a # beside its digraph, a word in front of a fraction, and an exponent
\* behind an underscore, at which lex_number stops.
Munchable ==
  With(Plain, LAMBDA text :
    /\ \A w \in {<<"<", "<", "=", "=">>, <<">", ">", "=", "=">>,
                 <<"#", "%", ":">>, <<"%", ":", "#">>} : Places(text, w) = {}
    /\ \A i, j \in 1 .. Len(text) - 1 :
         i < j /\ (\A k \in i + 1 .. j - 1 : text[k] \in Alpha \cup Digit \cup {"."}) =>
           /\ ~(text[i] \in Alpha /\ text[j] = "." /\ text[j + 1] \in Digit)
           /\ ~(text[i] = "_" /\ text[j] \in ExponentPrefix /\ text[j + 1] \in {"+", "-"}))

\* Nothing looks for a splice in front of the first character, and a literal
\* goes on behind a line end that a splice leaves with a backslash in front.
Tidy ==
  /\ source # <<>> => Head(source) # "bs"
  /\ With(Plain, LAMBDA text :
       \A i \in 1 .. Len(text) - 1 : ~(text[i] = "bs" /\ text[i + 1] \in LineFeed))

CutAtLineStarts ==
  \A i \in 2 .. Len(chunks) :
    chunks[i].base > 0 /\ source[chunks[i].base] = "lf"

\* A source scanned whole becomes the tokens of the C standard, whatever
\* splices it holds, although scan only pushes short punctuators and fuses
\* neighbours later; and so does one without splices that is cut at the starts
\* of lines into chunks, scanned in any order and concatenated
\* (CLexer::scan, merge_double_tokens, concat, repair).
TokensAreC ==
  Finalized /\ Tidy
    /\ (Len(chunks) = 1 \/ (CutAtLineStarts /\ ~HasSplice(source)))
    /\ Munchable
  => With(Reference.toks, LAMBDA toks : DotsFuse(toks) => Placed = toks)

\* A source scanned whole is diagnosed with an error exactly when it holds a
\* character that begins no token, or a literal or block comment that is not
\* closed (CLexer::scan and CLexer::finalize).
BadLexemesAreReported ==
  Finalized /\ Tidy /\ Len(chunks) = 1
  => With(Reference, LAMBDA c :
       DotsFuse(c.toks) => (Errors = {} <=> c.clean))

\* The first token that begins in a later chunk: what stood in front of it is
\* dropped with the chunk before (Lexer.cpp:183), so the lexer cannot mark it.
FirstOfItsChunk(i) ==
  \E k \in 2 .. Len(chunks) :
    /\ Tokens[i].begin >= chunks[k].base
    /\ i = 1 \/ Tokens[i - 1].begin < chunks[k].base

\* A token is marked AtLineStart, which is what makes a # open a directive,
\* exactly when it is the first one or a line end that is no splice stands
\* between it and the token before it, be it within or behind a comment; and
\* cuts at the starts of lines change that for the first token of a chunk only
\* (CLexer::skip_trivia, push_token, repair, merge_double_tokens).
LineStartsAreMarked ==
  Finalized /\ Tidy
    /\ (Len(chunks) = 1 \/ (CutAtLineStarts /\ ~HasSplice(source)))
  => \A i \in DOMAIN Tokens :
       Tokens[i].kind # "Eob" /\ ~FirstOfItsChunk(i) =>
         ("AtLineStart" \in Tokens[i].flags
            <=> \/ i = 1
                \/ \E k \in DOMAIN Logical :
                     /\ Logical[k].c \in LineFeed
                     /\ Logical[k].at >= Tokens[i - 1].end
                     /\ Logical[k].at < Tokens[i].begin)

\* The cut is within a literal, behind one of its backslashes and in front of
\* its quote or another backslash.
CutInEscape(toks) ==
  With(Last(chunks).base, LAMBDA at :
    /\ source[at] = "bs"
    /\ \E t \in ToSet(toks) :
         /\ t.kind \in {"String", "CharLiteral"} /\ t.begin < at
         /\ source[at + 1] \in {"bs", source[t.begin + 1]}
         /\ With(SubSeq(source, t.begin + 1, at), LAMBDA w :
              \A i \in DOMAIN w : ~Closes(w, i)))

\* The cut is between two dots of a number.
CutInNumber(toks) ==
  With(Last(chunks).base, LAMBDA at :
    source[at] = "." /\ source[at + 1] = "." /\ AfterNumber(toks, at))

\* The cut leaves */ behind the slash that opens a comment.
CutInOpener ==
  /\ Last(chunks[1].text) = "/"
  /\ IsPrefix(<<"*", "/">>, Last(chunks).text)

\* However a correct source without splices is cut in two, even within a token,
\* the seam is repaired without an error and nothing of the source is lost
\* (CLexer::concat), but for three places where the repair cannot tell what the
\* left-hand side ended in: within the opener of a comment, between two dots of
\* a number, and behind a backslash of a literal.  There peek() answers nothing
\* (Lexer.cpp:1027), and so DanglingEscape marks the second backslash of a pair
\* instead of the first (Lexer.cpp:301-321, 428).  A cut at these places can end
\* in an error, although the words of LexerTest.cpp:81 and the comments at
\* Lexer.cpp:318 and 420 and Lexer.hpp:130 say that it does not.
SeamsAreClean ==
  Finalized /\ Len(chunks) = 2 /\ ~HasSplice(source) /\ ~CutInOpener
  => With(Reference, LAMBDA c :
       c.clean /\ DotsFuse(c.toks) /\ ~CutInEscape(c.toks) /\ ~CutInNumber(c.toks)
       => Errors = {} /\ Last(Tokens).kind = "Eob" /\ Last(Tokens).end = Len(source))
=============================================================================
