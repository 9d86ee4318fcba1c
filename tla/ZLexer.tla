------------------------------- MODULE ZLexer -------------------------------
(***************************************************************************)
(* A Z source cut into buffers: each is scanned by a lexer of its own, in  *)
(* any order, and the lexers are concatenated from the left.  A construct  *)
(* that a buffer leaves open goes on in the next one, which is scanned     *)
(* again for it.                                                           *)
(***************************************************************************)
EXTENDS ZScan

CONSTANT Inputs   \* sources, each with the lengths of its buffers

VARIABLES
  source,
  lexers,   \* the lexers, the first of which takes the others in
  joined,   \* how many buffers it holds
  output    \* it, after finalize

vars == <<source, lexers, joined, output>>

\* What two adjacent tokens make.
merges == {
  <<".", ".", "..">>, <<"+", "+", "++">>, <<"+", "=", "+=">>, <<"-", ">", "->">>,
  <<"-", "-", "--">>, <<"-", "=", "-=">>, <<"*", "=", "*=">>, <<"*", ">", "*>">>,
  <<"/", "=", "/=">>, <<"%", "=", "%=">>, <<"&", "=", "&=">>, <<"&", "&", "&&">>,
  <<"&", ">", "&>">>, <<"|", "=", "|=">>, <<"|", "|", "||">>, <<"=", ">", "=>">>,
  <<"=", "=", "==">>, <<"!", "=", "!=">>, <<"!", "!", "!!">>, <<"<", "<", "<<">>,
  <<"<", "=", "<=">>, <<"<<", "=", "<<=">>, <<">", ">", ">>">>, <<">", "=", ">=">>,
  <<">>", "=", ">>=">>, <<"@", "@", "@@">>, <<"@", ":", "@:">>, <<":", ":", "::">>,
  <<":", "=", ":=">>, <<"?", "?", "??">>, <<"?", "!", "?!">>, <<"?", "&", "?&">>,
  <<"?", "|", "?|">> }

merge(x, y) == {m[3] : m \in {n \in merges : n[1] = x /\ n[2] = y}}

Widened(x, kind, y) == [x EXCEPT !.kind = kind, !.end = y.end]

Fuse(done, t) ==
  Append(Front(done),
         Widened(Last(done), CHOOSE k \in merge(Last(done).kind, t.kind) : TRUE, t))

\* Takes the tokens over one by one, fusing those that Fits allows.
FuseAll(toks, Fits(_, _)) ==
  LET Take(r) ==
        LET t == Head(r[2])
        IN IF r[2] = <<>> THEN r
           ELSE IF /\ r[1] # <<>> /\ Fits(Last(r[1]), t)
                   /\ merge(Last(r[1]).kind, t.kind) # {}
                THEN <<Fuse(r[1], t), Tail(r[2])>>
                ELSE <<Append(r[1], t), Tail(r[2])>>
  IN Repeated(Take, <<<<>>, toks>>, Seq(Token) \X Seq(Token))[1]

merge_double_tokensApart(toks) == FuseAll(toks, LAMBDA x, y : TRUE)

\* From left to right, each token takes in what follows for as long as it can.
merge_double_tokens(toks) == FuseAll(toks, LAMBDA x, y : x.end = y.begin)

\* The text of a token, if the lexer's own buffer still holds it.
token_text(l, t) ==
  IF t.begin < l.base \/ t.end > l.base + Len(l.text) THEN <<>>
  ELSE SubSeq(l.text, t.begin - l.base + 1, t.end - l.base)

\* merge_identifier_boundary and merge_numeric_boundary: two words or two
\* numbers at the seam are one.  Both lists of tokens are left as a pair.
merge_boundary(l, r) ==
  LET x == Last(l.toks)
      y == Head(r.toks)
      kind == IF x.kind = "Identifier"
              THEN classify_identifier(token_text(l, x) \o token_text(r, y))
              ELSE x.kind
  IN IF /\ l.toks # <<>> /\ r.toks # <<>>
        /\ x.kind = y.kind /\ x.kind \in {"Identifier", "Numeric"}
        /\ x.end = y.begin
     THEN <<Append(Front(l.toks), Widened(x, kind, y)), Tail(r.toks)>>
     ELSE <<l.toks, r.toks>>

\* rhs as its text is read once its left neighbour is known: again from the
\* start, and without what it said before, if that one ended within a token.
ResumedKeepingErrors(l, r) ==
  IF l.state = "Normal" THEN r
  ELSE scan([r EXCEPT !.toks = <<>>, !.state = l.state,
                      !.start = l.start, !.base = l.offset, !.offset = l.offset])

ResumedFromItsStart(l, r) ==
  IF l.state = "Normal" THEN r
  ELSE scan([r EXCEPT !.toks = <<>>, !.diags = <<>>, !.state = l.state,
                      !.start = l.offset, !.base = l.offset, !.offset = l.offset])

Resumed(l, r) ==
  IF l.state = "Normal" THEN r
  ELSE scan([r EXCEPT !.toks = <<>>, !.diags = <<>>, !.state = l.state,
                      !.start = l.start, !.base = l.offset, !.offset = l.offset])

\* lhs << rhs.  Only the tokens of lhs are fused here, and those of rhs are
\* taken as they are.
Concatenated(l, r) ==
  With(Resumed(l, r), LAMBDA c :
    With(merge_boundary(l, c), LAMBDA toks :
      [l EXCEPT !.toks   = merge_double_tokens(toks[1]) \o toks[2],
                !.state  = c.state,
                !.offset = c.offset,
                !.diags  = @ \o c.diags,
                !.needs  = @ \ {"Merge"}]))

close_open_construct(l) ==
  LET Closed == [l EXCEPT !.state = "Normal"]
  IN CASE l.state \in StringState ->
            report(add_token(Closed, "String", l.start, l.offset),
                   "ErrorUnterminatedString", l.start)
       [] l.state = "BlockComment" -> report(Closed, "ErrorUnterminatedComment", l.start)
       [] OTHER -> Closed

finalize(l) ==
  With(IF "Scan" \in l.needs THEN scan(l) ELSE l, LAMBDA m :
    With(close_open_construct(
           IF "Merge" \in m.needs THEN [m EXCEPT !.toks = merge_double_tokens(@)] ELSE m),
         LAMBDA n : add_token(n, "Eof", n.offset, n.offset)))
-----------------------------------------------------------------------------
Base(lengths, i) == SumFunctionOnSet(lengths, 1 .. i - 1)

Init ==
  \E input \in Inputs :
    /\ source = input.text
    /\ lexers = [i \in DOMAIN input.lengths |->
                  LET base == Base(input.lengths, i)
                  IN Constructed(SubSeq(input.text, base + 1, base + input.lengths[i]), base)]
    /\ joined = 1
    /\ output = <<>>

Scanned(i) == lexers[i].result # "Go"

Scan(i) ==
  /\ ~Scanned(i)
  /\ \E l \in {scan(lexers[i])} : lexers' = [lexers EXCEPT ![i] = l]
  /\ UNCHANGED <<source, joined, output>>

concat ==
  /\ joined < Len(lexers)
  /\ Scanned(1) /\ Scanned(joined + 1)
  /\ \E l \in {Concatenated(lexers[1], lexers[joined + 1])} :
       lexers' = [lexers EXCEPT ![1] = l]
  /\ joined' = joined + 1
  /\ UNCHANGED <<source, output>>

Finalize ==
  /\ output = <<>>
  /\ joined = Len(lexers)
  /\ Scanned(1)
  /\ output' = <<finalize(lexers[1])>>
  /\ UNCHANGED <<source, lexers, joined>>

Next == (\E i \in DOMAIN lexers : Scan(i)) \/ concat \/ Finalize

Spec == Init /\ [][Next]_vars
=============================================================================
