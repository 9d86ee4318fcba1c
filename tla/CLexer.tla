------------------------------- MODULE CLexer -------------------------------
(***************************************************************************)
(* A C source cut into chunks: each is scanned by a lexer of its own, in   *)
(* any order, and the lexers are concatenated from the left.  What the cut *)
(* broke is repaired at the seam.                                          *)
(***************************************************************************)
EXTENDS CScan

CONSTANT Inputs   \* sources, each with the lengths of its chunks

VARIABLES
  source,
  chunks,   \* [text, base] of each chunk
  lexers,   \* what each lexer holds; <<>> before its scan
  joined,   \* how many chunks the first lexer has taken in
  output    \* the tokens of finalize

vars == <<source, chunks, lexers, joined, output>>

NotClosed == -1

\* The close of a literal in rhs, as an absolute offset; dangling says that
\* its first character is escaped.
scan_in_rhs(rhs, quote, dangling) ==
  LET from[i \in Nat] ==
        CASE i > Len(rhs.text) \/ rhs.text[i] \in LineFeed -> NotClosed
          [] i <= Len(rhs.text) /\ rhs.text[i] = quote -> rhs.base + i
          [] OTHER -> from[IF rhs.text[i] = "bs" THEN i + 2 ELSE i + 1]
  IN from[IF dangling THEN 2 ELSE 1]

FirstOf(indices, rhs, behind) ==
  IF indices = {} THEN NotClosed ELSE rhs.base + Min(indices) - 1 + behind

scan_line_end_in_rhs(rhs) ==
  FirstOf({i \in DOMAIN rhs.text : rhs.text[i] \in LineFeed}, rhs, 0)

\* The star may be the last character of the chunk that lhs began with.
scan_comment_end_in_rhs(lhs, rhs, frag_begin) ==
  IF /\ rhs.text # <<>> /\ Head(rhs.text) = "/"
     /\ lhs.text # <<>> /\ Last(lhs.text) = "*"
     /\ rhs.base >= frag_begin + 3
  THEN rhs.base + 1
  ELSE FirstOf({i \in 1 .. Len(rhs.text) - 1 : /\ rhs.text[i] = "*"
                                               /\ rhs.text[i + 1] = "/"}, rhs, 2)

\* A slash at the seam may open a comment that goes on in rhs.
handle_split_cmt_opener(toks, rhs) ==
  LET i == Unspliced(rhs, 1)
      opens == [c \in {"*", "/"} |-> IF c = "*" THEN "BlockCommentOpen"
                                     ELSE "LineCommentOpen"]
  IN IF /\ toks # <<>> /\ Last(toks).kind = "/" /\ Last(toks).end = rhs.base
        /\ i # 0 /\ rhs.text[i] \in DOMAIN opens
     THEN [toks EXCEPT ![Len(toks)].kind = opens[rhs.text[i]]]
     ELSE toks

Closing == [StringOpen |-> "String", CharOpen |-> "CharLiteral",
            BlockCommentOpen |-> "", LineCommentOpen |-> ""]

close_end(open, lhs, rhs) ==
  LET dangling == "DanglingEscape" \in open.flags
  IN CASE open.kind = "BlockCommentOpen" ->
            scan_comment_end_in_rhs(lhs, rhs, open.begin)
       [] open.kind = "LineCommentOpen"  -> scan_line_end_in_rhs(rhs)
       [] open.kind = "StringOpen"       -> scan_in_rhs(rhs, "dq", dangling)
       [] open.kind = "CharOpen"         -> scan_in_rhs(rhs, "sq", dangling)

\* What lhs holds when its last token is open: the rest of rhs, scanned anew
\* from where that token closes, or nothing where it does not.
repairKeepingRhs(toks, diags, lhs, rhs, scanned) ==
  LET open  == Last(toks)
      close == close_end(open, lhs, rhs)
      whole == IF Closing[open.kind] = "" THEN Front(toks)
               ELSE Append(Front(toks), [open EXCEPT !.kind = Closing[open.kind],
                                                     !.end = close])
      end   == rhs.base + Len(rhs.text)
  IN IF close = NotClosed
     THEN [toks  |-> Append(Front(toks), [open EXCEPT !.end = end])
                       \o <<[kind |-> "Eob", begin |-> end, end |-> end, flags |-> {}]>>,
           diags |-> diags]
     ELSE [toks  |-> whole \o SelectSeq(scanned.toks, LAMBDA t : t.begin >= close),
           diags |-> diags \cup scanned.diags]

repair(toks, diags, lhs, rhs, scanned) ==
  LET open  == Last(toks)
      close == close_end(open, lhs, rhs)
      whole == IF Closing[open.kind] = "" THEN Front(toks)
               ELSE Append(Front(toks), [open EXCEPT !.kind = Closing[open.kind],
                                                     !.end = close])
      end   == rhs.base + Len(rhs.text)
  IN IF close = NotClosed
     THEN [toks  |-> Append(Front(toks), [open EXCEPT !.end = end])
                       \o <<[kind |-> "Eob", begin |-> end, end |-> end, flags |-> {}]>>,
           diags |-> diags]
     ELSE With(scan([text |-> SubSeq(rhs.text, close - rhs.base + 1, Len(rhs.text)),
                     base |-> close]),
               LAMBDA tail : [toks  |-> whole \o tail.toks,
                              diags |-> diags \cup tail.diags])

\* concat, for a lexer that began with chunk lhs and one that scanned rhs.
concatWith(held, scanned, lhs, rhs) ==
  With(handle_split_cmt_opener(
         IF held.toks # <<>> /\ Last(held.toks).kind = "Eob"
         THEN Front(held.toks) ELSE held.toks, rhs),
       LAMBDA toks :
         With(IF toks # <<>> /\ Last(toks).kind \in DOMAIN Closing
              THEN repair(toks, held.diags, lhs, rhs, scanned)
              ELSE [toks  |-> toks \o scanned.toks,
                    diags |-> held.diags \cup scanned.diags],
              LAMBDA r : [r EXCEPT !.toks = merge_double_tokens(@)]))

\* What is still open at the end was never closed.
Unclosed == [StringOpen |-> "ErrorUnterminatedString",
             CharOpen   |-> "ErrorUnterminatedChar",
             BlockCommentOpen |-> "ErrorUnterminatedComment"]
Finally == (".." :> "Dummy") @@ ("StringOpen" :> "String") @@ ("CharOpen" :> "CharLiteral")

finalizeDroppingFirst(held) ==
  LET kept == SelectSeq(held.toks, LAMBDA t :
                t.kind \notin {"BlockCommentOpen", "LineCommentOpen"})
      errors == (".." :> "ErrorInvalidCharacter") @@ Unclosed
  IN [toks  |-> [i \in DOMAIN kept |->
                  IF kept[i].kind \in DOMAIN Finally
                  THEN [kept[i] EXCEPT !.kind = Finally[@]] ELSE kept[i]],
      diags |-> held.diags \cup
                {[kind |-> errors[t.kind], at |-> t.begin] :
                   t \in {u \in ToSet(kept) : u.kind \in DOMAIN errors}}]

finalize(held) ==
  LET kept == SelectSeq(held.toks, LAMBDA t :
                t.kind \notin {"BlockCommentOpen", "LineCommentOpen"})
      errors == (".." :> "ErrorInvalidCharacter") @@ Unclosed
  IN [toks  |-> [i \in DOMAIN kept |->
                  IF kept[i].kind \in DOMAIN Finally
                  THEN [kept[i] EXCEPT !.kind = Finally[@]] ELSE kept[i]],
      diags |-> held.diags \cup
                {[kind |-> errors[t.kind], at |-> t.begin] :
                   t \in {u \in ToSet(held.toks) : u.kind \in DOMAIN errors}}]
-----------------------------------------------------------------------------
Chunks(text, lengths) ==
  LET base[i \in 1 .. Len(lengths) + 1] ==
        IF i = 1 THEN 0 ELSE base[i - 1] + lengths[i - 1]
  IN [i \in DOMAIN lengths |->
       [base |-> base[i], text |-> SubSeq(text, base[i] + 1, base[i + 1])]]

Init ==
  \E input \in Inputs :
    /\ source = input.text
    /\ chunks = Chunks(input.text, input.lengths)
    /\ lexers = [i \in DOMAIN input.lengths |-> <<>>]
    /\ joined = 1
    /\ output = <<>>

Scan(i) ==
  /\ lexers[i] = <<>>
  /\ \E s \in {scan(chunks[i])} :
       lexers' = [lexers EXCEPT ![i] = <<[toks |-> s.toks, diags |-> s.diags]>>]
  /\ UNCHANGED <<source, chunks, joined, output>>

concat ==
  /\ joined < Len(chunks)
  /\ lexers[1] # <<>>
  /\ lexers[joined + 1] # <<>>
  /\ \E r \in {concatWith(lexers[1][1], lexers[joined + 1][1],
                          chunks[1], chunks[joined + 1])} :
       lexers' = [lexers EXCEPT ![1] = <<r>>]
  /\ joined' = joined + 1
  /\ UNCHANGED <<source, chunks, output>>

Finalize ==
  /\ output = <<>>
  /\ joined = Len(chunks)
  /\ lexers[1] # <<>>
  /\ output' = <<finalize(lexers[1][1])>>
  /\ UNCHANGED <<source, chunks, lexers, joined>>

Next == (\E i \in DOMAIN chunks : Scan(i)) \/ concat \/ Finalize

Spec == Init /\ [][Next]_vars
=============================================================================
