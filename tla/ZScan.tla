-------------------------------- MODULE ZScan --------------------------------
(***************************************************************************)
(* ZLexer::scan: what one lexer makes of the rest of its buffer, beginning *)
(* in whatever state it was left in.                                       *)
(*                                                                         *)
(* A lexer is a record of its members: text and base are _buffer and       *)
(* _start_offset, offset the cursor, an offset into the whole source.  A   *)
(* character is a string; "lf" and "cr" are line ends, "dq" and "sq" the   *)
(* quotes, "bs" a backslash.  The kind of a punctuator is its spelling.    *)
(* A scan leaves its ScanResult in the field result, which is "Go" as long *)
(* as it goes on.                                                          *)
(***************************************************************************)
EXTENDS Integers, SequencesExt, TLC, Once

CONSTANTS
  Alpha,      \* letters and _
  Digit, HexDigit, OctDigit, BinDigit,
  Escapable,  \* what is_valid_escape accepts
  Punctuation,
  Keywords    \* from the spellings of keywords to their kinds

LineFeed == {"lf", "cr"}

StringState == {"SQString", "DQString"}
RadixState == {"HexNumber", "OctNumber", "BinNumber"}
NumberState == RadixState \cup {"ZeroStart", "Number", "FloatNumber", "ScientificNumber"}

Token == [kind : STRING, begin : Nat, end : Nat, flags : SUBSET STRING]
Lexer ==
  [text : Seq(STRING), base : Nat, offset : Nat,
   state : {"Normal", "LineComment", "BlockComment", "Identifier"} \cup StringState \cup NumberState,
   start : Nat, toks : Seq(Token), diags : Seq([kind : STRING, at : Nat]),
   pending : SUBSET STRING, needs : SUBSET {"Scan", "Merge"},
   result : {"Go", "Scanned", "Incomplete", "EndOfInput", "Error"}]

Constructed(text, base) ==
  [text |-> text, base |-> base, offset |-> base, state |-> "Normal", start |-> 0,
   toks |-> <<>>, diags |-> <<>>,
   pending |-> IF base = 0 THEN {"AtLineStart"} ELSE {},
   needs |-> {"Scan", "Merge"}, result |-> "Go"]
-----------------------------------------------------------------------------
\* peek(n), or "none" for a nullptr.
peek(l, n) ==
  LET i == l.offset - l.base + 1 + n
  IN IF i <= Len(l.text) THEN l.text[i] ELSE "none"

eob(l) == l.offset >= l.base + Len(l.text)

advance(l, n) ==
  LET end == l.base + Len(l.text)
  IN [l EXCEPT !.offset = IF @ + n >= end THEN end ELSE @ + n]

add_token(l, kind, begin, end) ==
  [l EXCEPT !.toks = Append(@, [kind  |-> kind, begin |-> begin, end |-> end,
                                flags |-> l.pending]),
            !.pending = {}]

report(l, kind, at) == [l EXCEPT !.diags = Append(@, [kind |-> kind, at |-> at])]

\* A token whose construct is complete.
Complete(l, kind, begin) ==
  [add_token(l, kind, begin, l.offset) EXCEPT !.state = "Normal"]

AdvanceWhile(l, Goes(_)) ==
  Repeated(LAMBDA m : IF ~eob(m) /\ Goes(m) THEN advance(m, 1) ELSE m, l, Lexer)
-----------------------------------------------------------------------------
\* A word is looked up as it stands in this buffer.
classify_identifier(word) == IF word \in DOMAIN Keywords THEN Keywords[word] ELSE "Identifier"

continue_identifier(l) ==
  With(AdvanceWhile(l, LAMBDA m : peek(m, 0) \in Alpha \cup Digit), LAMBDA m :
    IF m.offset = l.offset THEN [m EXCEPT !.state = "Normal"]
    ELSE Complete(m, classify_identifier(SubSeq(l.text, l.offset - l.base + 1,
                                                m.offset - l.base)), l.offset))

\* A star whose slash is in the next buffer does not close the comment.
AtBlockEnd(l) == peek(l, 0) = "*" /\ peek(l, 1) = "/"

continue_block_comment(l) ==
  With(AdvanceWhile(l, LAMBDA m : ~AtBlockEnd(m)), LAMBDA m :
    IF AtBlockEnd(m) THEN [advance(m, 2) EXCEPT !.state = "Normal"]
    ELSE [m EXCEPT !.state = "BlockComment", !.result = "Incomplete"])

\* Behind a backslash any character is passed over.
continue_string(l) ==
  LET quote == IF l.state = "SQString" THEN "sq" ELSE "dq"
      Pass(m) ==
        CASE peek(m, 0) \in {"none", quote} -> m
          [] peek(m, 0) # "bs" \/ peek(m, 1) = "none" -> advance(m, 1)
          [] peek(m, 0) = "bs" /\ peek(m, 1) \in Escapable -> advance(m, 2)
          [] OTHER -> advance(report(m, "ErrorInvalidEscapeSequence", m.offset), 2)
  IN With(Repeated(Pass, l, Lexer), LAMBDA m :
       IF eob(m) THEN [m EXCEPT !.result = "Incomplete"]
       ELSE Complete(advance(m, 1), "String", l.start))

\* The state that a character takes a number on to.
Continuations(state) ==
  CASE state = "ZeroStart" ->
         ("x" :> "HexNumber") @@ ("o" :> "OctNumber") @@ ("b" :> "BinNumber")
           @@ ("." :> "FloatNumber") @@ [c \in Digit |-> "Number"]
    [] state = "HexNumber" -> [c \in HexDigit |-> "HexNumber"]
    [] state = "OctNumber" -> [c \in OctDigit |-> "OctNumber"]
    [] state = "BinNumber" -> [c \in BinDigit |-> "BinNumber"]
    [] state = "Number" -> ("." :> "FloatNumber") @@ ("e" :> "ScientificNumber")
                             @@ [c \in Digit |-> "Number"]
    [] state = "FloatNumber" -> ("e" :> "ScientificNumber") @@ [c \in Digit |-> "FloatNumber"]
    [] state = "ScientificNumber" -> [c \in Digit \cup {"+", "-"} |-> "ScientificNumber"]

\* The characters behind which a number must not end with its buffer.
Unfinished(state) ==
  CASE state = "ZeroStart" -> {"x", "o", "b", "."}
    [] state = "Number" -> {".", "e"}
    [] state = "ScientificNumber" -> {"+", "-"}
    [] OTHER -> {}

\* A number with a radix that ends at a blank leaves no token, and any other
\* character than a blank is an error where it should end.
EndNumber(l) ==
  CASE l.state \notin RadixState \/ eob(l) -> Complete(l, "Numeric", l.start)
    [] l.state \in RadixState /\ peek(l, 0) \in LineFeed \cup {" "} -> [l EXCEPT !.state = "Normal"]
    [] OTHER -> [report(l, "ErrorInvalidCharacter", l.start) EXCEPT !.result = "Error"]

continue_number(l) ==
  LET Step(m) ==
        With(advance([m EXCEPT !.state = Continuations(m.state)[peek(m, 0)]], 1), LAMBDA n :
          IF eob(n) /\ peek(m, 0) \in Unfinished(m.state)
          THEN [report(n, "ErrorIncompleteNumber", n.start) EXCEPT !.result = "Incomplete"]
          ELSE n)
  IN With(Repeated(LAMBDA m : IF m.result = "Go" /\ peek(m, 0) \in DOMAIN Continuations(m.state)
                              THEN Step(m) ELSE m, l, Lexer),
          LAMBDA m : IF m.result = "Go" THEN EndNumber(m) ELSE m)

newline_count(l) == IF peek(l, 0) = "cr" /\ peek(l, 1) = "lf" THEN 2 ELSE 1

\* No scan leaves a buffer in the state this goes on from: see scan_line_comment.
continue_line_comment(l) ==
  With(AdvanceWhile(l, LAMBDA m : peek(m, 0) \notin LineFeed), LAMBDA m :
    [advance(m, newline_count(m)) EXCEPT !.state = "Normal"])

scan_fix(l, start) ==
  With([l EXCEPT !.start = start], LAMBDA m :
    CASE m.state = "LineComment"  -> continue_line_comment(m)
      [] m.state = "BlockComment" -> continue_block_comment(m)
      [] m.state \in StringState  -> continue_string(m)
      [] m.state = "Identifier"   -> continue_identifier(m)
      [] m.state \in NumberState  -> continue_number(m)
      [] OTHER -> m)
-----------------------------------------------------------------------------
scan_whitespace_or_newline(l) ==
  IF peek(l, 0) = " " THEN advance([l EXCEPT !.pending = @ \cup {"WhiteSpaceBefore"}], 1)
  ELSE advance([l EXCEPT !.pending = @ \cup {"AtLineStart", "WhiteSpaceBefore"}],
               newline_count(l))

\* It ends with its buffer, whatever the next one begins with.
scan_line_comment(l) == AdvanceWhile(l, LAMBDA m : peek(m, 0) \notin LineFeed)

scan_block_comment(l, start) ==
  continue_block_comment([l EXCEPT !.start = start])

skip_trivial(l) ==
  LET Opens(m, c) == peek(m, 0) = "/" /\ peek(m, 1) = c
      Skip(m) ==
        CASE m.result # "Go" -> m
          [] peek(m, 0) \in LineFeed \cup {" "} -> scan_whitespace_or_newline(m)
          [] Opens(m, "/") -> scan_line_comment(advance(m, 2))
          [] Opens(m, "*") -> scan_block_comment(advance(m, 2), m.offset)
          [] OTHER -> m
  IN With(Repeated(Skip, l, Lexer), LAMBDA m :
       IF m.result = "Go" /\ eob(m) THEN [m EXCEPT !.result = "EndOfInput"] ELSE m)

\* One token, where no trivia is left in front of it.
ScanToken(l) ==
  LET c == peek(l, 0)
      Enter(state, n) == scan_fix(advance([l EXCEPT !.state = state], n), l.offset)
  IN CASE c = "sq" -> Enter("SQString", 1)
       [] c = "dq" -> Enter("DQString", 1)
       [] c = "0"  -> Enter("ZeroStart", 1)
       [] c \in Digit \ {"0"} -> Enter("Number", 1)
       [] c \in Alpha -> Enter("Identifier", 0)
       [] c = "." /\ peek(l, 1) \in Digit -> Enter("FloatNumber", 1)
       [] c \in Punctuation /\ ~(c = "." /\ peek(l, 1) \in Digit) ->
            advance(add_token(l, c, l.offset, l.offset + 1), 1)
       [] OTHER -> advance(report(add_token(l, "Dummy", l.offset, l.offset + 1),
                                  "ErrorInvalidCharacter", l.offset), 1)

\* A construct that the previous buffer left open goes on first.
scan_impl(l) ==
  LET Step(m) ==
        IF m.result # "Go" THEN m
        ELSE IF eob(m) THEN [m EXCEPT !.result = "Scanned"]
        ELSE With(skip_trivial(m), LAMBDA n : IF n.result = "Go" THEN ScanToken(n) ELSE n)
  IN IF eob(l) THEN [l EXCEPT !.result = "EndOfInput"]
     ELSE Repeated(Step, scan_fix(l, l.start), Lexer)

scan(l) ==
  With(scan_impl([l EXCEPT !.result = "Go"]), LAMBDA m :
    [m EXCEPT !.needs = @ \ IF /\ m.result \in {"Scanned", "EndOfInput"}
                               /\ m.state = "Normal"
                            THEN {"Scan"} ELSE {}])
=============================================================================
