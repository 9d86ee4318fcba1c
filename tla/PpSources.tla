----------------------------- MODULE PpSources ------------------------------
(***************************************************************************)
(* PpSources: where the C preprocessor finds the spelling of a token.  The *)
(* main file, every header and every token made by # or ## is a buffer,    *)
(* and the buffers lie end to end in one space of offsets.  A range of     *)
(* offsets is looked up by the buffer its beginning is in, which find      *)
(* searches by bisection.                                                  *)
(*                                                                         *)
(* Ranges are those of one token (spelling) or run from the first to the   *)
(* last of several: a header name (read_header_name) or the message of     *)
(* #error.  Macro parameters can put the tokens of a computed header name  *)
(* in any order, from any buffers.                                         *)
(***************************************************************************)
EXTENDS Integers, Sequences

CONSTANTS
  Chars,        \* the characters
  Texts,        \* what buffers may hold, sequences of them
  SizeMod,      \* 2^64: offsets are computed modulo this
  MaxTokens     \* bound on the tokens of a line

VARIABLES
  entries,      \* _entries: the text of each buffer and its base
  next,         \* _next
  pc,           \* "idle", "find" while the loop of find() runs, "done"
  line,         \* the tokens looked up
  lo, hi,       \* find()'s locals, counted from 1
  answer        \* what text() returned last

vars == <<entries, next, pc, line, lo, hi, answer>>

\* std::size_t.
Minus(a, b) == IF a >= b THEN a - b ELSE a - b + SizeMod
Plus(a, b) == IF a + b < SizeMod THEN a + b ELSE a + b - SizeMod

Entry(text, base) == [text |-> text, base |-> base]

\* The offset behind an entry, which no token has.
Past(e) == e.base + Len(e.text)

\* The ranges within a buffer that can be a token's.
RangesOf(e) ==
  {r \in [begin : e.base .. Past(e), end : e.base .. Past(e)] : r.begin < r.end}

Ranges == UNION {RangesOf(entries[i]) : i \in DOMAIN entries}

\* A buffer was cut into tokens once: two of them are the same or apart.
Apart(r, s) == r = s \/ r.end <= s.begin \/ s.end <= r.begin

SourcesAssumption ==
  Texts \subseteq Seq(Chars) /\ SizeMod \in Nat /\ MaxTokens \in Nat

Begin == line[1].begin
End == line[Len(line)].end
-----------------------------------------------------------------------------
Init ==
  /\ \E main \in Texts : /\ Len(main) + 1 < SizeMod
                         /\ entries = <<Entry(main, 0)>>
                         /\ next = Len(main) + 1
  /\ pc = "idle"
  /\ line = <<>> /\ lo = 1 /\ hi = 1 /\ answer = <<>>

\* add(): a header, a string or a pasted token.
add ==
  /\ pc # "find"
  /\ \E text \in Texts :
       /\ next + Len(text) + 1 < SizeMod
       /\ entries' = Append(entries, Entry(text, next))
       /\ next' = next + Len(text) + 1
  /\ UNCHANGED <<pc, line, lo, hi, answer>>

\* text() is called on the tokens of a line, and calls find().
Ask ==
  /\ pc # "find"
  /\ \E n \in 1 .. MaxTokens : \E l \in [1 .. n -> Ranges] :
       /\ \A i, j \in 1 .. n : Apart(l[i], l[j])
       /\ line' = l
  /\ pc' = "find"
  /\ lo' = 1 /\ hi' = Len(entries) + 1
  /\ UNCHANGED <<entries, next, answer>>

\* One round of the loop in find().
Halve ==
  /\ pc = "find" /\ hi - lo > 1
  /\ LET mid == lo + (hi - lo) \div 2
     IN IF entries[mid].base <= Begin
          THEN lo' = mid /\ hi' = hi
          ELSE hi' = mid /\ lo' = lo
  /\ UNCHANGED <<entries, next, pc, line, answer>>

\* The rest of text().  substr stops at the end of its string.
Text(e, begin, end) ==
  LET from == Minus(begin, e.base)
      len == Minus(end, begin)
      size == Len(e.text)
  IN IF Plus(from, len) > size THEN <<>>
     ELSE SubSeq(e.text, from + 1, IF from + len <= size THEN from + len ELSE size)

Answer ==
  /\ pc = "find" /\ hi - lo <= 1
  /\ answer' = Text(entries[lo], Begin, End)
  /\ pc' = "done"
  /\ UNCHANGED <<entries, next, line, lo, hi>>

Next == add \/ Ask \/ Halve \/ Answer

Spec == Init /\ [][Next]_vars /\ WF_vars(Halve \/ Answer)
-----------------------------------------------------------------------------
TypeOK ==
  /\ entries \in Seq([text : Texts, base : Nat]) /\ entries # <<>>
  /\ next \in Nat
  /\ pc \in {"idle", "find", "done"}
  /\ pc # "idle" => line \in Seq(Ranges) /\ line # <<>>
  /\ lo \in Nat /\ hi \in Nat
  /\ answer \in Seq(Chars)

\* Buffers do not overlap, not even in the offset behind each one, and no
\* offset wraps.
BasesIncrease ==
  /\ entries[1].base = 0
  /\ \A i, j \in DOMAIN entries : i < j => Past(entries[i]) < entries[j].base
  /\ \A i \in DOMAIN entries : Past(entries[i]) < next
  /\ next < SizeMod

\* "Bases increase, so the owner is the last entry at or below offset"
\* (Preprocessor.hpp:99): the search always has the owner between its two
\* ends, whatever buffers there are.
OwnerIsBetween ==
  pc = "find" =>
    /\ 1 <= lo /\ lo < hi /\ hi <= Len(entries) + 1
    /\ entries[lo].base <= Begin
    /\ hi <= Len(entries) => Begin < entries[hi].base

\* The characters of a range within an entry.
Spelled(e, r) == SubSeq(e.text, r.begin - e.base + 1, r.end - e.base)

\* A token's text is that of its range in the buffer it is from, however many
\* buffers have been added since (CPreprocessor::spelling), and so is that
\* of a range from a token to a later one in the same buffer (handle_message).
RangesHaveTheirText ==
  pc = "done" =>
    \A i \in DOMAIN entries :
      [begin |-> Begin, end |-> End] \in RangesOf(entries[i])
        => answer = Spelled(entries[i], [begin |-> Begin, end |-> End])

\* A range from one buffer into another has no text: the length wraps, or
\* leaves the buffer, and never selects characters of a third.
NoTextOverBuffers ==
  pc = "done" =>
    \A i \in DOMAIN entries :
      (line[1] \in RangesOf(entries[i]) /\ line[Len(line)] \notin RangesOf(entries[i]))
        => answer = <<>>
=============================================================================
