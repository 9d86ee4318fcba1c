----------------------------- MODULE CCondition -----------------------------
(***************************************************************************)
(* The condition of a #if or #elif line of the C preprocessor: defined is  *)
(* answered, macros are expanded, and CondEval parses and evaluates what   *)
(* is left in one pass, in words of IntWidth bits.                         *)
(*                                                                         *)
(* A term is [kind, text]: a punctuator is a kind of its own; a number, a  *)
(* name or a character literal has its characters as text.                 *)
(***************************************************************************)
EXTENDS Integers, SequencesExt, Bitwise, Once

CONSTANTS
  IntWidth,   \* the bits of uintmax_t
  CharWidth,  \* the bits of a char
  Code,       \* the value of each character that a literal may hold
  Escapes,    \* and of each that may stand behind a backslash
  Lines,      \* what can stand behind #if
  Macros      \* from the names that are defined to what they expand to

VARIABLES
  line,       \* the tokens behind #if
  terms,      \* and what eval_condition has made of them
  stage,      \* what it does next
  reports,    \* the keywords of the directives it reported
  value       \* what it returned

vars == <<line, terms, stage, reports, value>>

Word == 2 ^ IntWidth
Sign == 2 ^ (IntWidth - 1)

\* A Value, and the signed reading of its bits.
Value(bits, is_unsigned) == [bits |-> bits % Word, is_unsigned |-> is_unsigned]
Signed(x) == IF x >= Sign THEN x - Word ELSE x
make_bool(b) == Value(IF b THEN 1 ELSE 0, FALSE)
Zero == Value(0, FALSE)

\* true and false lie between the first and the last keyword.
is_name(t) == t.kind \in {"Identifier", "Keyword", "True", "False"}
-----------------------------------------------------------------------------
Hexadecimal == <<"0", "1", "2", "3", "4", "5", "6", "7", "8", "9",
                 "a", "b", "c", "d", "e", "f">>

digit_value(c) ==
  IF Contains(Hexadecimal, c)
  THEN (CHOOSE i \in DOMAIN Hexadecimal : Hexadecimal[i] = c) - 1 ELSE -1

\* The characters of s from i on that are digits of the base.
DigitsFrom(s, i, base) ==
  LET stops == {j \in i .. Len(s) : digit_value(s[j]) \notin 0 .. base - 1}
  IN SubSeq(s, i, (IF stops = {} THEN Len(s) + 1 ELSE Min(stops)) - 1)

Bits(digits, base) ==
  LET bits[n \in 0 .. Len(digits)] ==
        IF n = 0 THEN 0 ELSE (bits[n - 1] * base + digit_value(digits[n])) % Word
  IN bits[Len(digits)]

\* What an evaluation left: the cursor, _ok and the value.
Left(s, v) == [s EXCEPT !.v = v]
Broken(s, v) == [s EXCEPT !.ok = FALSE, !.v = v]

\* An integer suffix: one u and up to two l, wherever they stand.
IntegerSuffix(s) ==
  LET Times(c) == Cardinality({i \in DOMAIN s : s[i] = c})
  IN ToSet(s) \subseteq {"u", "l"} /\ Times("u") <= 1 /\ Times("l") <= 2

number_value(s, text) ==
  LET Prefix(c) == Len(text) > 1 /\ text[1] = "0" /\ text[2] = c
      base   == CASE Prefix("x") -> 16
                  [] Prefix("b") -> 2
                  [] OTHER -> IF Len(text) > 1 /\ text[1] = "0" THEN 8 ELSE 10
      first  == IF base \in {2, 16} THEN 3 ELSE 1
      digits == DigitsFrom(text, first, base)
      suffix == SubSeq(text, first + Len(digits), Len(text))
      read   == Max({n \in 0 .. Len(suffix) : IntegerSuffix(SubSeq(suffix, 1, n))})
      bits   == Bits(digits, base)
      v      == Value(bits, Contains(SubSeq(suffix, 1, read), "u") \/ bits >= Sign)
  IN CASE digits = <<>> -> Broken(s, Zero)
       [] digits # <<>> /\ read < Len(suffix) -> Broken(s, v)
       [] digits # <<>> /\ read = Len(suffix) -> Left(s, v)

\* The codes of a literal's characters; "bs" is the backslash.
Characters(text) ==
  LET octal(i) == LET d == DigitsFrom(text, i, 8)
                  IN SubSeq(d, 1, Min({3, Len(d)}))
      And1(ok, c, rest) == [ok |-> ok /\ rest.ok, codes |-> <<c>> \o rest.codes]
      char[i \in 1 .. Len(text) + 1] ==
        CASE i > Len(text) -> [ok |-> TRUE, codes |-> <<>>]
          [] i <= Len(text) /\ text[i] # "bs" -> And1(TRUE, Code[text[i]], char[i + 1])
          [] i = Len(text) /\ text[i] = "bs" -> [ok |-> FALSE, codes |-> <<>>]
          [] i < Len(text) /\ text[i] = "bs" ->
               IF text[i + 1] = "x"
               THEN LET d == DigitsFrom(text, i + 2, 16)
                    IN And1(d # <<>>, Bits(d, 16), char[i + 2 + Len(d)])
               ELSE IF octal(i + 1) # <<>>
               THEN And1(TRUE, Bits(octal(i + 1), 8), char[i + 1 + Len(octal(i + 1))])
               ELSE IF text[i + 1] \in DOMAIN Escapes
               THEN And1(TRUE, Escapes[text[i + 1]], char[i + 2])
               ELSE And1(FALSE, Code[text[i + 1]], char[i + 2])
  IN char[1]

\* text is what the quotes hold.  One character has the value of a signed char.
char_value(s, text) ==
  LET read == Characters(text)
      char == 2 ^ CharWidth
      bits == FoldLeft(LAMBDA v, c : (v * char + (c % char)) % Word, 0, read.codes)
      one  == IF bits >= char \div 2 THEN bits - char ELSE bits
      v    == Value(IF Len(read.codes) = 1 THEN one ELSE bits, FALSE)
  IN IF read.ok /\ read.codes # <<>> THEN Left(s, v) ELSE Broken(s, v)
-----------------------------------------------------------------------------
precedence(kind) ==
  CASE kind = "|" -> 1
    [] kind = "^" -> 2
    [] kind = "&" -> 3
    [] kind \in {"==", "!="} -> 4
    [] kind \in {"<", ">", "<=", ">="} -> 5
    [] kind \in {"<<", ">>"} -> 6
    [] kind \in {"+", "-"} -> 7
    [] kind \in {"*", "/", "%"} -> 8
    [] OTHER -> 0

\* C's division rounds towards zero.
Quotient(x, y) ==
  LET Abs(n) == IF n < 0 THEN -n ELSE n
      q == Abs(x) \div Abs(y)
  IN IF (x < 0) = (y < 0) THEN q ELSE -q

shift_rightLogical(a, n) ==
  Value(IF n >= IntWidth THEN 0 ELSE a.bits \div 2 ^ n, a.is_unsigned)

shift_right(a, n) ==
  LET x == IF a.is_unsigned THEN a.bits ELSE Signed(a.bits)
  IN Value(IF n >= IntWidth THEN (IF x < 0 THEN -1 ELSE 0) ELSE x \div 2 ^ n,
           a.is_unsigned)

Divide(op, a, b) ==
  LET u == a.is_unsigned \/ b.is_unsigned
      x == IF u THEN a.bits ELSE Signed(a.bits)
      y == IF u THEN b.bits ELSE Signed(b.bits)
  IN CASE y = 0 -> Value(0, u)
       [] y # 0 /\ op = "/" -> Value(Quotient(x, y), u)
       [] y # 0 /\ op = "%" -> Value(x - y * Quotient(x, y), u)

apply(op, a, b) ==
  LET u == a.is_unsigned \/ b.is_unsigned
      x == a.bits
      y == b.bits
      l == IF u THEN x ELSE Signed(x)
      r == IF u THEN y ELSE Signed(y)
  IN CASE op = "|"  -> Value(x | y, u)
       [] op = "^"  -> Value(x ^^ y, u)
       [] op = "&"  -> Value(x & y, u)
       [] op = "==" -> make_bool(x = y)
       [] op = "!=" -> make_bool(x # y)
       [] op = "<"  -> make_bool(l < r)
       [] op = ">"  -> make_bool(l > r)
       [] op = "<=" -> make_bool(l <= r)
       [] op = ">=" -> make_bool(l >= r)
       [] op = "<<" -> Value(IF y >= IntWidth THEN 0 ELSE x * 2 ^ y, a.is_unsigned)
       [] op = ">>" -> shift_right(a, y)
       [] op = "+"  -> Value(x + y, u)
       [] op = "-"  -> Value(x - y, u)
       [] op = "*"  -> Value(x * y, u)
       [] op \in {"/", "%"} -> Divide(op, a, b)
-----------------------------------------------------------------------------
\* The methods of CondEval: s is what the one before left, live is _live, and
\* eval[m, n, live, s] is what method m leaves, n being its min_prec.
peek(s) == IF s.pos <= Len(terms) THEN terms[s.pos].kind ELSE "Eof"
Eat(s) == [s EXCEPT !.pos = @ + 1]

conditional(eval, live, s) ==
  With(eval["logical_or", 0, live, s], LAMBDA c :
    IF peek(c) # "?" THEN c
    ELSE LET taken == c.v.bits # 0 IN
      With(eval["conditional", 0, live /\ taken, Eat(c)], LAMBDA a :
        IF peek(a) # ":" THEN Broken(a, Zero)
        ELSE With(eval["conditional", 0, live /\ ~taken, Eat(a)], LAMBDA b :
               Left(b, Value(IF taken THEN a.v.bits ELSE b.v.bits,
                             a.v.is_unsigned \/ b.v.is_unsigned)))))

\* The loops of logical_or and logical_and, behind an operand.
or_loop(eval, live, s) ==
  IF peek(s) # "||" THEN s
  ELSE With(eval["logical_and", 0, live /\ s.v.bits = 0, Eat(s)], LAMBDA r :
         eval["or_loop", 0, live,
              Left(r, make_bool(s.v.bits # 0 \/ r.v.bits # 0))])

and_loopEager(eval, live, s) ==
  IF peek(s) # "&&" THEN s
  ELSE With(eval["binary", 1, live, Eat(s)], LAMBDA r :
         eval["and_loop", 0, live,
              Left(r, make_bool(s.v.bits # 0 /\ r.v.bits # 0))])

and_loop(eval, live, s) ==
  IF peek(s) # "&&" THEN s
  ELSE With(eval["binary", 1, live /\ s.v.bits # 0, Eat(s)], LAMBDA r :
         eval["and_loop", 0, live,
              Left(r, make_bool(s.v.bits # 0 /\ r.v.bits # 0))])

\* The loop of binary; an operand that decides nothing may divide by zero.
binary_loop(eval, min_prec, live, s) ==
  LET op == peek(s)
      p  == precedence(op)
  IN IF p = 0 \/ p < min_prec THEN s
     ELSE With(eval["binary", p + 1, live, Eat(s)], LAMBDA r :
            eval["binary_loop", min_prec, live,
                 [r EXCEPT !.v = apply(op, s.v, r.v),
                           !.ok = @ /\ ~(live /\ op \in {"/", "%"} /\ r.v.bits = 0)]])

unary(eval, live, s) ==
  LET Operand(F(_)) ==
        With(eval["unary", 0, live, Eat(s)], LAMBDA r : Left(r, F(r.v)))
  IN CASE peek(s) = "+" -> Operand(LAMBDA v : v)
       [] peek(s) = "-" -> Operand(LAMBDA v : Value(-v.bits, v.is_unsigned))
       [] peek(s) = "~" -> Operand(LAMBDA v : Value(-v.bits - 1, v.is_unsigned))
       [] peek(s) = "!" -> Operand(LAMBDA v : make_bool(v.bits = 0))
       [] OTHER -> eval["primary", 0, live, s]

primary(eval, live, s) ==
  LET kind == peek(s)
      t    == terms[s.pos]
  IN CASE kind = "Eof"         -> Broken(s, Zero)
       [] kind = "Numeric"     -> number_value(Eat(s), t.text)
       [] kind = "CharLiteral" -> char_value(Eat(s), t.text)
       [] kind = "True"        -> Left(Eat(s), make_bool(TRUE))
       [] kind = "("           ->
            With(eval["conditional", 0, live, Eat(s)], LAMBDA v :
              IF peek(v) = ")" THEN Eat(v) ELSE [v EXCEPT !.ok = FALSE])
       [] kind = "False"       -> Left(Eat(s), make_bool(FALSE))
       [] kind \in {"Identifier", "Keyword"} -> Left(Eat(s), Zero)
       [] OTHER                -> Broken(Eat(s), Zero)

Methods == {"conditional", "logical_or", "or_loop", "logical_and", "and_loop",
            "binary", "binary_loop", "unary", "primary"}
Results == [pos : Nat, ok : BOOLEAN, v : [bits : Nat, is_unsigned : BOOLEAN]]

\* Terms behind a whole condition make it malformed.
run ==
  LET eval[m \in Methods, n \in 0 .. 9, live \in BOOLEAN, s \in Results] ==
        CASE m = "conditional" -> conditional(eval, live, s)
          [] m = "logical_or"  ->
               eval["or_loop", 0, live, eval["logical_and", 0, live, s]]
          [] m = "or_loop"     -> or_loop(eval, live, s)
          [] m = "logical_and" ->
               eval["and_loop", 0, live, eval["binary", 1, live, s]]
          [] m = "and_loop"    -> and_loop(eval, live, s)
          [] m = "binary"      ->
               eval["binary_loop", n, live, eval["unary", 0, live, s]]
          [] m = "binary_loop" -> binary_loop(eval, n, live, s)
          [] m = "unary"       -> unary(eval, live, s)
          [] m = "primary"     -> primary(eval, live, s)
  IN With(eval["conditional", 0, TRUE, [pos |-> 1, ok |-> TRUE, v |-> Zero]],
          LAMBDA s : [s EXCEPT !.ok = @ /\ s.pos > Len(terms)])
-----------------------------------------------------------------------------
Is(i, kind) == i <= Len(line) /\ line[i].kind = kind

\* The operand of a defined at i: the name, whether it is one as it must be,
\* and the first token behind what is read or skipped.
Operand(i) ==
  LET paren == Is(i + 1, "(")
      j     == IF paren THEN i + 2 ELSE i + 1
      named == j <= Len(line) /\ is_name(line[j])
      k     == IF named THEN j + 1 ELSE j
  IN [name |-> j,
      ok   |-> named /\ (paren => Is(k, ")")),
      end  |-> IF Is(k, ")") /\ (paren \/ ~named) THEN k + 1 ELSE k]

IsDefined(t) == t.kind = "Identifier" /\ t.text = <<"defined">>
Truth(b) == [kind |-> IF b THEN "True" ELSE "False", text |-> <<>>]

\* Each defined of the line and its operand become one token.
Answered ==
  LET from[i \in Nat] ==
        IF i > Len(line) THEN [out |-> <<>>, bad |-> <<>>]
        ELSE IF ~IsDefined(line[i])
        THEN With(from[i + 1], LAMBDA rest :
               [rest EXCEPT !.out = <<line[i]>> \o @])
        ELSE LET o == Operand(i) IN
             With(from[o.end], LAMBDA rest :
               [out |-> <<Truth(o.ok /\ line[o.name].text \in DOMAIN Macros)>>
                          \o rest.out,
                bad |-> (IF o.ok THEN <<>> ELSE <<"defined">>) \o rest.bad])
  IN from[1]

Init ==
  /\ line \in Lines
  /\ terms = <<>>
  /\ stage = "defined"
  /\ reports = <<>>
  /\ value = FALSE

\* A directive with nothing behind its keyword.
nothing_to_evaluate ==
  /\ stage = "defined"
  /\ line = <<>>
  /\ reports' = Append(reports, "if")
  /\ stage' = "done"
  /\ UNCHANGED <<line, terms, value>>

apply_defined ==
  /\ stage = "defined"
  /\ line # <<>>
  /\ \E answered \in {Answered} :
       /\ terms' = answered.out
       /\ reports' = reports \o answered.bad
  /\ stage' = "expand"
  /\ UNCHANGED <<line, value>>

\* What expand_into makes of the terms, for macros without parameters.
Expanded(tokens) ==
  FlattenSeq([i \in DOMAIN tokens |->
    IF tokens[i].kind = "Identifier" /\ tokens[i].text \in DOMAIN Macros
    THEN Macros[tokens[i].text] ELSE <<tokens[i]>>])

expand ==
  /\ stage = "expand"
  /\ terms' = Expanded(terms)
  /\ stage' = "evaluate"
  /\ UNCHANGED <<line, reports, value>>

evaluate ==
  /\ stage = "evaluate"
  /\ \E s \in {run} :
       /\ value' = (s.v.bits # 0)
       /\ reports' = IF s.ok THEN reports ELSE Append(reports, "if")
  /\ stage' = "done"
  /\ UNCHANGED <<line, terms>>

\* The steps of eval_condition.
Next == nothing_to_evaluate \/ apply_defined \/ expand \/ evaluate

Spec == Init /\ [][Next]_vars
=============================================================================
