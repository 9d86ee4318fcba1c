----------------------------- MODULE ZCondition -----------------------------
(***************************************************************************)
(* The condition of a #if or #elif line of the Z preprocessor: CondEval,   *)
(* which parses and evaluates the line's tokens in one pass.               *)
(*                                                                         *)
(* A method is entered only while nothing has failed, so what it returns   *)
(* and leaves behind is a function of the cursor it is entered at.  The    *)
(* function parse is that for all of them, and the methods are operators   *)
(* that call each other through it.                                        *)
(***************************************************************************)
EXTENDS Integers, Sequences

CONSTANTS
  Identifiers,   \* the identifier tokens
  CondKeys,      \* CondEval::CondKeys
  Literals,      \* the string tokens, a function to what is between the quotes
  Config,        \* _config, a function from the names it has to their values
  NoText         \* the empty string

Eof == "Eof"
peek(tokens, p) == IF p \in DOMAIN tokens THEN tokens[p] ELSE Eof

Value(p, v) == [pos |-> p, ok |-> TRUE, bad_key |-> NoText, v |-> v]

\* fail() with the cursor at the end, where no loop goes on.
Fail(tokens, key) ==
  [pos |-> Len(tokens) + 1, ok |-> FALSE, bad_key |-> key, v |-> FALSE]

is_operand(t) == t \in Identifiers \cup DOMAIN Literals
is_cmp_op(t) == t \in {"==", "!="}
check_key(t) == t \in CondKeys \cup DOMAIN Literals

\* What take_operand returns.
StringForm(t) ==
  IF t \in DOMAIN Literals THEN Literals[t]
  ELSE IF t \in DOMAIN Config THEN Config[t] ELSE NoText

parse_paren(parse, tokens, p) ==
  LET inner == parse["or", p + 1]
  IN IF ~inner.ok THEN inner
     ELSE IF peek(tokens, inner.pos) # ")" THEN Fail(tokens, NoText)
     ELSE [inner EXCEPT !.pos = @ + 1]

parse_primary(parse, tokens, p) ==
  LET t == peek(tokens, p)
  IN CASE t = "(" -> parse_paren(parse, tokens, p)
       [] t \in DOMAIN Literals -> Value(p + 1, Literals[t] # NoText)
       [] t \in Identifiers ->
            IF check_key(t) THEN Value(p + 1, t \in DOMAIN Config)
            ELSE Fail(tokens, t)
       [] OTHER -> Fail(tokens, NoText)

\* Two tokens tell a comparison from a truth value.
parse_compare(parse, tokens, p) ==
  LET l == peek(tokens, p)
      k == peek(tokens, p + 1)
      r == peek(tokens, p + 2)
  IN IF ~is_operand(l) \/ ~is_cmp_op(k) THEN parse["primary", p]
     ELSE IF ~check_key(l) THEN Fail(tokens, l)
     ELSE IF ~is_operand(r) THEN Fail(tokens, NoText)
     ELSE IF ~check_key(r) THEN Fail(tokens, r)
     ELSE Value(p + 3, (k = "==") = (StringForm(l) = StringForm(r)))

parse_unary_once(parse, tokens, p) ==
  IF peek(tokens, p) # "!" THEN parse["compare", p]
  ELSE LET u == parse["compare", p + 1] IN [u EXCEPT !.v = ~@]
parse_unary(parse, tokens, p) ==
  IF peek(tokens, p) # "!" THEN parse["compare", p]
  ELSE LET u == parse["unary", p + 1] IN [u EXCEPT !.v = ~@]

\* The loops of parse_and and parse_or, as recursion to the right.
parse_and(parse, tokens, p) ==
  LET l == parse["unary", p]
  IN IF ~l.ok \/ peek(tokens, l.pos) # "&&" THEN l
     ELSE LET r == parse["and", l.pos + 1] IN [r EXCEPT !.v = l.v /\ @]

parse_or(parse, tokens, p) ==
  LET l == parse["and", p]
  IN IF ~l.ok \/ peek(tokens, l.pos) # "||" THEN l
     ELSE LET r == parse["or", l.pos + 1] IN [r EXCEPT !.v = l.v \/ @]

Methods == {"or", "and", "unary", "compare", "primary"}

Parse(tokens) ==
  LET parse[m \in Methods, p \in 1 .. Len(tokens) + 1] ==
        CASE m = "or"      -> parse_or(parse, tokens, p)
          [] m = "and"     -> parse_and(parse, tokens, p)
          [] m = "unary"   -> parse_unary(parse, tokens, p)
          [] m = "compare" -> parse_compare(parse, tokens, p)
          [] m = "primary" -> parse_primary(parse, tokens, p)
  IN parse["or", 1]

\* Tokens behind a whole condition make it malformed.
run(tokens) ==
  LET s == Parse(tokens)
  IN IF s.ok /\ s.pos <= Len(tokens) THEN Fail(tokens, NoText) ELSE s

\* eval_condition: a value, or what it reports in the place of one.
eval_condition(tokens) ==
  LET s == run(tokens)
  IN CASE s.ok /\ s.v -> "true"
       [] s.ok /\ ~s.v -> "false"
       [] ~s.ok /\ s.bad_key = NoText -> "MalformedCondition"
       [] ~s.ok /\ s.bad_key # NoText -> "UnKnownConfigKey"
-----------------------------------------------------------------------------
(***************************************************************************)
(* The grammar in CondEval's comments, as the set of values that a span of *)
(* the tokens has under each rule: no value where the rule does not derive *)
(* the span.                                                               *)
(*   or := and ( '||' and )*        compare := operand ( == | != ) operand *)
(*   and := unary ( '&&' unary )*                 | primary                *)
(*   unary := '!' unary | compare   primary := '(' or ')' | string | ident *)
(***************************************************************************)
Splits(tokens, i, j, op) == {k \in i + 1 .. j - 1 : tokens[k] = op}

PrimaryToken(t) ==
  IF t \in DOMAIN Literals THEN {Literals[t] # NoText}
  ELSE IF t \in Identifiers THEN {t \in DOMAIN Config} ELSE {}

Comparison(tokens, i, j) ==
  IF j = i + 2 /\ is_operand(tokens[i]) /\ is_operand(tokens[j])
  THEN LET same == StringForm(tokens[i]) = StringForm(tokens[j])
       IN CASE tokens[i + 1] = "==" -> {same}
            [] tokens[i + 1] = "!=" -> {~same}
            [] OTHER -> {}
  ELSE {}

RECURSIVE Values(_, _, _, _)
Values(tokens, rule, i, j) ==
  IF i > j THEN {}
  ELSE CASE rule = "or" ->
              Values(tokens, "and", i, j) \cup
              UNION { {a \/ b : a \in Values(tokens, "or", i, k - 1),
                                b \in Values(tokens, "and", k + 1, j)} :
                      k \in Splits(tokens, i, j, "||") }
         [] rule = "and" ->
              Values(tokens, "unary", i, j) \cup
              UNION { {a /\ b : a \in Values(tokens, "and", i, k - 1),
                                b \in Values(tokens, "unary", k + 1, j)} :
                      k \in Splits(tokens, i, j, "&&") }
         [] rule = "unary" ->
              IF tokens[i] = "!"
              THEN {~a : a \in Values(tokens, "unary", i + 1, j)}
              ELSE Comparison(tokens, i, j)
                     \cup Values(tokens, "primary", i, j)
         [] rule = "primary" ->
              IF i = j THEN PrimaryToken(tokens[i])
              ELSE IF tokens[i] = "(" /\ tokens[j] = ")"
              THEN Values(tokens, "or", i + 1, j - 1)
              ELSE {}

Derived(tokens) == Values(tokens, "or", 1, Len(tokens))

UnknownKeys(tokens) ==
  {i \in DOMAIN tokens : tokens[i] \in Identifiers \ CondKeys}

\* What a condition means: what the grammar says, where every key is known.
Meaning(tokens) == UnknownKeys(tokens) = {} /\ TRUE \in Derived(tokens)

(***************************************************************************)
(* The parser's one pass agrees: it has a value exactly for what the       *)
(* grammar derives with known keys alone, that value, and never two; and   *)
(* a condition that only its keys are wrong with is reported for a key.    *)
(***************************************************************************)
ConditionMeansItsGrammar(tokens) ==
  LET outcome == eval_condition(tokens)
      derived == Derived(tokens)
      known   == UnknownKeys(tokens) = {}
  IN /\ outcome = "true" <=> known /\ derived = {TRUE}
     /\ outcome = "false" <=> known /\ derived = {FALSE}
     /\ derived # {} /\ ~known => outcome = "UnKnownConfigKey"
=============================================================================
