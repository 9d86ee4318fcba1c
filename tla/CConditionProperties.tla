------------------------ MODULE CConditionProperties ------------------------
(***************************************************************************)
(* What a #if condition means in C: the grammar as a relation between      *)
(* spans of tokens and trees, and the meaning of a tree in mathematical    *)
(* integers, where C defines one.                                          *)
(***************************************************************************)
EXTENDS CCondition

CONSTANT Meanings   \* from the texts of literals to [v, u], where C has one

\* A tree; op "literal" has a text.
Tree(op, text, kids) == [op |-> op, text |-> text, kids |-> kids]

BinaryOps == << {"||"}, {"&&"}, {"|"}, {"^"}, {"&"}, {"==", "!="},
                {"<", ">", "<=", ">="}, {"<<", ">>"}, {"+", "-"},
                {"*", "/", "%"} >>

At(tokens, i, j, kinds) == {k \in i .. j : tokens[k].kind \in kinds}

\* The primary expressions without parentheses.
Atom(tokens, i, j) ==
  LET t == tokens[i]
      constant(v) == {Tree("constant", <<v>>, <<>>)}
      defined(k) == {Tree("defined", tokens[k].text, <<>>)}
  IN IF i # j
     THEN IF ~IsDefined(t) THEN {}
          ELSE CASE j = i + 1 /\ is_name(tokens[j]) -> defined(j)
                 [] /\ j = i + 3 /\ tokens[i + 1].kind = "("
                    /\ is_name(tokens[i + 2]) /\ tokens[j].kind = ")" ->
                      defined(i + 2)
                 [] OTHER -> {}
     ELSE CASE t.kind \in {"Numeric", "CharLiteral"} ->
                 IF t.text \in DOMAIN Meanings
                 THEN {Tree("literal", t.text, <<>>)} ELSE {}
            [] t.kind = "True" -> constant("1")
            [] t.kind = "False" \/ (is_name(t) /\ ~IsDefined(t)) -> constant("0")
            [] OTHER -> {}

\* The trees of the span from i to j, at a level of the grammar: 0 for a
\* condition, n for the operators BinaryOps[n], 11 for a unary expression.
RECURSIVE Trees(_, _, _, _)
Trees(tokens, level, i, j) ==
  IF i > j THEN {}
  ELSE CASE level = 0 ->
              Trees(tokens, 1, i, j) \cup
              UNION { {Tree("?", <<>>, <<c, a, b>>) :
                         c \in Trees(tokens, 1, i, q - 1),
                         a \in Trees(tokens, 0, q + 1, p - 1),
                         b \in Trees(tokens, 0, p + 1, j)} :
                      q \in At(tokens, i, j, {"?"}), p \in At(tokens, i, j, {":"}) }
         [] level \in 1 .. 10 ->
              Trees(tokens, level + 1, i, j) \cup
              UNION { {Tree(tokens[k].kind, <<>>, <<a, b>>) :
                         a \in Trees(tokens, level, i, k - 1),
                         b \in Trees(tokens, level + 1, k + 1, j)} :
                      k \in At(tokens, i + 1, j - 1, BinaryOps[level]) }
         [] level = 11 ->
              Atom(tokens, i, j) \cup
              IF tokens[i].kind \in {"+", "-", "~", "!"}
              THEN {Tree(tokens[i].kind, <<>>, <<a>>) :
                      a \in Trees(tokens, 11, i + 1, j)}
              ELSE IF tokens[i].kind = "(" /\ tokens[j].kind = ")"
              THEN Trees(tokens, 0, i + 1, j - 1) ELSE {}
-----------------------------------------------------------------------------
\* v is a mathematical integer, u says that the type is unsigned; free, that
\* C does not define the value; zero, that a division by zero is evaluated.
M(v, u) == [v |-> v, u |-> u, free |-> FALSE, zero |-> FALSE]
Bool(b) == M(IF b THEN 1 ELSE 0, FALSE)

In(x, u) == IF u THEN x % Word ELSE x
Typed(v, u) == [M(In(v, u), u) EXCEPT !.free = ~u /\ v \notin -Sign .. Sign - 1]

\* After the usual conversions of both operands to the type u.
Arithmetic(op, x, y, u) ==
  CASE op = "+" -> Typed(x + y, u)
    [] op = "-" -> Typed(x - y, u)
    [] op = "*" -> Typed(x * y, u)
    [] op \in {"/", "%"} ->
         IF y = 0 THEN [M(0, u) EXCEPT !.zero = TRUE]
         ELSE LET q == Quotient(x, y)
              IN IF op = "/" THEN Typed(q, u)
                 ELSE [Typed(x - y * q, u) EXCEPT !.free = ~u /\ q >= Sign]
    [] op = "==" -> Bool(x = y)
    [] op = "!=" -> Bool(x # y)
    [] op = "<"  -> Bool(x < y)
    [] op = ">"  -> Bool(x > y)
    [] op = "<=" -> Bool(x <= y)
    [] op = ">=" -> Bool(x >= y)
    [] op \in {"|", "^", "&"} ->
         LET Bit(n, k) == ((n % Word) \div (2 ^ k)) % 2
             Set(k) == CASE op = "|" -> Bit(x, k) + Bit(y, k) > 0
                         [] op = "&" -> Bit(x, k) + Bit(y, k) = 2
                         [] op = "^" -> Bit(x, k) # Bit(y, k)
             bits == FoldSet(LAMBDA k, n : n + 2 ^ k, 0,
                             {k \in 0 .. IntWidth - 1 : Set(k)})
         IN M(IF u THEN bits ELSE Signed(bits), u)

\* A shift has the type of what it shifts.
Shift(op, a, n) ==
  IF n.v \notin 0 .. IntWidth - 1 \/ (op = "<<" /\ a.v < 0)
  THEN [a EXCEPT !.free = TRUE]
  ELSE IF op = "<<" THEN Typed(a.v * 2 ^ n.v, a.u) ELSE M(a.v \div 2 ^ n.v, a.u)

RECURSIVE Meaning(_)
Meaning(tree) ==
  LET Kid(i) == Meaning(tree.kids[i])
      \* What the evaluated operands leave undefined, or divide, counts.
      Of(m, kids) == [m EXCEPT !.free = @ \/ \E k \in kids : k.free,
                               !.zero = @ \/ \E k \in kids : k.zero]
      Unary == LET a == Kid(1) IN
        CASE tree.op = "+" -> a
          [] tree.op = "-" -> Of(Typed(-a.v, a.u), {a})
          [] tree.op = "~" -> Of(Typed(-a.v - 1, a.u), {a})
          [] tree.op = "!" -> Of(Bool(a.v = 0), {a})
      Logical == LET a == Kid(1) IN
        IF (a.v = 0) = (tree.op = "&&") THEN Of(Bool(a.v # 0), {a})
        ELSE LET b == Kid(2) IN Of(Bool(b.v # 0), {a, b})
      Binary == LET a == Kid(1) b == Kid(2) u == a.u \/ b.u IN
        IF tree.op \in {"<<", ">>"} THEN Of(Shift(tree.op, a, b), {a, b})
        ELSE Of(Arithmetic(tree.op, In(a.v, u), In(b.v, u), u), {a, b})
      Choice == LET c == Kid(1) a == Kid(2) b == Kid(3)
                    taken == IF c.v # 0 THEN a ELSE b
                    u == a.u \/ b.u
        IN Of(M(In(taken.v, u), u), {c, taken})
  IN CASE tree.op = "literal"  -> M(Meanings[tree.text].v, Meanings[tree.text].u)
       [] tree.op = "constant" -> Bool(tree.text = <<"1">>)
       [] tree.op = "defined"  -> Bool(tree.text \in DOMAIN Macros)
       [] tree.op = "?"        -> Choice
       [] OTHER -> IF Len(tree.kids) = 1 THEN Unary
                   ELSE IF tree.op \in {"||", "&&"} THEN Logical ELSE Binary
-----------------------------------------------------------------------------
\* The line with the macros in it expanded, except the operands of defined.
Substituted ==
  LET operand[i \in Nat] ==
        \/ i > 1 /\ IsDefined(line[i - 1]) /\ ~operand[i - 1]
        \/ i > 2 /\ IsDefined(line[i - 2]) /\ ~operand[i - 2] /\ line[i - 1].kind = "("
  IN FlattenSeq([i \in DOMAIN line |->
       IF operand[i] THEN <<line[i]>> ELSE Expanded(<<line[i]>>)])

Done == stage = "done"
Parsed == Trees(Substituted, 0, 1, Len(Substituted))

\* The group of a #if is kept as C says: each operator binds and computes as
\* in the widest types, with the usual conversions, wraparound of what is
\* unsigned, and the edges of division and shifts.
ValuesAreC ==
  Done => \A tree \in Parsed :
    LET m == Meaning(tree) IN m.free \/ m.zero \/ value = (m.v # 0)

\* A line is reported when it is not in the grammar or divides by zero, and
\* never for an operand that is not evaluated (Preprocessor_cond_impl.cpp:189).
ErrorsOnlyWhereLive ==
  Done => ((reports # <<>>) = (\A tree \in Parsed : Meaning(tree).zero))
=============================================================================
