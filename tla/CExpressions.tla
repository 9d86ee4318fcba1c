---------------------------- MODULE CExpressions ----------------------------
(***************************************************************************)
(* Parser_expression.cpp: expressions by recursive descent, one method per *)
(* level of precedence.                                                    *)
(***************************************************************************)
EXTENDS CParserCore

AssignmentOperators ==
  {"Equal", "PlusEqual", "MinusEqual", "AsteriskEqual", "SlashEqual",
   "PercentEqual", "AmpEqual", "PipeEqual", "CaretEqual",
   "LesserLesserEqual", "GreaterGreaterEqual"}

PrefixOperators == {"PlusPlus", "MinusMinus", "Minus", "Plus", "Exclam",
                    "Tilde", "Amp", "Asterisk"}

SuffixOperators == {"PlusPlus", "MinusMinus"}

\* The binary levels, lowest first, and the operators each one loops over.
Levels == <<"logical_or", "logical_and", "bitwise_or", "bitwise_xor",
            "bitwise_and", "equality", "comparison", "shifting", "additive",
            "multipicative", "unary">>

Operators ==
  [logical_or    |-> {"PipePipe"},     logical_and |-> {"AmpAmp"},
   bitwise_or    |-> {"Pipe"},         bitwise_xor |-> {"Caret"},
   bitwise_and   |-> {"Amp"},
   equality      |-> {"EqualEqual", "ExclamEqual"},
   comparison    |-> {"Greater", "GreaterEqual", "LesserEqual", "Lesser"},
   shifting      |-> {"GreaterGreater", "LesserLesser"},
   additive      |-> {"Plus", "Minus"},
   multipicative |-> {"Asterisk", "Slash", "Percent"}]

Operand(level) ==
  Levels[1 + CHOOSE i \in 1 .. Len(Levels) - 1 : Levels[i] = level]
-----------------------------------------------------------------------------
parse_assignment(parse, s) ==
  Then(parse["ternary", NoArg, s], LAMBDA lhs :
    IF peek(lhs, 0) \notin AssignmentOperators THEN lhs
    ELSE Run(parse, advance(lhs),
             <<Sub("assignment"), Node2("assign", peek(lhs, 0))>>))

parse_ternary(parse, s) ==
  Then(parse["logical_or", NoArg, s], LAMBDA condition :
    IF ~check(condition, "Question") THEN condition
    ELSE Run(parse, condition,
             <<Tok("Question"), Sub("assignment"), Tok("Colon"),
               Sub("ternary"), Node("ternary")>>))

\* The loop of a binary level, behind its first operand.
binary_loop(parse, s, level) ==
  IF peek(s, 0) \notin Operators[level] THEN s
  ELSE Run(parse, advance(s),
           <<Sub(Operand(level)), Node2("binary", peek(s, 0)),
             Call("binary_loop", level)>>)

parse_binary(level) == <<Sub(Operand(level)), Call("binary_loop", level)>>

parse_unary(parse, s) ==
  IF peek(s, 0) \notin PrefixOperators THEN parse["suffix", NoArg, s]
  ELSE Run(parse, advance(s), <<Sub("unary"), Node2("prefix", peek(s, 0))>>)

\* The loop over a call's arguments.
parse_arguments(parse, s) ==
  IF check(s, "RParen") THEN s
  ELSE Then(Run(parse, s, <<Sub("assignment"), Node("argument")>>),
            LAMBDA arg :
              IF ~check(arg, "Comma") THEN arg
              ELSE IF peek(arg, 1) = "RParen"
                   THEN Fail(advance(arg), "ErrorExpectedExpression")
                   ELSE parse["arguments", NoArg, advance(arg)])

parse_call == <<Tok("LParen"), Node("call"), Sub("arguments"), Tok("RParen"),
                Sub("suffix_loop")>>
parse_index == <<Tok("LBrak"), Sub("assignment"), Tok("RBrak"), Node("index"),
                 Sub("suffix_loop")>>

\* The loop of parse_suffix, behind its operand.
suffix_loop(parse, s) ==
  CASE check(s, "LParen") -> Run(parse, s, parse_call)
    [] check(s, "LBrak")  -> Run(parse, s, parse_index)
    [] peek(s, 0) \in {"Dot", "Arrow"} ->
         IF peek(s, 1) # "Identifier"
         THEN Fail(advance(s), "ErrorExpectedIdentifier")
         ELSE Run(parse, At(s, s.at + 2),
                  <<Node(peek(s, 0)), Sub("suffix_loop")>>)
    [] peek(s, 0) \in SuffixOperators ->
         Run(parse, advance(s),
             <<Node2("suffix", peek(s, 0)), Sub("suffix_loop")>>)
    [] OTHER -> s

parse_suffix == <<Sub("primary"), Sub("suffix_loop")>>

Atoms == {"Identifier", "Numeric", "CharLiteral", "String", "True", "False",
          "Nullptr"}

parse_group == <<Tok("LParen"), Sub("assignment"), Tok("RParen"),
                 Node("group")>>

parse_primary(parse, s) ==
  CASE peek(s, 0) \in Atoms -> Emit(advance(s), <<"atom", peek(s, 0)>>)
    [] check(s, "LParen")   -> Run(parse, s, parse_group)
    [] OTHER                -> Fail(s, "ErrorExpectedExpression")
=============================================================================
