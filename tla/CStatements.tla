----------------------------- MODULE CStatements -----------------------------
(***************************************************************************)
(* Parser_statements.cpp: the statements of a function's body.             *)
(***************************************************************************)
EXTENDS CParserCore

parse_if_statement ==
  <<Tok("If"), Tok("LParen"), Sub("assignment"), Tok("RParen"),
    Sub("branch"), Node("if"), Sub("else_part")>>

parse_while_statement ==
  <<Tok("While"), Tok("LParen"), Sub("assignment"), Tok("RParen"),
    Sub("loop_body"), Node("while")>>

parse_do_while_statement ==
  <<Tok("Do"), Sub("loop_body"), Tok("While"), Tok("LParen"),
    Sub("assignment"), Tok("RParen"), Tok("Semicolon"), Node("do")>>

parse_for_statement ==
  <<Tok("For"), Tok("LParen"), Sub("for_init"),
    Unless("Semicolon", "assignment"), Tok("Semicolon"),
    Unless("RParen", "assignment"), Tok("RParen"),
    Sub("loop_body"), Node("for")>>

parse_return_statement ==
  <<Tok("Return"), Unless("Semicolon", "assignment"), Tok("Semicolon"),
    Node("return")>>

parse_break_statement ==
  <<InLoop("ErrorBreakOutsideLoop"), Tok("Break"), Tok("Semicolon"),
    Node("break")>>

parse_continue_statement ==
  <<InLoop("ErrorContinueOutsideLoop"), Tok("Continue"), Tok("Semicolon"),
    Node("continue")>>

parse_expression_statement ==
  <<Sub("assignment"), Tok("Semicolon"), Node("expression")>>

parse_block_statement ==
  <<Tok("LBrace"), Node("block"), Sub("block_loop"), Tok("RBrace")>>

Sequenced ==
  [if_statement       |-> parse_if_statement,
   while_statement    |-> parse_while_statement,
   do_while_statement |-> parse_do_while_statement,
   for_statement      |-> parse_for_statement,
   return_statement   |-> parse_return_statement,
   break_statement    |-> parse_break_statement,
   continue_statement |-> parse_continue_statement,
   block_statement    |-> parse_block_statement]

StatementOf ==
  [Return |-> "return_statement",     Break |-> "break_statement",
   Continue |-> "continue_statement", If |-> "if_statement",
   While |-> "while_statement",       Do |-> "do_while_statement",
   For |-> "for_statement",           LBrace |-> "block_statement"]
-----------------------------------------------------------------------------
parse_statement(parse, s) ==
  LET kind == peek(s, 0)
  IN CASE kind \in DOMAIN StatementOf -> parse[StatementOf[kind], NoArg, s]
       [] kind = "Semicolon"          -> Emit(advance(s), <<"empty">>)
       [] starts_type(kind)           ->
            Run(parse, s, <<Call("declaration", "no body"),
                            Node("declaration statement")>>)
       [] OTHER -> Run(parse, s, parse_expression_statement)

\* reject_declaration of a statement that starts at i and was read last.
reject_declaration(s, i) ==
  IF s.ok /\ Last(s.out) = <<"declaration statement">>
  THEN report_at(s, "ErrorDeclarationNotAllowed", i) ELSE s

parse_branch(parse, s) ==
  With(parse["statement", NoArg, s], LAMBDA t : reject_declaration(t, s.at))

else_part(parse, s) ==
  IF check(s, "Else")
  THEN Run(parse, s, <<Tok("Else"), Sub("branch"), Node("else")>>) ELSE s

loop_bodyEarlyReturn(parse, s) ==
  Then(parse["statement", NoArg, [s EXCEPT !.loops = @ + 1]], LAMBDA body :
    reject_declaration([body EXCEPT !.loops = @ - 1], s.at))

\* The depth goes back down whether or not there is a body.
loop_body(parse, s) ==
  With(parse["statement", NoArg, [s EXCEPT !.loops = @ + 1]], LAMBDA body :
    reject_declaration([body EXCEPT !.loops = @ - 1], s.at))

for_init(parse, s) ==
  CASE check(s, "Semicolon")   -> Emit(advance(s), <<"none">>)
    [] starts_type(peek(s, 0)) ->
         Run(parse, s, <<Call("declaration", "no body"),
                         Node("declaration statement")>>)
    [] OTHER -> Run(parse, s, parse_expression_statement)

\* The loop over the statements of a block.
block_loop(parse, s) ==
  IF check(s, "RBrace") \/ end(s) THEN s
  ELSE With(parse["statement", NoArg, s], LAMBDA t :
    IF t.ok THEN parse["block_loop", NoArg, Emit(t, <<"statement">>)]
    ELSE IF check(t, "RBrace") THEN Recover(s, t)
    ELSE parse["block_loop", NoArg, synchronize(Recover(s, t), FALSE)])
=============================================================================
