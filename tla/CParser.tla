------------------------------ MODULE CParser ------------------------------
(***************************************************************************)
(* CParser::parse: the globals of a preprocessed translation unit, one     *)
(* after the other.  A step reads one global, or skips behind one that     *)
(* could not be read.                                                      *)
(***************************************************************************)
EXTENDS CExpressions, CDeclarations, CStatements

CONSTANT Units   \* the preprocessor's outputs: sequences of [kind, flags]

VARIABLES
  m_offset,       \* the cursor of m_stream
  m_diagnostics,
  m_loop_depth,
  module,         \* the globals read so far
  begins,         \* the token that each of them starts at
  broken          \* whether the last global could not be read

vars == <<m_stream, m_offset, m_diagnostics, m_loop_depth, module, begins, broken>>

Methods ==
  {"types", "struct_specifier", "union_specifier", "enum_specifier",
   "declarator", "suffixes", "function_suffix", "array_suffix",
   "declaration", "let", "parameters", "parameter_loop", "initializer",
   "initializer_loop", "enumerators", "enumerator_loop", "enumerator",
   "record_members", "record_member_loop", "field_loop", "statement",
   "branch", "else_part", "loop_body", "for_init", "block_loop",
   "assignment", "ternary", "binary_loop", "unary", "suffix", "suffix_loop",
   "primary", "arguments"} \cup DOMAIN Sequenced \cup DOMAIN Operators

Arguments == {NoArg, "Required", "Optional", "body", "no body", "first",
              "more"} \cup DOMAIN Operators

parse ==
  LET call[m \in Methods, arg \in Arguments, s \in State] ==
    CASE m = "types"              -> parse_types(call, s)
      [] m \in {"struct_specifier", "union_specifier"} ->
           TagSpecifier(call, s, "record_members")
      [] m = "enum_specifier"     -> TagSpecifier(call, s, "enumerators")
      [] m = "declarator"         -> parse_declarator(call, s, arg)
      [] m = "suffixes"           -> parse_suffixes(call, s)
      [] m = "function_suffix"    -> parse_function_suffix(call, s)
      [] m = "array_suffix"       -> parse_array_suffix(call, s)
      [] m = "declaration"        -> parse_declaration(call, s, arg)
      [] m = "let"                -> parse_let(call, s, arg)
      [] m = "parameters"         -> parse_parameters(call, s)
      [] m = "parameter_loop"     -> parameter_loop(call, s, arg)
      [] m = "initializer"        -> parse_initializer(call, s)
      [] m = "initializer_loop"   -> initializer_loop(call, s)
      [] m = "enumerators"        -> parse_enumerators(call, s)
      [] m = "enumerator_loop"    -> enumerator_loop(call, s)
      [] m = "enumerator"         -> parse_enumerator(call, s)
      [] m = "record_members"     -> parse_record_members(call, s)
      [] m = "record_member_loop" -> record_member_loop(call, s)
      [] m = "field_loop"         -> field_loop(call, s)
      [] m = "statement"          -> parse_statement(call, s)
      [] m = "branch"             -> parse_branch(call, s)
      [] m = "else_part"          -> else_part(call, s)
      [] m = "loop_body"          -> loop_body(call, s)
      [] m = "for_init"           -> for_init(call, s)
      [] m = "block_loop"         -> block_loop(call, s)
      [] m \in DOMAIN Sequenced   -> Run(call, s, Sequenced[m])
      [] m = "assignment"         -> parse_assignment(call, s)
      [] m = "ternary"            -> parse_ternary(call, s)
      [] m \in DOMAIN Operators   -> Run(call, s, parse_binary(m))
      [] m = "binary_loop"        -> binary_loop(call, s, arg)
      [] m = "unary"              -> parse_unary(call, s)
      [] m = "suffix"             -> Run(call, s, parse_suffix)
      [] m = "suffix_loop"        -> suffix_loop(call, s)
      [] m = "primary"            -> parse_primary(call, s)
      [] m = "arguments"          -> parse_arguments(call, s)
  IN call
-----------------------------------------------------------------------------
\* Directive lines, skipped groups and the ends of buffers are left out.
parser_tokens(preprocessed) ==
  LET kept == SelectSeq(preprocessed,
                LAMBDA token : /\ token.kind # "Eob"
                               /\ token.flags \cap {"DirectiveLine", "Skipped"} = {})
  IN Append([i \in DOMAIN kept |-> kept[i].kind], "Eof")

Init ==
  /\ m_stream \in {parser_tokens(u) : u \in Units}
  /\ m_offset = 1
  /\ m_diagnostics = <<>>
  /\ m_loop_depth = 0
  /\ module = <<>>
  /\ begins = <<>>
  /\ broken = FALSE

Entered ==
  [at |-> m_offset, loops |-> m_loop_depth, ok |-> TRUE, out |-> <<>>,
   diags |-> m_diagnostics, decl |-> NoDeclarator]

Leave(s) ==
  /\ m_offset' = s.at
  /\ m_diagnostics' = s.diags
  /\ m_loop_depth' = s.loops
  /\ UNCHANGED m_stream

Done == ~broken /\ end(Entered)

parse_globals ==
  /\ ~broken
  /\ ~end(Entered)
  /\ \E s \in {parse["declaration", "body", Entered]} :
       /\ Leave(s)
       /\ broken' = ~s.ok
       /\ module' = IF s.ok THEN Append(module, s.out) ELSE module
       /\ begins' = IF s.ok THEN Append(begins, m_offset) ELSE begins

skip_broken_globalToAType ==
  /\ broken
  /\ \E s \in {synchronize(Entered, TRUE)} :
       /\ Leave(s)
       /\ broken' = ~starts_type(peek(s, 0))
  /\ UNCHANGED <<module, begins>>

skip_broken_global ==
  /\ broken
  /\ Leave(synchronize(Entered, TRUE))
  /\ broken' = FALSE
  /\ UNCHANGED <<module, begins>>

Next == parse_globals \/ skip_broken_global

\* parse() is a loop that nothing else keeps from running.
Spec == Init /\ [][Next]_vars /\ WF_vars(Next)
=============================================================================
