---------------------------- MODULE CDeclarations ----------------------------
(***************************************************************************)
(* Parser_declarations.cpp: type specifiers, declarators, parameters,      *)
(* initializers, and the members of structs, unions and enums.             *)
(*                                                                         *)
(* The declarators of one declaration share its base type: the base stands *)
(* once before them, and <<"base">> in a declarator's type refers to it.   *)
(***************************************************************************)
EXTENDS CParserCore

\* The end of the qualifiers that start at i, and of the plain specifiers.
QualifiersEnd(i) == First(i, LAMBDA j : m_stream[j] \notin TypeQualifiers)
SpecifiersEnd(i) ==
  First(i, LAMBDA j : ~starts_type(m_stream[j]) \/ m_stream[j] \in Tags)

Only(set, i, j) ==
  SelectSeq(SubSeq(m_stream, i, j - 1), LAMBDA kind : kind \in set)

Qualified(s, qualifiers) ==
  IF qualifiers = <<>> THEN s ELSE Emit(s, <<"qualified">> \o qualifiers)

Specifier == [Struct |-> "struct_specifier", Union |-> "union_specifier",
              Enum |-> "enum_specifier"]

\* Keyword specifiers, or one tagged specifier, among qualifiers.
parse_types(parse, s) ==
  LET i          == SpecifiersEnd(s.at)
      plain      == Only(TypeSpecifiers, s.at, i)
      qualifiers == Only(TypeQualifiers, s.at, i)
  IN CASE m_stream[i] \notin Tags /\ plain = <<>> ->
            Fail(At(s, i), "ErrorExpectedType")
       [] m_stream[i] \notin Tags /\ plain # <<>> ->
            Qualified(Emit(At(s, i), <<"primitive">> \o plain), qualifiers)
       [] m_stream[i] \in Tags /\ plain # <<>> ->
            Fail(At(s, i), "ErrorUnexpectedToken")
       [] OTHER ->
            Then(parse[Specifier[m_stream[i]], NoArg, At(s, i)], LAMBDA tagged :
              With(QualifiersEnd(tagged.at), LAMBDA k :
                IF m_stream[k] \in TypeSpecifiers
                THEN Fail(At(tagged, k), "ErrorUnexpectedToken")
                ELSE Qualified(At(tagged, k),
                       qualifiers \o Only(TypeQualifiers, tagged.at, k))))

\* parse_struct_specifier, parse_union_specifier and parse_enum_specifier
\* differ in what reads their members.
TagSpecifier(parse, s, members) ==
  LET tagged == peek(s, 1) = "Identifier"
      open   == At(s, s.at + (IF tagged THEN 2 ELSE 1))
      kind   == peek(s, 0)
  IN IF check(open, "LBrace")
     THEN Run(parse,
              Emit(advance(open), <<kind, IF tagged THEN "tag" ELSE "no tag">>),
              <<Sub(members), Tok("RBrace"), Node("defined")>>)
     ELSE IF tagged THEN Emit(open, <<kind, "reference">>)
          ELSE Fail(open, "ErrorExpectedIdentifier")
-----------------------------------------------------------------------------
PointersEnd(i) ==
  IF m_stream[i] # "Asterisk" THEN i
  ELSE First(i, LAMBDA k : m_stream[k] \notin TypeQualifiers \cup {"Asterisk"})

\* One Pointer op for each star, with the qualifiers behind it.
parse_pointer_prefix(i) ==
  LET stars == SelectSeq([k \in 1 .. PointersEnd(i) - i |-> i + k - 1],
                         LAMBDA k : m_stream[k] = "Asterisk")
  IN [n \in DOMAIN stars |->
       [kind |-> "Pointer", at |-> stars[n], param_form |-> FALSE,
        out |-> << <<"pointer">> \o Only(TypeQualifiers, stars[n],
                                        QualifiersEnd(stars[n] + 1)) >>]]

starts_grouped_declaratorUnnamed(s, mode) ==
  /\ check(s, "LParen")
  /\ mode = "Optional" => peek(s, 1) \in {"Asterisk", "LParen", "LBrak"}

\* mode is Required or Optional; the code never asks for Forbidden.
starts_grouped_declarator(s, mode) ==
  /\ check(s, "LParen")
  /\ mode = "Optional" =>
       peek(s, 1) \in {"Asterisk", "LParen", "LBrak", "Identifier"}

parse_direct_declarator(parse, s, mode) ==
  IF check(s, "Identifier")
  THEN [advance(s) EXCEPT !.decl = [NoDeclarator EXCEPT !.name = << <<"name">> >>]]
  ELSE IF starts_grouped_declarator(s, mode)
  THEN Then(parse["declarator", mode, advance(s)], LAMBDA nested :
         IF nested.at = s.at + 1 THEN Fail(nested, "ErrorExpectedIdentifier")
         ELSE expect(nested, "RParen"))
  ELSE IF mode = "Required" THEN Fail(s, "ErrorExpectedIdentifier")
  ELSE [s EXCEPT !.decl = NoDeclarator]

\* A suffix is parsed behind the nodes of s, and then becomes an op.
AddOp(s, t, kind, param_form) ==
  [t EXCEPT
     !.out = s.out,
     !.decl = [s.decl EXCEPT
       !.ops = Append(@, [kind |-> kind, at |-> s.at, param_form |-> param_form,
                          out |-> SubSeq(t.out, Len(s.out) + 1, Len(t.out))])]]

parse_function_suffix(parse, s) ==
  Then(Run(parse, s, <<Tok("LParen"), Node("function"), Sub("parameters"),
                       Tok("RParen")>>),
       LAMBDA t : AddOp(s, t, "Function", FALSE))

\* a, b and c: behind the static in front of the qualifiers, behind the
\* qualifiers, and behind the static that may follow them instead.
parse_array_suffix(parse, s) ==
  LET a           == s.at + (IF peek(s, 1) = "Static" THEN 2 ELSE 1)
      b           == QualifiersEnd(a)
      c           == b + (IF m_stream[b] = "Static" THEN 1 ELSE 0)
      is_static   == a = s.at + 2 \/ c = b + 1
      unspecified == m_stream[c] = "Asterisk" /\ m_stream[c + 1] = "RBrak"
      empty       == m_stream[c] = "RBrak"
      bound       == ~unspecified /\ ~empty
      form        == (IF is_static THEN <<"Static">> ELSE <<>>)
                     \o Only(TypeQualifiers, a, b)
                     \o (IF unspecified THEN <<"Asterisk">> ELSE <<>>)
  IN IF a = s.at + 2 /\ c = b + 1 THEN Fail(At(s, b), "ErrorUnexpectedToken")
     ELSE Then(CASE unspecified -> At(s, c + 1)
                 [] empty       -> At(s, c)
                 [] bound       -> parse["assignment", NoArg, At(s, c)],
               LAMBDA size :
                 IF is_static /\ ~bound
                 THEN Fail(size, "ErrorExpectedExpression")
                 ELSE Then(expect(size, "RBrak"), LAMBDA t :
                        AddOp(s, Emit(t, <<"array">> \o form \o
                                (IF bound THEN <<"bound">> ELSE <<>>)),
                              "Array", form # <<>>)))

\* The loop over a declarator's suffixes.
parse_suffixes(parse, s) ==
  CASE check(s, "LParen") ->
         Run(parse, s, <<Sub("function_suffix"), Sub("suffixes")>>)
    [] check(s, "LBrak")  ->
         Run(parse, s, <<Sub("array_suffix"), Sub("suffixes")>>)
    [] OTHER -> s

\* The stars are farther from the name than the suffixes, the last nearest.
parse_declarator(parse, s, mode) ==
  IF end(s) THEN Fail(s, "ErrorUnexpectedEndOfFile")
  ELSE Then(parse_direct_declarator(parse, At(s, PointersEnd(s.at)), mode),
            LAMBDA direct :
              Then(parse["suffixes", NoArg, direct], LAMBDA t :
                [t EXCEPT !.decl.ops =
                   @ \o Reverse(parse_pointer_prefix(s.at))]))

\* The first op that only a parameter may have, and only next to its name.
BadForms(decl, is_parameter) ==
  {i \in DOMAIN decl.ops : decl.ops[i].param_form /\ (i > 1 \/ ~is_parameter)}

check_array_forms(s, is_parameter) ==
  LET bad == BadForms(s.decl, is_parameter)
  IN IF bad = {} THEN s
     ELSE [report_at(s, "ErrorDeclarationNotAllowed",
                     s.decl.ops[CHOOSE i \in bad : \A j \in bad : i <= j].at)
             EXCEPT !.ok = FALSE]

\* The base is wrapped from the outermost op to the one at the name.
build_declarator_typeInward(s) ==
  [s EXCEPT !.out = @ \o << <<"base">> >>
                      \o FlattenSeq([i \in DOMAIN s.decl.ops |->
                                       s.decl.ops[i].out])
                      \o s.decl.name]

build_declarator_type(s) ==
  [s EXCEPT !.out = @ \o << <<"base">> >>
                      \o FlattenSeq([i \in DOMAIN s.decl.ops |->
                                       Reverse(s.decl.ops)[i].out])
                      \o s.decl.name]

IsFunction(decl) == decl.ops # <<>> /\ decl.ops[1].kind = "Function"

\* A declarator and its type, as each of its three users builds them.
Declarator(parse, s, mode) ==
  Then(parse["declarator", mode, s], LAMBDA t :
    Then(check_array_forms(t, mode = "Optional"), LAMBDA u :
      build_declarator_type(u)))
-----------------------------------------------------------------------------
StandsAlone(i) ==
  LET tag == SpecifiersEnd(i)
  IN /\ m_stream[tag] \in Tags
     /\ m_stream[tag] = "Enum" \/ m_stream[tag + 1] = "Identifier"

\* body is "body" for a global, "no body" for any other declaration.
parse_declaration(parse, s, body) ==
  Then(parse["types", NoArg, s], LAMBDA base :
    IF check(base, "Semicolon") /\ StandsAlone(s.at)
    THEN Emit(advance(base), <<"tag">>)
    ELSE parse["let", body, base])

\* The loop over the declarators; which is "more" behind the first of them.
parse_let(parse, s, which) ==
  LET More(item) ==
        IF check(item, "Comma") THEN parse["let", "more", advance(item)]
        ELSE Run(parse, item,
                 <<Tok("Semicolon"), Node(IF which = "more"
                                          THEN "declaration group"
                                          ELSE "declaration")>>)
  IN Then(Declarator(parse, s, "Required"), LAMBDA d :
       CASE check(d, "LBrace") ->
              IF which = "body" /\ IsFunction(d.decl)
              THEN Run(parse, d, <<Sub("block_statement"), Node("body")>>)
              ELSE Fail(d, "ErrorDeclarationNotAllowed")
         [] check(d, "Equal") ->
              IF IsFunction(d.decl) THEN Fail(d, "ErrorUnexpectedToken")
              ELSE Then(Run(parse, d, <<Tok("Equal"), Sub("initializer"),
                                        Node("initialized let")>>),
                        LAMBDA item : More(item))
         [] OTHER ->
              More(Emit(d, IF IsFunction(d.decl) THEN <<"let", "prototype">>
                           ELSE <<"let">>)))

parse_parameters(parse, s) ==
  CASE check(s, "RParen") -> s
    [] check(s, "Void") /\ peek(s, 1) = "RParen" -> advance(s)
    [] peek(s, 0) \notin TypeSpecifiers \cup TypeQualifiers
                        \cup {"Ellipsis", "RParen"} -> s
    [] OTHER -> parse["parameter_loop", "first", s]

parameter_loop(parse, s, which) ==
  IF check(s, "Ellipsis")
  THEN IF which = "first" THEN Fail(s, "ErrorElipsisComesLast")
       ELSE Emit(advance(s), <<"ellipsis">>)
  ELSE Then(parse["types", NoArg, s], LAMBDA type :
         Then(Declarator(parse, type, "Optional"), LAMBDA param :
           IF check(param, "Comma")
           THEN parse["parameter_loop", "more",
                      Emit(advance(param), <<"parameter">>)]
           ELSE Emit(param, <<"parameter">>)))

initializer_loop(parse, s) ==
  IF check(s, "RBrace") THEN s
  ELSE Then(Run(parse, s, <<Sub("initializer"), Node("element")>>), LAMBDA t :
         IF check(t, "Comma") THEN parse["initializer_loop", NoArg, advance(t)]
         ELSE t)

parse_initializer(parse, s) ==
  IF ~check(s, "LBrace") THEN parse["assignment", NoArg, s]
  ELSE Run(parse, s, <<Tok("LBrace"), Node("list"), Sub("initializer_loop"),
                       Tok("RBrace")>>)
-----------------------------------------------------------------------------
parse_enumerator(parse, s) ==
  IF ~check(s, "Identifier") THEN Fail(s, "ErrorExpectedIdentifier")
  ELSE IF peek(s, 1) = "Equal"
       THEN Run(parse, At(s, s.at + 2),
                <<Sub("ternary"), Node("enumerator value")>>)
       ELSE Emit(advance(s), <<"enumerator">>)

EnumeratorsEnd(s) == end(s) \/ peek(s, 0) \in {"RBrace", "Semicolon"}

\* A missing comma need not discard the enumerator behind it.
enumerator_loop(parse, s) ==
  LET Past(t) == IF check(t, "Comma") THEN advance(t) ELSE t
      Next1(t) ==
        IF EnumeratorsEnd(t) THEN t
        ELSE parse["enumerator_loop", NoArg,
               IF check(t, "Comma") THEN advance(t)
               ELSE With(report(t, "ErrorExpectedToken"), LAMBDA r :
                      IF check(r, "Identifier") THEN r
                      ELSE Past(synchronize_enumerator(r, s.at)))]
  IN IF EnumeratorsEnd(s) THEN s
     ELSE With(parse["enumerator", NoArg, s], LAMBDA member :
            IF member.ok THEN Next1(member)
            ELSE With(synchronize_enumerator(Recover(s, member), s.at),
                      LAMBDA t : Next1(t)))

parse_enumerators(parse, s) ==
  IF check(s, "RBrace") THEN report(s, "ErrorExpectedIdentifier")
  ELSE parse["enumerator_loop", NoArg, s]

\* The loop over the declarators of one member.
field_loop(parse, s) ==
  Then(Declarator(parse, s, "Required"), LAMBDA d :
    IF IsFunction(d.decl) THEN Fail(d, "ErrorDeclarationNotAllowed")
    ELSE IF check(d, "Comma")
         THEN parse["field_loop", NoArg, Emit(advance(d), <<"field">>)]
         ELSE expect(Emit(d, <<"field">>), "Semicolon"))

parse_record_member == <<Sub("types"), Sub("field_loop"), Node("member")>>

record_member_loop(parse, s) ==
  IF check(s, "RBrace") \/ end(s) THEN s
  ELSE parse["record_member_loop", NoArg,
         With(Run(parse, s, parse_record_member), LAMBDA member :
           IF member.ok THEN member
           ELSE synchronize_record_member(Recover(s, member), s.at))]

parse_record_members(parse, s) ==
  IF check(s, "RBrace") THEN report(s, "ErrorExpectedType")
  ELSE parse["record_member_loop", NoArg, s]
=============================================================================
