-------------------------- MODULE MCZPreprocessor --------------------------
(***************************************************************************)
(* Three kinds of files: an #if with any short condition, to compare       *)
(* CondEval with its grammar; five lines of anything, with a true, a false *)
(* and two bad conditions; and six lines that begin with two #ifs, for the *)
(* levels.                                                                 *)
(***************************************************************************)
EXTENDS ZPreprocessorProperties

\* os has a value, vendor an empty one, and arch none; pointer is no key.
CondEval == INSTANCE ZCondition WITH
  Identifiers <- {"os", "vendor", "arch", "pointer"},
  CondKeys    <- {"os", "vendor", "arch"},
  Literals    <- ("'x'" :> "x" @@ "''" :> ""),
  Config      <- ("os" :> "x" @@ "vendor" :> ""),
  NoText      <- ""

Tokens == {"os", "arch", "pointer", "'x'", "''", "==", "!=", "&&", "||", "!",
           "(", ")", "42"}

Core == {"os", "arch", "==", "&&", "||", "!", "(", ")"}

Short == UNION {[1 .. n -> Tokens] : n \in 0 .. 3} \cup [1 .. 4 -> Core]

Operands == {"os", "vendor", "arch", "pointer"}
Operators == {"&&", "||", "=="}

\* Two operators, bare, and with a group on either side, negated or not.
Long ==
  UNION {{ <<a, o, b, p, c>>,
           <<"(", a, o, b, ")", p, c>>, <<a, o, "(", b, p, c, ")">>,
           <<"!", "(", a, o, b, ")", p, "!", c>>, <<a, o, b, p, "!", "!", c>>,
           <<"(", "(", a, o, b, ")", p, c>>, <<a, o, b, p, c, ")">> } :
         a \in Operands, b \in Operands, c \in Operands,
         o \in Operators, p \in Operators}

MCConditions == Short \cup Long

MCOutcome(c) == CondEval!eval_condition(c)

True == <<"os">>
False == <<"arch">>
Conditionals(conditions) ==
  {[op |-> o, condition |-> c] : o \in {"if", "elif"}, c \in conditions}
Plain == {[op |-> o] : o \in {"text", "else", "end", "unknown"}}
Good == Conditionals({True, False})
Bad == Conditionals({<<>>, <<"pointer">>})
Opening == {l \in Good : l.op = "if"}

AnyIf == {[op |-> "if", condition |-> c] : c \in MCConditions}
Mixed == Plain \cup Good
Faulty == Mixed \cup Bad

MCShapes == <<
  << AnyIf >>,
  << Faulty, Mixed, Mixed, Faulty, Mixed >>,
  << Opening, Opening, Mixed, Mixed, Mixed, Plain >> >>

(***************************************************************************)
(* A condition is worth what the grammar in CondEval's comments says, and  *)
(* it is reported when the grammar does not derive it or a name in it is   *)
(* no key.                                                                 *)
(***************************************************************************)
ConditionsMeanTheirGrammar ==
  \A i \in DOMAIN text :
    text[i].op \in {"if", "elif"} =>
      CondEval!ConditionMeansItsGrammar(text[i].condition)
=============================================================================
