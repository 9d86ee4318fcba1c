----------------------- MODULE MCCPreprocessorGroups -----------------------
(***************************************************************************)
(* One file of up to six lines built from two kinds of conditions,         *)
(* #define, #undef, text and an invocation: the conditional groups and the *)
(* swallowing of directives by an argument list, which is given up when it *)
(* never closes or has too many arguments.  The first line defines, opens  *)
(* a group or is an #if with a malformed condition; the sixth, with        *)
(* nothing behind it, is no definition and no comma.                       *)
(***************************************************************************)
EXTENDS CPreprocessorProperties

MCMain == <<"src", "main">>
MCIncludeDirs == <<>>

IfLine(kind) == [op |-> "if", test |-> [kind |-> kind, name |-> "F"]]
ElifLine(kind) == [op |-> "elif", test |-> [kind |-> kind, name |-> "F"]]
MalformedIf(value) ==
  [op |-> "if", test |-> [kind |-> "malformed", value |-> value]]
DefineLine(def) == [op |-> "define", name |-> "F", def |-> def]

MCLine ==
  { [op |-> "text"], DefineLine("one"), DefineLine("func"),
    [op |-> "undef", name |-> "F"],
    IfLine("defined"), ElifLine("undefined"), [op |-> "else"], [op |-> "endif"],
    [op |-> "call", name |-> "F"], [op |-> "comma"], [op |-> "close"] }

MCLinesOf ==
  [f \in {MCMain} |->
    << {DefineLine("one"), DefineLine("func"), IfLine("defined"),
        MalformedIf(TRUE), MalformedIf(FALSE)} >>
      \o [p \in 1 .. 4 |-> MCLine]
      \o << {l \in MCLine : l.op \notin {"define", "undef", "comma"}} >>]
=============================================================================
