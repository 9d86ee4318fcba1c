------------------------- MODULE ConditionalGroups -------------------------
(***************************************************************************)
(* Which lines of one file the conditional directives leave in, said as    *)
(* the C standard says it (6.10.2): by the structure of the text, with no  *)
(* stack.  A group runs from its #if to the matching #endif, its branches  *)
(* start at the #if and at the #elif and #else of the same group, and the  *)
(* branch kept is the first whose condition holds.  A line is live when    *)
(* every group around it keeps the branch the line is in.                  *)
(*                                                                         *)
(* The text is taken to be well formed: a preprocessor is compared with    *)
(* this as long as it has reported no error of the structure.  Both use    *)
(* it, the C one and the Z one, whose #end is an "endif" here.             *)
(***************************************************************************)
EXTENDS Integers, SequencesExt, FiniteSetsExt

\* Groups opened and not closed among lines j..k.
Opened(lines, j, k) ==
  Quantify(j .. k, LAMBDA i : lines[i].op = "if")
    - Quantify(j .. k, LAMBDA i : lines[i].op = "endif")

\* The group opened at j is still open in front of line i.
Encloses(lines, j, i) ==
  /\ lines[j].op = "if"
  /\ \A k \in j .. i - 1 : Opened(lines, j, k) >= 1

Enclosing(lines, i) == {j \in 1 .. i - 1 : Encloses(lines, j, i)}

\* The branch heads of group j in front of line i.
Heads(lines, j, i) ==
  {j} \cup {b \in j + 1 .. i - 1 : /\ lines[b].op \in {"elif", "else"}
                                   /\ Max(Enclosing(lines, b)) = j}

\* The branch that line b begins may be kept; holding are the #if and #elif
\* lines whose condition holds.
Admits(lines, holding, b) == lines[b].op = "else" \/ b \in holding

\* Group j keeps the branch that line i is in.
Keeps(lines, holding, j, i) ==
  LET mine == Max(Heads(lines, j, i))
  IN /\ Admits(lines, holding, mine)
     /\ \A b \in Heads(lines, j, i) \ {mine} : ~Admits(lines, holding, b)

\* The conditionals leave line i in.
IsLive(lines, holding, i) ==
  \A j \in Enclosing(lines, i) : Keeps(lines, holding, j, i)
=============================================================================
