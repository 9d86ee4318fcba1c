---------------------- MODULE ZPreprocessorProperties ----------------------
(***************************************************************************)
(* What the conditional compilation of ZPreprocessor promises.             *)
(***************************************************************************)
EXTENDS ZPreprocessor, ConditionalGroups

\* The lines as ConditionalGroups names their directives.
Lines == [i \in DOMAIN text |->
            IF text[i].op = "end" THEN [op |-> "endif"] ELSE text[i]]

\* Those of them whose condition holds.
Holding(lines) ==
  {b \in DOMAIN lines : /\ lines[b].op \in {"if", "elif"}
                        /\ Outcome(lines[b].condition) = "true"}

Closers == {"elif", "else", "endif"}

\* A group's branch after its #else is an error that belongs to no group.
Faultless == \A i \in DOMAIN diags : diags[i].code # "ElseAfterElse"

(***************************************************************************)
(* skipping() looks at the innermost level only.  As in the C preprocessor *)
(* that decides for the whole stack, because a level above a dead one is   *)
(* dead and counts as taken.                                               *)
(***************************************************************************)
DeadBelowDead ==
  \A i, j \in DOMAIN cond :
    i < j /\ "ActiveTokens" \notin cond[i].state =>
      /\ "ActiveTokens" \notin cond[j].state
      /\ "BranchTaken" \in cond[j].state

(***************************************************************************)
(* A level that is live, or past its #else, counts as taken: that is what  *)
(* handle_conditional asks before it lets a later branch live.             *)
(***************************************************************************)
LevelsConsistent ==
  \A i \in DOMAIN cond :
    cond[i].state \cap {"ActiveTokens", "InElse"} # {} =>
      "BranchTaken" \in cond[i].state

(***************************************************************************)
(* process() marks exactly the text and nothing else that the groups drop, *)
(* on every call of the same object, and whatever closers without an #if   *)
(* and groups without an #end the file has.                                *)
(***************************************************************************)
MarksWhatTheGroupsDrop ==
  LET lines   == Lines
      holding == Holding(lines)
  IN Faultless =>
       \A i \in DOMAIN text :
         out[i] = (text[i].op = "text" /\ ~IsLive(lines, holding, i))

(***************************************************************************)
(* Every diagnostic follows from the structure of the text: a closer is    *)
(* unmatched when no group is open around it, a group is unterminated when *)
(* it is still open at the end, and what a directive says is only looked   *)
(* at where it matters: an unknown keyword in live text, and a condition   *)
(* where the group's place is live and no branch in front of it was taken. *)
(* Each is reported once, and nothing else is.                             *)
(***************************************************************************)
Evaluated(lines, i) ==
  \/ lines[i].op = "if" /\ IsLive(lines, Holding(lines), i)
  \/ /\ lines[i].op = "elif" /\ Enclosing(lines, i) # {}
     /\ LET j == Max(Enclosing(lines, i))
        IN /\ IsLive(lines, Holding(lines), j)
           /\ \A b \in Heads(lines, j, i) : ~Admits(lines, Holding(lines), b)

Complaints(lines, i) ==
  CASE lines[i].op = "unknown" /\ IsLive(lines, Holding(lines), i) ->
         {"UnknownDirective"}
    [] Evaluated(lines, i) ->
         {Outcome(lines[i].condition)} \ {"true", "false"}
    [] lines[i].op \in Closers /\ Enclosing(lines, i) = {} ->
         {CASE lines[i].op = "endif" -> "UnmatchedEnd"
            [] lines[i].op = "else"  -> "UnmatchedElse"
            [] lines[i].op = "elif"  -> "UnmatchedElif"}
    [] OTHER -> {}

Unterminated(lines) ==
  IF done THEN Enclosing(lines, Len(lines)) ELSE {}

ReportsWhatTheStructureCalls ==
  LET lines    == Lines
      expected == {[code |-> c, at |-> i] :
                     i \in Unterminated(lines), c \in {"UnterminatedIf"}}
                  \cup UNION {{[code |-> c, at |-> i] : c \in Complaints(lines, i)} :
                              i \in DOMAIN text}
  IN Faultless => IsInjective(diags) /\ Range(diags) = expected

(***************************************************************************)
(* A group has one live branch, whatever follows it and however often      *)
(* process() is called: a level that was taken and left does not live      *)
(* again.                                                                  *)
(***************************************************************************)
NoSecondBranch ==
  [][\A i \in DOMAIN cond \cap DOMAIN cond' :
       "ActiveTokens" \in cond'[i].state /\ "ActiveTokens" \notin cond[i].state
         => "BranchTaken" \notin cond[i].state]_vars
=============================================================================
