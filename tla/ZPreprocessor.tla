---------------------------- MODULE ZPreprocessor ----------------------------
(***************************************************************************)
(* The Z preprocessor: ZPreprocessor::process over lines, on one object    *)
(* that may be called again and again.  It marks what the conditions drop  *)
(* and deletes nothing.  A level's state is a set of flags, as CondState   *)
(* is in the code.                                                         *)
(*                                                                         *)
(* The lines are inputs, chosen when they are read and remembered in text. *)
(***************************************************************************)
EXTENDS Integers, SequencesExt

CONSTANTS
  Conditions,   \* the conditions an #if or #elif line can have
  Outcome(_),   \* what eval_condition makes of a condition
  Shapes,       \* kinds of files: the sets that the 1st, 2nd, ... line is from
  MaxCalls      \* how often process() is called

LineType == [op : {"text", "else", "end", "unknown", "eof"}]
              \cup [op : {"if", "elif"}, condition : Conditions]

Eof == [op |-> "eof"]

Outcomes == {"true", "false", "MalformedCondition", "UnKnownConfigKey"}

ASSUME ZConstantsAssumption ==
  /\ \A c \in Conditions : Outcome(c) \in Outcomes
  /\ Shapes \in Seq(Seq(SUBSET LineType)) /\ Shapes # <<>>
  /\ MaxCalls \in Nat \ {0}

VARIABLES
  shape,   \* the kind of file the running call is for
  text,    \* the lines read in the running call
  cond,    \* _cond
  diags,   \* what the running call added to _diags
  out,     \* what the running call put out: whether the line is Skipped
  calls,   \* how many calls of process() began
  done     \* the last of them returned

vars == <<shape, text, cond, diags, out, calls, done>>

Flags == {"ActiveTokens", "BranchTaken", "InElse"}
Level == [state : SUBSET Flags, opened_at : Nat \ {0}]

Codes == {"UnknownDirective", "UnterminatedIf", "UnmatchedElif",
          "UnmatchedElse", "UnmatchedEnd", "ElseAfterElse",
          "MalformedCondition", "UnKnownConfigKey"}

TypeOK ==
  /\ shape \in DOMAIN Shapes
  /\ text \in Seq(LineType)
  /\ cond \in Seq(Level)
  /\ \A i \in DOMAIN cond : cond[i].opened_at \in DOMAIN text
  /\ diags \in Seq([code : Codes, at : Nat \ {0}])
  /\ out \in Seq(BOOLEAN)
  /\ Len(out) = Len(text)
  /\ calls \in 1 .. MaxCalls
  /\ done \in BOOLEAN
-----------------------------------------------------------------------------
skipping == cond # <<>> /\ "ActiveTokens" \notin Last(cond).state

Pos == Len(text) + 1

Upcoming ==
  IF done THEN {}
  ELSE IF Pos \in DOMAIN Shapes[shape] THEN {Eof} \cup Shapes[shape][Pos]
  ELSE {Eof}

Read(l) ==
  /\ l \in Upcoming
  /\ text' = Append(text, l)
  /\ UNCHANGED <<shape, calls>>

Report(code) == diags' = Append(diags, [code |-> code, at |-> Pos])

Text(l) ==
  /\ l.op = "text"
  /\ Read(l)
  /\ out' = Append(out, skipping)
  /\ UNCHANGED <<cond, diags, done>>

\* A directive's line is never marked Skipped.
Directive(l, ops) ==
  /\ l.op \in ops
  /\ Read(l)
  /\ out' = Append(out, FALSE)
  /\ UNCHANGED done

UnknownDirective(l) ==
  /\ Directive(l, {"unknown"})
  /\ IF skipping THEN UNCHANGED diags ELSE Report("UnknownDirective")
  /\ UNCHANGED cond
-----------------------------------------------------------------------------
\* handle_conditional.
Push(state) == cond' = Append(cond, [state |-> state, opened_at |-> Pos])
SetTop(state) == cond' = [cond EXCEPT ![Len(cond)].state = state]
Flag == Last(cond).state

Holds(l) == Outcome(l.condition) = "true"
ReportCondition(l) ==
  IF Outcome(l.condition) \in {"true", "false"} THEN UNCHANGED diags
  ELSE Report(Outcome(l.condition))

DeadStateOpen == {}
DeadState == {"BranchTaken"}
OpenDeadIf(l) ==
  /\ Directive(l, {"if"}) /\ skipping
  /\ Push(DeadState)
  /\ UNCHANGED diags

OpenIf(l) ==
  /\ Directive(l, {"if"}) /\ ~skipping
  /\ Push(IF Holds(l) THEN {"ActiveTokens", "BranchTaken"} ELSE {})
  /\ ReportCondition(l)

Unmatched(l) ==
  /\ Directive(l, {"elif", "else", "end"}) /\ cond = <<>>
  /\ Report(CASE l.op = "end"  -> "UnmatchedEnd"
              [] l.op = "else" -> "UnmatchedElse"
              [] l.op = "elif" -> "UnmatchedElif")
  /\ UNCHANGED cond

End(l) ==
  /\ Directive(l, {"end"}) /\ cond # <<>>
  /\ cond' = Front(cond)
  /\ UNCHANGED diags

ElseAfterElse(l) ==
  /\ Directive(l, {"elif", "else"}) /\ cond # <<>> /\ "InElse" \in Flag
  /\ Report("ElseAfterElse")
  /\ UNCHANGED cond

ElseStateKept == Flag \cup {"InElse", "BranchTaken"}
ElseStateUntaken ==
  (IF "BranchTaken" \in Flag THEN Flag \ {"ActiveTokens"}
   ELSE Flag \cup {"ActiveTokens"}) \cup {"InElse"}
ElseState ==
  (IF "BranchTaken" \in Flag THEN Flag \ {"ActiveTokens"}
   ELSE Flag \cup {"ActiveTokens"}) \cup {"InElse", "BranchTaken"}
Else(l) ==
  /\ Directive(l, {"else"}) /\ cond # <<>> /\ "InElse" \notin Flag
  /\ SetTop(ElseState)
  /\ UNCHANGED diags

ElifTaken(l) ==
  /\ Directive(l, {"elif"}) /\ cond # <<>> /\ "InElse" \notin Flag
  /\ "BranchTaken" \in Flag
  /\ SetTop(Flag \ {"ActiveTokens"})
  /\ UNCHANGED diags

ElifAnyway(l) ==
  /\ Directive(l, {"elif"}) /\ cond # <<>> /\ "InElse" \notin Flag
  /\ SetTop(IF Holds(l) THEN Flag \cup {"ActiveTokens", "BranchTaken"}
            ELSE Flag \ {"ActiveTokens"})
  /\ ReportCondition(l)
Elif(l) ==
  /\ Directive(l, {"elif"}) /\ cond # <<>> /\ "InElse" \notin Flag
  /\ "BranchTaken" \notin Flag
  /\ SetTop(IF Holds(l) THEN Flag \cup {"ActiveTokens", "BranchTaken"}
            ELSE Flag \ {"ActiveTokens"})
  /\ ReportCondition(l)
-----------------------------------------------------------------------------
\* The end of the tokens: every level left open is reported and dropped.
OpenLevelsInner == IF cond = <<>> THEN <<>> ELSE <<Last(cond)>>
OpenLevels == cond
NoLevelsKept == cond
NoLevels == <<>>
Finish(l) ==
  /\ l.op = "eof"
  /\ Read(l)
  /\ out' = Append(out, FALSE)
  /\ diags' = diags \o [i \in DOMAIN OpenLevels |->
                          [code |-> "UnterminatedIf",
                           at   |-> OpenLevels[i].opened_at]]
  /\ cond' = NoLevels
  /\ done' = TRUE

\* process() is called with other tokens.
CallAgain ==
  /\ done /\ calls < MaxCalls
  /\ calls' = calls + 1
  /\ shape' \in DOMAIN Shapes
  /\ text' = <<>> /\ diags' = <<>> /\ out' = <<>>
  /\ done' = FALSE
  /\ UNCHANGED cond

Init ==
  /\ shape \in DOMAIN Shapes
  /\ text = <<>> /\ cond = <<>> /\ diags = <<>> /\ out = <<>>
  /\ calls = 1
  /\ done = FALSE

Step(l) ==
  \/ Text(l) \/ UnknownDirective(l)
  \/ OpenDeadIf(l) \/ OpenIf(l) \/ Unmatched(l) \/ End(l)
  \/ ElseAfterElse(l) \/ Else(l) \/ ElifTaken(l) \/ Elif(l)
  \/ Finish(l)

Returned == done /\ calls = MaxCalls /\ UNCHANGED vars

Next == (\E l \in Upcoming : Step(l)) \/ CallAgain \/ Returned

Spec == Init /\ [][Next]_vars
=============================================================================
