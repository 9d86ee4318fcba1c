------------------------ MODULE ZPreprocessorProofs ------------------------
(***************************************************************************)
(* The Z preprocessor's type invariant, the shape of its stack of levels,  *)
(* the inertness of dead groups, that it marks what the groups drop, and   *)
(* that it reports what their structure calls for: for every file,         *)
(* whatever the conditions come to and however often process() is called.  *)
(***************************************************************************)
EXTENDS ZPreprocessorProperties, ConditionalGroupsProofs, TLAPS

\* A call that has returned left no level behind for the next one.
NothingLeft == done => cond = <<>>

Inv == TypeOK /\ NothingLeft

LEMMA UpcomingIsLine ==
  ASSUME TypeOK, NEW l \in Upcoming
  PROVE  /\ ~done
         /\ l \in LineType
         /\ Pos \in Nat \ {0} /\ Len(text) \in Nat
<1>1. ~done
  BY DEF Upcoming
<1>2. Eof \in LineType
  BY DEF Eof, LineType
<1>3. Shapes[shape] \in Seq(SUBSET LineType)
  BY ZConstantsAssumption DEF TypeOK
<1>4. l \in LineType
  BY <1>1, <1>2, <1>3 DEF Upcoming
<1>5. Len(text) \in Nat
  BY DEF TypeOK
<1> QED
  BY <1>1, <1>4, <1>5 DEF Pos

LEMMA OutcomeType ==
  ASSUME NEW l \in LineType, l.op \in {"if", "elif"}
  PROVE  Outcome(l.condition) \in Outcomes
<1>1. l.condition \in Conditions
  BY DEF LineType
<1> QED
  BY <1>1, ZConstantsAssumption

LEMMA SkippingType == skipping \in BOOLEAN
BY DEF skipping

LEMMA ReadType ==
  ASSUME TypeOK, NEW l \in Upcoming, Read(l)
  PROVE  /\ text' \in Seq(LineType) /\ Len(text') = Pos
         /\ DOMAIN text' = DOMAIN text \cup {Pos}
         /\ shape' \in DOMAIN Shapes /\ calls' \in 1 .. MaxCalls
<1>1. l \in LineType /\ text \in Seq(LineType)
  BY UpcomingIsLine DEF TypeOK
<1>2. text' = Append(text, l)
  BY DEF Read
<1>3. /\ text' \in Seq(LineType) /\ Len(text') = Pos
      /\ DOMAIN text' = DOMAIN text \cup {Pos}
  BY <1>1, <1>2 DEF Pos
<1> QED
  BY <1>3 DEF Read, TypeOK

LEMMA OutType ==
  ASSUME TypeOK, NEW b \in BOOLEAN, out' = Append(out, b)
  PROVE  out' \in Seq(BOOLEAN) /\ Len(out') = Pos
BY DEF TypeOK, Pos

LEMMA ReportType ==
  ASSUME TypeOK, NEW l \in Upcoming, NEW code \in Codes, Report(code)
  PROVE  diags' \in Seq([code : Codes, at : Nat \ {0}])
<1>1. [code |-> code, at |-> Pos] \in [code : Codes, at : Nat \ {0}]
  BY UpcomingIsLine
<1> QED
  BY <1>1 DEF Report, TypeOK

LEMMA ConditionReportType ==
  ASSUME TypeOK, NEW l \in Upcoming, l.op \in {"if", "elif"},
         ReportCondition(l)
  PROVE  diags' \in Seq([code : Codes, at : Nat \ {0}])
<1>1. Outcome(l.condition) \in Outcomes
  BY UpcomingIsLine, OutcomeType
<1>2. CASE Outcome(l.condition) \in {"true", "false"}
  BY <1>2 DEF ReportCondition, TypeOK
<1>3. CASE Outcome(l.condition) \notin {"true", "false"}
  <2>1. Outcome(l.condition) \in Codes
    BY <1>1, <1>3 DEF Outcomes, Codes
  <2> QED
    BY <1>3, <2>1, ReportType DEF ReportCondition
<1> QED
  BY <1>2, <1>3

(***************************************************************************)
(* What a step can do to the levels: open one on top, drop some, or change *)
(* the innermost one.                                                      *)
(***************************************************************************)
Opens == \E s \in SUBSET Flags :
           /\ Push(s)
           /\ "InElse" \notin s
           /\ "ActiveTokens" \in s => "BranchTaken" \in s
           /\ skipping => "ActiveTokens" \notin s /\ "BranchTaken" \in s
Drops == \/ cond # <<>> /\ cond' = Front(cond)
         \/ cond' = <<>>
Changes == /\ cond # <<>>
           /\ \E s \in SUBSET Flags :
                /\ SetTop(s)
                /\ "ActiveTokens" \in s => "BranchTaken" \notin Flag
                /\ "BranchTaken" \in Flag => "BranchTaken" \in s
                /\ s \cap {"ActiveTokens", "InElse"} # {} => "BranchTaken" \in s

LEMMA FlagType ==
  ASSUME TypeOK, cond # <<>>
  PROVE  /\ Len(cond) \in DOMAIN cond
         /\ Last(cond) = cond[Len(cond)] /\ Last(cond) \in Level
         /\ Flag \subseteq Flags
<1>1. Len(cond) \in DOMAIN cond /\ cond[Len(cond)] \in Level
  BY DEF TypeOK
<1>2. cond[Len(cond)].state \in SUBSET Flags
  BY <1>1 DEF Level
<1> QED
  BY <1>1, <1>2 DEF Last, Flag

LEMMA CondStep ==
  ASSUME TypeOK, NEW l \in Upcoming, Step(l)
  PROVE  UNCHANGED cond \/ Opens \/ Drops \/ Changes
<1>1. CASE OpenDeadIf(l)
  BY <1>1 DEF OpenDeadIf, Opens, DeadState, Flags
<1>2. CASE OpenIf(l)
  <2> DEFINE s == IF Holds(l) THEN {"ActiveTokens", "BranchTaken"} ELSE {}
  <2>1. s \in SUBSET Flags /\ ("ActiveTokens" \in s => "BranchTaken" \in s)
        /\ "InElse" \notin s
    BY DEF Flags
  <2>2. Push(s) /\ ~skipping
    BY <1>2 DEF OpenIf
  <2> HIDE DEF s
  <2> QED
    BY <2>1, <2>2 DEF Opens
<1>3. CASE End(l)
  BY <1>3 DEF End, Drops
<1>4. CASE Else(l)
  <2> DEFINE s == ElseState
  <2>1. cond # <<>> /\ SetTop(s)
    BY <1>4 DEF Else
  <2>2. /\ s \in SUBSET Flags /\ "BranchTaken" \in s
        /\ "ActiveTokens" \in s => "BranchTaken" \notin Flag
    BY <2>1, FlagType DEF ElseState, Flags
  <2> HIDE DEF s
  <2> QED
    BY <2>1, <2>2 DEF Changes
<1>5. CASE ElifTaken(l)
  <2> DEFINE s == Flag \ {"ActiveTokens"}
  <2>1. cond # <<>> /\ SetTop(s)
    BY <1>5 DEF ElifTaken
  <2>2. s \in SUBSET Flags /\ "BranchTaken" \in s /\ "ActiveTokens" \notin s
    BY <1>5, <2>1, FlagType DEF ElifTaken
  <2> HIDE DEF s
  <2> QED
    BY <2>1, <2>2 DEF Changes
<1>6. CASE Elif(l)
  <2> DEFINE s == IF Holds(l) THEN Flag \cup {"ActiveTokens", "BranchTaken"}
                  ELSE Flag \ {"ActiveTokens"}
  <2>1. cond # <<>> /\ SetTop(s) /\ "BranchTaken" \notin Flag
        /\ "InElse" \notin Flag
    BY <1>6 DEF Elif
  <2>2. /\ s \in SUBSET Flags
        /\ s \cap {"ActiveTokens", "InElse"} # {} => "BranchTaken" \in s
    BY <2>1, FlagType DEF Flags
  <2> HIDE DEF s
  <2> QED
    BY <2>1, <2>2 DEF Changes
<1>7. CASE Finish(l)
  BY <1>7 DEF Finish, NoLevels, Drops
<1>8. CASE \/ Text(l) \/ UnknownDirective(l) \/ Unmatched(l)
           \/ ElseAfterElse(l)
  BY <1>8 DEF Text, UnknownDirective, Unmatched, ElseAfterElse
<1> QED
  BY <1>1, <1>2, <1>3, <1>4, <1>5, <1>6, <1>7, <1>8, Zenon DEF Step

\* The four cases, level by level.
LEMMA LevelsAfterStep ==
  ASSUME TypeOK, NEW l \in Upcoming, Step(l)
  PROVE  \/ /\ DOMAIN cond' \subseteq DOMAIN cond
            /\ \A i \in DOMAIN cond' : cond'[i] = cond[i]
         \/ /\ DOMAIN cond' = DOMAIN cond \cup {Len(cond) + 1}
            /\ \A i \in DOMAIN cond : cond'[i] = cond[i]
            /\ LET new == cond'[Len(cond) + 1]
               IN /\ "InElse" \notin new.state
                  /\ "ActiveTokens" \in new.state => "BranchTaken" \in new.state
                  /\ skipping => /\ "ActiveTokens" \notin new.state
                                 /\ "BranchTaken" \in new.state
                  /\ new \in Level /\ new.opened_at = Pos
         \/ /\ DOMAIN cond' = DOMAIN cond /\ Len(cond) \in DOMAIN cond
            /\ \A i \in DOMAIN cond \ {Len(cond)} : cond'[i] = cond[i]
            /\ LET new == cond'[Len(cond)]
                   old == cond[Len(cond)]
               IN /\ "ActiveTokens" \in new.state =>
                       "BranchTaken" \notin old.state
                  /\ "BranchTaken" \in old.state => "BranchTaken" \in new.state
                  /\ new.state \cap {"ActiveTokens", "InElse"} # {} =>
                       "BranchTaken" \in new.state
                  /\ new \in Level /\ new.opened_at = old.opened_at
<1>0. cond \in Seq(Level)
  BY DEF TypeOK
<1>1. CASE UNCHANGED cond
  BY <1>1
<1>2. CASE Opens
  <2>1. PICK s \in SUBSET Flags :
          /\ Push(s) /\ "InElse" \notin s
          /\ "ActiveTokens" \in s => "BranchTaken" \in s
          /\ skipping => "ActiveTokens" \notin s /\ "BranchTaken" \in s
    BY <1>2 DEF Opens
  <2> DEFINE new == [state |-> s, opened_at |-> Pos]
  <2>2. new \in Level /\ new.state = s /\ new.opened_at = Pos
    BY UpcomingIsLine DEF Level
  <2>3. cond' = Append(cond, new)
    BY <2>1 DEF Push
  <2> HIDE DEF new
  <2>4. /\ DOMAIN cond' = DOMAIN cond \cup {Len(cond) + 1}
        /\ \A i \in DOMAIN cond : cond'[i] = cond[i]
        /\ cond'[Len(cond) + 1] = new
    BY <1>0, <2>2, <2>3
  <2> QED
    BY <2>1, <2>2, <2>4
<1>3. CASE Drops
  BY <1>0, <1>3 DEF Drops, Front
<1>4. CASE Changes
  <2>1. PICK s \in SUBSET Flags :
          /\ SetTop(s)
          /\ "ActiveTokens" \in s => "BranchTaken" \notin Flag
          /\ "BranchTaken" \in Flag => "BranchTaken" \in s
          /\ s \cap {"ActiveTokens", "InElse"} # {} => "BranchTaken" \in s
    BY <1>4 DEF Changes
  <2> DEFINE old == cond[Len(cond)]
             new == [old EXCEPT !.state = s]
  <2>2. Len(cond) \in DOMAIN cond /\ old \in Level /\ Flag = old.state
    BY <1>4, FlagType DEF Changes, Flag
  <2>3. new \in Level /\ new.state = s /\ new.opened_at = old.opened_at
    BY <2>2 DEF Level
  <2>4. cond' = [cond EXCEPT ![Len(cond)] = new]
    BY <2>1 DEF SetTop
  <2> HIDE DEF new
  <2>5. /\ DOMAIN cond' = DOMAIN cond
        /\ \A i \in DOMAIN cond \ {Len(cond)} : cond'[i] = cond[i]
        /\ cond'[Len(cond)] = new
    BY <1>0, <2>2, <2>4
  <2> QED
    BY <2>1, <2>2, <2>3, <2>5
<1> QED
  BY <1>1, <1>2, <1>3, <1>4, CondStep, Zenon

(***************************************************************************)
(* The type invariant.                                                     *)
(***************************************************************************)
LEMMA LineStepType ==
  ASSUME Inv, NEW l \in Upcoming, Step(l)
  PROVE  /\ Read(l)
         /\ \E b \in BOOLEAN : out' = Append(out, b)
         /\ diags' \in Seq([code : Codes, at : Nat \ {0}])
         /\ done' \in BOOLEAN /\ (done' => cond' = <<>>)
<1> USE DEF Inv
<1>0. /\ ~done /\ done \in BOOLEAN /\ skipping \in BOOLEAN
      /\ diags \in Seq([code : Codes, at : Nat \ {0}])
  BY UpcomingIsLine, SkippingType DEF TypeOK
<1>1. CASE Text(l)
  BY <1>0, <1>1 DEF Text
<1>2. CASE UnknownDirective(l)
  <2>1. "UnknownDirective" \in Codes
    BY DEF Codes
  <2>2. diags' \in Seq([code : Codes, at : Nat \ {0}])
    BY <1>0, <1>2, <2>1, ReportType DEF UnknownDirective
  <2>3. Directive(l, {"unknown"})
    BY <1>2 DEF UnknownDirective
  <2>4. Read(l) /\ out' = Append(out, FALSE) /\ done' = done
    BY <2>3 DEF Directive
  <2> QED
    BY <1>0, <2>2, <2>4, Zenon
<1>3. CASE OpenDeadIf(l) \/ End(l) \/ Else(l) \/ ElifTaken(l)
  <2>1. (\E ops : Directive(l, ops)) /\ diags' = diags
    BY <1>3 DEF OpenDeadIf, End, Else, ElifTaken
  <2>2. Read(l) /\ out' = Append(out, FALSE) /\ done' = done
    BY <2>1 DEF Directive
  <2> QED
    BY <1>0, <2>1, <2>2, Zenon
<1>4. CASE OpenIf(l) \/ Elif(l)
  <2>1. l.op \in {"if", "elif"} /\ ReportCondition(l)
    BY <1>4 DEF OpenIf, Elif, Directive
  <2>2. diags' \in Seq([code : Codes, at : Nat \ {0}])
    BY <2>1, ConditionReportType
  <2>3. Directive(l, {"if"}) \/ Directive(l, {"elif"})
    BY <1>4 DEF OpenIf, Elif
  <2>4. Read(l) /\ out' = Append(out, FALSE) /\ done' = done
    BY <2>3 DEF Directive
  <2> QED
    BY <1>0, <2>2, <2>4, Zenon
<1>5. CASE Unmatched(l)
  <2>1. \E code \in Codes : Report(code)
    BY <1>5 DEF Unmatched, Directive, Codes
  <2>2. diags' \in Seq([code : Codes, at : Nat \ {0}])
    BY <2>1, ReportType
  <2> QED
    BY <1>0, <1>5, <2>2 DEF Unmatched, Directive
<1>6. CASE ElseAfterElse(l)
  <2>1. "ElseAfterElse" \in Codes
    BY DEF Codes
  <2>2. diags' \in Seq([code : Codes, at : Nat \ {0}])
    BY <1>6, <2>1, ReportType DEF ElseAfterElse
  <2> QED
    BY <1>0, <1>6, <2>2 DEF ElseAfterElse, Directive
<1>7. CASE Finish(l)
  <2> DEFINE ends == [i \in DOMAIN OpenLevels |->
                        [code |-> "UnterminatedIf",
                         at   |-> OpenLevels[i].opened_at]]
  <2>1. cond \in Seq(Level) /\ "UnterminatedIf" \in Codes
    BY DEF TypeOK, Codes
  <2>2. /\ Len(cond) \in Nat /\ DOMAIN ends = 1 .. Len(cond)
        /\ \A i \in 1 .. Len(cond) :
             ends[i] \in [code : Codes, at : Nat \ {0}]
    <3>1. \A i \in 1 .. Len(cond) : cond[i] \in Level
      BY <2>1
    <3>2. \A i \in 1 .. Len(cond) : cond[i].opened_at \in Nat \ {0}
      BY <3>1 DEF Level
    <3> QED
      BY <2>1, <3>2 DEF OpenLevels
  <2> HIDE DEF ends
  <2>3. ends \in Seq([code : Codes, at : Nat \ {0}])
    <3>1. ends = [i \in 1 .. Len(cond) |-> ends[i]]
      BY <1>7, <2>2 DEF ends
    <3> QED
      BY <2>2, <3>1
  <2>4. diags' = diags \o ends
    BY <1>7 DEF Finish, ends
  <2>5. diags' \in Seq([code : Codes, at : Nat \ {0}])
    BY <1>0, <2>3, <2>4
  <2> QED
    BY <1>7, <2>5 DEF Finish, NoLevels
<1> QED
  BY <1>1, <1>2, <1>3, <1>4, <1>5, <1>6, <1>7, Zenon DEF Step

LEMMA LevelsStepType ==
  ASSUME TypeOK, NEW l \in Upcoming, Step(l),
         DOMAIN text' = DOMAIN text \cup {Pos}
  PROVE  /\ cond' \in Seq(Level)
         /\ \A i \in DOMAIN cond' : cond'[i].opened_at \in DOMAIN text'
<1>0. /\ cond \in Seq(Level) /\ cond' \in Seq(Level)
  <2>1. cond \in Seq(Level)
    BY DEF TypeOK
  <2>2. CASE UNCHANGED cond \/ Drops
    <3>1. cond # <<>> => Front(cond) \in Seq(Level)
      BY <2>1 DEF Front
    <3>2. cond' \in {cond, <<>>} \/ (cond # <<>> /\ cond' = Front(cond))
      BY <2>2 DEF Drops
    <3>3. <<>> \in Seq(Level)
      OBVIOUS
    <3> QED
      BY <2>1, <3>1, <3>2, <3>3
  <2>3. CASE Opens
    <3>1. PICK s \in SUBSET Flags : Push(s)
      BY <2>3 DEF Opens
    <3>2. [state |-> s, opened_at |-> Pos] \in Level
      BY UpcomingIsLine DEF Level
    <3> QED
      BY <2>1, <3>1, <3>2 DEF Push
  <2>4. CASE Changes
    <3>1. PICK s \in SUBSET Flags : SetTop(s)
      BY <2>4 DEF Changes
    <3> DEFINE new == [cond[Len(cond)] EXCEPT !.state = s]
    <3>2. new \in Level
      BY <2>4, FlagType DEF Changes, Level
    <3>3. cond' = [cond EXCEPT ![Len(cond)] = new]
      BY <3>1 DEF SetTop
    <3> HIDE DEF new
    <3>4. Len(cond) \in Nat /\ cond \in [1 .. Len(cond) -> Level]
      BY <2>1
    <3>5. cond' \in [1 .. Len(cond) -> Level]
      BY <3>2, <3>3, <3>4
    <3> QED
      BY <2>1, <3>4, <3>5
  <2> QED
    BY <2>2, <2>3, <2>4, CondStep
<1>1. ASSUME NEW i \in DOMAIN cond'
      PROVE  cond'[i].opened_at \in DOMAIN text'
  <2>1. \A k \in DOMAIN cond : cond[k].opened_at \in DOMAIN text
    BY DEF TypeOK
  <2>2. CASE i \in DOMAIN cond /\ cond'[i].opened_at = cond[i].opened_at
    BY <2>1, <2>2
  <2>3. CASE cond'[i].opened_at = Pos
    BY <2>3
  <2> QED
    BY <2>2, <2>3, LevelsAfterStep
<1> QED
  BY <1>0, <1>1

LEMMA FreshState ==
  ASSUME text = <<>>, cond = <<>>, diags = <<>>, out = <<>>,
         shape \in DOMAIN Shapes, calls \in 1 .. MaxCalls, done = FALSE
  PROVE  Inv
<1>1. /\ text \in Seq(LineType) /\ cond \in Seq(Level)
      /\ diags \in Seq([code : Codes, at : Nat \ {0}])
      /\ out \in Seq(BOOLEAN) /\ Len(out) = Len(text)
  OBVIOUS
<1>2. \A i \in DOMAIN cond : cond[i].opened_at \in DOMAIN text
  OBVIOUS
<1> QED
  BY <1>1, <1>2 DEF Inv, TypeOK, NothingLeft

LEMMA InvStep == Inv /\ [Next]_vars => Inv'
<1> SUFFICES ASSUME Inv, [Next]_vars PROVE Inv'
  OBVIOUS
<1>1. ASSUME NEW l \in Upcoming, Step(l) PROVE Inv'
  <2>0. TypeOK /\ Read(l)
    BY <1>1, LineStepType DEF Inv
  <2>1. PICK b \in BOOLEAN : out' = Append(out, b)
    BY <1>1, LineStepType
  <2>2. out' \in Seq(BOOLEAN) /\ Len(out') = Len(text')
    BY <2>0, <2>1, OutType, ReadType
  <2>3. /\ diags' \in Seq([code : Codes, at : Nat \ {0}])
        /\ done' \in BOOLEAN /\ (done' => cond' = <<>>)
    BY <1>1, LineStepType
  <2>4. /\ cond' \in Seq(Level)
        /\ \A i \in DOMAIN cond' : cond'[i].opened_at \in DOMAIN text'
    BY <1>1, <2>0, ReadType, LevelsStepType
  <2> QED
    BY <2>0, <2>2, <2>3, <2>4, ReadType DEF Inv, TypeOK, NothingLeft
<1>2. CASE CallAgain
  <2>1. cond' = <<>>
    BY <1>2 DEF CallAgain, Inv, NothingLeft
  <2>2. calls' \in 1 .. MaxCalls
    BY <1>2, ZConstantsAssumption DEF CallAgain, Inv, TypeOK
  <2>3. /\ text' \in Seq(LineType) /\ cond' \in Seq(Level)
        /\ diags' \in Seq([code : Codes, at : Nat \ {0}])
        /\ out' \in Seq(BOOLEAN) /\ Len(out') = Len(text')
    BY <1>2, <2>1 DEF CallAgain
  <2>4. \A i \in DOMAIN cond' : cond'[i].opened_at \in DOMAIN text'
    BY <2>1
  <2>5. shape' \in DOMAIN Shapes /\ done' = FALSE
    BY <1>2 DEF CallAgain
  <2> QED
    BY <2>2, <2>3, <2>4, <2>5 DEF Inv, TypeOK, NothingLeft
<1>3. CASE UNCHANGED vars
  BY <1>3 DEF vars, Inv, TypeOK, NothingLeft
<1> QED
  BY <1>1, <1>2, <1>3 DEF Next, Returned

LEMMA InvInit == Init => Inv
<1> SUFFICES ASSUME Init PROVE Inv
  OBVIOUS
<1>1. 1 \in 1 .. MaxCalls
  BY ZConstantsAssumption
<1> QED
  BY <1>1, FreshState DEF Init

(***************************************************************************)
(* The state keeps its type over any number of calls; above all, every     *)
(* level was opened by a line of the running call, as process() leaves     *)
(* nothing on the stack.                                                   *)
(***************************************************************************)
THEOREM ZTypeCorrect == Spec => []TypeOK
<1>1. Inv => TypeOK
  BY DEF Inv
<1> QED
  BY <1>1, InvInit, InvStep, PTL DEF Spec

LEMMA AlwaysInv == Spec => []Inv
BY InvInit, InvStep, PTL DEF Spec

(***************************************************************************)
(* A live level, and one past its #else, counts as taken.                  *)
(***************************************************************************)
THEOREM ZOneLiveBranch == Spec => []LevelsConsistent
<1>1. Init => LevelsConsistent
  BY DEF Init, LevelsConsistent
<1>2. LevelsConsistent /\ Inv /\ [Next]_vars => LevelsConsistent'
  <2> SUFFICES ASSUME LevelsConsistent, TypeOK, [Next]_vars
               PROVE  LevelsConsistent'
    BY DEF Inv
  <2>1. ASSUME NEW l \in Upcoming, Step(l), NEW i \in DOMAIN cond',
               cond'[i].state \cap {"ActiveTokens", "InElse"} # {}
        PROVE  "BranchTaken" \in cond'[i].state
    BY <2>1, LevelsAfterStep DEF LevelsConsistent
  <2>2. CASE CallAgain \/ UNCHANGED vars
    BY <2>2 DEF CallAgain, vars, LevelsConsistent
  <2> QED
    BY <2>1, <2>2 DEF Next, Returned, LevelsConsistent
<1> QED
  BY <1>1, <1>2, AlwaysInv, PTL DEF Spec

(***************************************************************************)
(* Above a dead level every level is dead and counts as taken, so that     *)
(* skipping() may look at the innermost level alone.                       *)
(***************************************************************************)
THEOREM ZDeadStaysDead == Spec => []DeadBelowDead
<1>1. Init => DeadBelowDead
  BY DEF Init, DeadBelowDead
<1>2. DeadBelowDead /\ Inv /\ [Next]_vars => DeadBelowDead'
  <2> SUFFICES ASSUME DeadBelowDead, TypeOK, [Next]_vars
               PROVE  DeadBelowDead'
    BY DEF Inv
  <2>1. ASSUME NEW l \in Upcoming, Step(l),
               NEW i \in DOMAIN cond', NEW j \in DOMAIN cond', i < j,
               "ActiveTokens" \notin cond'[i].state
        PROVE  /\ "ActiveTokens" \notin cond'[j].state
               /\ "BranchTaken" \in cond'[j].state
    <3>0. cond \in Seq(Level) /\ DOMAIN cond = 1 .. Len(cond)
      BY DEF TypeOK
    <3>1. CASE i \in DOMAIN cond /\ cond'[i] = cond[i]
      <4>1. CASE j \in DOMAIN cond
        <5>1. "ActiveTokens" \notin cond[j].state
              /\ "BranchTaken" \in cond[j].state
          BY <2>1, <3>1, <4>1 DEF DeadBelowDead
        <5> QED
          BY <2>1, <3>0, <4>1, <5>1, LevelsAfterStep
      <4>2. CASE j \notin DOMAIN cond
        <5>1. cond # <<>> /\ Last(cond) = cond[Len(cond)]
          BY <3>0, <3>1 DEF Last
        <5>2. "ActiveTokens" \notin cond[Len(cond)].state
          BY <2>1, <3>0, <3>1 DEF DeadBelowDead
        <5>3. skipping
          BY <5>1, <5>2 DEF skipping
        <5> QED
          BY <2>1, <3>0, <4>2, <5>3, LevelsAfterStep
      <4> QED
        BY <4>1, <4>2
    <3>2. CASE ~(i \in DOMAIN cond /\ cond'[i] = cond[i])
      <4>1. \/ i = Len(cond) + 1
            \/ i = Len(cond) /\ DOMAIN cond' = DOMAIN cond
        BY <2>1, <3>0, <3>2, LevelsAfterStep
      <4> QED
        BY <2>1, <3>0, <4>1, LevelsAfterStep
    <3> QED
      BY <3>1, <3>2
  <2>2. CASE CallAgain \/ UNCHANGED vars
    BY <2>2 DEF CallAgain, vars, DeadBelowDead
  <2> QED
    BY <2>1, <2>2 DEF Next, Returned, DeadBelowDead
<1> QED
  BY <1>1, <1>2, AlwaysInv, PTL DEF Spec

(***************************************************************************)
(* No #elif, #else or #end revives a group that has had its live branch.   *)
(***************************************************************************)
THEOREM ZOnlyOneBranch == Spec => NoSecondBranch
<1>1. Inv /\ [Next]_vars =>
        [\A i \in DOMAIN cond \cap DOMAIN cond' :
           "ActiveTokens" \in cond'[i].state
             /\ "ActiveTokens" \notin cond[i].state
             => "BranchTaken" \notin cond[i].state]_vars
  <2> SUFFICES ASSUME TypeOK, [Next]_vars, NEW i \in DOMAIN cond,
                      i \in DOMAIN cond',
                      "ActiveTokens" \in cond'[i].state,
                      "ActiveTokens" \notin cond[i].state
               PROVE  "BranchTaken" \notin cond[i].state
    BY DEF Inv
  <2>1. CASE CallAgain \/ UNCHANGED vars
    BY <2>1 DEF CallAgain, vars
  <2>2. ASSUME NEW l \in Upcoming, Step(l)
        PROVE  "BranchTaken" \notin cond[i].state
    BY <2>2, LevelsAfterStep
  <2> QED
    BY <2>1, <2>2 DEF Next, Returned
<1> QED
  BY <1>1, AlwaysInv, PTL DEF Spec, NoSecondBranch
-----------------------------------------------------------------------------
(***************************************************************************)
(* The stack and the groups.  While process() runs, the levels are those   *)
(* of the groups open in front of the next line.                           *)
(***************************************************************************)
OpenedAt == [d \in DOMAIN cond |-> cond[d].opened_at]
Active == {d \in DOMAIN cond : "ActiveTokens" \in cond[d].state}
Taken == {d \in DOMAIN cond : "BranchTaken" \in cond[d].state}

StackIsGroups ==
  ~done => Stacked(Lines, Holding(Lines), Pos, OpenedAt, Active, Taken)

GroupsInv == Faultless => StackIsGroups /\ MarksWhatTheGroupsDrop

LEMMA OpenedAtType ==
  ASSUME TypeOK
  PROVE  /\ OpenedAt \in Seq(Nat) /\ Len(OpenedAt) = Len(cond)
         /\ DOMAIN OpenedAt = DOMAIN cond /\ DOMAIN cond = 1 .. Len(cond)
         /\ cond = <<>> <=> OpenedAt = <<>>
         /\ skipping <=> ~TopIsLive(OpenedAt, Active)
<1>1. cond \in Seq(Level) /\ Len(cond) \in Nat /\ DOMAIN cond = 1 .. Len(cond)
  BY DEF TypeOK
<1>2. \A d \in DOMAIN cond : cond[d].opened_at \in Nat
  <2>1. \A d \in DOMAIN cond : cond[d] \in Level
    BY <1>1
  <2>2. \A level \in Level : level.opened_at \in Nat
    BY DEF Level
  <2> QED
    BY <2>1, <2>2
<1>3. /\ OpenedAt \in [1 .. Len(cond) -> Nat]
      /\ OpenedAt \in Seq(Nat) /\ Len(OpenedAt) = Len(cond)
      /\ DOMAIN OpenedAt = DOMAIN cond
  BY <1>1, <1>2 DEF OpenedAt
<1>4. cond = <<>> <=> OpenedAt = <<>>
  BY <1>1, <1>3
<1>5. cond # <<>> => Len(cond) \in DOMAIN cond /\ Last(cond) = cond[Len(cond)]
  BY <1>1 DEF Last
<1> QED
  BY <1>1, <1>3, <1>4, <1>5 DEF skipping, TopIsLive, Active

\* The lines read before are not changed by reading one more.
LEMMA LinesGrow ==
  ASSUME TypeOK, NEW l \in Upcoming, Read(l)
  PROVE  /\ SameUpTo(Lines, Holding(Lines), Lines', Holding(Lines)', Pos)
         /\ DOMAIN Lines = 1 .. Pos - 1 /\ DOMAIN Lines' = 1 .. Pos
         /\ DOMAIN text = 1 .. Pos - 1 /\ DOMAIN text' = 1 .. Pos
         /\ \A i \in DOMAIN text : text'[i] = text[i] /\ Lines'[i] = Lines[i]
         /\ text'[Pos] = l /\ Pos' = Pos + 1
         /\ Lines'[Pos] = IF l.op = "end" THEN [op |-> "endif"] ELSE l
         /\ Pos \in Holding(Lines)' <=> /\ l.op \in {"if", "elif"}
                                        /\ Outcome(l.condition) = "true"
<1>1. /\ l \in LineType /\ text \in Seq(LineType) /\ text' = Append(text, l)
      /\ Len(text) \in Nat /\ Pos = Len(text) + 1
  BY UpcomingIsLine DEF Read, TypeOK, Pos
<1>2. /\ DOMAIN text = 1 .. Pos - 1 /\ DOMAIN text' = 1 .. Pos
      /\ \A i \in DOMAIN text : text'[i] = text[i]
      /\ text'[Pos] = l /\ Len(text') = Pos
  BY <1>1
<1>3. /\ DOMAIN Lines = 1 .. Pos - 1 /\ DOMAIN Lines' = 1 .. Pos
      /\ \A i \in DOMAIN text : Lines'[i] = Lines[i]
      /\ Lines'[Pos] = IF l.op = "end" THEN [op |-> "endif"] ELSE l
  <2>1. Pos \in 1 .. Pos
    BY <1>1
  <2>2. \A i \in DOMAIN text : i \in DOMAIN text'
    BY <1>1, <1>2
  <2> QED
    BY <1>2, <2>1, <2>2 DEF Lines
<1>4. \A k \in 1 .. Pos - 1 : k \in Holding(Lines)' <=> k \in Holding(Lines)
  <2>1. \A k \in 1 .. Pos - 1 : k \in 1 .. Pos
    BY <1>1
  <2> QED
    BY <1>2, <1>3, <2>1 DEF Holding
<1>5. Pos \in Holding(Lines)' <=> /\ l.op \in {"if", "elif"}
                                  /\ Outcome(l.condition) = "true"
  <2>1. Pos \in DOMAIN Lines'
    BY <1>1, <1>3
  <2>2. CASE l.op = "end"
    <3>1. Lines'[Pos].op = "endif"
      BY <1>3, <2>2
    <3> QED
      BY <2>2, <3>1 DEF Holding
  <2>3. CASE l.op # "end"
    <3>1. Lines'[Pos] = l
      BY <1>3, <2>3
    <3> QED
      BY <2>1, <3>1 DEF Holding
  <2> QED
    BY <2>2, <2>3
<1>6. Pos' = Pos + 1
  BY <1>2 DEF Pos
<1> QED
  BY <1>1, <1>2, <1>3, <1>4, <1>5, <1>6 DEF SameUpTo

\* What the four ways of changing _cond do to the stack as the groups see it.
LEMMA Pushed ==
  ASSUME TypeOK, NEW s \in SUBSET Flags, Push(s), Pos \in Nat \ {0}
  PROVE  /\ OpenedAt' = Append(OpenedAt, Pos)
         /\ \A d \in DOMAIN OpenedAt : (d \in Active' <=> d \in Active)
                                        /\ (d \in Taken' <=> d \in Taken)
         /\ Len(OpenedAt) + 1 \in Active' <=> "ActiveTokens" \in s
         /\ Len(OpenedAt) + 1 \in Taken' <=> "BranchTaken" \in s
<1> DEFINE new == [state |-> s, opened_at |-> Pos]
<1>1. cond' = Append(cond, new) /\ new \in Level
      /\ new.state = s /\ new.opened_at = Pos
  BY DEF Push, Level
<1> HIDE DEF new
<1>2. /\ cond \in Seq(Level) /\ Len(cond) \in Nat /\ DOMAIN cond = 1 .. Len(cond)
      /\ OpenedAt \in Seq(Nat) /\ Len(OpenedAt) = Len(cond)
      /\ DOMAIN OpenedAt = DOMAIN cond
  BY OpenedAtType DEF TypeOK
<1>3. /\ DOMAIN cond' = 1 .. Len(cond) + 1
      /\ \A d \in DOMAIN cond : cond'[d] = cond[d] /\ d \in DOMAIN cond'
      /\ cond'[Len(cond) + 1] = new /\ Len(cond) + 1 \in DOMAIN cond'
  BY <1>1, <1>2
<1>4. OpenedAt' = Append(OpenedAt, Pos)
  <2> DEFINE grown == Append(OpenedAt, Pos)
  <2>1. /\ DOMAIN grown = 1 .. Len(cond) + 1 /\ grown[Len(cond) + 1] = Pos
        /\ \A d \in DOMAIN cond : grown[d] = cond[d].opened_at
        /\ grown = [d \in 1 .. Len(cond) + 1 |-> grown[d]]
    BY <1>2 DEF OpenedAt
  <2>2. OpenedAt' = [d \in 1 .. Len(cond) + 1 |-> cond'[d].opened_at]
    BY <1>3 DEF OpenedAt
  <2>3. \A d \in 1 .. Len(cond) + 1 : d \in DOMAIN cond \/ d = Len(cond) + 1
    BY <1>2
  <2> HIDE DEF grown
  <2>4. \A d \in 1 .. Len(cond) + 1 : cond'[d].opened_at = grown[d]
    BY <1>1, <1>3, <2>1, <2>3
  <2>5. OpenedAt' = grown
    BY <2>1, <2>2, <2>4
  <2> QED
    BY <2>5 DEF grown
<1> QED
  BY <1>1, <1>2, <1>3, <1>4 DEF Active, Taken

LEMMA Popped ==
  ASSUME TypeOK, cond # <<>>, cond' = Front(cond)
  PROVE  /\ OpenedAt' = Front(OpenedAt)
         /\ \A d \in DOMAIN OpenedAt :
              d < Len(OpenedAt) => (d \in Active' <=> d \in Active)
                                     /\ (d \in Taken' <=> d \in Taken)
<1>1. /\ cond \in Seq(Level) /\ OpenedAt \in Seq(Nat) /\ OpenedAt # <<>>
      /\ Len(OpenedAt) = Len(cond) /\ DOMAIN OpenedAt = DOMAIN cond
  BY OpenedAtType DEF TypeOK
<1>2. /\ DOMAIN cond' = 1 .. Len(cond) - 1 /\ DOMAIN cond = 1 .. Len(cond)
      /\ \A d \in DOMAIN cond' : cond'[d] = cond[d] /\ d \in DOMAIN cond
      /\ Len(cond) \in Nat
  BY <1>1, FrontIs
<1>3. /\ Front(OpenedAt) \in Seq(Nat) /\ DOMAIN Front(OpenedAt) = 1 .. Len(cond) - 1
      /\ \A d \in 1 .. Len(cond) - 1 : Front(OpenedAt)[d] = OpenedAt[d]
  BY <1>1, FrontIs
<1>4. OpenedAt' = Front(OpenedAt)
  <2>1. OpenedAt' = [d \in 1 .. Len(cond) - 1 |-> cond'[d].opened_at]
    BY <1>2 DEF OpenedAt
  <2>2. \A d \in 1 .. Len(cond) - 1 : cond'[d].opened_at = Front(OpenedAt)[d]
    BY <1>2, <1>3 DEF OpenedAt
  <2>3. Front(OpenedAt) = [d \in 1 .. Len(cond) - 1 |-> Front(OpenedAt)[d]]
    BY <1>3
  <2> QED
    BY <2>1, <2>2, <2>3
<1> QED
  BY <1>1, <1>2, <1>4 DEF Active, Taken

LEMMA TopSet ==
  ASSUME TypeOK, cond # <<>>, NEW s \in SUBSET Flags, SetTop(s)
  PROVE  /\ OpenedAt' = OpenedAt
         /\ \A d \in DOMAIN OpenedAt :
              d < Len(OpenedAt) => (d \in Active' <=> d \in Active)
                                     /\ (d \in Taken' <=> d \in Taken)
         /\ Len(OpenedAt) \in Active' <=> "ActiveTokens" \in s
         /\ Len(OpenedAt) \in Taken' <=> "BranchTaken" \in s
         /\ Len(OpenedAt) \in Taken <=> "BranchTaken" \in Flag
<1>1. /\ cond \in Seq(Level) /\ Len(OpenedAt) = Len(cond)
      /\ DOMAIN OpenedAt = DOMAIN cond /\ DOMAIN cond = 1 .. Len(cond)
      /\ Len(cond) \in DOMAIN cond /\ Last(cond) = cond[Len(cond)]
      /\ cond[Len(cond)] \in Level
  BY OpenedAtType, FlagType DEF TypeOK
<1> DEFINE new == [cond[Len(cond)] EXCEPT !.state = s]
<1>2. new.state = s /\ new.opened_at = cond[Len(cond)].opened_at
  BY <1>1 DEF Level
<1>3. cond' = [cond EXCEPT ![Len(cond)] = new]
  BY DEF SetTop
<1> HIDE DEF new
<1>4. /\ DOMAIN cond' = DOMAIN cond /\ cond'[Len(cond)] = new
      /\ \A d \in DOMAIN cond : d # Len(cond) => cond'[d] = cond[d]
  BY <1>1, <1>3
<1>5. \A d \in DOMAIN cond : cond'[d].opened_at = cond[d].opened_at
  BY <1>2, <1>4
<1>6. OpenedAt' = OpenedAt
  BY <1>4, <1>5 DEF OpenedAt
<1>7. \A d \in DOMAIN cond : d < Len(cond) => cond'[d] = cond[d]
  BY <1>1, <1>4
<1> QED
  BY <1>1, <1>2, <1>4, <1>6, <1>7 DEF Active, Taken, Flag

\* A diagnostic stays; and what a step adds.
LEMMA DiagsGrow ==
  ASSUME TypeOK, NEW l \in Upcoming, Step(l), Faultless'
  PROVE  Faultless /\ ~ElseAfterElse(l)
<1>1. diags \in Seq([code : Codes, at : Nat \ {0}])
  BY DEF TypeOK
<1>2. \A code : Report(code) =>
        /\ \A i \in DOMAIN diags : i \in DOMAIN diags' /\ diags'[i] = diags[i]
        /\ Len(diags) + 1 \in DOMAIN diags'
        /\ diags'[Len(diags) + 1].code = code
  BY <1>1 DEF Report
<1>3. ~ElseAfterElse(l)
  <2>1. SUFFICES ASSUME ElseAfterElse(l) PROVE FALSE
    OBVIOUS
  <2>2. Report("ElseAfterElse")
    BY <2>1 DEF ElseAfterElse
  <2> QED
    BY <1>2, <2>2 DEF Faultless
<1>4. UNCHANGED diags \/ (\E code : Report(code)) \/ Finish(l)
  BY DEF Step, Text, UnknownDirective, OpenDeadIf, OpenIf, Unmatched, End,
     ElseAfterElse, Else, ElifTaken, Elif, ReportCondition
<1>5. CASE UNCHANGED diags
  BY <1>3, <1>5 DEF Faultless
<1>6. CASE \E code : Report(code)
  BY <1>2, <1>3, <1>6 DEF Faultless
<1>7. CASE Finish(l)
  <2> DEFINE ends == [i \in DOMAIN OpenLevels |->
                        [code |-> "UnterminatedIf",
                         at   |-> OpenLevels[i].opened_at]]
  <2>1. diags' = diags \o ends
    BY <1>7 DEF Finish
  <2>2. cond \in Seq(Level) /\ Len(cond) \in Nat /\ DOMAIN cond = 1 .. Len(cond)
    BY DEF TypeOK
  <2>3. ends \in Seq({ends[i] : i \in 1 .. Len(cond)})
    <3>1. ends = [i \in 1 .. Len(cond) |-> ends[i]]
      BY <2>2 DEF OpenLevels
    <3> HIDE DEF ends
    <3> QED
      BY <2>2, <3>1
  <2> HIDE DEF ends
  <2>4. \A i \in DOMAIN diags : i \in DOMAIN diags' /\ diags'[i] = diags[i]
    BY <1>1, <2>1, <2>3
  <2> QED
    BY <1>3, <2>4 DEF Faultless
<1> QED
  BY <1>4, <1>5, <1>6, <1>7

LEMMA GroupsStep ==
  ASSUME Inv, StackIsGroups, NEW l \in Upcoming, Step(l), ~ElseAfterElse(l)
  PROVE  /\ StackIsGroups'
         /\ IsLive(Lines', Holding(Lines)', Pos) <=> ~skipping
         /\ out'[Pos] = (l.op = "text" /\ ~IsLive(Lines', Holding(Lines)', Pos))
<1>1. TypeOK /\ Read(l) /\ ~done /\ l \in LineType /\ Pos \in Nat \ {0}
  BY LineStepType, UpcomingIsLine DEF Inv
<1>2. PICK lines : lines = Lines'
  OBVIOUS
<1>3. PICK holding : holding = Holding(Lines)'
  OBVIOUS
<1>4. PICK m \in Nat \ {0} : m = Pos
  BY <1>1
<1>5. PICK P \in Seq(Nat) : P = OpenedAt
  BY <1>1, OpenedAtType
<1>6. PICK A : A = Active
  OBVIOUS
<1>7. PICK T : T = Taken
  OBVIOUS
<1>8. Stacked(lines, holding, m, P, A, T)
  <2>1. Stacked(Lines, Holding(Lines), m, P, A, T)
    BY <1>1, <1>4, <1>5, <1>6, <1>7 DEF StackIsGroups
  <2>2. SameUpTo(Lines, Holding(Lines), lines, holding, m)
    BY <1>1, <1>2, <1>3, <1>4, LinesGrow
  <2> QED
    BY <2>1, <2>2, StackSame
<1>9. /\ lines[m] = IF l.op = "end" THEN [op |-> "endif"] ELSE l
      /\ m \in holding <=> l.op \in {"if", "elif"} /\ Outcome(l.condition) = "true"
      /\ Pos' = m + 1
  BY <1>1, <1>2, <1>3, <1>4, LinesGrow
<1>10. /\ IsLive(lines, holding, m) <=> TopIsLive(P, A)
       /\ skipping <=> ~TopIsLive(P, A)
       /\ cond = <<>> <=> P = <<>>
  BY <1>1, <1>5, <1>6, <1>8, LiveIsTop, OpenedAtType
<1>11. /\ l.op = "end" => lines[m].op = "endif"
       /\ l.op # "end" => lines[m].op = l.op
       /\ l.op # "endif"
  <2>1. l.op # "endif"
    BY <1>1 DEF LineType
  <2> QED
    BY <1>9, <2>1
<1>12. Admits(lines, holding, m) <=>
         l.op = "else" \/ (l.op \in {"if", "elif"} /\ Outcome(l.condition) = "true")
  BY <1>9, <1>11 DEF Admits
<1>13. out'[Pos] = (l.op = "text" /\ ~IsLive(Lines', Holding(Lines)', Pos))
  <2>1. out \in Seq(BOOLEAN) /\ Len(out) + 1 = Pos
    BY <1>1 DEF TypeOK, Pos
  <2>2. CASE Text(l)
    <3>1. out' = Append(out, skipping) /\ skipping \in BOOLEAN /\ l.op = "text"
      BY <2>2, SkippingType DEF Text
    <3>2. out'[Pos] = skipping
      BY <2>1, <3>1
    <3>3. skipping <=> ~IsLive(Lines', Holding(Lines)', Pos)
      BY <1>2, <1>3, <1>4, <1>10
    <3> QED
      BY <3>1, <3>2, <3>3, Zenon
  <2>3. CASE ~Text(l)
    <3>1. out' = Append(out, FALSE) /\ l.op # "text"
      BY <2>3 DEF Step, Text, UnknownDirective, OpenDeadIf, OpenIf, Unmatched,
         End, ElseAfterElse, Else, ElifTaken, Elif, Finish, Directive
    <3>2. out'[Pos] = FALSE
      BY <2>1, <3>1
    <3> QED
      BY <3>1, <3>2
  <2> QED
    BY <2>2, <2>3
<1>14. StackIsGroups'
  <2>1. SUFFICES Stacked(lines, holding, m + 1, OpenedAt', Active', Taken') \/ done'
    BY <1>2, <1>3, <1>9 DEF StackIsGroups
  <2>2. CASE Text(l) \/ UnknownDirective(l)
    <3>1. l.op \in {"text", "unknown"} /\ cond' = cond
      BY <2>2 DEF Text, UnknownDirective, Directive
    <3>2. OpenedAt' = P /\ Active' = A /\ Taken' = T
      BY <1>5, <1>6, <1>7, <3>1 DEF OpenedAt, Active, Taken
    <3>3. \A i \in m .. (m + 1) - 1 : lines[i].op \notin Directives
      <4>1. lines[m].op \notin Directives
        BY <1>11, <3>1 DEF Directives, Branches
      <4> QED
        BY <4>1
    <3>4. m + 1 \in Nat /\ m <= m + 1
      OBVIOUS
    <3> QED
      BY <1>8, <3>2, <3>3, <3>4, StackRun
  <2>3. CASE OpenDeadIf(l) \/ OpenIf(l)
    <3>1. l.op = "if" /\ lines[m].op = "if"
      BY <1>11, <2>3 DEF OpenDeadIf, OpenIf, Directive
    <3>2. PICK s \in SUBSET Flags :
            /\ Push(s)
            /\ skipping => "ActiveTokens" \notin s /\ "BranchTaken" \in s
            /\ ~skipping => /\ "ActiveTokens" \in s <=> m \in holding
                            /\ "BranchTaken" \in s <=> m \in holding
      <4>1. CASE OpenDeadIf(l)
        <5>1. skipping /\ Push(DeadState)
          BY <4>1 DEF OpenDeadIf
        <5>2. /\ DeadState \in SUBSET Flags /\ "ActiveTokens" \notin DeadState
              /\ "BranchTaken" \in DeadState
          BY DEF DeadState, Flags
        <5> QED
          BY <5>1, <5>2
      <4>2. CASE OpenIf(l)
        <5> DEFINE s == IF Holds(l) THEN {"ActiveTokens", "BranchTaken"} ELSE {}
        <5>1. ~skipping /\ Push(s)
          BY <4>2 DEF OpenIf
        <5>2. m \in holding <=> Holds(l)
          BY <1>9, <3>1 DEF Holds
        <5>3. /\ s \in SUBSET Flags /\ ("ActiveTokens" \in s <=> Holds(l))
              /\ "BranchTaken" \in s <=> Holds(l)
          BY DEF Flags
        <5> HIDE DEF s
        <5> QED
          BY <5>1, <5>2, <5>3
      <4> QED
        BY <2>3, <4>1, <4>2
    <3>4. PICK B : B = Active'
      OBVIOUS
    <3>5. PICK U : U = Taken'
      OBVIOUS
    <3>9. /\ OpenedAt' = Append(OpenedAt, Pos)
          /\ \A d \in DOMAIN OpenedAt : (d \in Active' <=> d \in Active)
                                         /\ (d \in Taken' <=> d \in Taken)
          /\ Len(OpenedAt) + 1 \in Active' <=> "ActiveTokens" \in s
          /\ Len(OpenedAt) + 1 \in Taken' <=> "BranchTaken" \in s
      BY <1>1, <3>2, Pushed
    <3>3. /\ OpenedAt' = Append(P, m)
          /\ \A d \in DOMAIN P : (d \in B <=> d \in A) /\ (d \in U <=> d \in T)
          /\ Len(P) + 1 \in B <=> "ActiveTokens" \in s
          /\ Len(P) + 1 \in U <=> "BranchTaken" \in s
      BY <1>4, <1>5, <1>6, <1>7, <3>4, <3>5, <3>9
    <3>6. IF TopIsLive(P, A)
          THEN /\ Len(P) + 1 \in B <=> m \in holding
               /\ Len(P) + 1 \in U <=> m \in holding
          ELSE Len(P) + 1 \notin B /\ Len(P) + 1 \in U
      BY <1>10, <3>2, <3>3
    <3>7. \A d \in DOMAIN P : (d \in B <=> d \in A) /\ (d \in U <=> d \in T)
      BY <3>3
    <3>8. Stacked(lines, holding, m + 1, Append(P, m), B, U)
      BY <1>8, <3>1, <3>6, <3>7, StackPush
    <3> QED
      BY <3>3, <3>4, <3>5, <3>8
  <2>4. CASE Unmatched(l)
    <3>1. cond = <<>> /\ cond' = cond /\ l.op # "if" /\ lines[m].op # "if"
      BY <1>11, <2>4 DEF Unmatched, Directive
    <3>2. OpenedAt' = P /\ Active' = A /\ Taken' = T /\ P = <<>>
      BY <1>5, <1>6, <1>7, <1>10, <3>1 DEF OpenedAt, Active, Taken
    <3>3. Stacked(lines, holding, m, <<>>, A, T)
      BY <1>8, <3>2
    <3>4. Stacked(lines, holding, m + 1, <<>>, A, T)
      BY <3>1, <3>3, StackUnmatched
    <3> QED
      BY <3>2, <3>4
  <2>5. CASE End(l)
    <3>1. cond # <<>> /\ cond' = Front(cond) /\ lines[m].op = "endif"
      BY <1>11, <2>5 DEF End, Directive
    <3>2. PICK B : B = Active'
      OBVIOUS
    <3>3. PICK U : U = Taken'
      OBVIOUS
    <3>6. /\ OpenedAt' = Front(OpenedAt)
          /\ \A d \in DOMAIN OpenedAt :
               d < Len(OpenedAt) => (d \in Active' <=> d \in Active)
                                      /\ (d \in Taken' <=> d \in Taken)
      BY <1>1, <3>1, Popped
    <3>4. /\ OpenedAt' = Front(P) /\ P # <<>>
          /\ \A d \in DOMAIN P :
               d < Len(P) => (d \in B <=> d \in A) /\ (d \in U <=> d \in T)
      BY <1>5, <1>6, <1>7, <1>10, <3>1, <3>2, <3>3, <3>6
    <3>5. Stacked(lines, holding, m + 1, Front(P), B, U)
      BY <1>8, <3>1, <3>4, StackPop
    <3> QED
      BY <3>2, <3>3, <3>4, <3>5
  <2>6. CASE Else(l) \/ ElifTaken(l) \/ Elif(l)
    <3>1. /\ cond # <<>> /\ Flag \subseteq Flags
          /\ l.op \in Branches /\ lines[m].op \in Branches
      BY <1>1, <1>11, <2>6, FlagType DEF Else, ElifTaken, Elif, Directive, Branches
    <3>2. PICK s \in SUBSET Flags :
            /\ SetTop(s)
            /\ "ActiveTokens" \in s <=>
                 "BranchTaken" \notin Flag /\ Admits(lines, holding, m)
            /\ "BranchTaken" \in s <=>
                 "BranchTaken" \in Flag \/ Admits(lines, holding, m)
      <4>1. CASE Else(l)
        <5>1. SetTop(ElseState) /\ Admits(lines, holding, m)
          BY <1>12, <4>1 DEF Else, Directive
        <5>2. /\ ElseState \in SUBSET Flags /\ "BranchTaken" \in ElseState
              /\ "ActiveTokens" \in ElseState <=> "BranchTaken" \notin Flag
          BY <3>1 DEF ElseState, Flags
        <5> QED
          BY <5>1, <5>2
      <4>2. CASE ElifTaken(l)
        <5> DEFINE s == Flag \ {"ActiveTokens"}
        <5>1. SetTop(s) /\ "BranchTaken" \in Flag
          BY <4>2 DEF ElifTaken
        <5>2. s \in SUBSET Flags /\ "ActiveTokens" \notin s /\ "BranchTaken" \in s
          BY <3>1, <5>1
        <5> HIDE DEF s
        <5> QED
          BY <5>1, <5>2
      <4>3. CASE Elif(l)
        <5> DEFINE s == IF Holds(l) THEN Flag \cup {"ActiveTokens", "BranchTaken"}
                        ELSE Flag \ {"ActiveTokens"}
        <5>1. SetTop(s) /\ "BranchTaken" \notin Flag /\ l.op = "elif"
          BY <4>3 DEF Elif, Directive
        <5>2. Admits(lines, holding, m) <=> Holds(l)
          BY <1>12, <5>1 DEF Holds
        <5>3. /\ s \in SUBSET Flags /\ ("ActiveTokens" \in s <=> Holds(l))
              /\ "BranchTaken" \in s <=> Holds(l)
          BY <3>1, <5>1 DEF Flags
        <5> HIDE DEF s
        <5> QED
          BY <5>1, <5>2, <5>3
      <4> QED
        BY <2>6, <4>1, <4>2, <4>3
    <3>3. PICK B : B = Active'
      OBVIOUS
    <3>4. PICK U : U = Taken'
      OBVIOUS
    <3>8. /\ OpenedAt' = OpenedAt
          /\ \A d \in DOMAIN OpenedAt :
               d < Len(OpenedAt) => (d \in Active' <=> d \in Active)
                                      /\ (d \in Taken' <=> d \in Taken)
          /\ Len(OpenedAt) \in Active' <=> "ActiveTokens" \in s
          /\ Len(OpenedAt) \in Taken' <=> "BranchTaken" \in s
          /\ Len(OpenedAt) \in Taken <=> "BranchTaken" \in Flag
      BY <1>1, <3>1, <3>2, TopSet
    <3>5. /\ OpenedAt' = P /\ P # <<>>
          /\ \A d \in DOMAIN P :
               d < Len(P) => (d \in B <=> d \in A) /\ (d \in U <=> d \in T)
          /\ Len(P) \in B <=> "ActiveTokens" \in s
          /\ Len(P) \in U <=> "BranchTaken" \in s
          /\ Len(P) \in T <=> "BranchTaken" \in Flag
      BY <1>5, <1>6, <1>7, <1>10, <3>1, <3>3, <3>4, <3>8
    <3>6. /\ Len(P) \in B <=> Len(P) \notin T /\ Admits(lines, holding, m)
          /\ Len(P) \in U <=> Len(P) \in T \/ Admits(lines, holding, m)
      BY <3>2, <3>5
    <3>7. Stacked(lines, holding, m + 1, P, B, U)
      BY <1>8, <3>1, <3>5, <3>6, StackBranch
    <3> QED
      BY <3>3, <3>4, <3>5, <3>7
  <2>7. CASE Finish(l)
    BY <2>7 DEF Finish
  <2> QED
    BY <2>2, <2>3, <2>4, <2>5, <2>6, <2>7, Zenon DEF Step
<1> QED
  BY <1>2, <1>3, <1>4, <1>10, <1>13, <1>14

LEMMA EmptyStack ==
  ASSUME NEW lines, NEW holding, NEW A, NEW T
  PROVE  Stacked(lines, holding, 1, <<>>, A, T)
<1>1. DOMAIN <<>> = {} /\ Enclosing(lines, 1) = {}
  BY DEF Enclosing
<1> QED
  BY <1>1 DEF Stacked, AreOpen

LEMMA GroupsInvStep == Inv /\ GroupsInv /\ [Next]_vars => GroupsInv'
<1> SUFFICES ASSUME Inv, GroupsInv, [Next]_vars, Faultless'
             PROVE  StackIsGroups' /\ MarksWhatTheGroupsDrop'
  BY DEF GroupsInv
<1>1. ASSUME NEW l \in Upcoming, Step(l)
      PROVE  StackIsGroups' /\ MarksWhatTheGroupsDrop'
  <2>1. TypeOK /\ Read(l) /\ Pos \in Nat \ {0}
    BY <1>1, LineStepType, UpcomingIsLine DEF Inv
  <2>2. Faultless /\ ~ElseAfterElse(l)
    BY <1>1, <2>1, DiagsGrow
  <2>3. StackIsGroups /\ MarksWhatTheGroupsDrop
    BY <2>2 DEF GroupsInv
  <2>4. /\ StackIsGroups'
        /\ out'[Pos] = (l.op = "text" /\ ~IsLive(Lines', Holding(Lines)', Pos))
    BY <1>1, <2>2, <2>3, GroupsStep
  <2>5. /\ SameUpTo(Lines, Holding(Lines), Lines', Holding(Lines)', Pos)
        /\ DOMAIN text = 1 .. Pos - 1 /\ DOMAIN text' = 1 .. Pos
        /\ \A i \in DOMAIN text : text'[i] = text[i]
        /\ text'[Pos] = l
    BY <2>1, LinesGrow
  <2>6. PICK b \in BOOLEAN : out' = Append(out, b)
    BY <1>1, LineStepType
  <2>7. \A i \in 1 .. Pos - 1 : out'[i] = out[i]
    <3>1. out \in Seq(BOOLEAN) /\ Len(out) = Pos - 1
      BY <2>1 DEF TypeOK, Pos
    <3> QED
      BY <2>6, <3>1
  <2>8. ASSUME NEW i \in 1 .. Pos
        PROVE  out'[i] = (text'[i].op = "text"
                            /\ ~IsLive(Lines', Holding(Lines)', i))
    <3>1. CASE i = Pos
      BY <2>4, <2>5, <3>1
    <3>2. CASE i # Pos
      <4>1. i \in 1 .. Pos - 1 /\ i \in Nat /\ i <= Pos /\ Pos \in Nat
        BY <2>1, <3>2
      <4>2. IsLive(Lines', Holding(Lines)', i) <=> IsLive(Lines, Holding(Lines), i)
        BY <2>5, <4>1, KeepsSame
      <4>3. out[i] = (text[i].op = "text" /\ ~IsLive(Lines, Holding(Lines), i))
        BY <2>2, <2>3, <2>5, <4>1 DEF MarksWhatTheGroupsDrop
      <4>4. out'[i] = out[i] /\ text'[i] = text[i]
        BY <2>5, <2>7, <4>1
      <4> QED
        BY <4>2, <4>3, <4>4, Zenon
    <3> QED
      BY <3>1, <3>2
  <2> QED
    BY <2>4, <2>5, <2>8 DEF MarksWhatTheGroupsDrop
<1>2. CASE CallAgain
  <2>1. text' = <<>> /\ cond' = <<>>
    BY <1>2 DEF CallAgain, Inv, NothingLeft
  <2>2. Pos' = 1 /\ DOMAIN text' = {} /\ OpenedAt' = <<>>
    <3>1. DOMAIN cond' = {} /\ Len(text') = 0 /\ DOMAIN text' = {}
      BY <2>1
    <3> QED
      BY <3>1 DEF Pos, OpenedAt
  <2> QED
    BY <2>2, EmptyStack DEF StackIsGroups, MarksWhatTheGroupsDrop
<1>3. CASE UNCHANGED vars
  BY <1>3 DEF vars, GroupsInv, Faultless, StackIsGroups, MarksWhatTheGroupsDrop,
     Lines, Holding, Pos, OpenedAt, Active, Taken
<1> QED
  BY <1>1, <1>2, <1>3 DEF Next, Returned

LEMMA AlwaysGroups == Spec => [](Inv /\ GroupsInv)
<1>1. Init => GroupsInv
  <2> SUFFICES ASSUME Init PROVE StackIsGroups /\ MarksWhatTheGroupsDrop
    BY DEF GroupsInv
  <2>1. Pos = 1 /\ DOMAIN text = {} /\ OpenedAt = <<>>
    <3>1. DOMAIN cond = {} /\ Len(text) = 0 /\ DOMAIN text = {}
      BY DEF Init
    <3> QED
      BY <3>1 DEF Pos, OpenedAt
  <2> QED
    BY <2>1, EmptyStack DEF StackIsGroups, MarksWhatTheGroupsDrop
<1> QED
  BY <1>1, AlwaysInv, GroupsInvStep, PTL DEF Spec

(***************************************************************************)
(* As long as no branch follows an #else, process() marks exactly the text *)
(* that the structure of its groups drops, for every file and every        *)
(* outcome of the conditions, and again on every later call.               *)
(***************************************************************************)
THEOREM ZMarksTheGroups == Spec => []MarksWhatTheGroupsDrop
<1>1. GroupsInv => MarksWhatTheGroupsDrop
  BY DEF GroupsInv, MarksWhatTheGroupsDrop
<1> QED
  BY <1>1, AlwaysGroups, PTL
-----------------------------------------------------------------------------
(***************************************************************************)
(* What the structure calls for.  A line is complained about for what is   *)
(* in front of it, so reading on adds what the new line calls for, and the *)
(* stack shows what that is.                                               *)
(***************************************************************************)
LEMMA ComplaintsAre ==
  ASSUME NEW lines, NEW i
  PROVE  /\ lines[i].op \notin {"unknown", "if", "elif", "else", "endif"} =>
              Complaints(lines, i) = {}
         /\ lines[i].op = "unknown" =>
              Complaints(lines, i) =
                IF IsLive(lines, Holding(lines), i) THEN {"UnknownDirective"} ELSE {}
         /\ lines[i].op = "if" =>
              Complaints(lines, i) =
                IF IsLive(lines, Holding(lines), i)
                THEN {Outcome(lines[i].condition)} \ {"true", "false"} ELSE {}
         /\ lines[i].op = "else" =>
              Complaints(lines, i) =
                IF Enclosing(lines, i) = {} THEN {"UnmatchedElse"} ELSE {}
         /\ lines[i].op = "endif" =>
              Complaints(lines, i) =
                IF Enclosing(lines, i) = {} THEN {"UnmatchedEnd"} ELSE {}
         /\ lines[i].op = "elif" =>
              Complaints(lines, i) =
                IF Enclosing(lines, i) = {} THEN {"UnmatchedElif"}
                ELSE IF Evaluated(lines, i)
                     THEN {Outcome(lines[i].condition)} \ {"true", "false"}
                     ELSE {}
<1>1. /\ lines[i].op = "if" =>
           (Evaluated(lines, i) <=> IsLive(lines, Holding(lines), i))
      /\ lines[i].op \notin {"if", "elif"} => ~Evaluated(lines, i)
      /\ lines[i].op = "elif" /\ Enclosing(lines, i) = {} => ~Evaluated(lines, i)
  BY DEF Evaluated
<1>2. CASE lines[i].op \notin {"unknown", "if", "elif", "else", "endif"}
  BY <1>1, <1>2 DEF Complaints, Closers
<1>3. CASE lines[i].op = "unknown"
  BY <1>1, <1>3 DEF Complaints, Closers
<1>4. CASE lines[i].op = "if"
  BY <1>1, <1>4 DEF Complaints, Closers
<1>5. CASE lines[i].op = "else"
  BY <1>1, <1>5 DEF Complaints, Closers
<1>6. CASE lines[i].op = "endif"
  BY <1>1, <1>6 DEF Complaints, Closers
<1>7. CASE lines[i].op = "elif"
  BY <1>1, <1>7 DEF Complaints, Closers
<1> QED
  BY <1>2, <1>3, <1>4, <1>5, <1>6, <1>7

LEMMA ComplaintsSame ==
  ASSUME NEW lines, NEW other, NEW m \in Nat,
         SameUpTo(lines, Holding(lines), other, Holding(other), m),
         NEW i \in 1 .. m - 1, other[i] = lines[i]
  PROVE  Complaints(other, i) = Complaints(lines, i)
<1>1. i \in Nat /\ i <= m
  OBVIOUS
<1>2. /\ Enclosing(other, i) = Enclosing(lines, i)
      /\ IsLive(other, Holding(other), i) <=> IsLive(lines, Holding(lines), i)
  BY <1>1, EnclosingSame, KeepsSame
<1>3. Evaluated(other, i) <=> Evaluated(lines, i)
  <2>1. CASE Enclosing(lines, i) = {}
    BY <1>2, <2>1 DEF Evaluated
  <2>2. CASE Enclosing(lines, i) # {}
    <3>1. Enclosing(lines, i) \subseteq 1 .. i - 1
      BY DEF Enclosing
    <3>2. Max(Enclosing(lines, i)) \in Enclosing(lines, i)
      <4>1. /\ Enclosing(lines, i) \subseteq Nat
            /\ \A s \in Enclosing(lines, i) : s <= i
        BY <3>1
      <4> QED
        BY <1>1, <2>2, <4>1, MaxOf
    <3>3. PICK j \in 1 .. i - 1 : j = Max(Enclosing(lines, i))
      BY <3>1, <3>2
    <3>4. j \in Nat /\ j <= m
      BY <1>1
    <3>5. IsLive(other, Holding(other), j) <=> IsLive(lines, Holding(lines), j)
      BY <3>4, KeepsSame
    <3>6. /\ Heads(other, j, i) = Heads(lines, j, i)
          /\ \A b \in 1 .. i - 1 : Admits(other, Holding(other), b)
                                      <=> Admits(lines, Holding(lines), b)
      BY <1>1, KeepsSame
    <3>7. Heads(lines, j, i) \subseteq 1 .. i - 1
      <4>1. j \in Nat /\ j < i
        BY <1>1
      <4>2. Heads(lines, j, i) \subseteq j .. i - 1
        BY <1>1, <4>1, HeadsType
      <4> QED
        BY <4>2
    <3> QED
      BY <1>2, <3>3, <3>5, <3>6, <3>7 DEF Evaluated
  <2> QED
    BY <2>1, <2>2
<1> QED
  BY <1>2, <1>3, ComplaintsAre

\* What the first n lines call for.
Due(lines, n) ==
  UNION {{[code |-> c, at |-> i] : c \in Complaints(lines, i)} : i \in 1 .. n}

LEMMA DueNext ==
  ASSUME NEW lines, NEW n \in Nat \ {0}
  PROVE  Due(lines, n) =
           Due(lines, n - 1) \cup {[code |-> c, at |-> n] : c \in Complaints(lines, n)}
<1>1. 1 .. n = (1 .. n - 1) \cup {n}
  OBVIOUS
<1> QED
  BY <1>1 DEF Due

LEMMA DueSame ==
  ASSUME NEW lines, NEW other, NEW m \in Nat,
         SameUpTo(lines, Holding(lines), other, Holding(other), m),
         \A i \in 1 .. m - 1 : other[i] = lines[i]
  PROVE  Due(other, m - 1) = Due(lines, m - 1)
<1>1. \A i \in 1 .. m - 1 : Complaints(other, i) = Complaints(lines, i)
  BY ComplaintsSame
<1> QED
  BY <1>1 DEF Due

LEMMA DueType ==
  ASSUME NEW lines, NEW n \in Nat, NEW x \in Due(lines, n)
  PROVE  x.at \in 1 .. n /\ x.code \in Complaints(lines, x.at)
BY DEF Due
-----------------------------------------------------------------------------
\* Sequences without repetitions.
LEMMA RangeAppend ==
  ASSUME NEW S, NEW s \in Seq(S), NEW x \in S
  PROVE  /\ Range(Append(s, x)) = Range(s) \cup {x}
         /\ IsInjective(s) /\ x \notin Range(s) => IsInjective(Append(s, x))
<1>1. /\ DOMAIN Append(s, x) = 1 .. Len(s) + 1 /\ DOMAIN s = 1 .. Len(s)
      /\ Len(s) \in Nat /\ Append(s, x)[Len(s) + 1] = x
      /\ \A i \in 1 .. Len(s) : Append(s, x)[i] = s[i]
  OBVIOUS
<1>2. PICK t : t = Append(s, x)
  OBVIOUS
<1>3. \A i \in 1 .. Len(s) + 1 : i \in 1 .. Len(s) \/ i = Len(s) + 1
  BY <1>1
<1>4. \A i \in 1 .. Len(s) : i \in 1 .. Len(s) + 1
  BY <1>1
<1>5. Len(s) + 1 \in 1 .. Len(s) + 1
  BY <1>1
<1>6. Range(t) = Range(s) \cup {x}
  BY <1>1, <1>2, <1>3, <1>4, <1>5 DEF Range
<1>7. IsInjective(s) /\ x \notin Range(s) => IsInjective(t)
  BY <1>1, <1>2, <1>3 DEF IsInjective, Range
<1> QED
  BY <1>2, <1>6, <1>7

LEMMA RangeConcat ==
  ASSUME NEW S, NEW s \in Seq(S), NEW t \in Seq(S)
  PROVE  /\ Range(s \o t) = Range(s) \cup Range(t)
         /\ IsInjective(s) /\ IsInjective(t) /\ Range(s) \cap Range(t) = {} =>
              IsInjective(s \o t)
<1>1. PICK u : u = s \o t
  OBVIOUS
<1>2. PICK a \in Nat : a = Len(s)
  OBVIOUS
<1>3. PICK b \in Nat : b = Len(t)
  OBVIOUS
<1>4. /\ DOMAIN s = 1 .. a /\ DOMAIN t = 1 .. b /\ DOMAIN u = 1 .. a + b
      /\ \A i \in 1 .. a : u[i] = s[i]
      /\ \A i \in 1 .. b : u[a + i] = t[i]
  BY <1>1, <1>2, <1>3
<1>5. \A i \in 1 .. a + b :
        (i \in 1 .. a /\ u[i] = s[i]) \/ (i > a /\ i - a \in 1 .. b /\ u[i] = t[i - a])
  <2>1. ASSUME NEW i \in 1 .. a + b, i \notin 1 .. a
        PROVE  i > a /\ i - a \in 1 .. b /\ u[i] = t[i - a]
    <3>1. i > a /\ i - a \in 1 .. b /\ a + (i - a) = i
      BY <2>1
    <3> QED
      BY <1>4, <3>1
  <2> QED
    BY <1>4, <2>1
<1>6. /\ \A i \in 1 .. a : i \in 1 .. a + b
      /\ \A i \in 1 .. b : a + i \in 1 .. a + b
  OBVIOUS
<1>7. Range(u) = Range(s) \cup Range(t)
  <2>1. Range(u) \subseteq Range(s) \cup Range(t)
    BY <1>4, <1>5 DEF Range
  <2>2. Range(s) \subseteq Range(u)
    BY <1>4, <1>6 DEF Range
  <2>3. Range(t) \subseteq Range(u)
    BY <1>4, <1>6 DEF Range
  <2> QED
    BY <2>1, <2>2, <2>3
<1>8. ASSUME IsInjective(s), IsInjective(t), Range(s) \cap Range(t) = {},
             NEW i \in 1 .. a + b, NEW j \in 1 .. a + b, u[i] = u[j]
      PROVE  i = j
  <2>1. CASE i \in 1 .. a /\ j \in 1 .. a
    BY <1>4, <1>8, <2>1 DEF IsInjective
  <2>2. CASE i \notin 1 .. a /\ j \notin 1 .. a
    <3>1. i - a \in 1 .. b /\ j - a \in 1 .. b /\ t[i - a] = t[j - a]
      BY <1>5, <1>8, <2>2
    <3>2. i - a = j - a
      BY <1>4, <1>8, <3>1 DEF IsInjective
    <3> QED
      BY <3>2
  <2>3. \A k \in 1 .. a + b : /\ k \in 1 .. a => u[k] \in Range(s)
                              /\ k \notin 1 .. a => u[k] \in Range(t)
    BY <1>4, <1>5 DEF Range
  <2> QED
    BY <1>8, <2>1, <2>2, <2>3
<1>9. IsInjective(s) /\ IsInjective(t) /\ Range(s) \cap Range(t) = {} =>
        IsInjective(u)
  BY <1>4, <1>8 DEF IsInjective
<1> QED
  BY <1>1, <1>7, <1>9
-----------------------------------------------------------------------------
\* What the groups are where the next line is read.
LEMMA Here ==
  ASSUME Inv, StackIsGroups, NEW l \in Upcoming, Read(l)
  PROVE  /\ IsLive(Lines', Holding(Lines)', Pos) <=> ~skipping
         /\ Enclosing(Lines', Pos) = {} <=> cond = <<>>
         /\ Enclosing(Lines', Pos) = Range(OpenedAt)
         /\ cond # <<>> /\ l.op = "elif" =>
              (Evaluated(Lines', Pos) <=> "BranchTaken" \notin Flag)
         /\ l.op = "end" => Lines'[Pos].op = "endif"
         /\ l.op # "end" => Lines'[Pos] = l
<1>1. TypeOK /\ ~done /\ l \in LineType /\ Pos \in Nat \ {0}
  BY UpcomingIsLine DEF Inv
<1>2. PICK lines : lines = Lines'
  OBVIOUS
<1>3. PICK holding : holding = Holding(Lines)'
  OBVIOUS
<1>4. PICK m \in Nat \ {0} : m = Pos
  BY <1>1
<1>5. PICK P \in Seq(Nat) : P = OpenedAt
  BY <1>1, OpenedAtType
<1>6. PICK A : A = Active
  OBVIOUS
<1>7. PICK T : T = Taken
  OBVIOUS
<1>8. Stacked(lines, holding, m, P, A, T) /\ holding = Holding(lines)
  <2>1. Stacked(Lines, Holding(Lines), m, P, A, T)
    BY <1>1, <1>4, <1>5, <1>6, <1>7 DEF StackIsGroups
  <2>2. SameUpTo(Lines, Holding(Lines), lines, holding, m)
    BY <1>1, <1>2, <1>3, <1>4, LinesGrow
  <2> QED
    BY <1>2, <1>3, <2>1, <2>2, StackSame
<1>9. /\ l.op = "end" => lines[m].op = "endif"
      /\ l.op # "end" => lines[m] = l
  BY <1>1, <1>2, <1>4, LinesGrow
<1>10. /\ IsLive(lines, holding, m) <=> TopIsLive(P, A)
       /\ skipping <=> ~TopIsLive(P, A)
       /\ cond = <<>> <=> P = <<>>
       /\ Enclosing(lines, m) = Range(P)
  BY <1>1, <1>5, <1>6, <1>8, LiveIsTop, OpenedAtType, EnclosingIs DEF Stacked
<1>11. Range(P) = {} <=> P = <<>>
  <2>1. DOMAIN P = {} <=> P = <<>>
    OBVIOUS
  <2> QED
    BY <2>1 DEF Range
<1>12. ASSUME cond # <<>>, l.op = "elif"
       PROVE  Evaluated(lines, m) <=> "BranchTaken" \notin Flag
  <2>1. P # <<>> /\ Range(P) # {} /\ lines[m].op = "elif"
    BY <1>9, <1>10, <1>11, <1>12
  <2>2. Len(P) \notin T <=>
          /\ IsLive(lines, holding, Max(Enclosing(lines, m)))
          /\ \A b \in Heads(lines, Max(Enclosing(lines, m)), m) :
               ~Admits(lines, holding, b)
    BY <1>8, <2>1, StackEvaluates
  <2>3. Len(P) \in T <=> "BranchTaken" \in Flag
    <3>1. Len(P) = Len(cond) /\ Len(cond) \in DOMAIN cond
          /\ Last(cond) = cond[Len(cond)]
      BY <1>1, <1>5, <1>12, OpenedAtType DEF TypeOK, Last
    <3> QED
      BY <1>7, <3>1 DEF Taken, Flag
  <2> QED
    BY <1>8, <1>10, <2>1, <2>2, <2>3 DEF Evaluated
<1> QED
  BY <1>2, <1>3, <1>4, <1>5, <1>9, <1>10, <1>11, <1>12

\* A step reports what its line calls for.
LEMMA ReportsDue ==
  ASSUME Inv, StackIsGroups, NEW l \in Upcoming, Step(l), ~ElseAfterElse(l)
  PROVE  \/ /\ Complaints(Lines', Pos) = {}
            /\ UNCHANGED diags \/ Finish(l)
         \/ \E code \in Codes : Complaints(Lines', Pos) = {code} /\ Report(code)
<1>1. Read(l) /\ l \in LineType
  BY LineStepType, UpcomingIsLine DEF Inv
<1>2. PICK lines : lines = Lines'
  OBVIOUS
<1>3. PICK m : m = Pos
  OBVIOUS
<1>4. /\ IsLive(lines, Holding(lines), m) <=> ~skipping
      /\ Enclosing(lines, m) = {} <=> cond = <<>>
      /\ cond # <<>> /\ l.op = "elif" =>
           (Evaluated(lines, m) <=> "BranchTaken" \notin Flag)
      /\ l.op = "end" => lines[m].op = "endif"
      /\ l.op # "end" => lines[m] = l
  BY <1>1, <1>2, <1>3, Here
<1>5. l.op # "endif"
  BY <1>1 DEF LineType
<1>6. SUFFICES \/ /\ Complaints(lines, m) = {}
                  /\ UNCHANGED diags \/ Finish(l)
               \/ \E code \in Codes : Complaints(lines, m) = {code} /\ Report(code)
  BY <1>2, <1>3
<1>7. ASSUME l.op \in {"if", "elif"}
      PROVE  \/ /\ {Outcome(l.condition)} \ {"true", "false"} = {}
                /\ ReportCondition(l) => UNCHANGED diags
             \/ \E code \in Codes :
                  /\ {Outcome(l.condition)} \ {"true", "false"} = {code}
                  /\ ReportCondition(l) => Report(code)
  <2>1. Outcome(l.condition) \in Outcomes
    <3>1. l.condition \in Conditions
      BY <1>1, <1>7 DEF LineType
    <3> QED
      BY <3>1, ZConstantsAssumption
  <2>2. CASE Outcome(l.condition) \in {"true", "false"}
    BY <2>2 DEF ReportCondition
  <2>3. CASE Outcome(l.condition) \notin {"true", "false"}
    <3>1. Outcome(l.condition) \in Codes
      BY <2>1, <2>3 DEF Outcomes, Codes
    <3>2. {Outcome(l.condition)} \ {"true", "false"} = {Outcome(l.condition)}
      BY <2>3
    <3>3. ReportCondition(l) => Report(Outcome(l.condition))
      BY <2>3 DEF ReportCondition
    <3> QED
      BY <3>1, <3>2, <3>3
  <2> QED
    BY <2>2, <2>3
<1>8. CASE Text(l) \/ Finish(l)
  <2>1. l.op \in {"text", "eof"} /\ lines[m] = l
    BY <1>4, <1>8 DEF Text, Finish
  <2>2. Complaints(lines, m) = {}
    BY <2>1, ComplaintsAre
  <2> QED
    BY <1>8, <2>2 DEF Text
<1>9. CASE UnknownDirective(l)
  <2>1. l.op = "unknown" /\ lines[m] = l
    BY <1>4, <1>9 DEF UnknownDirective, Directive
  <2>2. Complaints(lines, m) = IF ~skipping THEN {"UnknownDirective"} ELSE {}
    BY <1>4, <2>1, ComplaintsAre
  <2>3. "UnknownDirective" \in Codes
    BY DEF Codes
  <2> QED
    BY <1>9, <2>2, <2>3 DEF UnknownDirective
<1>10. CASE OpenDeadIf(l) \/ OpenIf(l)
  <2>1. l.op = "if" /\ lines[m] = l
    BY <1>4, <1>10 DEF OpenDeadIf, OpenIf, Directive
  <2>2. Complaints(lines, m) =
          IF ~skipping THEN {Outcome(l.condition)} \ {"true", "false"} ELSE {}
    BY <1>4, <2>1, ComplaintsAre
  <2>3. CASE OpenDeadIf(l)
    BY <2>2, <2>3 DEF OpenDeadIf
  <2>4. CASE OpenIf(l)
    <3>1. ~skipping /\ ReportCondition(l)
      BY <2>4 DEF OpenIf
    <3> QED
      BY <1>7, <2>1, <2>2, <3>1
  <2> QED
    BY <1>10, <2>3, <2>4
<1>11. CASE Unmatched(l)
  <2>1. l.op \in {"elif", "else", "end"} /\ cond = <<>>
    BY <1>11 DEF Unmatched, Directive
  <2>2. /\ {"UnmatchedEnd", "UnmatchedElse", "UnmatchedElif"} \subseteq Codes
        /\ Enclosing(lines, m) = {}
    BY <1>4, <2>1 DEF Codes
  <2>3. CASE l.op = "end"
    <3>1. Complaints(lines, m) = {"UnmatchedEnd"}
      BY <1>4, <2>2, <2>3, ComplaintsAre
    <3>2. Report("UnmatchedEnd")
      BY <1>11, <2>3 DEF Unmatched
    <3> QED
      BY <2>2, <3>1, <3>2
  <2>4. CASE l.op = "else"
    <3>1. Complaints(lines, m) = {"UnmatchedElse"}
      BY <1>4, <2>2, <2>4, ComplaintsAre
    <3>2. Report("UnmatchedElse")
      BY <1>11, <2>4 DEF Unmatched
    <3> QED
      BY <2>2, <3>1, <3>2
  <2>5. CASE l.op = "elif"
    <3>1. Complaints(lines, m) = {"UnmatchedElif"}
      BY <1>4, <2>2, <2>5, ComplaintsAre
    <3>2. Report("UnmatchedElif")
      BY <1>11, <2>5 DEF Unmatched
    <3> QED
      BY <2>2, <3>1, <3>2
  <2> QED
    BY <2>1, <2>3, <2>4, <2>5
<1>12. CASE End(l) \/ Else(l)
  <2>1. l.op \in {"end", "else"} /\ cond # <<>> /\ UNCHANGED diags
    BY <1>12 DEF End, Else, Directive
  <2>2. lines[m].op \in {"endif", "else"} /\ Enclosing(lines, m) # {}
    BY <1>4, <2>1
  <2>3. Complaints(lines, m) = {}
    BY <2>2, ComplaintsAre
  <2> QED
    BY <2>1, <2>3
<1>13. CASE ElifTaken(l) \/ Elif(l)
  <2>1. l.op = "elif" /\ cond # <<>>
    BY <1>13 DEF ElifTaken, Elif, Directive
  <2>2. lines[m] = l /\ Enclosing(lines, m) # {}
    BY <1>4, <2>1
  <2>3. Complaints(lines, m) =
          IF "BranchTaken" \notin Flag
          THEN {Outcome(l.condition)} \ {"true", "false"} ELSE {}
    BY <1>4, <2>1, <2>2, ComplaintsAre
  <2>4. CASE ElifTaken(l)
    BY <2>3, <2>4 DEF ElifTaken
  <2>5. CASE Elif(l)
    <3>1. "BranchTaken" \notin Flag /\ ReportCondition(l)
      BY <2>5 DEF Elif
    <3> QED
      BY <1>7, <2>1, <2>3, <3>1
  <2> QED
    BY <1>13, <2>4, <2>5
<1> QED
  BY <1>8, <1>9, <1>10, <1>11, <1>12, <1>13 DEF Step

LEMMA DueCodes ==
  ASSUME TypeOK, NEW x \in Due(Lines, Len(text))
  PROVE  x.code # "UnterminatedIf"
<1>1. PICK i \in 1 .. Len(text) : x.code \in Complaints(Lines, i)
  BY DEF Due
<1>2. /\ i \in DOMAIN text /\ text[i] \in LineType
      /\ Lines[i] = IF text[i].op = "end" THEN [op |-> "endif"] ELSE text[i]
  BY DEF TypeOK, Lines
<1>3. Lines[i].op \in {"if", "elif"} => Outcome(Lines[i].condition) \in Outcomes
  <2>1. SUFFICES ASSUME Lines[i].op \in {"if", "elif"}
                 PROVE  Outcome(Lines[i].condition) \in Outcomes
    OBVIOUS
  <2>2. Lines[i] \in LineType
    BY <1>2, <2>1
  <2>3. Lines[i].condition \in Conditions
    BY <2>1, <2>2 DEF LineType
  <2> QED
    BY <2>3, ZConstantsAssumption
<1>4. PICK L : L = Lines
  OBVIOUS
<1>5. L[i].op \in {"if", "elif"} =>
        "UnterminatedIf" \notin {Outcome(L[i].condition)} \ {"true", "false"}
  BY <1>3, <1>4 DEF Outcomes
<1>6. "UnterminatedIf" \notin Complaints(L, i)
  BY <1>5, ComplaintsAre
<1> QED
  BY <1>1, <1>4, <1>6

LEMMA ReportsStep ==
  ASSUME Inv, StackIsGroups, Faultless, ReportsWhatTheStructureCalls,
         NEW l \in Upcoming, Step(l), ~ElseAfterElse(l)
  PROVE  ReportsWhatTheStructureCalls'
<1>1. TypeOK /\ Read(l) /\ ~done /\ Pos \in Nat \ {0}
  BY LineStepType, UpcomingIsLine DEF Inv
<1>2. PICK lines : lines = Lines'
  OBVIOUS
<1>3. PICK m \in Nat \ {0} : m = Pos
  BY <1>1
<1>4. /\ DOMAIN text = 1 .. m - 1 /\ DOMAIN text' = 1 .. m
      /\ DOMAIN lines = 1 .. m /\ Len(lines) = m
      /\ Due(lines, m - 1) = Due(Lines, m - 1)
  <2>1. /\ SameUpTo(Lines, Holding(Lines), lines, Holding(lines), m)
        /\ DOMAIN text = 1 .. m - 1 /\ DOMAIN text' = 1 .. m
        /\ DOMAIN lines = 1 .. m
        /\ \A i \in 1 .. m - 1 : lines[i] = Lines[i]
    BY <1>1, <1>2, <1>3, LinesGrow
  <2>2. Due(lines, m - 1) = Due(Lines, m - 1)
    BY <2>1, DueSame
  <2> QED
    BY <2>1, <2>2
<1>5. IsInjective(diags) /\ Range(diags) = Due(lines, m - 1)
  <2>1. Unterminated(Lines) = {}
    BY <1>1 DEF Unterminated
  <2> QED
    BY <1>4, <2>1 DEF ReportsWhatTheStructureCalls, Due
<1>6. diags \in Seq([code : Codes, at : Nat \ {0}])
  BY <1>1 DEF TypeOK
<1>7. \/ /\ Complaints(lines, m) = {}
         /\ UNCHANGED diags \/ Finish(l)
      \/ \E code \in Codes : Complaints(lines, m) = {code} /\ Report(code)
  BY <1>2, <1>3, ReportsDue
<1>8. Due(lines, m) =
        Due(lines, m - 1) \cup {[code |-> c, at |-> m] : c \in Complaints(lines, m)}
  BY DueNext
<1>9. SUFFICES /\ IsInjective(diags')
               /\ Range(diags') =
                    {[code |-> "UnterminatedIf", at |-> i] : i \in Unterminated(lines)'}
                      \cup Due(lines, m)
  BY <1>2, <1>4 DEF ReportsWhatTheStructureCalls, Due
<1>10. CASE Finish(l)
  <2> DEFINE ends == [i \in DOMAIN cond |->
                        [code |-> "UnterminatedIf", at |-> cond[i].opened_at]]
  <2>1. diags' = diags \o ends /\ done' /\ l.op = "eof"
    BY <1>10 DEF Finish, OpenLevels
  <2>2. Complaints(lines, m) = {}
    <3>1. lines[m] = l
      BY <1>1, <1>2, <1>3, <2>1, Here
    <3> QED
      BY <2>1, <3>1, ComplaintsAre
  <2>3. Unterminated(lines)' = Range(OpenedAt)
    BY <1>1, <1>2, <1>3, <1>4, <2>1, Here DEF Unterminated
  <2>4. PICK P \in Seq(Nat) : P = OpenedAt
    BY <1>1, OpenedAtType
  <2>5. \A d, e \in DOMAIN P : d < e => P[d] < P[e]
    BY <1>1, <2>4 DEF StackIsGroups, Stacked, AreOpen
  <2>6. /\ ends = [i \in 1 .. Len(P) |-> [code |-> "UnterminatedIf", at |-> P[i]]]
        /\ DOMAIN P = 1 .. Len(P) /\ Len(P) \in Nat
    BY <1>1, <2>4, OpenedAtType DEF OpenedAt
  <2> HIDE DEF ends
  <2>7. /\ Range(ends) = {[code |-> "UnterminatedIf", at |-> i] : i \in Range(P)}
        /\ DOMAIN ends = 1 .. Len(P)
    BY <2>6 DEF Range
  <2>8. IsInjective(ends)
    <3>1. ASSUME NEW d \in 1 .. Len(P), NEW e \in 1 .. Len(P), ends[d] = ends[e]
          PROVE  d = e
      <4>1. P[d] = P[e] /\ P[d] \in Nat /\ P[e] \in Nat
        BY <2>6, <3>1
      <4>2. d \in DOMAIN P /\ e \in DOMAIN P /\ d \in Nat /\ e \in Nat
        BY <2>6
      <4>3. ~(d < e) /\ ~(e < d)
        BY <2>5, <4>1, <4>2
      <4> QED
        BY <4>2, <4>3
    <3> QED
      BY <2>7, <3>1 DEF IsInjective
  <2>9. Range(diags) \cap Range(ends) = {}
    <3>1. ASSUME NEW x \in Due(Lines, Len(text))
          PROVE  x.code # "UnterminatedIf"
      BY <1>1, <1>4, <3>1, DueCodes
    <3>2. Due(Lines, Len(text)) = Due(lines, m - 1)
      BY <1>3, <1>4, <1>6 DEF Pos, TypeOK
    <3> QED
      BY <1>5, <2>7, <3>1, <3>2
  <2>10. \E S : diags \in Seq(S) /\ ends \in Seq(S)
    <3>0. PICK R : diags \in Seq(R)
      BY <1>6
    <3> DEFINE S == R \cup Range(ends)
    <3>1. diags \in Seq(S)
      BY <3>0
    <3>2. ends \in Seq(S)
      <4>1. ends = [i \in 1 .. Len(P) |-> ends[i]]
            /\ \A i \in 1 .. Len(P) : ends[i] \in Range(ends)
        BY <2>6, <2>7 DEF Range
      <4> QED
        BY <2>6, <4>1
    <3> HIDE DEF S
    <3> QED
      BY <3>1, <3>2
  <2>11. IsInjective(diags') /\ Range(diags') = Range(diags) \cup Range(ends)
    BY <1>5, <2>1, <2>8, <2>9, <2>10, RangeConcat
  <2>12. Due(lines, m) = Due(lines, m - 1)
    BY <1>8, <2>2
  <2> QED
    BY <1>5, <2>3, <2>4, <2>7, <2>11, <2>12
<1>11. CASE ~Finish(l)
  <2>1. Unterminated(lines)' = {}
    <3>1. done' = done
      BY <1>11 DEF Step, Text, UnknownDirective, OpenDeadIf, OpenIf, Unmatched,
         End, ElseAfterElse, Else, ElifTaken, Elif, Directive
    <3> QED
      BY <1>1, <3>1 DEF Unterminated
  <2>2. CASE Complaints(lines, m) = {} /\ UNCHANGED diags
    <3>1. Due(lines, m) = Due(lines, m - 1)
      BY <1>8, <2>2
    <3>2. IsInjective(diags') /\ Range(diags') = Due(lines, m)
      BY <1>5, <2>2, <3>1
    <3> QED
      BY <2>1, <3>2
  <2>3. ASSUME NEW code \in Codes, Complaints(lines, m) = {code}, Report(code)
        PROVE  IsInjective(diags') /\ Range(diags') = Due(lines, m)
    <3> DEFINE x == [code |-> code, at |-> m]
    <3>1. diags' = Append(diags, x) /\ x \in [code : Codes, at : Nat \ {0}]
          /\ x.at = m
      BY <1>3, <2>3 DEF Report
    <3>2. Due(lines, m) = Due(lines, m - 1) \cup {x}
      BY <1>8, <2>3
    <3>4. PICK S : S = [code : Codes, at : Nat \ {0}]
      OBVIOUS
    <3>5. diags \in Seq(S) /\ x \in S
      BY <1>6, <3>1, <3>4
    <3> HIDE DEF x
    <3>3. x \notin Due(lines, m - 1)
      <4>1. m - 1 \in Nat
        OBVIOUS
      <4> QED
        BY <3>1, <4>1, DueType
    <3> QED
      BY <1>5, <3>1, <3>2, <3>3, <3>5, RangeAppend
  <2> QED
    BY <1>7, <1>11, <2>1, <2>2, <2>3
<1> QED
  BY <1>10, <1>11

LEMMA ReportsInvStep ==
  Inv /\ GroupsInv /\ ReportsWhatTheStructureCalls /\ [Next]_vars
    => ReportsWhatTheStructureCalls'
<1> SUFFICES ASSUME Inv, GroupsInv, ReportsWhatTheStructureCalls, [Next]_vars,
                    Faultless'
             PROVE  ReportsWhatTheStructureCalls'
  BY DEF ReportsWhatTheStructureCalls
<1>1. ASSUME NEW l \in Upcoming, Step(l)
      PROVE  ReportsWhatTheStructureCalls'
  <2>1. Faultless /\ ~ElseAfterElse(l)
    BY <1>1, DiagsGrow DEF Inv
  <2>2. StackIsGroups
    BY <2>1 DEF GroupsInv
  <2> QED
    BY <1>1, <2>1, <2>2, ReportsStep
<1>2. CASE CallAgain
  <2>1. text' = <<>> /\ diags' = <<>> /\ ~done'
    BY <1>2 DEF CallAgain
  <2> QED
    BY <2>1 DEF ReportsWhatTheStructureCalls, Unterminated, Range, IsInjective
<1>3. CASE UNCHANGED vars
  <2>1. text' = text /\ diags' = diags /\ done' = done
    BY <1>3 DEF vars
  <2>2. Faultless /\ Lines' = Lines
    BY <2>1 DEF Faultless, Lines
  <2>3. Unterminated(Lines)' = Unterminated(Lines)
    BY <2>1, <2>2 DEF Unterminated
  <2> QED
    BY <2>1, <2>2, <2>3 DEF ReportsWhatTheStructureCalls
<1> QED
  BY <1>1, <1>2, <1>3 DEF Next, Returned

(***************************************************************************)
(* As long as no branch follows an #else, process() reports exactly what   *)
(* the structure of the text calls for, each thing once: for every file    *)
(* and every outcome of the conditions, and on every call.                 *)
(***************************************************************************)
THEOREM ZReportsTheStructure == Spec => []ReportsWhatTheStructureCalls
<1>1. Init => ReportsWhatTheStructureCalls
  <2>1. Init => text = <<>> /\ diags = <<>> /\ ~done
    BY DEF Init
  <2> QED
    BY <2>1 DEF ReportsWhatTheStructureCalls, Unterminated, Range, IsInjective
<1> QED
  BY <1>1, AlwaysGroups, ReportsInvStep, PTL DEF Spec
=============================================================================
