------------------------ MODULE CPreprocessorProofs ------------------------
(***************************************************************************)
(* The directive machine's type invariant, the shape of the conditional    *)
(* stack and the inertness of dead groups, for every set of files, every   *)
(* macro name and every include depth.                                     *)
(***************************************************************************)
EXTENDS CPreprocessorProperties, SharedFacts, TLAPS

(***************************************************************************)
(* Facts about the lines a step reads.                                     *)
(***************************************************************************)
LEMMA UpcomingIsLine ==
  ASSUME TypeOK, NEW l \in Upcoming
  PROVE  /\ ~done
         /\ l \in LineType
         /\ frames # <<>> /\ Top \in Nat \ {0} /\ Top \in DOMAIN frames
         /\ frames[Top] \in Frame
         /\ File \in Paths /\ Pos \in Nat \ {0}
<1>1. ~done
  BY DEF Upcoming
<1>2. /\ frames # <<>> /\ Top \in Nat \ {0} /\ Top \in DOMAIN frames
      /\ frames[Top] \in Frame
  BY DEF TypeOK, Top
<1>3. File \in Paths /\ Pos \in Nat \ {0}
  BY <1>2 DEF Frame, File, Pos
<1>4. Eof \in LineType
  BY DEF Eof, LineType
<1>5. text[File] \in Seq(LineType) /\ LinesOf[File] \in Seq(SUBSET LineType)
  BY <1>3, ConstantsAssumption DEF TypeOK
<1>6. l \in LineType
  BY <1>1, <1>3, <1>4, <1>5 DEF Upcoming
<1> QED
  BY <1>1, <1>2, <1>3, <1>6

(***************************************************************************)
(* The assignments the actions share keep their variables' types.          *)
(***************************************************************************)
LEMMA ReadType ==
  ASSUME TypeOK, NEW l \in Upcoming, Read(l)
  PROVE  text' \in [Paths -> Seq(LineType)]
<1>1. l \in LineType /\ File \in Paths
  BY UpcomingIsLine
<1>2. text[File] \in Seq(LineType)
  BY <1>1 DEF TypeOK
<1>3. Append(text[File], l) \in Seq(LineType)
  BY <1>1, <1>2
<1> QED
  BY <1>1, <1>3 DEF TypeOK, Read

LEMMA MovedFrames ==
  ASSUME TypeOK, frames # <<>>, NEW p \in Nat \ {0}
  PROVE  /\ [frames EXCEPT ![Top].pos = p] \in Seq(Frame)
         /\ Len([frames EXCEPT ![Top].pos = p]) = Len(frames)
<1>1. Top \in DOMAIN frames /\ frames[Top] \in Frame
  BY DEF TypeOK, Top
<1> DEFINE moved == [frames[Top] EXCEPT !.pos = p]
<1>2. moved \in Frame
  BY <1>1 DEF Frame
<1>3. [frames EXCEPT ![Top].pos = p] = [frames EXCEPT ![Top] = moved]
  OBVIOUS
<1> HIDE DEF moved
<1>4. /\ [frames EXCEPT ![Top] = moved] \in Seq(Frame)
      /\ Len([frames EXCEPT ![Top] = moved]) = Len(frames)
  BY <1>1, <1>2 DEF TypeOK
<1> QED
  BY <1>3, <1>4

LEMMA GoToType ==
  ASSUME TypeOK, frames # <<>>, NEW p \in Nat \ {0}, GoTo(p)
  PROVE  frames' \in Seq(Frame) /\ Len(frames') = Len(frames)
BY MovedFrames DEF GoTo

LEMMA OutType ==
  ASSUME TypeOK, File \in Paths, NEW p \in Nat \ {0},
         NEW d \in BOOLEAN, NEW s \in BOOLEAN
  PROVE  Append(out, EntryAt(p, d, s)) \in Seq(Entry)
<1>1. EntryAt(p, d, s) \in Entry
  BY DEF EntryAt, Entry
<1> QED
  BY <1>1 DEF TypeOK

LEMMA DiagType ==
  ASSUME TypeOK, NEW code \in Codes, NEW at \in Positions
  PROVE  Append(diags, [code |-> code, at |-> at]) \in Seq(Diagnostic)
BY DEF TypeOK, Diagnostic

LEMMA ReportType ==
  ASSUME TypeOK, File \in Paths, Pos \in Nat \ {0}, NEW code \in Codes,
         Report(code)
  PROVE  diags' \in Seq(Diagnostic)
<1>1. Here \in Positions
  BY DEF Here, Positions
<1> QED
  BY <1>1, DiagType DEF Report, Diag

LEMMA SkippingType == skipping \in BOOLEAN
BY DEF skipping

\* The types of what GoTo leaves alone and of the frame it moves.
LEMMA AdvanceType ==
  ASSUME TypeOK, NEW l \in Upcoming, Advance
  PROVE  /\ frames' \in Seq(Frame)
         /\ Len(frames') \in 1 .. MaxIncludeDepth
<1>1. frames # <<>> /\ Pos + 1 \in Nat \ {0}
  BY UpcomingIsLine
<1>2. GoTo(Pos + 1)
  BY DEF Advance
<1> QED
  BY <1>1, <1>2, GoToType DEF TypeOK

(***************************************************************************)
(* find_header yields a file the reader can read, or nothing.              *)
(***************************************************************************)
LEMMA HeaderIsOnDisk ==
  ASSUME TypeOK, NEW l \in Upcoming, l.op = "include",
         find_header(l) # NotFound
  PROVE  find_header(l) \in Disk
<1> DEFINE candidates == Candidates(l)
           hits == {i \in DOMAIN candidates :
                      candidates[i] \in included \cup Disk}
<1>1. DOMAIN candidates \subseteq Nat
  <2>1. IncludeDirs \in Seq(Dirs)
    BY ConstantsAssumption
  <2> QED
    BY <2>1 DEF Candidates
<1>2. find_header(l) = IF hits = {} THEN NotFound
                       ELSE candidates[CHOOSE i \in hits :
                                         \A j \in hits : i <= j]
  BY DEF find_header
<1>3. included \cup Disk = Disk
  BY DEF TypeOK
<1> HIDE DEF candidates
<1>4. hits # {} /\ hits \subseteq Nat
  BY <1>1, <1>2
<1>5. \E m \in hits : \A j \in hits : m <= j
  BY <1>4, SetMinimum
<1>6. (CHOOSE i \in hits : \A j \in hits : i <= j) \in hits
  BY <1>5
<1> QED
  BY <1>2, <1>3, <1>4, <1>6

(***************************************************************************)
(* Conditions are truth values, and the levels the directives build are    *)
(* levels.                                                                 *)
(***************************************************************************)
LEMMA EvaluateType == \A t : Evaluate(t) \in BOOLEAN
BY DEF Evaluate

LEMMA TestReportType ==
  ASSUME TypeOK, NEW l \in Upcoming, ReportTest(l.test)
  PROVE  diags' \in Seq(Diagnostic)
<1>1. File \in Paths /\ Pos \in Nat \ {0}
  BY UpcomingIsLine
<1>2. "MalformedDirective" \in Codes
  BY DEF Codes
<1> QED
  BY <1>1, <1>2, ReportType DEF ReportTest, TypeOK

LEMMA LevelType ==
  ASSUME TypeOK, NEW l \in Upcoming, NEW a \in BOOLEAN, NEW t \in BOOLEAN
  PROVE  LevelOf(a, t) \in Level
BY UpcomingIsLine DEF LevelOf, Level, Here, Positions

LEMMA LastLevelType ==
  ASSUME TypeOK, cond # <<>>
  PROVE  Last(cond) \in Level /\ Len(cond) \in DOMAIN cond
BY DEF TypeOK, Last

\* A conditional directive changes the stack of levels and reports.
LEMMA ConditionalType ==
  ASSUME TypeOK, NEW l \in Upcoming, Conditional(l),
         cond' \in Seq(Level), diags' \in Seq(Diagnostic)
  PROVE  TypeOK'
<1>1. text' \in [Paths -> Seq(LineType)]
  BY ReadType DEF Conditional
<1>2. out' \in Seq(Entry)
  BY UpcomingIsLine, OutType DEF Conditional, Emit
<1>3. frames' \in Seq(Frame) /\ Len(frames') \in 1 .. MaxIncludeDepth
  BY AdvanceType DEF Conditional
<1>4. UNCHANGED <<macros, included, once, call>> /\ done' \in BOOLEAN
  BY DEF Conditional, TypeOK
<1> QED
  BY <1>1, <1>2, <1>3, <1>4 DEF TypeOK

\* A live directive of another kind leaves its line in the output.
LEMMA LiveDirectiveType ==
  ASSUME TypeOK, NEW l \in Upcoming, NEW ops, LiveDirective(l, ops)
  PROVE  /\ text' \in [Paths -> Seq(LineType)]
         /\ out' \in Seq(Entry)
BY UpcomingIsLine, ReadType, OutType DEF LiveDirective, Emit

(***************************************************************************)
(* The lines of text and of an invocation.                                 *)
(***************************************************************************)
LEMMA TextStepType ==
  ASSUME TypeOK, NEW l \in Upcoming,
         \/ PlainText(l) \/ OpenCall(l) \/ CollectArgument(l)
         \/ CompleteCall(l) \/ MacroArity(l) \/ UnterminatedCall(l)
  PROVE  TypeOK'
<1> USE UpcomingIsLine, ReadType, AdvanceType, OutType
<1>1. CASE PlainText(l)
  BY <1>1, SkippingType DEF PlainText, Emit, TypeOK
<1>2. CASE OpenCall(l)
  BY <1>2 DEF OpenCall, TypeOK
<1>3. CASE CollectArgument(l)
  <2>1. call \in [at : Nat \ {0}, depth : Nat \ {0}, args : Nat \ {0}]
    BY <1>3 DEF CollectArgument, collecting, TypeOK, NoCall
  <2>2. PICK d, n : /\ call' = [call EXCEPT !.depth = d, !.args = n]
                    /\ d = CASE l.op = "call" -> call.depth + 1
                             [] l.op = "close" -> call.depth - 1
                             [] OTHER -> call.depth
                    /\ n = IF l.op = "comma" /\ call.depth = 1
                          THEN call.args + 1 ELSE call.args
    BY <1>3 DEF CollectArgument
  <2>3. d \in Nat \ {0} /\ n \in Nat \ {0}
    BY <1>3, <2>1, <2>2 DEF CollectArgument, Closes
  <2>4. call' \in [at : Nat \ {0}, depth : Nat \ {0}, args : Nat \ {0}]
    BY <2>1, <2>2, <2>3
  <2> QED
    BY <1>3, <2>4 DEF CollectArgument, TypeOK
<1>4. CASE CompleteCall(l)
  <2>1. call.at \in Nat \ {0}
    BY <1>4 DEF CompleteCall, collecting, TypeOK, NoCall
  <2> QED
    BY <1>4, <2>1 DEF CompleteCall, TypeOK
<1>5. CASE MacroArity(l) \/ UnterminatedCall(l)
  <2>1. call.at \in Nat \ {0}
    BY <1>5 DEF MacroArity, UnterminatedCall, collecting, TypeOK, NoCall
  <2>2. PICK code \in {"MacroArity", "UnterminatedArgs"} : GiveUpCall(code)
    BY <1>5 DEF MacroArity, UnterminatedCall
  <2>3. frames' \in Seq(Frame) /\ Len(frames') \in 1 .. MaxIncludeDepth
    <3>1. call.at + 1 \in Nat \ {0}
      BY <2>1
    <3> QED
      BY <2>2, <3>1, GoToType DEF GiveUpCall, TypeOK
  <2>4. diags' \in Seq(Diagnostic)
    <3>1. code \in Codes /\ <<File, call.at>> \in Positions
      BY <2>1 DEF Codes, Positions
    <3> QED
      BY <2>2, <3>1, DiagType DEF GiveUpCall
  <2>5. text' \in [Paths -> Seq(LineType)]
    BY <1>5 DEF MacroArity, UnterminatedCall
  <2> QED
    BY <2>1, <2>2, <2>3, <2>4, <2>5 DEF GiveUpCall, TypeOK
<1> QED
  BY <1>1, <1>2, <1>3, <1>4, <1>5

(***************************************************************************)
(* The conditional directives.                                             *)
(***************************************************************************)
LEMMA ConditionalStepType ==
  ASSUME TypeOK, NEW l \in Upcoming,
         \/ OpenDeadIf(l) \/ OpenIf(l) \/ Unmatched(l) \/ EndIf(l)
         \/ AfterElse(l) \/ Else(l) \/ ElifTaken(l) \/ Elif(l)
  PROVE  TypeOK'
<1>1. cond' \in Seq(Level)
  <2>0. cond \in Seq(Level)
    BY DEF TypeOK
  <2>1. CASE OpenDeadIf(l)
    <3>1. DeadLevel \in Level
      BY LevelType, Zenon DEF DeadLevel
    <3> QED
      BY <2>0, <2>1, <3>1 DEF OpenDeadIf
  <2>2. CASE OpenIf(l)
    BY <2>0, <2>2, LevelType, EvaluateType DEF OpenIf
  <2>3. CASE Unmatched(l) \/ AfterElse(l)
    BY <2>0, <2>3 DEF Unmatched, AfterElse
  <2>4. CASE EndIf(l)
    BY <2>0, <2>4 DEF EndIf, PopLevel, Front
  <2>5. ASSUME cond # <<>>, NEW level \in Level, SetTop(level)
        PROVE  cond' \in Seq(Level)
    BY <2>0, <2>5 DEF SetTop
  <2>6. CASE Else(l) \/ ElifTaken(l) \/ Elif(l)
    <3>1. cond # <<>> /\ Last(cond) \in Level
      BY <2>6, LastLevelType DEF Else, ElifTaken, Elif
    <3>2. /\ ElseLevel \in Level
          /\ [Last(cond) EXCEPT !.active = FALSE] \in Level
          /\ [Last(cond) EXCEPT !.active = Evaluate(l.test),
                                !.taken = Evaluate(l.test)] \in Level
      BY <3>1, EvaluateType DEF Level, ElseLevel
    <3> QED
      BY <2>5, <2>6, <3>1, <3>2 DEF Else, ElifTaken, Elif
  <2> QED
    BY <2>1, <2>2, <2>3, <2>4, <2>6
<1>2. diags' \in Seq(Diagnostic)
  <2>1. CASE OpenIf(l) \/ Elif(l)
    BY <2>1, TestReportType DEF OpenIf, Elif
  <2>2. CASE Unmatched(l) \/ AfterElse(l)
    BY <2>2, ReportType, UpcomingIsLine DEF Unmatched, AfterElse, Codes
  <2>3. CASE OpenDeadIf(l) \/ EndIf(l) \/ Else(l) \/ ElifTaken(l)
    BY <2>3 DEF OpenDeadIf, EndIf, Else, ElifTaken, TypeOK
  <2> QED
    BY <2>1, <2>2, <2>3
<1>3. Conditional(l)
  BY DEF OpenDeadIf, OpenIf, Unmatched, EndIf, AfterElse, Else, ElifTaken, Elif
<1> QED
  BY <1>1, <1>2, <1>3, ConditionalType

(***************************************************************************)
(* The other directives.                                                   *)
(***************************************************************************)
LEMMA DirectiveStepType ==
  ASSUME TypeOK, NEW l \in Upcoming,
         \/ DeadDirective(l) \/ Define(l) \/ Undef(l) \/ PragmaOnce(l)
         \/ SilentDirective(l) \/ Message(l)
  PROVE  TypeOK'
<1> USE UpcomingIsLine, ReadType, AdvanceType, LiveDirectiveType, ReportType
<1>1. CASE DeadDirective(l)
  BY <1>1, OutType DEF DeadDirective, Emit, TypeOK
<1>2. CASE Define(l)
  <2>1. macros' \in [Names -> Definitions \cup {Undefined}]
    <3>1. l.op = "define"
      BY <1>2 DEF Define, LiveDirective
    <3>2. l.name \in Names /\ l.def \in Definitions \cup {Malformed}
      BY <3>1 DEF LineType
    <3> QED
      BY <1>2, <3>2 DEF Define, TypeOK
  <2>2. diags' \in Seq(Diagnostic)
    BY <1>2 DEF Define, TypeOK, Codes
  <2> QED
    BY <1>2, <2>1, <2>2 DEF Define, TypeOK
<1>3. CASE Undef(l)
  BY <1>3 DEF Undef, TypeOK
<1>4. CASE PragmaOnce(l)
  BY <1>4 DEF PragmaOnce, TypeOK
<1>5. CASE SilentDirective(l)
  BY <1>5 DEF SilentDirective, TypeOK
<1>6. CASE Message(l)
  <2>1. l.op \in {"error", "warning", "unknown"}
    BY <1>6 DEF Message, LiveDirective
  <2>2. diags' \in Seq(Diagnostic)
    BY <1>6, <2>1 DEF Message, Codes
  <2> QED
    BY <1>6, <2>2 DEF Message, TypeOK
<1> QED
  BY <1>1, <1>2, <1>3, <1>4, <1>5, <1>6

(***************************************************************************)
(* #include, the end of a header and the end of the main file.             *)
(***************************************************************************)
LEMMA IncludeStepType ==
  ASSUME TypeOK, NEW l \in Upcoming,
         \/ BadInclude(l) \/ IncludeTooDeep(l) \/ IncludeNotFound(l)
         \/ IncludeOnceAgain(l) \/ EnterInclude(l) \/ LeaveInclude(l)
         \/ Finish(l)
  PROVE  TypeOK'
<1> USE UpcomingIsLine, ReadType, AdvanceType, LiveDirectiveType, ReportType
<1>1. CASE BadInclude(l)
  BY <1>1 DEF BadInclude, FailInclude, Codes, TypeOK
<1>2. CASE IncludeTooDeep(l)
  BY <1>2 DEF IncludeTooDeep, IncludeLine, FailInclude, Codes, TypeOK
<1>3. CASE IncludeNotFound(l)
  BY <1>3 DEF IncludeNotFound, IncludeLine, FailInclude, Codes, TypeOK
<1>4. CASE IncludeOnceAgain(l)
  BY <1>4 DEF IncludeOnceAgain, IncludeLine, TypeOK
<1>5. CASE EnterInclude(l)
  <2> DEFINE header == find_header(l)
             moved == [frames EXCEPT ![Top].pos = Pos + 1]
  <2>1. header \in Disk
    BY <1>5, HeaderIsOnDisk DEF EnterInclude, IncludeLine, LiveDirective
  <2>2. included' \subseteq Disk /\ once' \subseteq included'
    BY <1>5, <2>1 DEF EnterInclude, IncludeLine, TypeOK
  <2>3. moved \in Seq(Frame) /\ Len(moved) = Len(frames)
    <3>1. frames # <<>> /\ Pos + 1 \in Nat \ {0}
      OBVIOUS
    <3> QED
      BY <3>1, MovedFrames
  <2>4. FrameOf(header) \in Frame
    BY <2>1 DEF FrameOf, Frame, Paths, TypeOK
  <2>5. frames' = Append(moved, FrameOf(header))
    BY <1>5 DEF EnterInclude, Pos
  <2> HIDE DEF moved, header
  <2>6. frames' \in Seq(Frame) /\ Len(frames') = Len(frames) + 1
    BY <2>3, <2>4, <2>5
  <2>7. Len(frames') \in 1 .. MaxIncludeDepth
    BY <1>5, <2>6, ConstantsAssumption DEF EnterInclude, TooDeep, Top, TypeOK
  <2> QED
    BY <1>5, <2>2, <2>6, <2>7 DEF EnterInclude, IncludeLine, TypeOK
<1>6. CASE LeaveInclude(l)
  <2>1. /\ frames' \in Seq(Frame) /\ Len(frames') \in 1 .. MaxIncludeDepth
    BY <1>6, ConstantsAssumption DEF LeaveInclude, Front, Top, TypeOK
  <2>2. cond' \in Seq(Level) /\ diags' \in Seq(Diagnostic)
    <3>1. CASE Len(cond) > frames[Top].depth
      <4>1. frames[Top].depth + 1 \in DOMAIN cond /\ frames[Top].depth \in Nat
        BY <3>1 DEF Frame, TypeOK
      <4>2. cond[frames[Top].depth + 1].opened_at \in Positions
        <5>1. cond[frames[Top].depth + 1] \in Level
          BY <4>1 DEF TypeOK
        <5> QED
          BY <5>1 DEF Level
      <4>3. diags' \in Seq(Diagnostic)
        <5>1. "UnterminatedIf" \in Codes
          BY DEF Codes
        <5>2. diags' = Append(diags,
                 [code |-> "UnterminatedIf",
                  at |-> cond[frames[Top].depth + 1].opened_at])
          BY <1>6, <3>1, Zenon DEF LeaveInclude
        <5> QED
          BY <4>2, <5>1, <5>2, DiagType
      <4>4. cond' \in Seq(Level)
        <5>1. cond' = SubSeq(cond, 1, frames[Top].depth)
          BY <1>6, <3>1 DEF LeaveInclude, BalancedCond
        <5>2. cond \in Seq(Level)
          BY DEF TypeOK
        <5> QED
          BY <4>1, <5>1, <5>2
      <4> QED
        BY <4>3, <4>4
    <3>2. CASE ~(Len(cond) > frames[Top].depth)
      BY <1>6, <3>2 DEF LeaveInclude, TypeOK
    <3> QED
      BY <3>1, <3>2
  <2> QED
    BY <1>6, <2>1, <2>2 DEF LeaveInclude, TypeOK
<1>7. CASE Finish(l)
  <2>1. diags' \in Seq(Diagnostic)
    <3>1. CASE cond = <<>>
      BY <1>7, <3>1 DEF Finish, TypeOK
    <3>2. CASE cond # <<>>
      <4>1. cond[1] \in Level
        BY <3>2 DEF TypeOK
      <4>2. cond[1].opened_at \in Positions
        BY <4>1 DEF Level
      <4>3. "UnterminatedIf" \in Codes
        BY DEF Codes
      <4> QED
        BY <1>7, <3>2, <4>2, <4>3, DiagType DEF Finish
    <3> QED
      BY <3>1, <3>2
  <2> QED
    BY <1>7, <2>1 DEF Finish, TypeOK
<1> QED
  BY <1>1, <1>2, <1>3, <1>4, <1>5, <1>6, <1>7

(***************************************************************************)
(* Every step of the directive machine keeps the types: in particular no   *)
(* run() nests deeper than MaxIncludeDepth, and only files the reader can  *)
(* read are in the include cache.                                          *)
(***************************************************************************)
LEMMA TypeStep == TypeOK /\ [Next]_vars => TypeOK'
<1> SUFFICES ASSUME TypeOK, [Next]_vars PROVE TypeOK'
  OBVIOUS
<1>1. CASE UNCHANGED vars
  BY <1>1 DEF vars, TypeOK
<1>2. CASE Process
  BY <1>2, TextStepType, ConditionalStepType, DirectiveStepType,
     IncludeStepType DEF Process
<1> QED
  BY <1>1, <1>2 DEF Next, Returned

LEMMA TypeInit == Init => TypeOK
<1> SUFFICES ASSUME Init PROVE TypeOK
  OBVIOUS
<1> USE ConstantsAssumption DEF Init, Paths
<1>1. text \in [Paths -> Seq(LineType)]
  OBVIOUS
<1>2. frames \in Seq(Frame) /\ Len(frames) \in 1 .. MaxIncludeDepth
  BY DEF Frame
<1>3. call = NoCall /\ done = FALSE
  OBVIOUS
<1>4. out \in Seq(Entry) /\ diags \in Seq(Diagnostic) /\ cond \in Seq(Level)
  OBVIOUS
<1> QED
  BY <1>1, <1>2, <1>3, <1>4 DEF TypeOK

(***************************************************************************)
(* CPreprocessor::run and its handlers keep their state well formed.       *)
(***************************************************************************)
THEOREM TypeCorrect == Spec => []TypeOK
BY TypeInit, TypeStep, PTL DEF Spec

(***************************************************************************)
(* What a step can do to the stack of levels.  The rest of the proofs see  *)
(* a step of the machine only through these four cases.                    *)
(***************************************************************************)
Opens == \E a, t \in BOOLEAN :
           /\ cond' = Append(cond, LevelOf(a, t))
           /\ a => t
           /\ skipping => ~a /\ t
Drops == \E n \in 0 .. Len(cond) : cond' = SubSeq(cond, 1, n)
Changes == /\ cond # <<>>
           /\ \E level \in Level :
                /\ SetTop(level)
                /\ level.active => ~Last(cond).taken
                /\ Last(cond).taken => level.taken
                /\ level.active \/ level.in_else => level.taken

LEMMA CondStep ==
  ASSUME TypeOK, [Next]_vars
  PROVE  UNCHANGED cond \/ Opens \/ Drops \/ Changes
<1> USE LastLevelType
<1>0. cond \in Seq(Level)
  BY DEF TypeOK
<1>1. ASSUME NEW l \in Upcoming, OpenDeadIf(l) PROVE Opens
  BY <1>1 DEF OpenDeadIf, Opens, DeadLevel
<1>2. ASSUME NEW l \in Upcoming, OpenIf(l) PROVE Opens
  BY <1>2, EvaluateType DEF OpenIf, Opens
<1>3. ASSUME NEW l \in Upcoming, EndIf(l) PROVE Drops
  <2>1. Len(cond) - 1 \in 0 .. Len(cond)
    BY <1>0, <1>3 DEF EndIf
  <2> QED
    BY <1>3, <2>1 DEF EndIf, Drops, PopLevel, Front
<1>4. ASSUME NEW l \in Upcoming, Else(l) PROVE Changes
  <2> DEFINE level == ElseLevel
  <2>1. level \in Level /\ level.taken /\ level.active = ~Last(cond).taken
    BY <1>4 DEF Else, ElseLevel, Level
  <2>2. cond # <<>> /\ SetTop(level)
    BY <1>4 DEF Else
  <2> HIDE DEF level
  <2> QED
    BY <2>1, <2>2 DEF Changes
<1>5. ASSUME NEW l \in Upcoming, ElifTaken(l) PROVE Changes
  <2> DEFINE level == [Last(cond) EXCEPT !.active = FALSE]
  <2>1. level \in Level /\ ~level.active /\ level.taken
    BY <1>5 DEF ElifTaken, Level
  <2>2. cond # <<>> /\ SetTop(level)
    BY <1>5 DEF ElifTaken
  <2> HIDE DEF level
  <2> QED
    BY <2>1, <2>2 DEF Changes
<1>6. ASSUME NEW l \in Upcoming, Elif(l) PROVE Changes
  <2> DEFINE level == [Last(cond) EXCEPT !.active = Evaluate(l.test),
                                         !.taken = Evaluate(l.test)]
  <2>1. /\ level \in Level /\ level.active = level.taken /\ ~level.in_else
        /\ ~Last(cond).taken
    BY <1>6, EvaluateType DEF Elif, Level
  <2>2. cond # <<>> /\ SetTop(level)
    BY <1>6 DEF Elif
  <2> HIDE DEF level
  <2> QED
    BY <2>1, <2>2 DEF Changes
<1>7. ASSUME NEW l \in Upcoming, LeaveInclude(l) PROVE UNCHANGED cond \/ Drops
  <2>1. CASE Len(cond) > frames[Top].depth
    <3>1. frames[Top].depth \in 0 .. Len(cond)
      BY <1>0, <2>1, UpcomingIsLine DEF Frame
    <3> QED
      BY <1>7, <2>1, <3>1 DEF LeaveInclude, BalancedCond, Drops
  <2>2. CASE ~(Len(cond) > frames[Top].depth)
    BY <1>7, <2>2, Zenon DEF LeaveInclude
  <2> QED
    BY <2>1, <2>2
<1>8. CASE UNCHANGED vars
  BY <1>8 DEF vars
<1>9. ASSUME NEW l \in Upcoming,
             \/ PlainText(l) \/ OpenCall(l) \/ CollectArgument(l)
             \/ CompleteCall(l) \/ MacroArity(l) \/ UnterminatedCall(l)
             \/ Unmatched(l)
             \/ AfterElse(l) \/ DeadDirective(l) \/ Define(l) \/ Undef(l)
             \/ PragmaOnce(l) \/ SilentDirective(l) \/ Message(l)
             \/ BadInclude(l) \/ IncludeTooDeep(l) \/ IncludeNotFound(l)
             \/ IncludeOnceAgain(l) \/ EnterInclude(l) \/ Finish(l)
      PROVE  UNCHANGED cond
  BY <1>9 DEF PlainText, OpenCall, CollectArgument, CompleteCall,
     MacroArity, UnterminatedCall, GiveUpCall, Unmatched, AfterElse, DeadDirective, Define, Undef,
     PragmaOnce, SilentDirective, Message, BadInclude, IncludeTooDeep,
     IncludeNotFound, IncludeOnceAgain, EnterInclude, Finish, IncludeLine
<1> QED
  BY <1>1, <1>2, <1>3, <1>4, <1>5, <1>6, <1>7, <1>8, <1>9, Zenon
     DEF Next, Process, Returned

\* The same four cases, level by level.
LEMMA LevelsAfterStep ==
  ASSUME TypeOK, [Next]_vars
  PROVE  \/ /\ DOMAIN cond' \subseteq DOMAIN cond
            /\ \A i \in DOMAIN cond' : cond'[i] = cond[i]
         \/ /\ DOMAIN cond' = DOMAIN cond \cup {Len(cond) + 1}
            /\ \A i \in DOMAIN cond : cond'[i] = cond[i]
            /\ LET new == cond'[Len(cond) + 1]
               IN /\ ~new.in_else /\ (new.active => new.taken)
                  /\ skipping => ~new.active /\ new.taken
         \/ /\ DOMAIN cond' = DOMAIN cond /\ Len(cond) \in DOMAIN cond
            /\ \A i \in DOMAIN cond \ {Len(cond)} : cond'[i] = cond[i]
            /\ LET new == cond'[Len(cond)]
                   old == cond[Len(cond)]
               IN /\ new.active => ~old.taken
                  /\ old.taken => new.taken
                  /\ new.active \/ new.in_else => new.taken
<1>0. cond \in Seq(Level)
  BY DEF TypeOK
<1>1. CASE UNCHANGED cond
  BY <1>1
<1>2. CASE Opens
  <2>1. PICK a, t \in BOOLEAN :
          /\ cond' = Append(cond, LevelOf(a, t))
          /\ (a => t) /\ (skipping => ~a /\ t)
    BY <1>2 DEF Opens
  <2>2. /\ ~LevelOf(a, t).in_else
        /\ LevelOf(a, t).active = a /\ LevelOf(a, t).taken = t
    BY DEF LevelOf
  <2>3. /\ DOMAIN cond' = DOMAIN cond \cup {Len(cond) + 1}
        /\ \A i \in DOMAIN cond : cond'[i] = cond[i]
        /\ cond'[Len(cond) + 1] = LevelOf(a, t)
    BY <1>0, <2>1
  <2> QED
    BY <2>1, <2>2, <2>3
<1>3. CASE Drops
  BY <1>0, <1>3 DEF Drops
<1>4. CASE Changes
  <2>1. PICK level \in Level :
          /\ SetTop(level)
          /\ level.active => ~Last(cond).taken
          /\ Last(cond).taken => level.taken
          /\ level.active \/ level.in_else => level.taken
    BY <1>4 DEF Changes
  <2>2. Len(cond) \in DOMAIN cond /\ Last(cond) = cond[Len(cond)]
    BY <1>0, <1>4 DEF Changes, Last
  <2>3. /\ DOMAIN cond' = DOMAIN cond
        /\ \A i \in DOMAIN cond \ {Len(cond)} : cond'[i] = cond[i]
        /\ cond'[Len(cond)] = level
    BY <1>0, <2>1, <2>2 DEF SetTop
  <2> QED
    BY <2>1, <2>2, <2>3
<1> QED
  BY <1>1, <1>2, <1>3, <1>4, CondStep

(***************************************************************************)
(* handle_conditional keeps a group's live branch among the taken ones.    *)
(***************************************************************************)
THEOREM OneLiveBranch == Spec => []LevelsConsistent
<1>1. Init => LevelsConsistent
  BY DEF Init, LevelsConsistent
<1>2. LevelsConsistent /\ TypeOK /\ [Next]_vars => LevelsConsistent'
  <2> SUFFICES ASSUME LevelsConsistent, TypeOK, [Next]_vars,
                      NEW i \in DOMAIN cond'
               PROVE  cond'[i].active \/ cond'[i].in_else => cond'[i].taken
    BY DEF LevelsConsistent
  <2> QED
    BY LevelsAfterStep DEF LevelsConsistent
<1> QED
  BY <1>1, <1>2, TypeCorrect, PTL DEF Spec

(***************************************************************************)
(* Below a dead level every level is dead and counts as taken, so that     *)
(* skipping() may look at the innermost level alone.                       *)
(***************************************************************************)
THEOREM DeadStaysDead == Spec => []DeadBelowDead
<1>1. Init => DeadBelowDead
  BY DEF Init, DeadBelowDead
<1>2. DeadBelowDead /\ TypeOK /\ [Next]_vars => DeadBelowDead'
  <2> SUFFICES ASSUME DeadBelowDead, TypeOK, [Next]_vars,
                      NEW i \in DOMAIN cond', NEW j \in DOMAIN cond',
                      i < j, ~cond'[i].active
               PROVE  ~cond'[j].active /\ cond'[j].taken
    BY DEF DeadBelowDead
  <2>0. cond \in Seq(Level) /\ DOMAIN cond = 1 .. Len(cond)
    BY DEF TypeOK
  <2>1. CASE i \in DOMAIN cond /\ cond'[i] = cond[i]
    <3>1. CASE j \in DOMAIN cond
      <4>1. ~cond[j].active /\ cond[j].taken
        BY <2>1, <3>1 DEF DeadBelowDead
      <4> QED
        BY <2>0, <3>1, <4>1, LevelsAfterStep
    <3>2. CASE j \notin DOMAIN cond
      <4>1. skipping
        <5>1. cond # <<>> /\ Last(cond) = cond[Len(cond)]
          BY <2>0, <2>1 DEF Last
        <5>2. ~cond[Len(cond)].active
          BY <2>0, <2>1 DEF DeadBelowDead
        <5> QED
          BY <5>1, <5>2 DEF skipping
      <4> QED
        BY <2>0, <3>2, <4>1, LevelsAfterStep
    <3> QED
      BY <3>1, <3>2
  <2>2. CASE ~(i \in DOMAIN cond /\ cond'[i] = cond[i])
    <3>1. \/ i = Len(cond) + 1
          \/ i = Len(cond) /\ DOMAIN cond' = DOMAIN cond
      BY <2>0, <2>2, LevelsAfterStep
    <3> QED
      BY <2>0, <3>1, LevelsAfterStep
  <2> QED
    BY <2>1, <2>2
<1> QED
  BY <1>1, <1>2, TypeCorrect, PTL DEF Spec

(***************************************************************************)
(* No #elif, #else or #endif revives a group that has had its live branch. *)
(***************************************************************************)
THEOREM OnlyOneBranch == Spec => NoSecondBranch
<1>1. TypeOK /\ [Next]_vars =>
        [\A i \in DOMAIN cond \cap DOMAIN cond' :
           cond'[i].active /\ ~cond[i].active => ~cond[i].taken]_vars
  BY LevelsAfterStep
<1> QED
  BY <1>1, TypeCorrect, PTL DEF Spec, NoSecondBranch
=============================================================================
