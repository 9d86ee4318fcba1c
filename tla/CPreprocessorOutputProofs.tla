--------------------- MODULE CPreprocessorOutputProofs ---------------------
(***************************************************************************)
(* What the directive machine puts out: the main file's lines in order,    *)
(* the lines of a header with #pragma once or an include guard once, and   *)
(* as many open levels as the lines put out have opened: for every set of  *)
(* files and every include depth, files that include themselves and        *)
(* conditionals that cross a file's end among them.  And, for a file       *)
(* without includes, that the marks and the macro table are what the       *)
(* structure of its groups calls for.                                      *)
(***************************************************************************)
EXTENDS CPreprocessorProofs, ConditionalGroupsProofs, SequenceTheorems

Branching == {"if", "elif", "else", "endif"}

(***************************************************************************)
(* The kinds of step, as far as the position in the files and the output   *)
(* are concerned.                                                          *)
(***************************************************************************)
Nests(l) ==
  \/ /\ l.op = "if"
     /\ \E active, taken \in BOOLEAN :
          /\ cond' = Append(cond, LevelOf(active, taken))
          /\ skipping => ~active
          /\ ~skipping /\ l.test.kind = "undefined" =>
               active = (macros[l.test.name] = Undefined)
  \/ l.op = "endif" /\ cond # <<>> /\ cond' = Front(cond)
  \/ l.op = "endif" /\ cond = <<>> /\ UNCHANGED cond /\ Report("UnmatchedEndif")
  \/ l.op \in {"elif", "else"} /\ Len(cond') = Len(cond)
  \/ l.op \notin Branching /\ UNCHANGED cond

Defines(l) ==
  /\ l.op # "undef" =>
       \A n \in Names : macros[n] # Undefined => macros'[n] # Undefined
  /\ ~skipping /\ l.op = "define" /\ l.def # Malformed =>
       macros'[l.name] # Undefined

Puts(l) ==
  /\ ~collecting /\ l.op # "eof"
  /\ Nests(l) /\ Defines(l)
  /\ Advance /\ UNCHANGED <<call, included, done>>
  /\ \E directive, skipped \in BOOLEAN :
       /\ Emit(directive, skipped)
       /\ directive <=> l.op \notin {"text", "comma", "call", "close"}
       /\ skipping /\ l.op \notin Branching => skipped
  /\ once \subseteq once'
  /\ l.op = "once" /\ ~skipping => {File} \cap included \subseteq once'

Enters(l) ==
  /\ ~collecting /\ ~skipping /\ l.op = "include"
  /\ Emit(TRUE, FALSE)
  /\ UNCHANGED <<call, cond, macros, once, done>>
  /\ \E f \in Disk \ once :
       /\ included' = included \cup {f}
       /\ frames' = Append([frames EXCEPT ![Top].pos = Pos + 1], FrameOf(f))

Begins(l) ==
  /\ ~collecting /\ ~skipping /\ l.op = "call"
  /\ call' = [at |-> Pos, depth |-> 1, args |-> 1]
  /\ Advance /\ UNCHANGED <<cond, macros, included, once, out, done>>

Takes(l) ==
  /\ collecting /\ l.op # "eof"
  /\ call'.at = call.at
  /\ ~Closes(l)
  /\ call'.depth = CASE l.op = "call" -> call.depth + 1
                     [] l.op = "close" -> call.depth - 1
                     [] OTHER -> call.depth
  /\ call'.args = IF l.op = "comma" /\ call.depth = 1
                  THEN call.args + 1 ELSE call.args
  /\ Advance /\ UNCHANGED <<cond, macros, included, once, out, done>>

Ends(l) ==
  /\ collecting
  /\ out' = Append(out, EntryAt(call.at, FALSE, FALSE))
  /\ call' = NoCall
  /\ \/ Closes(l) /\ ArgumentsFit /\ Advance
     \/ GoTo(call.at + 1)
  /\ UNCHANGED <<cond, macros, included, once, done>>

ReportsOpenIf ==
  \E at : diags' = Append(diags, [code |-> "UnterminatedIf", at |-> at])

Leaves(l) ==
  /\ ~collecting /\ l.op = "eof"
  /\ \/ Top > 1 /\ frames' = Front(frames) /\ UNCHANGED done
     \/ Top = 1 /\ UNCHANGED <<frames, cond>> /\ (cond = <<>> \/ ReportsOpenIf)
  /\ UNCHANGED cond \/ ReportsOpenIf
  /\ UNCHANGED <<call, macros, included, once, out>>

Reports == \E diag : diags' = Append(diags, diag)

LEMMA StepKind ==
  ASSUME TypeOK, [Next]_vars
  PROVE  \/ UNCHANGED vars
         \/ \E l \in Upcoming :
              /\ l \in LineType /\ Read(l) /\ ~done
              /\ UNCHANGED diags \/ Reports
              /\ \/ Puts(l) \/ Enters(l) \/ Begins(l) \/ Takes(l)
                 \/ Ends(l) \/ Leaves(l)
<1> DEFINE Fine(l) == Read(l) /\ (UNCHANGED diags \/ Reports)
<1>1. ASSUME NEW l \in Upcoming, PlainText(l) PROVE Fine(l) /\ Puts(l)
  <2>1. skipping \in BOOLEAN /\ Emit(FALSE, skipping) /\ FALSE \in BOOLEAN
    BY <1>1, SkippingType DEF PlainText
  <2>2. l.op \in {"text", "comma", "call", "close"}
    BY <1>1 DEF PlainText
  <2>3. /\ Read(l) /\ ~collecting /\ Advance
        /\ UNCHANGED <<call, cond, macros, included, once, diags, done>>
    BY <1>1 DEF PlainText
  <2>4. Nests(l) /\ Defines(l)
    BY <2>2, <2>3 DEF Nests, Defines, Branching
  <2> QED
    BY <2>1, <2>2, <2>3, <2>4 DEF Puts
<1>2. ASSUME NEW l \in Upcoming, OpenCall(l) PROVE Fine(l) /\ Begins(l)
  BY <1>2 DEF OpenCall, Begins
<1>3. ASSUME NEW l \in Upcoming, CollectArgument(l) PROVE Fine(l) /\ Takes(l)
  <2>1. call \in [at : Nat \ {0}, depth : Nat \ {0}, args : Nat \ {0}]
    BY <1>3 DEF CollectArgument, collecting, TypeOK, NoCall
  <2> QED
    BY <1>3, <2>1 DEF CollectArgument, Takes
<1>4. ASSUME NEW l \in Upcoming,
             CompleteCall(l) \/ MacroArity(l) \/ UnterminatedCall(l)
      PROVE  Fine(l) /\ Ends(l)
  BY <1>4 DEF CompleteCall, MacroArity, UnterminatedCall, GiveUpCall, Ends,
     Reports
<1>5. ASSUME NEW l \in Upcoming,
             \/ OpenDeadIf(l) \/ OpenIf(l) \/ Unmatched(l) \/ EndIf(l)
             \/ AfterElse(l) \/ Else(l) \/ ElifTaken(l) \/ Elif(l)
      PROVE  Fine(l) /\ Puts(l)
  <2>1. l.op \in Branching /\ Conditional(l)
    BY <1>5 DEF OpenDeadIf, OpenIf, Unmatched, EndIf, AfterElse, Else,
       ElifTaken, Elif, Branching
  <2>2. /\ Read(l) /\ ~collecting /\ Advance /\ Emit(TRUE, FALSE)
        /\ UNCHANGED <<call, macros, included, once, done>>
    BY <2>1 DEF Conditional
  <2>3. l.op \notin {"text", "comma", "call", "close", "eof", "once", "define"}
    BY <2>1 DEF Branching
  <2>4. UNCHANGED diags \/ Reports
    BY <1>5 DEF OpenDeadIf, OpenIf, Unmatched, EndIf, AfterElse, Else,
       ElifTaken, Elif, ReportTest, Report, Reports
  <2>5. Nests(l)
    <3>1. CASE OpenDeadIf(l)
      BY <3>1 DEF OpenDeadIf, DeadLevel, Nests
    <3>2. CASE OpenIf(l)
      <4>1. ~skipping /\ l.op = "if"
            /\ cond' = Append(cond, LevelOf(Evaluate(l.test), Evaluate(l.test)))
        BY <3>2 DEF OpenIf
      <4>2. l.test.kind = "undefined" =>
              Evaluate(l.test) = (macros[l.test.name] = Undefined)
        BY DEF Evaluate, Malformed
      <4> QED
        BY <4>1, <4>2, EvaluateType DEF Nests
    <3>3. CASE Unmatched(l)
      BY <3>3 DEF Unmatched, Nests
    <3>4. CASE EndIf(l)
      BY <3>4 DEF EndIf, PopLevel, Nests
    <3>5. CASE AfterElse(l)
      BY <3>5 DEF AfterElse, Nests
    <3>6. CASE Else(l) \/ ElifTaken(l) \/ Elif(l)
      <4>1. l.op \in {"elif", "else"}
            /\ \E level : cond' = [cond EXCEPT ![Len(cond)] = level]
        BY <3>6 DEF Else, ElifTaken, Elif, SetTop
      <4>2. cond \in Seq(Level)
        BY DEF TypeOK
      <4>3. Len(cond') = Len(cond)
        BY <4>1, <4>2
      <4> QED
        BY <4>1, <4>3 DEF Nests
    <3> QED
      BY <1>5, <3>1, <3>2, <3>3, <3>4, <3>5, <3>6
  <2>6. Defines(l)
    BY <2>2, <2>3 DEF Defines
  <2> QED
    BY <2>1, <2>2, <2>3, <2>4, <2>5, <2>6 DEF Puts
<1>6. ASSUME NEW l \in Upcoming, DeadDirective(l) PROVE Fine(l) /\ Puts(l)
  <2>1. /\ Read(l) /\ ~collecting /\ Advance /\ Emit(TRUE, TRUE) /\ skipping
        /\ UNCHANGED <<call, cond, macros, included, once, diags, done>>
    BY <1>6 DEF DeadDirective
  <2>2. l.op \notin {"text", "comma", "call", "close", "eof"} \cup Branching
    BY <1>6 DEF DeadDirective, PlainDirectives, Branching
  <2>3. Nests(l) /\ Defines(l)
    BY <2>1, <2>2 DEF Nests, Defines
  <2> QED
    BY <2>1, <2>2, <2>3 DEF Puts
<1>7. ASSUME NEW l \in Upcoming,
             \/ Define(l) \/ Undef(l) \/ PragmaOnce(l) \/ SilentDirective(l)
             \/ Message(l) \/ BadInclude(l) \/ IncludeTooDeep(l)
             \/ IncludeNotFound(l) \/ IncludeOnceAgain(l)
      PROVE  Fine(l) /\ Puts(l)
  <2>1. /\ Read(l) /\ ~collecting /\ ~skipping /\ Emit(TRUE, FALSE)
        /\ l.op \in PlainDirectives
    BY <1>7 DEF Define, Undef, PragmaOnce, SilentDirective, Message,
       BadInclude, IncludeTooDeep, IncludeNotFound, IncludeOnceAgain,
       IncludeLine, LiveDirective, PlainDirectives
  <2>2. /\ Advance /\ UNCHANGED <<call, cond, included, done>>
        /\ once \subseteq once'
        /\ UNCHANGED diags \/ Reports
    BY <1>7 DEF Define, Undef, PragmaOnce, SilentDirective, Message,
       BadInclude, IncludeTooDeep, IncludeNotFound, IncludeOnceAgain,
       IncludeLine, FailInclude, Report, Reports
  <2>3. l.op = "once" => {File} \cap included \subseteq once'
    BY <1>7 DEF Define, Undef, PragmaOnce, SilentDirective, Message,
       BadInclude, IncludeTooDeep, IncludeNotFound, IncludeOnceAgain,
       IncludeLine, LiveDirective, OnceFile
  <2>4. l.op \notin {"text", "comma", "call", "close", "eof"} \cup Branching
    BY <2>1 DEF PlainDirectives, Branching
  <2>5. Defines(l)
    <3>1. CASE Define(l)
      <4>1. l \in LineType /\ l.op = "define"
        BY <3>1, UpcomingIsLine DEF Define, LiveDirective
      <4>2. l.name \in Names /\ l.def \in Definitions \cup {Malformed}
        BY <4>1 DEF LineType
      <4>3. CASE l.def = Malformed
        BY <3>1, <4>3 DEF Define, Defines
      <4>4. CASE l.def # Malformed
        <5>1. /\ macros' = [macros EXCEPT ![l.name] = l.def]
              /\ l.def # Undefined
          BY <3>1, <4>2, <4>4, ConstantsAssumption DEF Define
        <5> QED
          BY <4>2, <5>1 DEF Defines, TypeOK
      <4> QED
        BY <4>3, <4>4
    <3>2. CASE Undef(l)
      BY <3>2 DEF Undef, LiveDirective, Defines
    <3>3. CASE \/ PragmaOnce(l) \/ SilentDirective(l) \/ Message(l)
               \/ BadInclude(l) \/ IncludeTooDeep(l) \/ IncludeNotFound(l)
               \/ IncludeOnceAgain(l)
      BY <3>3 DEF PragmaOnce, SilentDirective, Message, BadInclude,
         IncludeTooDeep, IncludeNotFound, IncludeOnceAgain, IncludeLine,
         LiveDirective, Defines
    <3> QED
      BY <1>7, <3>1, <3>2, <3>3
  <2>6. Nests(l)
    BY <2>2, <2>4 DEF Nests
  <2> QED
    BY <2>1, <2>2, <2>3, <2>4, <2>5, <2>6 DEF Puts
<1>8. ASSUME NEW l \in Upcoming, EnterInclude(l) PROVE Fine(l) /\ Enters(l)
  <2>1. /\ Read(l) /\ ~collecting /\ ~skipping /\ Emit(TRUE, FALSE)
        /\ l.op = "include" /\ find_header(l) # NotFound
        /\ find_header(l) \notin once
        /\ UNCHANGED <<call, cond, macros, once, done, diags>>
        /\ included' = included \cup {find_header(l)}
        /\ frames' = Append([frames EXCEPT ![Top].pos = Pos + 1],
                            FrameOf(find_header(l)))
    BY <1>8 DEF EnterInclude, IncludeLine, LiveDirective, Pos
  <2>2. find_header(l) \in Disk \ once
    BY <2>1, HeaderIsOnDisk
  <2> QED
    BY <2>1, <2>2 DEF Enters
<1>9. ASSUME NEW l \in Upcoming, LeaveInclude(l) PROVE Fine(l) /\ Leaves(l)
  BY <1>9 DEF LeaveInclude, Leaves, ReportsOpenIf, Reports
<1>10. ASSUME NEW l \in Upcoming, Finish(l) PROVE Fine(l) /\ Leaves(l)
  BY <1>10 DEF Finish, Leaves, ReportsOpenIf, Reports
<1>11. CASE UNCHANGED vars
  BY <1>11
<1> QED
  BY <1>1, <1>2, <1>3, <1>4, <1>5, <1>6, <1>7, <1>8, <1>9, <1>10, <1>11,
     UpcomingIsLine DEF Next, Process, Returned
-----------------------------------------------------------------------------
(***************************************************************************)
(* Where the machine stands: a file is read line by line, so no position   *)
(* is more than one line past what has been read of the file; the line     *)
(* that began a call is behind it; and a run() that has read nothing yet   *)
(* is the one running, in live text.                                       *)
(***************************************************************************)
Placed ==
  /\ frames[1].file = MainPath
  /\ \A d \in 1 .. Top :
       /\ d > 1 => frames[d].file \in included
       /\ frames[d].pos <= Len(text[frames[d].file]) + 1
       /\ frames[d].pos = 1 => d = Top /\ ~skipping /\ ~collecting
  /\ collecting => /\ call.at \in 1 .. Pos - 1
                   /\ text[File][call.at].op = "call"
  /\ \A i \in DOMAIN out : /\ out[i].file \in Paths
                           /\ out[i].pos \in 1 .. Len(text[out[i].file])

LEMMA TextType ==
  ASSUME TypeOK, NEW f \in Paths
  PROVE  text[f] \in Seq(LineType) /\ Len(text[f]) \in Nat
BY DEF TypeOK

LEMMA ReadGrows ==
  ASSUME TypeOK, Placed, NEW l \in Upcoming, Read(l)
  PROVE  /\ \A f \in Paths :
              /\ Len(text'[f]) >= Len(text[f]) /\ Len(text'[f]) \in Nat
              /\ \A k \in 1 .. Len(text[f]) : text'[f][k] = text[f][k]
              /\ f # File => text'[f] = text[f]
         /\ Pos \in 1 .. Len(text'[File]) /\ text'[File][Pos] = l
         /\ text[File] = <<>> => text'[File] = << l >>
<1>1. /\ File \in Paths /\ Pos \in Nat \ {0} /\ l \in LineType /\ ~done
      /\ Top \in 1 .. Top
  BY UpcomingIsLine
<1>2. text[File] \in Seq(LineType) /\ Len(text[File]) \in Nat
  BY <1>1, TextType
<1>3. Pos <= Len(text[File]) + 1
  BY <1>1 DEF Placed, File, Pos
<1>4. CASE Pos <= Len(text[File])
  <2>1. text' = text /\ l = text[File][Pos] /\ text[File] # <<>>
    BY <1>1, <1>2, <1>4 DEF Read, Upcoming
  <2> QED
    BY <1>1, <1>2, <1>4, <2>1, TextType
<1>5. CASE ~(Pos <= Len(text[File]))
  <2>1. Pos = Len(text[File]) + 1
    BY <1>1, <1>2, <1>3, <1>5
  <2>2. text' = [text EXCEPT ![File] = Append(text[File], l)]
    BY <1>5 DEF Read
  <2>3. /\ \A f \in Paths \ {File} : text'[f] = text[f]
        /\ text'[File] = Append(text[File], l)
    BY <1>1, <2>2 DEF TypeOK
  <2>4. /\ Len(text'[File]) = Pos /\ text'[File][Pos] = l
        /\ \A k \in 1 .. Len(text[File]) : text'[File][k] = text[File][k]
    BY <1>1, <1>2, <2>1, <2>3, AppendProperties
  <2>5. text[File] = <<>> => text'[File] = << l >>
    BY <2>3
  <2> QED
    BY <1>1, <1>2, <2>1, <2>3, <2>4, <2>5, TextType
<1> QED
  BY <1>4, <1>5

LEMMA FramesShape ==
  ASSUME TypeOK
  PROVE  /\ Top \in Nat \ {0} /\ DOMAIN frames = 1 .. Top /\ Top \in 1 .. Top
         /\ \A d \in 1 .. Top : frames[d] \in Frame
         /\ File = frames[Top].file /\ Pos = frames[Top].pos
BY DEF TypeOK, Top, File, Pos

LEMMA Moved ==
  ASSUME TypeOK, NEW p \in Nat \ {0}
  PROVE  LET fs == [frames EXCEPT ![Top].pos = p]
         IN /\ fs \in Seq(Frame) /\ Len(fs) = Top
            /\ \A d \in 1 .. Top :
                 /\ fs[d].file = frames[d].file
                 /\ fs[d].depth = frames[d].depth
                 /\ fs[d].pos = IF d = Top THEN p ELSE frames[d].pos
<1>1. frames # <<>>
  BY FramesShape, EmptySeq DEF Top
<1>2. /\ [frames EXCEPT ![Top].pos = p] \in Seq(Frame)
      /\ Len([frames EXCEPT ![Top].pos = p]) = Top
  BY <1>1, MovedFrames DEF Top
<1>3. \A d \in 1 .. Top :
        [frames EXCEPT ![Top].pos = p][d] =
          IF d = Top THEN [frames[d] EXCEPT !.pos = p] ELSE frames[d]
  BY FramesShape
<1> QED
  BY <1>2, <1>3, FramesShape DEF Frame

LEMMA GoesTo ==
  ASSUME TypeOK, NEW p \in Nat \ {0}, GoTo(p)
  PROVE  /\ Top' = Top /\ File' = File /\ Pos' = p
         /\ \A d \in 1 .. Top :
              /\ frames'[d].file = frames[d].file
              /\ frames'[d].pos = IF d = Top THEN p ELSE frames[d].pos
<1>1. frames' = [frames EXCEPT ![Top].pos = p]
  BY DEF GoTo
<1>2. /\ Len(frames') = Top
      /\ \A d \in 1 .. Top :
           /\ frames'[d].file = frames[d].file
           /\ frames'[d].pos = IF d = Top THEN p ELSE frames[d].pos
  BY <1>1, Moved
<1> QED
  BY <1>2, FramesShape DEF Top, File, Pos

LEMMA Advances ==
  ASSUME TypeOK, Advance
  PROVE  /\ Top' = Top /\ File' = File /\ Pos' = Pos + 1 /\ Pos \in Nat \ {0}
         /\ \A d \in 1 .. Top :
              /\ frames'[d].file = frames[d].file
              /\ frames'[d].pos = IF d = Top THEN Pos + 1 ELSE frames[d].pos
<1>1. Pos \in Nat \ {0}
  BY FramesShape DEF Frame
<1>2. Pos + 1 \in Nat \ {0} /\ GoTo(Pos + 1)
  BY <1>1 DEF Advance
<1> QED
  BY <1>1, <1>2, GoesTo

LEMMA EntersFrames ==
  ASSUME TypeOK, NEW f \in Paths,
         frames' = Append([frames EXCEPT ![Top].pos = Pos + 1], FrameOf(f))
  PROVE  /\ Top' = Top + 1 /\ File' = f /\ Pos' = 1
         /\ \A d \in 1 .. Top :
              /\ frames'[d].file = frames[d].file
              /\ frames'[d].pos = IF d = Top THEN Pos + 1 ELSE frames[d].pos
         /\ frames'[Top + 1].file = f /\ frames'[Top + 1].pos = 1
<1> DEFINE fs == [frames EXCEPT ![Top].pos = Pos + 1]
<1>1. Top \in Nat \ {0} /\ Pos + 1 \in Nat \ {0}
  BY FramesShape DEF Frame
<1>2. /\ fs \in Seq(Frame) /\ Len(fs) = Top
      /\ \A d \in 1 .. Top :
           /\ fs[d].file = frames[d].file
           /\ fs[d].pos = IF d = Top THEN Pos + 1 ELSE frames[d].pos
  BY <1>1, Moved
<1>3. frames' = Append(fs, FrameOf(f))
  OBVIOUS
<1>4. FrameOf(f).file = f /\ FrameOf(f).pos = 1
  BY DEF FrameOf
<1> HIDE DEF fs
<1>5. /\ Len(frames') = Top + 1 /\ frames'[Top + 1] = FrameOf(f)
      /\ \A d \in 1 .. Top : frames'[d] = fs[d]
  BY <1>1, <1>2, <1>3, AppendProperties
<1> QED
  BY <1>2, <1>4, <1>5 DEF Top, File, Pos

LEMMA LeavesFrames ==
  ASSUME TypeOK, Top > 1, frames' = Front(frames)
  PROVE  /\ Top' = Top - 1 /\ Top' \in 1 .. Top
         /\ \A d \in 1 .. Top - 1 : frames'[d] = frames[d]
<1>1. Top \in Nat \ {0} /\ frames \in Seq(Frame)
  BY FramesShape DEF TypeOK
<1>2. frames' = SubSeq(frames, 1, Top - 1)
  BY DEF Front, Top
<1>3. /\ Len(frames') = Top - 1
      /\ \A d \in 1 .. Top - 1 : frames'[d] = frames[d]
  BY <1>1, <1>2 DEF Top
<1> QED
  BY <1>1, <1>3 DEF Top

LEMMA PutsOut ==
  ASSUME TypeOK, NEW p, NEW directive, NEW skipped,
         out' = Append(out, EntryAt(p, directive, skipped))
  PROVE  /\ DOMAIN out' = DOMAIN out \cup {Len(out) + 1}
         /\ DOMAIN out = 1 .. Len(out) /\ Len(out) \in Nat
         /\ \A i \in DOMAIN out : out'[i] = out[i]
         /\ out'[Len(out) + 1].file = File /\ out'[Len(out) + 1].pos = p
         /\ out'[Len(out) + 1].directive = directive
         /\ out'[Len(out) + 1].skipped = skipped
BY DEF TypeOK, EntryAt

LEMMA PlacedStep ==
  ASSUME TypeOK, Placed, [Next]_vars
  PROVE  Placed'
<1>1. CASE UNCHANGED vars
  BY <1>1 DEF vars, Placed, Top, File, Pos, collecting, skipping
<1>2. ASSUME NEW l \in Upcoming, l \in LineType, Read(l),
             \/ Puts(l) \/ Enters(l) \/ Begins(l) \/ Takes(l)
             \/ Ends(l) \/ Leaves(l)
      PROVE  Placed'
  <2> USE FramesShape
  <2>1. /\ \A f \in Paths :
             /\ Len(text'[f]) >= Len(text[f]) /\ Len(text'[f]) \in Nat
             /\ Len(text[f]) \in Nat
             /\ \A k \in 1 .. Len(text[f]) : text'[f][k] = text[f][k]
        /\ Pos \in 1 .. Len(text'[File]) /\ text'[File][Pos] = l
    BY <1>2, ReadGrows, TextType
  <2>2. \A d \in 1 .. Top : frames[d].file \in Paths /\ frames[d].pos \in Nat \ {0}
    BY DEF Frame
  <2>3. ASSUME NEW p \in 1 .. Len(text'[File]), NEW a, NEW b,
               out' = Append(out, EntryAt(p, a, b))
        PROVE  \A i \in DOMAIN out' : /\ out'[i].file \in Paths
                                      /\ out'[i].pos \in 1 .. Len(text'[out'[i].file])
    <3>1. ASSUME NEW i \in DOMAIN out
          PROVE  out'[i].file \in Paths /\ out'[i].pos \in 1 .. Len(text'[out'[i].file])
      BY <2>1, <2>3, PutsOut DEF Placed
    <3>2. /\ out'[Len(out) + 1].file \in Paths
          /\ out'[Len(out) + 1].pos \in 1 .. Len(text'[out'[Len(out) + 1].file])
      BY <2>2, <2>3, PutsOut
    <3> QED
      BY <2>3, <3>1, <3>2, PutsOut
  <2>4. ASSUME out' = out
        PROVE  \A i \in DOMAIN out' : /\ out'[i].file \in Paths
                                      /\ out'[i].pos \in 1 .. Len(text'[out'[i].file])
    BY <2>1, <2>4 DEF Placed
  <2>5. \A d \in 1 .. Top :
          /\ d > 1 => frames[d].file \in included
          /\ frames[d].pos <= Len(text'[frames[d].file]) + 1
          /\ frames[d].pos = 1 => d = Top /\ ~skipping /\ ~collecting
    BY <2>1, <2>2 DEF Placed
  <2>6. /\ frames[1].file = MainPath
        /\ collecting => /\ call.at \in 1 .. Pos - 1
                         /\ call.at \in 1 .. Len(text'[File])
                         /\ text'[File][call.at].op = "call"
    <3>1. Pos <= Len(text[File]) + 1
      BY DEF Placed
    <3> QED
      BY <2>1, <2>2, <3>1 DEF Placed
  <2>7. included \subseteq included'
    BY <1>2 DEF Puts, Enters, Begins, Takes, Ends, Leaves
  <2>8. ASSUME Advance \/ (GoTo(call.at + 1) /\ collecting),
               collecting' => /\ call'.at \in 1 .. Pos
                              /\ text'[File][call'.at].op = "call" /\ Advance
        PROVE  /\ frames'[1].file = MainPath
               /\ \A d \in 1 .. Top' :
                    /\ d > 1 => frames'[d].file \in included'
                    /\ frames'[d].pos <= Len(text'[frames'[d].file]) + 1
                    /\ frames'[d].pos # 1
               /\ Top' = Top
               /\ collecting' => /\ call'.at \in 1 .. Pos' - 1
                                 /\ text'[File'][call'.at].op = "call"
    <3>1. PICK p \in Nat \ {0} :
            /\ p # 1 /\ p <= Len(text'[File]) + 1 /\ (Advance => p = Pos + 1)
            /\ Top' = Top /\ File' = File /\ Pos' = p
            /\ \A d \in 1 .. Top :
                 /\ frames'[d].file = frames[d].file
                 /\ frames'[d].pos = IF d = Top THEN p ELSE frames[d].pos
      <4>1. CASE Advance
        BY <2>1, <2>2, <4>1, Advances
      <4>2. CASE GoTo(call.at + 1) /\ collecting /\ ~Advance
        <5>1. call.at + 1 \in Nat \ {0} /\ call.at + 1 # 1
          BY <2>2, <2>6, <4>2
        <5> QED
          BY <2>1, <2>2, <2>6, <4>2, <5>1, GoesTo
      <4> QED
        BY <2>8, <4>1, <4>2
    <3>2. ASSUME NEW d \in 1 .. Top'
          PROVE  /\ d > 1 => frames'[d].file \in included'
                 /\ frames'[d].pos <= Len(text'[frames'[d].file]) + 1
                 /\ frames'[d].pos # 1
      <4>1. CASE d = Top
        BY <2>5, <2>7, <3>1, <4>1
      <4>2. CASE d \in 1 .. Top /\ d # Top
        BY <2>5, <2>7, <3>1, <4>2
      <4> QED
        BY <3>1, <4>1, <4>2
    <3>3. frames'[1].file = MainPath
      BY <2>6, <3>1
    <3>4. collecting' => /\ call'.at \in 1 .. Pos' - 1
                         /\ text'[File'][call'.at].op = "call"
      BY <2>2, <2>8, <3>1
    <3> QED
      BY <3>1, <3>2, <3>3, <3>4
  <2>9. CASE Puts(l)
    <3>1. PICK a, b : out' = Append(out, EntryAt(Pos, a, b))
      BY <2>9 DEF Puts, Emit
    <3>2. ~collecting' /\ Advance
      BY <2>9 DEF Puts, collecting
    <3> QED
      BY <2>1, <2>3, <2>8, <3>1, <3>2 DEF Placed
  <2>10. CASE Enters(l)
    <3>1. out' = Append(out, EntryAt(Pos, TRUE, FALSE))
      BY <2>10 DEF Enters, Emit
    <3>2. PICK f \in Disk \ once :
            /\ included' = included \cup {f}
            /\ frames' = Append([frames EXCEPT ![Top].pos = Pos + 1], FrameOf(f))
      BY <2>10 DEF Enters
    <3>3. f \in Paths
      BY DEF Paths
    <3>4. ~collecting' /\ ~skipping'
      BY <2>10 DEF Enters, collecting, skipping
    <3>5. /\ Top' = Top + 1 /\ File' = f /\ Pos' = 1
          /\ \A d \in 1 .. Top :
               /\ frames'[d].file = frames[d].file
               /\ frames'[d].pos = IF d = Top THEN Pos + 1 ELSE frames[d].pos
          /\ frames'[Top + 1].file = f /\ frames'[Top + 1].pos = 1
      BY <3>2, <3>3, EntersFrames
    <3>6. ASSUME NEW d \in 1 .. Top'
          PROVE  /\ d > 1 => frames'[d].file \in included'
                 /\ frames'[d].pos <= Len(text'[frames'[d].file]) + 1
                 /\ frames'[d].pos = 1 => d = Top'
      <4>1. CASE d = Top + 1
        BY <2>1, <3>2, <3>3, <3>5, <4>1
      <4>2. CASE d = Top
        <5>1. frames'[d].file = File /\ frames'[d].pos = Pos + 1
          BY <3>5, <4>2
        <5> QED
          BY <2>1, <2>2, <2>5, <2>7, <4>2, <5>1
      <4>3. CASE d \in 1 .. Top /\ d # Top
        <5>1. frames'[d].file = frames[d].file /\ frames'[d].pos = frames[d].pos
          BY <3>5, <4>3
        <5> QED
          BY <2>5, <2>7, <4>3, <5>1
      <4> QED
        BY <3>5, <4>1, <4>2, <4>3
    <3>7. frames'[1].file = MainPath
      BY <2>6, <3>5
    <3> QED
      BY <2>1, <2>3, <3>1, <3>4, <3>6, <3>7 DEF Placed
  <2>11. CASE Begins(l)
    <3>1. call'.at = Pos /\ l.op = "call" /\ Advance /\ out' = out
      BY <2>11 DEF Begins
    <3> QED
      BY <2>1, <2>2, <2>4, <2>8, <3>1 DEF Placed
  <2>12. CASE Takes(l)
    <3>1. call'.at = call.at /\ collecting /\ Advance /\ out' = out
      BY <2>12 DEF Takes
    <3> QED
      BY <2>1, <2>2, <2>4, <2>6, <2>8, <3>1 DEF Placed
  <2>13. CASE Ends(l)
    <3>1. /\ collecting /\ out' = Append(out, EntryAt(call.at, FALSE, FALSE))
          /\ Advance \/ GoTo(call.at + 1)
          /\ ~collecting'
      BY <2>13 DEF Ends, collecting, NoCall
    <3> QED
      BY <2>3, <2>6, <2>8, <3>1 DEF Placed
  <2>14. CASE Leaves(l)
    <3>1. /\ ~collecting' /\ out' = out
      BY <2>14 DEF Leaves, collecting
    <3>2. CASE Top > 1 /\ frames' = Front(frames)
      <4>1. /\ Top' = Top - 1 /\ Top' \in 1 .. Top
            /\ \A d \in 1 .. Top - 1 : frames'[d] = frames[d]
        BY <3>2, LeavesFrames
      <4>2. \A d \in 1 .. Top' : /\ d > 1 => frames'[d].file \in included'
                                 /\ frames'[d].pos <= Len(text'[frames'[d].file]) + 1
                                 /\ frames'[d].pos # 1
        BY <2>5, <2>7, <3>2, <4>1
      <4> QED
        BY <2>4, <2>6, <3>1, <3>2, <4>1, <4>2 DEF Placed
    <3>3. CASE Top = 1 /\ UNCHANGED <<frames, cond>>
      <4>1. Top' = Top /\ skipping' = skipping /\ collecting' = collecting
        BY <2>14, <3>3 DEF Top, skipping, collecting, Leaves
      <4> QED
        BY <2>4, <2>5, <2>6, <2>7, <3>1, <3>3, <4>1 DEF Placed
    <3> QED
      BY <2>14, <3>2, <3>3 DEF Leaves
  <2> QED
    BY <1>2, <2>9, <2>10, <2>11, <2>12, <2>13, <2>14
<1> QED
  BY <1>1, <1>2, StepKind

LEMMA PlacedInit == Init => Placed
<1> SUFFICES ASSUME Init PROVE Placed
  OBVIOUS
<1>1. /\ frames = << [file |-> MainPath, pos |-> 1, depth |-> 0] >>
      /\ cond = <<>> /\ call = NoCall /\ out = <<>>
      /\ text = [f \in Paths |-> <<>>]
  BY DEF Init
<1>2. Top = 1 /\ ~skipping /\ ~collecting
  BY <1>1 DEF Top, skipping, collecting, NoCall
<1>3. frames[1].file = MainPath /\ frames[1].pos = 1 /\ MainPath \in Paths
  BY <1>1 DEF Paths
<1>4. Len(text[MainPath]) = 0
  BY <1>1, <1>3
<1>5. \A d \in 1 .. Top : d = 1
  BY <1>2
<1> QED
  BY <1>1, <1>2, <1>3, <1>4, <1>5 DEF Placed

LEMMA AlwaysPlaced == Spec => [](TypeOK /\ Placed)
<1>1. Init => TypeOK /\ Placed
  BY TypeInit, PlacedInit
<1>2. TypeOK /\ Placed /\ [Next]_vars => TypeOK' /\ Placed'
  BY TypeStep, PlacedStep
<1> QED
  BY <1>1, <1>2, PTL DEF Spec
-----------------------------------------------------------------------------
(***************************************************************************)
(* #pragma once.  The first line a header is entered for is read at once,  *)
(* in live text, so a header that begins with it is marked before anything *)
(* can include it again: it has one run(), and that run() puts out its     *)
(* lines from the top down.                                                *)
(***************************************************************************)
MarksItself(f) == text[f] # <<>> /\ text[f][1].op = "once"

OnceInv ==
  \A f \in Disk \ {MainPath} :
    /\ f \notin included => text[f] = <<>>
    /\ MarksItself(f) =>
         /\ f \in once
         /\ \A d, e \in 1 .. Top :
              frames[d].file = f /\ frames[e].file = f => d = e
         /\ \A d \in 1 .. Top : frames[d].file = f =>
              \A i \in Entries(f) : out[i].pos < Mark(d)
         /\ \A i, j \in Entries(f) : out[i].pos = out[j].pos => i = j

\* What a step does to the entries of file f.
LEMMA EntriesStep ==
  ASSUME TypeOK, NEW l, NEW f,
         \/ Puts(l) \/ Enters(l) \/ Begins(l) \/ Takes(l)
         \/ Ends(l) \/ Leaves(l)
  PROVE  \/ /\ Entries(f)' = Entries(f) /\ (f = File => out' = out)
            /\ \A i \in Entries(f) : out'[i] = out[i]
         \/ /\ f = File /\ Len(out) + 1 \notin Entries(f)
            /\ Entries(f)' = Entries(f) \cup {Len(out) + 1}
            /\ \A i \in Entries(f) : out'[i] = out[i]
            /\ out'[Len(out) + 1].pos = Mark(Top)
<1>1. CASE Begins(l) \/ Takes(l) \/ Leaves(l)
  BY <1>1 DEF Begins, Takes, Leaves, Entries
<1>2. CASE Puts(l) \/ Enters(l) \/ Ends(l)
  <2>1. PICK a, b : out' = Append(out, EntryAt(Mark(Top), a, b))
    BY <1>2, FramesShape DEF Puts, Enters, Ends, Emit, Mark
  <2>2. /\ DOMAIN out' = DOMAIN out \cup {Len(out) + 1}
        /\ DOMAIN out = 1 .. Len(out) /\ Len(out) \in Nat
        /\ \A i \in DOMAIN out : out'[i] = out[i]
        /\ out'[Len(out) + 1].file = File /\ out'[Len(out) + 1].pos = Mark(Top)
    BY <2>1, PutsOut
  <2>3. Len(out) + 1 \notin DOMAIN out
    BY <2>2
  <2>4. /\ \A i \in Entries(f) : i \in DOMAIN out /\ out[i].file = f
        /\ Entries(f)' = {i \in DOMAIN out' : out'[i].file = f}
    BY DEF Entries
  <2>5. CASE f = File
    <3>1. Entries(f)' = Entries(f) \cup {Len(out) + 1}
      BY <2>2, <2>4, <2>5 DEF Entries
    <3> QED
      BY <2>2, <2>3, <2>4, <2>5, <3>1
  <2>6. CASE f # File
    <3>1. Entries(f)' = Entries(f)
      BY <2>2, <2>4, <2>6 DEF Entries
    <3> QED
      BY <2>2, <2>4, <2>6, <3>1
  <2> QED
    BY <2>5, <2>6
<1> QED
  BY <1>1, <1>2

\* A run() only moves down its file, and past every line it puts out.
LEMMA MarkStep ==
  ASSUME TypeOK, Placed, NEW l,
         \/ Puts(l) \/ Enters(l) \/ Begins(l) \/ Takes(l)
         \/ Ends(l) \/ Leaves(l)
  PROVE  /\ Top' \in 0 .. Top \/ (Top' = Top + 1 /\ Enters(l))
         /\ \A d \in 1 .. Top :
              /\ Mark(d) \in Nat
              /\ d <= Top' =>
                   /\ frames'[d].file = frames[d].file
                   /\ Mark(d)' \in Nat /\ Mark(d)' >= Mark(d)
                   /\ d = Top /\ out' # out => Mark(d)' > Mark(d)
<1> USE FramesShape
<1>1. /\ \A d \in 1 .. Top : frames[d].pos \in Nat \ {0} /\ frames[d].file \in Paths
      /\ collecting => call.at \in 1 .. Pos - 1
  BY DEF Frame, Placed
<1>2. \A d \in 1 .. Top : Mark(d) \in Nat
  BY <1>1 DEF Mark
<1>3. CASE Puts(l) \/ Begins(l) \/ Takes(l) \/ (Ends(l) /\ Advance)
  <2>1. Advance
    BY <1>3 DEF Puts, Begins, Takes
  <2>2. /\ Top' = Top
        /\ \A d \in 1 .. Top :
             /\ frames'[d].file = frames[d].file
             /\ frames'[d].pos = IF d = Top THEN Pos + 1 ELSE frames[d].pos
    BY <2>1, Advances
  <2>3. \A d \in 1 .. Top : d # Top => Mark(d)' = Mark(d)
    BY <2>2 DEF Mark
  <2>4. /\ Mark(Top)' \in Nat /\ Mark(Top)' >= Mark(Top)
        /\ out' # out => Mark(Top)' > Mark(Top)
    <3>1. CASE Puts(l)
      BY <1>1, <2>2, <3>1 DEF Puts, Mark, collecting
    <3>2. CASE Begins(l) \/ Takes(l)
      BY <1>1, <2>2, <3>2 DEF Begins, Takes, Mark, collecting
    <3>3. CASE Ends(l)
      <4>1. collecting /\ ~collecting'
        BY <3>3 DEF Ends, collecting, NoCall
      <4>2. /\ Mark(Top) = call.at /\ Mark(Top)' = Pos + 1
            /\ call.at \in 1 .. Pos - 1 /\ Pos \in Nat
        BY <1>1, <2>2, <4>1 DEF Mark
      <4> HIDE DEF Mark
      <4> QED
        BY <4>2
    <3> QED
      BY <1>3, <3>1, <3>2, <3>3
  <2> QED
    BY <1>2, <2>2, <2>3, <2>4
<1>4. CASE Ends(l) /\ ~Advance
  <2>1. /\ collecting /\ ~collecting' /\ GoTo(call.at + 1)
        /\ call.at + 1 \in Nat \ {0}
    BY <1>1, <1>4 DEF Ends, collecting, NoCall
  <2>2. /\ Top' = Top
        /\ \A d \in 1 .. Top :
             /\ frames'[d].file = frames[d].file
             /\ frames'[d].pos = IF d = Top THEN call.at + 1 ELSE frames[d].pos
    BY <2>1, GoesTo
  <2>3. \A d \in 1 .. Top : d # Top => Mark(d)' = Mark(d)
    BY <2>2 DEF Mark
  <2>4. /\ Mark(Top) = call.at /\ Mark(Top)' = call.at + 1
        /\ call.at \in 1 .. Pos - 1 /\ Pos \in Nat
    BY <1>1, <2>1, <2>2 DEF Mark
  <2> QED
    BY <1>2, <2>2, <2>3, <2>4
<1>5. CASE Enters(l)
  <2>1. PICK f \in Disk \ once :
          frames' = Append([frames EXCEPT ![Top].pos = Pos + 1], FrameOf(f))
    BY <1>5 DEF Enters
  <2>2. /\ Top' = Top + 1
        /\ \A d \in 1 .. Top :
             /\ frames'[d].file = frames[d].file
             /\ frames'[d].pos = IF d = Top THEN Pos + 1 ELSE frames[d].pos
    BY <2>1, EntersFrames DEF Paths
  <2>3. ~collecting /\ ~collecting'
    BY <1>5 DEF Enters, collecting
  <2> QED
    BY <1>1, <1>2, <1>5, <2>2, <2>3 DEF Mark
<1>6. CASE Leaves(l)
  <2>1. ~collecting /\ ~collecting' /\ out' = out
    BY <1>6 DEF Leaves, collecting
  <2>2. CASE Top > 1 /\ frames' = Front(frames)
    <3>1. /\ Top' = Top - 1 /\ Top' \in 1 .. Top
          /\ \A d \in 1 .. Top - 1 : frames'[d] = frames[d]
      BY <2>2, LeavesFrames
    <3> QED
      BY <1>1, <1>2, <2>1, <3>1 DEF Mark
  <2>3. CASE UNCHANGED frames
    <3>1. Top' = Top
      BY <2>3 DEF Top
    <3> QED
      BY <1>1, <1>2, <2>1, <2>3, <3>1 DEF Mark
  <2> QED
    BY <1>6, <2>2, <2>3 DEF Leaves
<1> QED
  BY <1>3, <1>4, <1>5, <1>6

LEMMA OnceStep ==
  ASSUME TypeOK, Placed, OnceInv, [Next]_vars
  PROVE  OnceInv'
<1>1. CASE UNCHANGED vars
  BY <1>1 DEF vars, OnceInv, MarksItself, Entries, Mark, Top, collecting
<1>2. ASSUME NEW l \in Upcoming, l \in LineType, Read(l),
             \/ Puts(l) \/ Enters(l) \/ Begins(l) \/ Takes(l)
             \/ Ends(l) \/ Leaves(l),
             NEW f \in Disk \ {MainPath}
      PROVE  /\ f \notin included' => text'[f] = <<>>
             /\ MarksItself(f)' =>
                  /\ f \in once'
                  /\ \A d, e \in 1 .. Top' :
                       frames'[d].file = f /\ frames'[e].file = f => d = e
                  /\ \A d \in 1 .. Top' : frames'[d].file = f =>
                       \A i \in Entries(f)' : out'[i].pos < Mark(d)'
                  /\ \A i, j \in Entries(f)' : out'[i].pos = out'[j].pos => i = j
  <2> USE FramesShape
  <2>0. f \in Paths /\ File \in Paths
    BY UpcomingIsLine DEF Paths
  <2>1. /\ f # File => text'[f] = text[f]
        /\ Len(text[f]) \in Nat /\ Len(text'[f]) \in Nat
        /\ Len(text'[f]) >= Len(text[f])
        /\ text[f] # <<>> => text'[f] # <<>> /\ text'[f][1] = text[f][1]
        /\ text[f] = <<>> /\ f = File => text'[f] = << l >>
    <3>1. text[f] \in Seq(LineType) /\ (text[f] # <<>> => Len(text[f]) >= 1)
      BY <2>0, TextType
    <3>2. text'[f] = <<>> => Len(text'[f]) = 0
      OBVIOUS
    <3> QED
      BY <1>2, <2>0, <3>1, <3>2, ReadGrows, TextType
  <2>2. File \in included \cup {MainPath}
    <3>1. Top > 1 => File \in included
      BY DEF Placed
    <3>2. Top = 1 => File = MainPath
      BY DEF Placed
    <3> QED
      BY <3>1, <3>2
  <2>3. included \subseteq included' /\ once \subseteq once'
    BY <1>2 DEF Puts, Enters, Begins, Takes, Ends, Leaves
  <2>4. f \notin included' => text'[f] = <<>>
    BY <2>1, <2>2, <2>3 DEF OnceInv
  <2>5. ASSUME text[f] = <<>>, MarksItself(f)'
        PROVE  /\ f = File /\ f \in once'
               /\ \A d \in 1 .. Top : frames[d].file = f => d = Top
               /\ Entries(f) = {}
    <3>1. f = File /\ text'[f] = << l >> /\ l.op = "once"
      BY <2>1, <2>5 DEF MarksItself
    <3>2. \A d \in 1 .. Top : frames[d].file = f => frames[d].pos = 1
      <4>1. \A d \in 1 .. Top : frames[d].pos \in Nat \ {0}
        BY DEF Frame
      <4>2. Len(text[f]) = 0
        BY <2>5
      <4> QED
        BY <4>1, <4>2 DEF Placed
    <3>3. Pos = 1 /\ ~skipping /\ ~collecting
      BY <3>1, <3>2 DEF Placed
    <3>4. f \in once'
      BY <1>2, <2>2, <3>1, <3>3 DEF Puts, Enters, Begins, Takes, Ends, Leaves
    <3>5. Entries(f) = {}
      BY <2>5 DEF Entries, Placed
    <3> QED
      BY <3>1, <3>2, <3>4, <3>5 DEF Placed
  <2>6. ASSUME MarksItself(f)'
        PROVE  /\ f \in once'
               /\ text[f] # <<>> => f \in once
               /\ \A d, e \in 1 .. Top :
                    frames[d].file = f /\ frames[e].file = f => d = e
               /\ \A d \in 1 .. Top : frames[d].file = f =>
                    \A i \in Entries(f) : out[i].pos < Mark(d)
               /\ \A i, j \in Entries(f) : out[i].pos = out[j].pos => i = j
    <3>1. CASE text[f] = <<>>
      BY <2>5, <2>6, <3>1
    <3>2. CASE text[f] # <<>>
      <4>1. MarksItself(f)
        BY <2>1, <2>6, <3>2 DEF MarksItself
      <4> QED
        BY <2>3, <4>1 DEF OnceInv
    <3> QED
      BY <3>1, <3>2
  <2>7. ASSUME MarksItself(f)', NEW d \in 1 .. Top', frames'[d].file = f
        PROVE  d \in 1 .. Top /\ frames[d].file = f
    <3>1. CASE d \in 1 .. Top
      BY <1>2, <2>7, <3>1, MarkStep
    <3>2. CASE d \notin 1 .. Top
      <4>1. Enters(l) /\ Top' = Top + 1 /\ d = Top + 1
        BY <1>2, <2>7, <3>2, MarkStep
      <4>2. PICK g \in Disk \ once :
              frames' = Append([frames EXCEPT ![Top].pos = Pos + 1], FrameOf(g))
        BY <4>1 DEF Enters
      <4>3. g = f
        BY <2>7, <4>1, <4>2, EntersFrames DEF Paths
      <4>4. f \in once'
        BY <2>6, <2>7
      <4>5. UNCHANGED once
        BY <4>1 DEF Enters
      <4> QED
        BY <4>2, <4>3, <4>4, <4>5
    <3> QED
      BY <3>1, <3>2
  <2>8. ASSUME MarksItself(f)', NEW d \in 1 .. Top', frames'[d].file = f,
               NEW i \in Entries(f)'
        PROVE  out'[i].pos < Mark(d)'
    <3>1. d \in 1 .. Top /\ frames[d].file = f
      BY <2>7, <2>8
    <3>2. /\ Mark(d) \in Nat /\ Mark(d)' \in Nat /\ Mark(d)' >= Mark(d)
          /\ d = Top /\ out' # out => Mark(d)' > Mark(d)
      BY <1>2, <2>8, <3>1, MarkStep
    <3>3. CASE i \in Entries(f)
      <4>1. out[i].pos < Mark(d) /\ out'[i] = out[i]
        BY <1>2, <2>6, <2>8, <3>1, <3>3, EntriesStep
      <4>2. out[i].pos \in Nat
        BY <3>3 DEF Entries, Placed
      <4> QED
        BY <3>2, <4>1, <4>2
    <3>4. CASE i \notin Entries(f)
      <4>1. /\ f = File /\ i = Len(out) + 1 /\ out'[i].pos = Mark(Top)
        BY <1>2, <2>8, <3>4, EntriesStep
      <4>2. out' # out
        BY <2>8, <3>4 DEF Entries
      <4>3. d = Top
        BY <2>6, <2>8, <3>1, <4>1
      <4> QED
        BY <3>2, <4>1, <4>2, <4>3
    <3> QED
      BY <3>3, <3>4
  <2>9. ASSUME MarksItself(f)', NEW i \in Entries(f)', NEW j \in Entries(f)',
               out'[i].pos = out'[j].pos
        PROVE  i = j
    <3>1. \A k \in Entries(f) : /\ out'[k] = out[k] /\ out[k].pos \in Nat
                                /\ f = File => out[k].pos < Mark(Top)
      <4>1. \A k \in Entries(f) : out'[k] = out[k]
        BY <1>2, EntriesStep
      <4>2. \A k \in Entries(f) : out[k].pos \in Nat
        BY DEF Entries, Placed
      <4>3. f = File => \A k \in Entries(f) : out[k].pos < Mark(Top)
        BY <2>6, <2>9
      <4> QED
        BY <4>1, <4>2, <4>3
    <3>2. ASSUME NEW k \in Entries(f)', k \notin Entries(f)
          PROVE  f = File /\ k = Len(out) + 1 /\ out'[k].pos = Mark(Top)
      BY <1>2, <3>2, EntriesStep
    <3>3. Mark(Top) \in Nat
      BY <1>2, MarkStep
    <3>4. CASE i \in Entries(f) /\ j \in Entries(f)
      BY <2>6, <2>9, <3>1, <3>4
    <3>5. CASE i \notin Entries(f) \/ j \notin Entries(f)
      BY <2>9, <3>1, <3>2, <3>3, <3>5
    <3> QED
      BY <3>4, <3>5
  <2>10. ASSUME MarksItself(f)', NEW d \in 1 .. Top', NEW e \in 1 .. Top',
                frames'[d].file = f, frames'[e].file = f
         PROVE  d = e
    BY <2>6, <2>7, <2>10
  <2> QED
    BY <2>4, <2>6, <2>8, <2>9, <2>10
<1> QED
  BY <1>1, <1>2, StepKind DEF OnceInv

(***************************************************************************)
(* A header that starts with #pragma once puts out each of its lines at    *)
(* most once, whoever includes it, itself included.                        *)
(***************************************************************************)
THEOREM OnceMeansOnce == Spec => []OnceRunsOnce
<1>1. Init => OnceInv
  <2> SUFFICES ASSUME Init PROVE OnceInv
    OBVIOUS
  <2>1. \A f \in Paths : text[f] = <<>>
    BY DEF Init
  <2> QED
    BY <2>1 DEF OnceInv, MarksItself, Paths
<1>2. TypeOK /\ Placed /\ OnceInv /\ [Next]_vars => OnceInv'
  BY OnceStep
<1>3. TypeOK /\ OnceInv => OnceRunsOnce
  <2> SUFFICES ASSUME TypeOK, OnceInv, NEW f \in included \ {MainPath},
                      Len(text[f]) > 0, text[f][1].op = "once",
                      NEW i \in DOMAIN out, NEW j \in DOMAIN out,
                      out[i].file = f, out[j] = out[i]
               PROVE  i = j
    BY DEF OnceRunsOnce
  <2>1. f \in Disk \ {MainPath} /\ MarksItself(f)
    BY DEF TypeOK, MarksItself
  <2>2. i \in Entries(f) /\ j \in Entries(f)
    BY DEF Entries
  <2> QED
    BY <2>1, <2>2 DEF OnceInv
<1> QED
  BY <1>1, <1>2, <1>3, AlwaysPlaced, PTL DEF Spec
-----------------------------------------------------------------------------
(***************************************************************************)
(* Conditionals across files.  Each #if line put out has pushed a level    *)
(* and each #endif line put out has popped one, unless a report says so.   *)
(***************************************************************************)
\* The lines put out are not read again: what they say stays.
LEMMA EmittedStep ==
  ASSUME TypeOK, Placed, NEW l \in Upcoming, Read(l),
         \/ Puts(l) \/ Enters(l) \/ Begins(l) \/ Takes(l)
         \/ Ends(l) \/ Leaves(l),
         NEW op \in {"if", "endif"}
  PROVE  /\ Cardinality(Emitted(op)) \in Nat
         /\ Cardinality(Emitted(op)') =
              Cardinality(Emitted(op)) + IF Puts(l) /\ l.op = op THEN 1 ELSE 0
<1>1. IsFiniteSet(Emitted(op)) /\ Cardinality(Emitted(op)) \in Nat
  <2>1. IsFiniteSet(1 .. Len(out)) /\ DOMAIN out = 1 .. Len(out)
    BY FS_Interval DEF TypeOK
  <2>2. Emitted(op) \subseteq 1 .. Len(out)
    BY <2>1 DEF Emitted
  <2> QED
    BY <2>1, <2>2, FS_Subset, FS_CardinalityType
<1>2. \A i \in DOMAIN out :
        text'[out[i].file][out[i].pos] = text[out[i].file][out[i].pos]
  BY ReadGrows DEF Placed
<1>3. CASE out' = out
  <2>1. Emitted(op)' = Emitted(op)
    BY <1>2, <1>3 DEF Emitted
  <2>2. ~Puts(l)
    BY <1>3, PutsOut DEF Puts, Emit
  <2> QED
    BY <1>1, <2>1, <2>2
<1>4. ASSUME NEW p, NEW b, out' = Append(out, EntryAt(p, TRUE, b)),
             text'[File][p].op = op
      PROVE  Cardinality(Emitted(op)') = Cardinality(Emitted(op)) + 1
  <2>1. /\ DOMAIN out' = DOMAIN out \cup {Len(out) + 1}
        /\ DOMAIN out = 1 .. Len(out) /\ Len(out) \in Nat
        /\ \A i \in DOMAIN out : out'[i] = out[i]
        /\ out'[Len(out) + 1].file = File /\ out'[Len(out) + 1].pos = p
        /\ out'[Len(out) + 1].directive
    BY <1>4, PutsOut
  <2>2. Len(out) + 1 \notin DOMAIN out
    BY <2>1
  <2>3. Emitted(op)' = Emitted(op) \cup {Len(out) + 1}
    <3>1. Emitted(op)' \subseteq DOMAIN out' /\ Emitted(op) \subseteq DOMAIN out
      BY DEF Emitted
    <3>2. \A i \in DOMAIN out : i \in Emitted(op)' <=> i \in Emitted(op)
      BY <1>2, <2>1 DEF Emitted
    <3>3. Len(out) + 1 \in Emitted(op)'
      BY <1>4, <2>1 DEF Emitted
    <3> QED
      BY <2>1, <3>1, <3>2, <3>3
  <2>4. Len(out) + 1 \notin Emitted(op)
    BY <2>2 DEF Emitted
  <2> QED
    BY <1>1, <2>3, <2>4, FS_AddElement
<1>5. ASSUME NEW p, NEW a, NEW b, out' = Append(out, EntryAt(p, a, b)),
             ~a \/ text'[File][p].op # op
      PROVE  Cardinality(Emitted(op)') = Cardinality(Emitted(op))
  <2>1. /\ DOMAIN out' = DOMAIN out \cup {Len(out) + 1}
        /\ DOMAIN out = 1 .. Len(out) /\ Len(out) \in Nat
        /\ \A i \in DOMAIN out : out'[i] = out[i]
        /\ out'[Len(out) + 1].file = File /\ out'[Len(out) + 1].pos = p
        /\ out'[Len(out) + 1].directive = a
    BY <1>5, PutsOut
  <2>2. ~out'[Len(out) + 1].directive \/ text'[File][p].op # op
    BY <1>5, <2>1
  <2>3. Emitted(op)' = Emitted(op)
    BY <1>2, <2>1, <2>2 DEF Emitted
  <2> QED
    BY <2>3
<1>6. text'[File][Pos] = l
  BY ReadGrows
<1>7. CASE Puts(l)
  <2>1. PICK a \in BOOLEAN, b \in BOOLEAN :
          /\ out' = Append(out, EntryAt(Pos, a, b))
          /\ a <=> l.op \notin {"text", "comma", "call", "close"}
    BY <1>7 DEF Puts, Emit
  <2>2. CASE l.op = op
    <3>1. a = TRUE
      BY <2>1, <2>2
    <3>2. out' = Append(out, EntryAt(Pos, TRUE, b)) /\ text'[File][Pos].op = op
      BY <1>6, <2>1, <2>2, <3>1
    <3>3. Cardinality(Emitted(op)') = Cardinality(Emitted(op)) + 1
      BY <1>4, <3>2
    <3> QED
      BY <1>1, <1>7, <2>2, <3>3
  <2>3. CASE l.op # op
    <3>1. text'[File][Pos].op # op
      BY <1>6, <2>3
    <3>2. Cardinality(Emitted(op)') = Cardinality(Emitted(op))
      BY <1>5, <2>1, <3>1
    <3> QED
      BY <1>1, <2>3, <3>2
  <2> QED
    BY <1>1, <2>2, <2>3
<1>8. CASE Enters(l)
  <2>1. out' = Append(out, EntryAt(Pos, TRUE, FALSE)) /\ l.op = "include"
    BY <1>8 DEF Enters, Emit
  <2>2. ~(Puts(l) /\ l.op = op)
    BY <2>1
  <2>3. Cardinality(Emitted(op)') = Cardinality(Emitted(op))
    BY <1>5, <1>6, <2>1
  <2> QED
    BY <1>1, <2>2, <2>3
<1>9. CASE Ends(l)
  <2>1. out' = Append(out, EntryAt(call.at, FALSE, FALSE))
    BY <1>9 DEF Ends
  <2>2. ~Puts(l)
    BY <1>9 DEF Ends, Puts
  <2>3. Cardinality(Emitted(op)') = Cardinality(Emitted(op))
    BY <1>5, <2>1
  <2> QED
    BY <1>1, <2>2, <2>3
<1>10. CASE Begins(l) \/ Takes(l) \/ Leaves(l)
  BY <1>3, <1>10 DEF Begins, Takes, Leaves
<1> QED
  BY <1>7, <1>8, <1>9, <1>10

LEMMA FaultsStay ==
  ASSUME TypeOK, UNCHANGED diags \/ Reports, Faultless'
  PROVE  /\ Faultless /\ ~ReportsOpenIf
         /\ \A code \in StructuralCodes : ~Report(code)
<1>1. ASSUME NEW diag, diags' = Append(diags, diag)
      PROVE  Faultless /\ diag.code \notin StructuralCodes
  <2>1. diags \in Seq(Diagnostic)
    BY DEF TypeOK
  <2>2. /\ DOMAIN diags' = DOMAIN diags \cup {Len(diags) + 1}
        /\ \A i \in DOMAIN diags : diags'[i] = diags[i]
        /\ diags'[Len(diags) + 1] = diag
    BY <1>1, <2>1
  <2> QED
    BY <2>2 DEF Faultless
<1>2. CASE UNCHANGED diags
  <2>1. \A diag : diags # Append(diags, diag)
    BY DEF TypeOK
  <2> QED
    BY <1>2, <2>1 DEF Faultless, ReportsOpenIf, Report
<1>3. CASE Reports
  <2>1. Faultless
    BY <1>1, <1>3 DEF Reports
  <2>2. ~ReportsOpenIf
    <3> SUFFICES ASSUME NEW at,
                        diags' = Append(diags, [code |-> "UnterminatedIf", at |-> at])
                 PROVE  FALSE
      BY DEF ReportsOpenIf
    <3> DEFINE diag == [code |-> "UnterminatedIf", at |-> at]
    <3>1. diag.code \in StructuralCodes
      BY DEF StructuralCodes
    <3> HIDE DEF diag
    <3> QED
      BY <1>1, <3>1 DEF diag
  <2>3. \A code \in StructuralCodes : ~Report(code)
    BY <1>1 DEF Report, Diag
  <2> QED
    BY <2>1, <2>2, <2>3
<1> QED
  BY <1>2, <1>3

LEMMA StackStep ==
  ASSUME TypeOK, Placed, StackCountsOpenGroups, [Next]_vars
  PROVE  StackCountsOpenGroups'
<1>1. CASE UNCHANGED vars
  BY <1>1 DEF vars, StackCountsOpenGroups, Emitted, Faultless
<1>2. ASSUME NEW l \in Upcoming, l \in LineType, Read(l), ~done,
             UNCHANGED diags \/ Reports,
             \/ Puts(l) \/ Enters(l) \/ Begins(l) \/ Takes(l)
             \/ Ends(l) \/ Leaves(l),
             Faultless'
      PROVE  /\ Len(cond') = Cardinality(Emitted("if")') - Cardinality(Emitted("endif")')
             /\ done' => cond' = <<>>
  <2> DEFINE ifs == Cardinality(Emitted("if"))
             endifs == Cardinality(Emitted("endif"))
  <2>1. /\ ifs \in Nat
        /\ Cardinality(Emitted("if")') =
             ifs + IF Puts(l) /\ l.op = "if" THEN 1 ELSE 0
    BY <1>2, EmittedStep
  <2>2. /\ endifs \in Nat
        /\ Cardinality(Emitted("endif")') =
             endifs + IF Puts(l) /\ l.op = "endif" THEN 1 ELSE 0
    BY <1>2, EmittedStep
  <2>3. Len(cond) = ifs - endifs
    BY <1>2, FaultsStay DEF StackCountsOpenGroups
  <2>4. cond \in Seq(Level) /\ Len(cond) \in Nat
    BY DEF TypeOK
  <2> HIDE DEF ifs, endifs
  <2>5. CASE Puts(l)
    <3>1. ~done'
      BY <1>2, <2>5 DEF Puts
    <3>2. CASE l.op = "if"
      <4>1. PICK active \in BOOLEAN, taken \in BOOLEAN :
              cond' = Append(cond, LevelOf(active, taken))
        BY <2>5, <3>2 DEF Puts, Nests, Branching
      <4>2. Len(cond') = Len(cond) + 1
        BY <2>4, <4>1
      <4> QED
        BY <2>1, <2>2, <2>3, <2>4, <2>5, <3>1, <3>2, <4>2
    <3>3. CASE l.op = "endif"
      <4>1. ~Report("UnmatchedEndif")
        BY <1>2, FaultsStay DEF StructuralCodes
      <4>2. cond # <<>> /\ cond' = Front(cond)
        BY <2>5, <3>3, <4>1 DEF Puts, Nests, Branching
      <4>3. Len(cond') = Len(cond) - 1
        <5>1. Len(cond) - 1 \in Nat
          BY <2>4, <4>2
        <5>2. cond' = SubSeq(cond, 1, Len(cond) - 1)
          BY <4>2 DEF Front
        <5>3. ASSUME NEW n \in Nat, n <= Len(cond)
              PROVE  Len(SubSeq(cond, 1, n)) = n
          BY <2>4, <5>3
        <5> DEFINE n == Len(cond) - 1
        <5>4. n \in Nat /\ n <= Len(cond)
          BY <2>4, <5>1
        <5>5. Len(SubSeq(cond, 1, n)) = n
          BY <5>3, <5>4
        <5>6. Len(cond') = n
          BY <5>2, <5>5
        <5> QED
          BY <5>6
      <4> QED
        BY <2>1, <2>2, <2>3, <2>4, <2>5, <3>1, <3>3, <4>3
    <3>4. CASE l.op \notin {"if", "endif"}
      <4>1. Len(cond') = Len(cond)
        BY <2>5, <3>4 DEF Puts, Nests
      <4> QED
        BY <2>1, <2>2, <2>3, <2>4, <2>5, <3>1, <3>4, <4>1
    <3> QED
      BY <3>2, <3>3, <3>4
  <2>6. CASE ~Puts(l)
    <3>1. UNCHANGED cond /\ (done' => cond = <<>>)
      <4>1. ~ReportsOpenIf
        BY <1>2, FaultsStay
      <4>2. CASE Leaves(l)
        BY <1>2, <4>1, <4>2 DEF Leaves
      <4>3. CASE ~Leaves(l)
        <5>1. UNCHANGED <<cond, done>>
          BY <1>2, <2>6, <4>3 DEF Enters, Begins, Takes, Ends
        <5> QED
          BY <1>2, <5>1
      <4> QED
        BY <4>2, <4>3
    <3> QED
      BY <2>1, <2>2, <2>3, <2>4, <2>6, <3>1
  <2> QED
    BY <2>5, <2>6
<1> QED
  BY <1>1, <1>2, StepKind DEF StackCountsOpenGroups

(***************************************************************************)
(* As long as nothing structural is reported, there is one level on the    *)
(* stack per #if line put out that has no #endif line yet, whatever files  *)
(* the two are in; and process() returns with every group closed.          *)
(***************************************************************************)
THEOREM OpenGroupsAreCounted == Spec => []StackCountsOpenGroups
<1>1. Init => StackCountsOpenGroups
  <2> SUFFICES ASSUME Init PROVE StackCountsOpenGroups
    OBVIOUS
  <2>1. Emitted("if") = {} /\ Emitted("endif") = {}
    BY DEF Init, Emitted
  <2>2. Cardinality(Emitted("if")) = 0 /\ Cardinality(Emitted("endif")) = 0
    BY <2>1, FS_EmptySet
  <2>3. cond = <<>> /\ Len(cond) = 0
    BY DEF Init
  <2> QED
    BY <2>2, <2>3 DEF StackCountsOpenGroups
<1>2. TypeOK /\ Placed /\ StackCountsOpenGroups /\ [Next]_vars
        => StackCountsOpenGroups'
  BY StackStep
<1> QED
  BY <1>1, <1>2, AlwaysPlaced, PTL DEF Spec
-----------------------------------------------------------------------------
(***************************************************************************)
(* Argument lists.  The depth and the number of arguments the machine      *)
(* keeps while it collects are those of the lines it has collected.        *)
(***************************************************************************)
LEMMA OpenParensType ==
  ASSUME NEW lines, NEW from \in Nat, NEW k \in Int
  PROVE  OpenParens(lines, from, k) \in Int
<1> DEFINE W(op) == LinesWith(lines, op, from, k)
<1>1. \A op : W(op) \subseteq from .. k
  BY DEF LinesWith
<1>2. IsFiniteSet(from .. k)
  BY FS_Interval
<1>3. \A op : Cardinality(W(op)) \in Nat
  BY <1>1, <1>2, FS_Subset, FS_CardinalityType
<1> QED
  BY <1>3 DEF OpenParens

LEMMA OpenParensStep ==
  ASSUME NEW lines, NEW from \in Nat, NEW k \in Int, k >= from
  PROVE  OpenParens(lines, from, k)
           = OpenParens(lines, from, k - 1)
               + (CASE lines[k].op = "call" -> 1
                    [] lines[k].op = "close" -> 0 - 1
                    [] OTHER -> 0)
<1> DEFINE W(op, j) == LinesWith(lines, op, from, j)
           B(op) == IF lines[k].op = op THEN 1 ELSE 0
<1>1. ASSUME NEW op
      PROVE  /\ Cardinality(W(op, k)) = Cardinality(W(op, k - 1)) + B(op)
             /\ Cardinality(W(op, k - 1)) \in Nat
  <2>1. W(op, k - 1) \subseteq from .. k - 1
    BY DEF LinesWith
  <2>2. IsFiniteSet(W(op, k - 1)) /\ k \notin W(op, k - 1)
    <3>1. IsFiniteSet(from .. k - 1)
      BY FS_Interval
    <3> QED
      BY <2>1, <3>1, FS_Subset
  <2>3. CASE lines[k].op = op
    <3>1. W(op, k) = W(op, k - 1) \cup {k}
      BY <2>3 DEF LinesWith
    <3> QED
      BY <2>2, <2>3, <3>1, FS_AddElement, FS_CardinalityType
  <2>4. CASE lines[k].op # op
    <3>1. W(op, k) = W(op, k - 1)
      BY <2>4 DEF LinesWith
    <3> QED
      BY <2>2, <2>4, <3>1, FS_CardinalityType
  <2> QED
    BY <2>3, <2>4
<1>2. /\ Cardinality(W("call", k)) = Cardinality(W("call", k - 1)) + B("call")
      /\ Cardinality(W("close", k)) = Cardinality(W("close", k - 1)) + B("close")
      /\ Cardinality(W("call", k - 1)) \in Nat
      /\ Cardinality(W("close", k - 1)) \in Nat
  BY <1>1
<1> QED
  BY <1>2 DEF OpenParens

\* A list of one line is one open parenthesis.
LEMMA OpenParensFirst ==
  ASSUME NEW lines, NEW k \in Nat, lines[k].op = "call"
  PROVE  OpenParens(lines, k, k) = 1
<1>1. \A op : LinesWith(lines, op, k, k - 1) = {}
  BY DEF LinesWith
<1>2. OpenParens(lines, k, k - 1) = 0
  BY <1>1, FS_EmptySet DEF OpenParens
<1> QED
  BY <1>2, OpenParensStep

LEMMA OpenParensSame ==
  ASSUME NEW s, NEW t, NEW from \in Nat, NEW k \in Int,
         \A j \in from .. k : t[j] = s[j]
  PROVE  OpenParens(t, from, k) = OpenParens(s, from, k)
<1>1. \A op : LinesWith(t, op, from, k) = LinesWith(s, op, from, k)
  BY DEF LinesWith
<1> QED
  BY <1>1 DEF OpenParens

LEMMA InvocationSame ==
  ASSUME NEW s, NEW t, NEW n \in Nat, NEW from \in 1 .. n, NEW to \in Int,
         to <= n + 1, \A j \in 1 .. n : t[j] = s[j],
         Invocation(s, from, to)
  PROVE  Invocation(t, from, to)
<1>1. /\ to > from + 1 /\ s[from].op = "call"
      /\ \A k \in from .. to - 2 : WithinArgument(s, from, k)
      /\ OpenParens(s, from, to - 1) = 0
  BY DEF Invocation
<1>2. \A k \in from .. to - 1 :
        OpenParens(t, from, k) = OpenParens(s, from, k) /\ t[k] = s[k]
  <2> SUFFICES ASSUME NEW k \in from .. to - 1
               PROVE  OpenParens(t, from, k) = OpenParens(s, from, k) /\ t[k] = s[k]
    OBVIOUS
  <2>1. \A j \in from .. k : t[j] = s[j]
    OBVIOUS
  <2> QED
    BY <2>1, OpenParensSame
<1>3. \A k \in from .. to - 2 : WithinArgument(t, from, k)
  BY <1>1, <1>2 DEF WithinArgument
<1> QED
  BY <1>1, <1>2, <1>3 DEF Invocation

Collected ==
  collecting =>
    /\ \A k \in call.at .. Pos - 1 :
         /\ OpenParens(text[File], call.at, k) > 0
         /\ call.args = 1 => WithinArgument(text[File], call.at, k)
    /\ OpenParens(text[File], call.at, Pos - 1) = call.depth

CallType == [at : Nat \ {0}, depth : Nat \ {0}, args : Nat \ {0}]

LEMMA CollectedStep ==
  ASSUME TypeOK, Placed, Collected, NEW l \in Upcoming, Read(l),
         \/ Puts(l) \/ Enters(l) \/ Begins(l) \/ Takes(l)
         \/ Ends(l) \/ Leaves(l)
  PROVE  Collected'
<1>1. CASE Puts(l) \/ Enters(l) \/ Leaves(l) \/ Ends(l)
  <2>1. CASE Ends(l)
    BY <2>1 DEF Ends, Collected, collecting, NoCall
  <2>2. CASE Puts(l) \/ Enters(l) \/ Leaves(l)
    <3>1. ~collecting /\ UNCHANGED call
      BY <2>2 DEF Puts, Enters, Leaves
    <3> QED
      BY <3>1 DEF Collected, collecting
  <2> QED
    BY <1>1, <2>1, <2>2
<1>2. CASE Begins(l) \/ Takes(l)
  <2>1. /\ File' = File /\ Pos' = Pos + 1 /\ Pos \in Nat \ {0} /\ File \in Paths
        /\ text'[File][Pos] = l
        /\ \A k \in 1 .. Len(text[File]) : text'[File][k] = text[File][k]
        /\ Pos - 1 <= Len(text[File]) /\ Len(text[File]) \in Nat
    <3>1. Advance
      BY <1>2 DEF Begins, Takes
    <3>2. /\ Top' = Top /\ File' = File /\ Pos' = Pos + 1
          /\ Pos \in Nat \ {0} /\ File \in Paths
      BY <3>1, FramesShape, Advances DEF File, Pos, Frame
    <3> QED
      BY <3>2, ReadGrows, TextType, FramesShape DEF Placed
  <2>2. CASE Begins(l)
    <3>1. call' = [at |-> Pos, depth |-> 1, args |-> 1] /\ l.op = "call"
      BY <2>2 DEF Begins
    <3>2. OpenParens(text'[File], Pos, Pos) = 1
      BY <2>1, <3>1, OpenParensFirst
    <3>3. Pos .. Pos' - 1 = {Pos} /\ Pos' - 1 = Pos
      BY <2>1
    <3> QED
      BY <2>1, <3>1, <3>2, <3>3 DEF Collected, WithinArgument
  <2>3. CASE Takes(l)
    <3>1. /\ collecting /\ call \in CallType /\ call'.at = call.at
          /\ call'.depth = CASE l.op = "call" -> call.depth + 1
                             [] l.op = "close" -> call.depth - 1
                             [] OTHER -> call.depth
          /\ call'.args = IF l.op = "comma" /\ call.depth = 1
                          THEN call.args + 1 ELSE call.args
          /\ ~(l.op = "close" /\ call.depth = 1)
      BY <2>3 DEF Takes, Closes, TypeOK, collecting, NoCall, CallType
    <3> DEFINE a == call.at
    <3>2. a \in Nat \ {0} /\ a <= Pos - 1 /\ call.depth \in Nat \ {0}
          /\ call.args \in Nat \ {0}
      BY <3>1 DEF Placed, CallType
    <3>3. \A k \in a .. Pos - 1 :
            /\ OpenParens(text'[File], a, k) = OpenParens(text[File], a, k)
            /\ text'[File][k] = text[File][k]
      <4> SUFFICES ASSUME NEW k \in a .. Pos - 1
                   PROVE  /\ OpenParens(text'[File], a, k) = OpenParens(text[File], a, k)
                          /\ text'[File][k] = text[File][k]
        OBVIOUS
      <4>1. \A j \in a .. k : text'[File][j] = text[File][j]
        BY <2>1, <3>2
      <4>2. a \in Nat /\ k \in Int /\ k \in a .. k
        BY <2>1, <3>2
      <4>3. OpenParens(text'[File], a, k) = OpenParens(text[File], a, k)
        BY <4>1, <4>2, OpenParensSame
      <4> QED
        BY <4>1, <4>2, <4>3
    <3>4. /\ \A k \in a .. Pos - 1 :
               /\ OpenParens(text[File], a, k) > 0
               /\ call.args = 1 => WithinArgument(text[File], a, k)
          /\ OpenParens(text[File], a, Pos - 1) = call.depth
      BY <3>1 DEF Collected
    <3>5. OpenParens(text'[File], a, Pos) = call'.depth
      <4>1. OpenParens(text'[File], a, Pos - 1) = call.depth
        BY <2>1, <3>2, <3>3, <3>4
      <4>2. OpenParens(text'[File], a, Pos)
              = call.depth + (CASE l.op = "call" -> 1
                                [] l.op = "close" -> 0 - 1
                                [] OTHER -> 0)
        BY <2>1, <3>2, <4>1, OpenParensStep
      <4> QED
        BY <3>1, <3>2, <4>2
    <3>6. call'.depth > 0
      BY <3>1, <3>2
    <3>7. call'.args = 1 => call.args = 1 /\ (l.op = "comma" => call'.depth > 1)
      BY <3>1, <3>2
    <3>8. \A k \in a .. Pos :
            /\ OpenParens(text'[File], a, k) > 0
            /\ call'.args = 1 => WithinArgument(text'[File], a, k)
      <4>1. ASSUME NEW k \in a .. Pos - 1
            PROVE  /\ OpenParens(text'[File], a, k) > 0
                   /\ call'.args = 1 => WithinArgument(text'[File], a, k)
        BY <3>3, <3>4, <3>7 DEF WithinArgument
      <4>2. /\ OpenParens(text'[File], a, Pos) > 0
            /\ call'.args = 1 => WithinArgument(text'[File], a, Pos)
        BY <2>1, <3>5, <3>6, <3>7 DEF WithinArgument
      <4>3. \A k \in a .. Pos : k \in a .. Pos - 1 \/ k = Pos
        BY <2>1, <3>2
      <4> QED
        BY <4>1, <4>2, <4>3
    <3>9. Pos' - 1 = Pos
      BY <2>1
    <3> QED
      BY <2>1, <3>1, <3>5, <3>8, <3>9 DEF Collected
  <2> QED
    BY <1>2, <2>2, <2>3
<1> QED
  BY <1>1, <1>2

LEMMA AlwaysCollected == Spec => []Collected
<1>1. Init => Collected
  BY DEF Init, Collected, collecting, NoCall
<1>2. TypeOK /\ Placed /\ Collected /\ [Next]_vars => Collected'
  <2> SUFFICES ASSUME TypeOK, Placed, Collected, [Next]_vars PROVE Collected'
    OBVIOUS
  <2>1. CASE UNCHANGED vars
    BY <2>1 DEF vars, Collected, collecting, Pos, File, Top
  <2> QED
    BY <2>1, StepKind, CollectedStep
<1> QED
  BY <1>1, <1>2, AlwaysPlaced, PTL DEF Spec

\* The parenthesis that closes a list with one argument makes an invocation.
LEMMA ListCloses ==
  ASSUME TypeOK, Placed, Collected, NEW l \in Upcoming, Read(l),
         collecting, Closes(l), ArgumentsFit
  PROVE  Invocation(text'[File], call.at, Pos + 1)
<1>1. /\ Pos \in Nat \ {0} /\ text'[File][Pos] = l
      /\ \A k \in 1 .. Len(text[File]) : text'[File][k] = text[File][k]
      /\ Pos - 1 <= Len(text[File]) /\ Len(text[File]) \in Nat
      /\ call.at \in 1 .. Pos - 1 /\ text[File][call.at].op = "call"
  BY ReadGrows, TextType, FramesShape DEF Placed, Frame
<1>2. l.op = "close" /\ call.depth = 1 /\ call.args = 1
  BY DEF Closes, ArgumentsFit
<1>3. /\ \A k \in call.at .. Pos - 1 : WithinArgument(text[File], call.at, k)
      /\ OpenParens(text[File], call.at, Pos - 1) = 1
  BY <1>2 DEF Collected
<1>4. \A k \in call.at .. Pos - 1 :
        /\ OpenParens(text'[File], call.at, k) = OpenParens(text[File], call.at, k)
        /\ text'[File][k] = text[File][k]
  <2> SUFFICES ASSUME NEW k \in call.at .. Pos - 1
               PROVE  /\ OpenParens(text'[File], call.at, k)
                           = OpenParens(text[File], call.at, k)
                      /\ text'[File][k] = text[File][k]
    OBVIOUS
  <2>1. \A j \in call.at .. k : text'[File][j] = text[File][j]
    BY <1>1
  <2>2. call.at \in Nat /\ k \in Int /\ k \in call.at .. k
    BY <1>1
  <2>3. OpenParens(text'[File], call.at, k) = OpenParens(text[File], call.at, k)
    BY <2>1, <2>2, OpenParensSame
  <2> QED
    BY <2>1, <2>2, <2>3
<1>5. \A k \in call.at .. Pos - 1 : WithinArgument(text'[File], call.at, k)
  BY <1>3, <1>4 DEF WithinArgument
<1>6. OpenParens(text'[File], call.at, Pos) = 0
  <2>1. OpenParens(text'[File], call.at, Pos - 1) = 1
    BY <1>1, <1>3, <1>4
  <2> QED
    BY <1>1, <1>2, <2>1, OpenParensStep
<1>7. text'[File][call.at].op = "call" /\ Pos + 1 > call.at + 1
  BY <1>1, <1>4
<1> QED
  BY <1>1, <1>5, <1>6, <1>7 DEF Invocation

(***************************************************************************)
(* The main file comes out in order.  Mark(1) is the line due: a step puts *)
(* out that line and moves the mark behind it, or does neither.            *)
(***************************************************************************)
LEMMA MainFrame ==
  ASSUME TypeOK, Placed, MainPath \notin included
  PROVE  /\ File = MainPath <=> Top = 1
         /\ MainPath \in Paths /\ frames[1] \in Frame
         /\ Mark(1) \in 1 .. Len(text[MainPath]) + 1
<1>1. /\ frames[1].file = MainPath /\ frames[1] \in Frame
      /\ frames[1].pos <= Len(text[MainPath]) + 1 /\ frames[1].pos \in Nat \ {0}
  <2>1. 1 \in 1 .. Top
    BY FramesShape
  <2> QED
    BY <2>1, FramesShape DEF Placed, Frame
<1>2. Top > 1 => File \in included
  BY FramesShape DEF Placed
<1>3. MainPath \in Paths /\ Len(text[MainPath]) \in Nat
  BY TextType DEF Paths
<1>4. collecting /\ Top = 1 => call.at \in 1 .. frames[1].pos - 1
  BY FramesShape DEF Placed
<1> QED
  BY <1>1, <1>2, <1>3, <1>4, FramesShape DEF Mark

LEMMA MainStep ==
  ASSUME TypeOK, Placed, Collected, NEW l \in Upcoming, Read(l),
         \/ Puts(l) \/ Enters(l) \/ Begins(l) \/ Takes(l)
         \/ Ends(l) \/ Leaves(l),
         MainPath \notin included
  PROVE  \/ Entries(MainPath)' = Entries(MainPath) /\ Mark(1)' = Mark(1)
         \/ /\ Entries(MainPath)' = Entries(MainPath) \cup {Len(out) + 1}
            /\ Len(out') = Len(out) + 1 /\ out'[Len(out) + 1].pos = Mark(1)
            /\ \/ Mark(1)' = Mark(1) + 1
               \/ Invocation(text'[MainPath], Mark(1), Mark(1)')
<1> USE FramesShape
<1>1. /\ File = MainPath <=> Top = 1
      /\ MainPath \in Paths /\ frames[1] \in Frame /\ frames[1].pos \in Nat \ {0}
  BY MainFrame DEF Frame
<1>2. CASE Top # 1
  <2>1. Entries(MainPath)' = Entries(MainPath)
    BY <1>1, <1>2, EntriesStep
  <2>2. frames'[1].pos = frames[1].pos
    <3>1. CASE Puts(l) \/ Begins(l) \/ Takes(l) \/ (Ends(l) /\ Advance)
      <4>1. Advance
        BY <3>1 DEF Puts, Begins, Takes
      <4> QED
        BY <1>2, <4>1, Advances
    <3>2. CASE Ends(l) /\ ~Advance
      <4>1. GoTo(call.at + 1) /\ call.at + 1 \in Nat \ {0}
        BY <3>2 DEF Ends, Placed, Frame
      <4> QED
        BY <1>2, <4>1, GoesTo
    <3>3. CASE Enters(l)
      <4>1. PICK f \in Disk \ once :
              frames' = Append([frames EXCEPT ![Top].pos = Pos + 1], FrameOf(f))
        BY <3>3 DEF Enters
      <4> QED
        BY <1>2, <4>1, EntersFrames DEF Paths
    <3>4. CASE Leaves(l)
      BY <1>2, <3>4, LeavesFrames DEF Leaves
    <3> QED
      BY <3>1, <3>2, <3>3, <3>4
  <2>3. collecting' => Top' # 1
    <3>0. CASE Ends(l)
      BY <3>0 DEF Ends, collecting, NoCall
    <3>1. CASE Puts(l) \/ Enters(l) \/ Leaves(l)
      <4>1. ~collecting /\ UNCHANGED call
        BY <3>1 DEF Puts, Enters, Leaves
      <4> QED
        BY <4>1 DEF collecting
    <3>2. CASE Begins(l) \/ Takes(l)
      <4>1. Advance
        BY <3>2 DEF Begins, Takes
      <4> QED
        BY <1>2, <4>1, Advances
    <3> QED
      BY <3>0, <3>1, <3>2
  <2> QED
    BY <1>2, <2>1, <2>2, <2>3 DEF Mark
<1>3. CASE Top = 1 /\ (Puts(l) \/ Enters(l) \/ Ends(l))
  <2>1. PICK a, b : out' = Append(out, EntryAt(Mark(1), a, b))
    BY <1>3 DEF Puts, Enters, Ends, Emit, Mark
  <2>2. /\ Entries(MainPath)' = Entries(MainPath) \cup {Len(out) + 1}
        /\ out'[Len(out) + 1].pos = Mark(1)
    <3>1. Len(out) + 1 \in DOMAIN out' /\ out'[Len(out) + 1].file = MainPath
      BY <1>1, <1>3, <2>1, PutsOut
    <3>2. Len(out) + 1 \in Entries(MainPath)'
      BY <3>1 DEF Entries
    <3>3. Len(out) + 1 \notin Entries(MainPath)
      BY <2>1, PutsOut DEF Entries
    <3>4. Puts(l) \/ Enters(l) \/ Ends(l)
      BY <1>3
    <3>5. /\ Entries(MainPath)' = Entries(MainPath) \cup {Len(out) + 1}
          /\ out'[Len(out) + 1].pos = Mark(Top)
      BY <3>2, <3>3, <3>4, EntriesStep
    <3> QED
      BY <1>3, <3>5
  <2>3. Len(out') = Len(out) + 1
    <3>1. out \in Seq(Entry)
      BY DEF TypeOK
    <3>2. \A e : Len(Append(out, e)) = Len(out) + 1
      BY <3>1
    <3> QED
      BY <2>1, <3>2
  <2>4. Pos = frames[1].pos /\ File = MainPath
    BY <1>1, <1>3
  <2>5. CASE Puts(l)
    <3>1. Advance /\ ~collecting /\ ~collecting'
      BY <2>5 DEF Puts, collecting
    <3>2. Mark(1) = Pos /\ Mark(1)' = Pos + 1
      BY <1>3, <2>4, <3>1, Advances DEF Mark
    <3> QED
      BY <2>2, <2>3, <3>2
  <2>6. CASE Enters(l)
    <3>1. PICK f \in Disk \ once :
            frames' = Append([frames EXCEPT ![Top].pos = Pos + 1], FrameOf(f))
      BY <2>6 DEF Enters
    <3>2. ~collecting /\ ~collecting'
      BY <2>6 DEF Enters, collecting
    <3>3. frames'[1].pos = Pos + 1
      BY <1>3, <3>1, EntersFrames DEF Paths
    <3>4. Mark(1) = Pos /\ Mark(1)' = Pos + 1
      BY <2>4, <3>2, <3>3 DEF Mark
    <3> QED
      BY <2>2, <2>3, <3>4
  <2>7. CASE Ends(l)
    <3>1. /\ collecting /\ ~collecting' /\ call.at \in 1 .. Pos - 1
          /\ Mark(1) = call.at /\ Pos \in Nat
      BY <1>1, <1>3, <2>4, <2>7 DEF Ends, Placed, Mark, collecting, NoCall
    <3>3. CASE Closes(l) /\ ArgumentsFit /\ Advance
      <4>1. Mark(1)' = Pos + 1
        BY <1>3, <3>1, <3>3, Advances DEF Mark
      <4>2. Invocation(text'[MainPath], call.at, Pos + 1)
        BY <2>4, <3>1, <3>3, ListCloses
      <4> QED
        BY <2>2, <2>3, <3>1, <4>1, <4>2
    <3>4. CASE GoTo(call.at + 1)
      <4>1. call.at + 1 \in Nat \ {0}
        BY <1>1, <2>4, <3>1
      <4>2. Mark(1)' = call.at + 1
        BY <1>3, <3>1, <3>4, <4>1, GoesTo DEF Mark
      <4> QED
        BY <2>2, <2>3, <3>1, <4>2
    <3> QED
      BY <2>7, <3>3, <3>4 DEF Ends
  <2> QED
    BY <1>3, <2>5, <2>6, <2>7
<1>4. CASE Top = 1 /\ (Begins(l) \/ Takes(l) \/ Leaves(l))
  <2>1. Entries(MainPath)' = Entries(MainPath)
    BY <1>4 DEF Begins, Takes, Leaves, Entries
  <2>2. CASE Begins(l)
    <3>1. /\ Advance /\ ~collecting /\ call'.at = Pos /\ Pos \in Nat \ {0}
      BY <1>1, <1>4, <2>2 DEF Begins
    <3>2. Top' = 1 /\ collecting'
      BY <1>4, <3>1, Advances DEF collecting
    <3> QED
      BY <1>4, <2>1, <3>1, <3>2 DEF Mark
  <2>3. CASE Takes(l)
    <3>1. Advance /\ collecting /\ call'.at = call.at
      BY <2>3 DEF Takes
    <3>2. Top' = 1 /\ collecting'
      BY <1>4, <3>1, Advances DEF collecting
    <3> QED
      BY <1>4, <2>1, <3>1, <3>2 DEF Mark
  <2>4. CASE Leaves(l)
    <3>1. frames' = frames /\ ~collecting /\ ~collecting'
      BY <1>4, <2>4 DEF Leaves, collecting
    <3> QED
      BY <2>1, <3>1 DEF Mark
  <2> QED
    BY <1>4, <2>2, <2>3, <2>4
<1> QED
  BY <1>2, <1>3, <1>4

\* A line that is due stays due, whatever else has come out by then.
LEMMA DueStays ==
  ASSUME TypeOK, Placed, NEW l \in Upcoming, Read(l),
         NEW i \in Int, NEW j \in Int, NEW p \in Int,
         p <= Len(text[MainPath]) + 1, Due(p, i),
         {k \in Entries(MainPath)' : k <= j} = {k \in Entries(MainPath) : k <= i},
         \A k \in Entries(MainPath) : out'[k] = out[k]
  PROVE  Due(p, j)'
<1> DEFINE before == {k \in Entries(MainPath) : k <= i}
<1>1. CASE before = {} /\ p = 1
  BY <1>1 DEF Due
<1>2. ASSUME NEW last \in before, \A k \in before : k <= last,
             Follows(out[last].pos, p)
      PROVE  Due(p, j)'
  <2>1. /\ out'[last].pos = out[last].pos
        /\ out[last].pos \in 1 .. Len(text[MainPath])
    BY DEF Entries, Placed
  <2>2. MainPath \in Paths /\ Len(text[MainPath]) \in Nat
    BY TextType DEF Paths
  <2>3. \A k \in 1 .. Len(text[MainPath]) :
          text'[MainPath][k] = text[MainPath][k]
    BY <2>2, ReadGrows
  <2>4. \/ p = out[last].pos + 1
        \/ Invocation(text'[MainPath], out[last].pos, p)
    BY <1>2, <2>1, <2>2, <2>3, InvocationSame DEF Follows
  <2> QED
    BY <1>2, <2>1, <2>4 DEF Due, Follows
<1> QED
  BY <1>1, <1>2 DEF Due

LEMMA MainFileStep ==
  ASSUME TypeOK, Placed, Collected, MainFileComesOutInOrder, [Next]_vars
  PROVE  MainFileComesOutInOrder'
<1>1. CASE UNCHANGED vars
  BY <1>1 DEF vars, MainFileComesOutInOrder, Due, Entries, Mark, Top,
     collecting, Follows
<1>2. ASSUME NEW l \in Upcoming, l \in LineType, Read(l),
             \/ Puts(l) \/ Enters(l) \/ Begins(l) \/ Takes(l)
             \/ Ends(l) \/ Leaves(l),
             MainPath \notin included'
      PROVE  /\ \A i \in Entries(MainPath)' : Due(out[i].pos, i - 1)'
             /\ Due(Mark(1), Len(out))'
  <2>1. MainPath \notin included
    BY <1>2 DEF Puts, Enters, Begins, Takes, Ends, Leaves
  <2>2. /\ \A i \in Entries(MainPath) : Due(out[i].pos, i - 1)
        /\ Due(Mark(1), Len(out))
    BY <2>1 DEF MainFileComesOutInOrder
  <2>3. /\ \A k \in Entries(MainPath) : /\ k \in Int /\ k <= Len(out)
                                        /\ out'[k] = out[k]
                                        /\ out[k].pos \in Int
                                        /\ out[k].pos <= Len(text[MainPath]) + 1
        /\ Len(out) \in Int /\ Len(out') \in Int /\ Len(out') >= Len(out)
        /\ Len(text[MainPath]) \in Nat
    <3>1. MainPath \in Paths /\ Len(text[MainPath]) \in Nat
      BY TextType DEF Paths
    <3>2. ASSUME NEW k \in Entries(MainPath)
          PROVE  /\ k \in Int /\ k <= Len(out)
                 /\ out[k].pos \in Int /\ out[k].pos <= Len(text[MainPath]) + 1
      BY <3>1 DEF Entries, Placed, TypeOK
    <3>3. \A k \in Entries(MainPath) : out'[k] = out[k]
      BY <1>2, EntriesStep
    <3>4. out \in Seq(Entry) /\ \A e : Len(Append(out, e)) = Len(out) + 1
      BY DEF TypeOK
    <3>5. out' = out \/ \E e : out' = Append(out, e)
      BY <1>2 DEF Puts, Enters, Begins, Takes, Ends, Leaves, Emit
    <3>6. Len(out) \in Nat
      BY <3>4
    <3>7. Len(out') = Len(out) \/ Len(out') = Len(out) + 1
      BY <3>4, <3>5
    <3> QED
      BY <3>1, <3>2, <3>3, <3>6, <3>7
  <2>4. Mark(1) \in Int /\ Mark(1) <= Len(text[MainPath]) + 1
    BY <2>1, <2>3, MainFrame
  <2>5. CASE Entries(MainPath)' = Entries(MainPath) /\ Mark(1)' = Mark(1)
    <3>1. ASSUME NEW i \in Entries(MainPath)', NEW p, p = out[i].pos
          PROVE  Due(p, i - 1)'
      <4>1. i \in Entries(MainPath) /\ i - 1 \in Int
        BY <2>3, <2>5
      <4>2. Due(p, i - 1) /\ p \in Int /\ p <= Len(text[MainPath]) + 1
        BY <2>2, <2>3, <3>1, <4>1
      <4> QED
        BY <1>2, <2>3, <2>5, <4>1, <4>2, DueStays
    <3>2. ASSUME NEW p, p = Mark(1), NEW n, n = Len(out')
          PROVE  Due(p, n)'
      <4>1. Due(p, Len(out)) /\ p \in Int /\ p <= Len(text[MainPath]) + 1
        BY <2>2, <2>4, <3>2
      <4>2. {k \in Entries(MainPath)' : k <= n} = {k \in Entries(MainPath) : k <= Len(out)}
        BY <2>3, <2>5, <3>2
      <4> QED
        BY <1>2, <2>3, <3>2, <4>1, <4>2, DueStays
    <3>3. \A i \in Entries(MainPath)' : out'[i] = out[i]
      BY <2>3, <2>5
    <3> QED
      BY <2>5, <3>1, <3>2, <3>3 DEF Due
  <2>6. CASE /\ Entries(MainPath)' = Entries(MainPath) \cup {Len(out) + 1}
             /\ Len(out') = Len(out) + 1 /\ out'[Len(out) + 1].pos = Mark(1)
             /\ \/ Mark(1)' = Mark(1) + 1
                \/ Invocation(text'[MainPath], Mark(1), Mark(1)')
    <3>0. PICK new \in Int : new = Len(out) + 1
      BY <2>3
    <3>1. ASSUME NEW i \in Entries(MainPath)', NEW p, p = out'[i].pos
          PROVE  Due(p, i - 1)'
      <4>1. CASE i \in Entries(MainPath)
        <5>1. i - 1 \in Int /\ i <= Len(out)
          BY <2>3, <4>1
        <5>2. Due(p, i - 1) /\ p \in Int /\ p <= Len(text[MainPath]) + 1
          BY <2>2, <2>3, <3>1, <4>1
        <5>3. {k \in Entries(MainPath)' : k <= i - 1} = {k \in Entries(MainPath) : k <= i - 1}
          BY <2>3, <2>6, <5>1
        <5> QED
          BY <1>2, <2>3, <5>1, <5>2, <5>3, DueStays
      <4>2. CASE i \notin Entries(MainPath)
        <5>1. i = new /\ i - 1 = Len(out) /\ p = Mark(1)
          BY <2>3, <2>6, <3>0, <3>1, <4>2
        <5>2. Due(p, Len(out)) /\ p \in Int /\ p <= Len(text[MainPath]) + 1
          BY <2>2, <2>4, <5>1
        <5>3. {k \in Entries(MainPath)' : k <= i - 1} = {k \in Entries(MainPath) : k <= Len(out)}
          BY <2>3, <2>6, <5>1
        <5> QED
          BY <1>2, <2>3, <5>1, <5>2, <5>3, DueStays
      <4> QED
        BY <4>1, <4>2
    <3>2. new \in Entries(MainPath)' /\ new = Len(out')
          /\ \A k \in Entries(MainPath)' : k <= new
      BY <2>3, <2>6, <3>0
    <3>3. Follows(out[new].pos, Mark(1))'
      BY <2>6, <3>0 DEF Follows
    <3>4. Due(Mark(1), Len(out))'
      BY <3>2, <3>3 DEF Due
    <3> QED
      BY <3>1, <3>4 DEF Due
  <2> QED
    BY <1>2, <2>1, <2>5, <2>6, MainStep
<1> QED
  BY <1>1, <1>2, StepKind DEF MainFileComesOutInOrder

(***************************************************************************)
(* The lines of a main file that no header includes come out in order, and *)
(* each of them comes out once, except those that are part of a complete   *)
(* invocation with as many arguments as the macro has parameters: the      *)
(* lines of a list that is given up come out after all.                    *)
(***************************************************************************)
THEOREM NothingIsLost == Spec => []MainFileComesOutInOrder
<1>1. Init => MainFileComesOutInOrder
  <2> SUFFICES ASSUME Init PROVE MainFileComesOutInOrder
    OBVIOUS
  <2>1. Entries(MainPath) = {} /\ Mark(1) = 1
    BY DEF Init, Entries, Mark, collecting, NoCall
  <2> QED
    BY <2>1 DEF MainFileComesOutInOrder, Due
<1>2. TypeOK /\ Placed /\ Collected /\ MainFileComesOutInOrder /\ [Next]_vars
        => MainFileComesOutInOrder'
  BY MainFileStep
<1> QED
  BY <1>1, <1>2, AlwaysPlaced, AlwaysCollected, PTL DEF Spec
-----------------------------------------------------------------------------
(***************************************************************************)
(* Include guards.  Lines 2 .. p of a file are behind its guard on n.  A   *)
(* run() that passes the guard while n is undefined defines n in its       *)
(* second line, in live text, before it can include anything; every later  *)
(* run() of the file finds n defined and skips the lines behind the guard, *)
(* and is the innermost one as long as it skips them.                      *)
(***************************************************************************)
Behind(lines, n, p) ==
  /\ p \in 1 .. Len(lines)
  /\ lines[1].op = "if"
  /\ lines[1].test.kind = "undefined" /\ lines[1].test.name = n
  /\ p >= 2 => /\ lines[2].op = "define" /\ lines[2].def # Malformed
               /\ lines[2].name = n
  /\ \A k \in 2 .. p : lines[k].op \notin Branching \cup {"call"}

LiveEntries(f, n) ==
  {i \in Entries(f) : /\ out[i].pos >= 2 /\ ~out[i].skipped
                      /\ Behind(text[f], n, out[i].pos)}

\* The run()s of f whose last line read is the guard or is behind it.
Passing(f, n) ==
  {d \in 1 .. Top : /\ frames[d].file = f /\ frames[d].pos >= 2
                    /\ Behind(text[f], n, frames[d].pos - 1)}

GuardHolds(f, n) ==
  /\ macros[n] = Undefined =>
       /\ LiveEntries(f, n) = {}
       /\ \A d \in Passing(f, n) : frames[d].pos = 2 /\ d = Top /\ ~skipping
  /\ \A d, e \in Passing(f, n) : d < e => e = Top /\ skipping
  /\ \A d \in Passing(f, n) : d # Top \/ ~skipping =>
       \A i \in LiveEntries(f, n) : out[i].pos < frames[d].pos
  /\ \A i, j \in LiveEntries(f, n) : out[i].pos = out[j].pos => i = j

GuardInv == NoUndef => \A f \in Paths, n \in Names : GuardHolds(f, n)

\* What is behind a guard is settled by the lines up to there.
LEMMA BehindStays ==
  ASSUME NEW s, NEW t, NEW n, Len(s) \in Nat, Len(t) \in Nat,
         Len(t) >= Len(s), \A k \in 1 .. Len(s) : t[k] = s[k],
         NEW p \in 1 .. Len(s)
  PROVE  Behind(t, n, p) <=> Behind(s, n, p)
<1>1. t[1] = s[1] /\ (p >= 2 => t[2] = s[2]) /\ \A k \in 2 .. p : t[k] = s[k]
  OBVIOUS
<1>2. p \in 1 .. Len(t)
  OBVIOUS
<1> QED
  BY <1>1, <1>2 DEF Behind

LEMMA BehindEarlier ==
  ASSUME NEW s, NEW n, Len(s) \in Nat, NEW p, Behind(s, n, p), NEW q \in 1 .. p
  PROVE  Behind(s, n, q)
BY DEF Behind

\* The line just read, when it is the guard or is behind it.
LEMMA GuardLine ==
  ASSUME TypeOK, Placed, NEW l \in Upcoming, Read(l), NEW n,
         Behind(text'[File], n, Pos)
  PROVE  /\ Pos = 1 => /\ l.op = "if" /\ l.test.kind = "undefined"
                       /\ l.test.name = n
         /\ Pos >= 2 => l.op \notin Branching \cup {"call"}
         /\ Pos = 2 => l.op = "define" /\ l.def # Malformed /\ l.name = n
         /\ Pos >= 2 => Top \in Passing(File, n)
         /\ ~collecting /\ l.op # "call"
<1>1. /\ Pos \in 1 .. Len(text'[File]) /\ text'[File][Pos] = l
      /\ Pos \in Nat \ {0} /\ File \in Paths
      /\ Len(text[File]) \in Nat /\ Len(text'[File]) \in Nat
      /\ Len(text'[File]) >= Len(text[File])
      /\ \A k \in 1 .. Len(text[File]) : text'[File][k] = text[File][k]
  BY ReadGrows, UpcomingIsLine, TextType
<1>2. Pos <= Len(text[File]) + 1
  BY FramesShape DEF Placed
<1>3. /\ Pos = 1 => l.op = "if" /\ l.test.kind = "undefined" /\ l.test.name = n
      /\ Pos >= 2 => l.op \notin Branching \cup {"call"}
      /\ Pos = 2 => l.op = "define" /\ l.def # Malformed /\ l.name = n
  BY <1>1 DEF Behind
<1>4. Pos >= 2 => Top \in Passing(File, n)
  <2> SUFFICES ASSUME Pos >= 2 PROVE Top \in Passing(File, n)
    OBVIOUS
  <2>1. Pos - 1 \in 1 .. Pos /\ Pos - 1 \in 1 .. Len(text[File])
    BY <1>1, <1>2
  <2>2. Behind(text'[File], n, Pos - 1)
    BY <1>1, <2>1, BehindEarlier
  <2>3. Behind(text[File], n, Pos - 1)
    BY <1>1, <2>1, <2>2, BehindStays
  <2> QED
    BY <1>1, <2>3, FramesShape DEF Passing
<1>5. ~collecting
  <2> SUFFICES ASSUME collecting PROVE FALSE
    OBVIOUS
  <2>1. call.at \in 1 .. Pos - 1 /\ text[File][call.at].op = "call"
    BY DEF Placed
  <2>2. call.at \in 1 .. Pos /\ text'[File][call.at].op = "call"
    BY <1>1, <1>2, <2>1
  <2> QED
    BY <1>1, <2>2 DEF Behind
<1>6. l.op # "call"
  <2>1. CASE Pos = 1
    BY <1>3, <2>1
  <2>2. CASE Pos >= 2
    BY <1>3, <2>2
  <2> QED
    BY <1>1, <2>1, <2>2
<1> QED
  BY <1>3, <1>4, <1>5, <1>6

LEMMA SkippingStep ==
  ASSUME TypeOK, NEW l, Puts(l)
  PROVE  /\ l.op \notin Branching => skipping' = skipping
         /\ l.op = "if" /\ l.test.kind = "undefined" /\ ~skipping =>
              (skipping' <=> macros[l.test.name] # Undefined)
<1>1. ASSUME l.op \notin Branching PROVE skipping' = skipping
  <2>1. UNCHANGED cond
    BY <1>1 DEF Puts, Nests, Branching
  <2> QED
    BY <2>1 DEF skipping
<1>2. ASSUME l.op = "if", l.test.kind = "undefined", ~skipping
      PROVE  skipping' <=> macros[l.test.name] # Undefined
  <2>1. PICK active \in BOOLEAN, taken \in BOOLEAN :
          /\ cond' = Append(cond, LevelOf(active, taken))
          /\ active = (macros[l.test.name] = Undefined)
    BY <1>2 DEF Puts, Nests, Branching
  <2>2. cond \in Seq(Level) /\ LevelOf(active, taken).active = active
    BY DEF TypeOK, LevelOf
  <2>3. cond' # <<>> /\ Last(cond') = LevelOf(active, taken)
    BY <2>1, <2>2 DEF Last
  <2> QED
    BY <2>1, <2>2, <2>3 DEF skipping
<1> QED
  BY <1>1, <1>2

\* A run() comes to pass a guard, or to the next line behind it, by a line
\* that is put out; where the running one stands still, process() returns.
LEMMA PassingStep ==
  ASSUME TypeOK, Placed, NEW l \in Upcoming, Read(l),
         \/ Puts(l) \/ Enters(l) \/ Begins(l) \/ Takes(l)
         \/ Ends(l) \/ Leaves(l),
         NEW f \in Paths, NEW n, NEW d \in Passing(f, n)'
  PROVE  \/ /\ d \in Passing(f, n) /\ frames'[d].pos = frames[d].pos
            /\ d # Top \/ (Leaves(l) /\ Top' = Top /\ UNCHANGED cond)
         \/ /\ d = Top /\ f = File /\ frames'[d].pos = Pos + 1
            /\ Puts(l) \/ Enters(l)
            /\ Behind(text'[File], n, Pos)
<1> USE FramesShape
<1>1. /\ d \in 1 .. Top' /\ frames'[d].file = f /\ frames'[d].pos >= 2
      /\ Behind(text'[f], n, frames'[d].pos - 1)
  BY DEF Passing
<1>2. /\ Pos \in Nat \ {0} /\ File \in Paths
      /\ Len(text[f]) \in Nat /\ Len(text'[f]) \in Nat
      /\ Len(text'[f]) >= Len(text[f])
      /\ \A k \in 1 .. Len(text[f]) : text'[f][k] = text[f][k]
  BY ReadGrows, UpcomingIsLine, TextType
<1>3. ASSUME d \in 1 .. Top, frames'[d].file = frames[d].file,
             frames'[d].pos = frames[d].pos
      PROVE  d \in Passing(f, n)
  <2>1. /\ frames[d].pos \in Nat /\ frames[d].pos >= 2
        /\ frames[d].pos <= Len(text[f]) + 1
    BY <1>1, <1>3 DEF Placed, Frame
  <2>2. frames[d].pos - 1 \in 1 .. Len(text[f])
    BY <1>2, <2>1
  <2>3. Behind(text[f], n, frames[d].pos - 1)
    BY <1>1, <1>2, <1>3, <2>2, BehindStays
  <2> QED
    BY <1>1, <1>3, <2>1, <2>3 DEF Passing
<1>4. ASSUME NEW p \in Nat \ {0}, GoTo(p), d # Top
      PROVE  d \in Passing(f, n) /\ frames'[d].pos = frames[d].pos
  <2>1. /\ d \in 1 .. Top /\ frames'[d].file = frames[d].file
        /\ frames'[d].pos = frames[d].pos
    BY <1>1, <1>4, GoesTo
  <2> QED
    BY <1>3, <2>1
<1>5. CASE Puts(l) \/ Begins(l) \/ Takes(l) \/ (Ends(l) /\ Advance)
  <2>1. Advance /\ GoTo(Pos + 1) /\ Pos + 1 \in Nat \ {0}
    BY <1>2, <1>5 DEF Puts, Begins, Takes, Advance
  <2>2. CASE d # Top
    BY <1>4, <2>1, <2>2
  <2>3. CASE d = Top
    <3>1. frames'[d].pos = Pos + 1 /\ f = File
      BY <1>1, <2>1, <2>3, Advances
    <3>2. Behind(text'[File], n, Pos)
      BY <1>1, <1>2, <3>1
    <3>3. ~collecting /\ l.op # "call"
      BY <3>2, GuardLine
    <3>4. Puts(l)
      BY <1>5, <3>3 DEF Begins, Takes, Ends
    <3> QED
      BY <2>3, <3>1, <3>2, <3>4
  <2> QED
    BY <2>2, <2>3
<1>6. CASE Ends(l) /\ ~Advance
  <2>1. /\ GoTo(call.at + 1) /\ call.at \in 1 .. Pos - 1
        /\ text[File][call.at].op = "call" /\ Pos <= Len(text[File]) + 1
    BY <1>6 DEF Ends, Placed
  <2>2. call.at + 1 \in Nat \ {0}
    BY <1>2, <2>1
  <2>3. CASE d # Top
    BY <1>4, <2>1, <2>2, <2>3
  <2>4. CASE d = Top
    <3>1. frames'[d].pos = call.at + 1 /\ f = File
      BY <1>1, <2>1, <2>2, <2>4, GoesTo
    <3>2. Behind(text'[f], n, call.at)
      BY <1>1, <1>2, <2>1, <3>1
    <3>3. call.at \in 1 .. Len(text[f])
      BY <1>2, <2>1, <3>1
    <3>4. Behind(text[f], n, call.at)
      BY <1>2, <3>2, <3>3, BehindStays
    <3>5. FALSE
      BY <2>1, <3>1, <3>3, <3>4 DEF Behind
    <3> QED
      BY <3>5
  <2> QED
    BY <2>3, <2>4
<1>7. CASE Enters(l)
  <2>1. PICK g \in Disk \ once :
          frames' = Append([frames EXCEPT ![Top].pos = Pos + 1], FrameOf(g))
    BY <1>7 DEF Enters
  <2>2. /\ Top' = Top + 1 /\ frames'[Top + 1].pos = 1
        /\ \A e \in 1 .. Top :
             /\ frames'[e].file = frames[e].file
             /\ frames'[e].pos = IF e = Top THEN Pos + 1 ELSE frames[e].pos
    BY <2>1, EntersFrames DEF Paths
  <2>3. d # Top + 1 /\ d \in 1 .. Top
    BY <1>1, <2>2
  <2>4. CASE d # Top
    BY <1>3, <2>2, <2>3, <2>4
  <2>5. CASE d = Top
    <3>1. frames'[d].pos = Pos + 1 /\ f = File
      BY <1>1, <2>2, <2>5
    <3>2. Behind(text'[File], n, Pos)
      BY <1>1, <1>2, <3>1
    <3> QED
      BY <1>7, <2>5, <3>1, <3>2
  <2> QED
    BY <2>4, <2>5
<1>8. CASE Leaves(l)
  <2>1. CASE Top > 1 /\ frames' = Front(frames)
    <3>1. Top' = Top - 1 /\ \A e \in 1 .. Top - 1 : frames'[e] = frames[e]
      BY <2>1, LeavesFrames
    <3>2. d \in 1 .. Top /\ d # Top /\ frames'[d] = frames[d]
      BY <1>1, <3>1
    <3> QED
      BY <1>3, <3>2
  <2>2. CASE Top = 1 /\ UNCHANGED <<frames, cond>>
    <3>1. Top' = Top
      BY <2>2 DEF Top
    <3> QED
      BY <1>1, <1>3, <1>8, <2>2, <3>1
  <2> QED
    BY <1>8, <2>1, <2>2 DEF Leaves
<1> QED
  BY <1>5, <1>6, <1>7, <1>8

\* A line behind a guard comes out live by being put out in live text.
LEMMA LiveStep ==
  ASSUME TypeOK, Placed, NEW l \in Upcoming, Read(l),
         \/ Puts(l) \/ Enters(l) \/ Begins(l) \/ Takes(l)
         \/ Ends(l) \/ Leaves(l),
         NEW f \in Paths, NEW n, NEW i \in LiveEntries(f, n)'
  PROVE  \/ i \in LiveEntries(f, n) /\ out'[i] = out[i]
         \/ /\ i = Len(out) + 1 /\ f = File /\ out'[i].pos = Pos
            /\ Puts(l) \/ Enters(l)
            /\ ~skipping /\ Pos >= 2 /\ Behind(text'[File], n, Pos)
<1>1. /\ i \in Entries(f)' /\ out'[i].pos >= 2 /\ ~out'[i].skipped
      /\ Behind(text'[f], n, out'[i].pos)
  BY DEF LiveEntries
<1>2. /\ Pos \in Nat \ {0} /\ File \in Paths
      /\ Len(text[f]) \in Nat /\ Len(text'[f]) \in Nat
      /\ Len(text'[f]) >= Len(text[f])
      /\ \A k \in 1 .. Len(text[f]) : text'[f][k] = text[f][k]
  BY ReadGrows, UpcomingIsLine, TextType
<1>3. CASE i \in Entries(f)
  <2>1. out'[i] = out[i] /\ out[i].pos \in 1 .. Len(text[f])
    BY <1>3, EntriesStep DEF Entries, Placed
  <2>2. Behind(text[f], n, out[i].pos)
    BY <1>1, <1>2, <2>1, BehindStays
  <2> QED
    BY <1>1, <1>3, <2>1, <2>2 DEF LiveEntries
<1>4. CASE i \notin Entries(f)
  <2>1. /\ i = Len(out) + 1 /\ f = File /\ out'[i].pos = Mark(Top)
        /\ Puts(l) \/ Enters(l) \/ Ends(l)
    <3>1. i = Len(out) + 1 /\ f = File /\ out'[i].pos = Mark(Top)
      <4>1. i \in Entries(f)' /\ Entries(f)' # Entries(f)
        BY <1>1, <1>4
      <4>2. /\ f = File /\ Entries(f)' = Entries(f) \cup {Len(out) + 1}
            /\ out'[Len(out) + 1].pos = Mark(Top)
        BY <4>1, EntriesStep
      <4> QED
        BY <1>4, <4>1, <4>2
    <3>2. out' # out
      BY <1>1, <1>4 DEF Entries
    <3> QED
      BY <3>1, <3>2 DEF Begins, Takes, Leaves
  <2>2. ~Ends(l)
    <3> SUFFICES ASSUME Ends(l) PROVE FALSE
      OBVIOUS
    <3>1. /\ call.at \in 1 .. Pos - 1 /\ text[File][call.at].op = "call"
          /\ Pos <= Len(text[File]) + 1 /\ Mark(Top) = call.at
      BY FramesShape DEF Ends, Placed, Mark
    <3>2. call.at \in 1 .. Len(text[f]) /\ Behind(text'[f], n, call.at)
      BY <1>1, <1>2, <2>1, <3>1
    <3>3. Behind(text[f], n, call.at)
      BY <1>2, <3>2, BehindStays
    <3> QED
      BY <2>1, <3>1, <3>2, <3>3 DEF Behind
  <2>3. ~collecting
    BY <2>1, <2>2 DEF Puts, Enters
  <2>4. Mark(Top) = Pos
    BY <2>3, FramesShape DEF Mark
  <2>5. Behind(text'[File], n, Pos) /\ Pos >= 2
    BY <1>1, <2>1, <2>4
  <2>6. ~skipping
    <3>1. CASE Enters(l)
      BY <3>1 DEF Enters
    <3>2. CASE Puts(l)
      <4>1. l.op \notin Branching
        BY <2>5, GuardLine
      <4>2. PICK a \in BOOLEAN, b \in BOOLEAN :
              /\ out' = Append(out, EntryAt(Pos, a, b))
              /\ skipping => b
        BY <3>2, <4>1 DEF Puts, Emit
      <4>3. out'[i].skipped = b
        BY <2>1, <4>2, PutsOut
      <4> QED
        BY <1>1, <4>2, <4>3
    <3> QED
      BY <2>1, <2>2, <3>1, <3>2
  <2> QED
    BY <2>1, <2>2, <2>4, <2>5, <2>6
<1> QED
  BY <1>3, <1>4

LEMMA GuardStep ==
  ASSUME TypeOK, Placed, NEW l \in Upcoming, l \in LineType, Read(l),
         \/ Puts(l) \/ Enters(l) \/ Begins(l) \/ Takes(l)
         \/ Ends(l) \/ Leaves(l),
         l.op # "undef",
         NEW f \in Paths, NEW n \in Names, GuardHolds(f, n)
  PROVE  GuardHolds(f, n)'
<1> DEFINE Undef0 == macros[n] = Undefined
           Moved0 == /\ f = File /\ (Puts(l) \/ Enters(l))
                     /\ Behind(text'[File], n, Pos)
<1> USE FramesShape
\* The invariant in front of the step.
<1>1. ASSUME Undef0
      PROVE  /\ LiveEntries(f, n) = {}
             /\ \A d \in Passing(f, n) :
                  frames[d].pos = 2 /\ d = Top /\ ~skipping
  BY <1>1 DEF GuardHolds
<1>2. \A d, e \in Passing(f, n) : d < e => e = Top /\ skipping
  BY DEF GuardHolds
<1>3. \A d \in Passing(f, n) : d # Top \/ ~skipping =>
        \A i \in LiveEntries(f, n) : out[i].pos < frames[d].pos
  BY DEF GuardHolds
<1>4. \A i, j \in LiveEntries(f, n) : out[i].pos = out[j].pos => i = j
  BY DEF GuardHolds
<1>5. \A d \in Passing(f, n) : d \in 1 .. Top /\ frames[d].pos \in Nat
  BY DEF Passing, Frame
\* What the step can add.
<1>6. ASSUME NEW d \in Passing(f, n)'
      PROVE  \/ /\ d \in Passing(f, n) /\ frames'[d].pos = frames[d].pos
                /\ d # Top \/ (Leaves(l) /\ Top' = Top /\ UNCHANGED cond)
             \/ d = Top /\ frames'[d].pos = Pos + 1 /\ Moved0
  BY PassingStep
<1>7. ASSUME NEW i \in LiveEntries(f, n)'
      PROVE  \/ i \in LiveEntries(f, n) /\ out'[i] = out[i]
             \/ /\ i = Len(out) + 1 /\ out'[i].pos = Pos /\ Moved0
                /\ ~skipping /\ Pos >= 2
  BY LiveStep
<1>8. Moved0 =>
        /\ Pos = 1 => /\ l.op = "if" /\ l.test.kind = "undefined"
                      /\ l.test.name = n /\ Puts(l) /\ ~skipping
        /\ Pos = 2 => l.op = "define" /\ l.def # Malformed /\ l.name = n
        /\ Pos >= 2 => l.op \notin Branching /\ Top \in Passing(f, n)
        /\ Pos \in Nat \ {0} /\ frames[Top].pos = Pos
        /\ Enters(l) => ~skipping
        /\ Puts(l) => Top' = Top
  <2> SUFFICES ASSUME Moved0
               PROVE  /\ Pos = 1 => /\ l.op = "if" /\ l.test.kind = "undefined"
                                    /\ l.test.name = n /\ Puts(l) /\ ~skipping
                      /\ Pos = 2 => l.op = "define" /\ l.def # Malformed /\ l.name = n
                      /\ Pos >= 2 => l.op \notin Branching /\ Top \in Passing(f, n)
                      /\ Pos \in Nat \ {0} /\ frames[Top].pos = Pos
                      /\ Enters(l) => ~skipping
                      /\ Puts(l) => Top' = Top
    OBVIOUS
  <2>1. Pos = 1 => ~skipping
    BY DEF Placed
  <2>2. Enters(l) => ~skipping /\ l.op = "include"
    BY DEF Enters
  <2>3. Puts(l) => Top' = Top
    BY Advances DEF Puts
  <2>4. Pos \in Nat \ {0} /\ frames[Top].pos = Pos
    BY DEF Frame
  <2> QED
    BY <2>1, <2>2, <2>3, <2>4, GuardLine
\* How skipping goes on in the run() that has moved behind the guard.
<1>9. Moved0 /\ Pos = 1 => (skipping' <=> ~Undef0)
  BY <1>8, SkippingStep
<1>10. Moved0 /\ Pos >= 2 /\ Puts(l) => skipping' = skipping
  BY <1>8, SkippingStep
<1> HIDE DEF Moved0
\* A definition stays, and the line behind the guard makes one.
<1>11. ASSUME macros'[n] = Undefined PROVE Undef0
  <2>1. CASE Puts(l)
    BY <1>11, <2>1 DEF Puts, Defines
  <2>2. CASE ~Puts(l)
    BY <1>11, <2>2 DEF Enters, Begins, Takes, Ends, Leaves
  <2> QED
    BY <2>1, <2>2
<1>12. ASSUME Moved0, Pos >= 2, Undef0
       PROVE  macros'[n] # Undefined /\ Pos = 2
  <2>1. Top \in Passing(f, n) /\ frames[Top].pos = Pos
    BY <1>8, <1>12
  <2>2. Pos = 2 /\ ~skipping
    BY <1>1, <1>12, <2>1
  <2>3. l.op = "define" /\ l.def # Malformed /\ l.name = n
    BY <1>8, <1>12, <2>2
  <2>4. Puts(l)
    BY <1>12, <2>3 DEF Moved0, Enters
  <2> QED
    BY <2>2, <2>3, <2>4 DEF Puts, Defines
<1> HIDE DEF Undef0
\* The four parts of the invariant behind the step.
<1>13. ASSUME macros'[n] = Undefined
       PROVE  /\ LiveEntries(f, n)' = {}
              /\ \A d \in Passing(f, n)' :
                   frames'[d].pos = 2 /\ d = Top' /\ ~skipping'
  <2>1. Undef0 /\ ~(Moved0 /\ Pos >= 2)
    BY <1>11, <1>12, <1>13
  <2>2. LiveEntries(f, n)' = {}
    BY <1>1, <1>7, <2>1
  <2>3. ASSUME NEW d \in Passing(f, n)'
        PROVE  frames'[d].pos = 2 /\ d = Top' /\ ~skipping'
    <3>1. CASE d = Top /\ frames'[d].pos = Pos + 1 /\ Moved0
      <4>1. Pos = 1
        BY <1>8, <2>1, <3>1
      <4> QED
        BY <1>8, <1>9, <2>1, <3>1, <4>1
    <3>2. CASE /\ d \in Passing(f, n) /\ frames'[d].pos = frames[d].pos
               /\ d # Top \/ (Leaves(l) /\ Top' = Top /\ UNCHANGED cond)
      <4>1. frames[d].pos = 2 /\ d = Top /\ ~skipping
        BY <1>1, <2>1, <3>2
      <4>2. Top' = Top /\ UNCHANGED cond
        BY <3>2, <4>1
      <4> QED
        BY <3>2, <4>1, <4>2 DEF skipping
    <3> QED
      BY <1>6, <3>1, <3>2
  <2> QED
    BY <2>2, <2>3
<1>14. ASSUME NEW d \in Passing(f, n)', NEW e \in Passing(f, n)', d < e
       PROVE  e = Top' /\ skipping'
  <2>1. /\ d \in 1 .. Top /\ e \in 1 .. Top
        /\ d \in Passing(f, n)
        /\ e \in Passing(f, n) \/ (e = Top /\ Moved0)
    <3>1. Top \in 1 .. Top
      BY FramesShape
    <3>2. d \in 1 .. Top /\ e \in 1 .. Top
      BY <1>5, <1>6, <3>1
    <3>3. d # Top
      BY <1>14, <3>2
    <3> QED
      BY <1>6, <3>2, <3>3
  <2>2. CASE e = Top /\ Moved0
    <3>1. CASE Pos = 1
      <4>1. ~Undef0
        BY <1>1, <1>14, <2>1, <2>2
      <4> QED
        BY <1>8, <1>9, <2>2, <3>1, <4>1
    <3>2. CASE Pos # 1
      <4>1. Pos >= 2 /\ Top \in Passing(f, n)
        BY <1>8, <2>2, <3>2
      <4>2. skipping
        BY <1>2, <1>14, <2>1, <2>2, <4>1
      <4>3. Puts(l)
        BY <1>8, <2>2, <4>2 DEF Moved0
      <4> QED
        BY <1>8, <1>10, <2>2, <4>1, <4>2, <4>3
    <3> QED
      BY <3>1, <3>2
  <2>3. CASE ~(e = Top /\ Moved0)
    <3>1. e \in Passing(f, n) /\ e = Top /\ skipping
      BY <1>2, <1>14, <2>1, <2>3
    <3>2. Leaves(l) /\ Top' = Top /\ UNCHANGED cond
      BY <1>6, <2>3, <3>1
    <3> QED
      BY <3>1, <3>2 DEF skipping
  <2> QED
    BY <2>2, <2>3
<1>15. ASSUME NEW d \in Passing(f, n)', d # Top' \/ ~skipping',
              NEW i \in LiveEntries(f, n)'
       PROVE  out'[i].pos < frames'[d].pos
  <2>1. CASE d = Top /\ frames'[d].pos = Pos + 1 /\ Moved0
    <3>1. CASE i = Len(out) + 1 /\ out'[i].pos = Pos
      BY <1>8, <2>1, <3>1
    <3>2. CASE i \in LiveEntries(f, n) /\ out'[i] = out[i]
      <4>1. CASE Pos = 1
        <5>1. ~Undef0
          BY <1>1, <3>2
        <5> QED
          BY <1>8, <1>9, <1>15, <2>1, <4>1, <5>1
      <4>2. CASE Pos # 1
        <5>1. Pos >= 2 /\ Top \in Passing(f, n) /\ frames[Top].pos = Pos
          BY <1>8, <2>1, <4>2
        <5>2. ~skipping
          <6>1. CASE Puts(l)
            BY <1>8, <1>10, <1>15, <2>1, <5>1, <6>1
          <6>2. CASE Enters(l)
            BY <1>8, <2>1, <6>2
          <6> QED
            BY <2>1, <6>1, <6>2 DEF Moved0
        <5>3. out[i].pos < Pos
          BY <1>3, <3>2, <5>1, <5>2
        <5>4. out[i].pos \in Nat
          BY <3>2 DEF LiveEntries, Entries, Placed
        <5> QED
          BY <1>8, <2>1, <3>2, <5>3, <5>4
      <4> QED
        BY <4>1, <4>2
    <3> QED
      BY <1>7, <3>1, <3>2
  <2>2. CASE /\ d \in Passing(f, n) /\ frames'[d].pos = frames[d].pos
             /\ d # Top \/ (Leaves(l) /\ Top' = Top /\ UNCHANGED cond)
    <3>1. d # Top \/ ~skipping
      BY <1>15, <2>2 DEF skipping
    <3>2. CASE i \in LiveEntries(f, n) /\ out'[i] = out[i]
      BY <1>3, <2>2, <3>1, <3>2
    <3>3. CASE /\ i = Len(out) + 1 /\ out'[i].pos = Pos /\ Moved0
               /\ ~skipping /\ Pos >= 2
      <4>1. Top \in Passing(f, n)
        BY <1>8, <3>3
      <4>2. d # Top
        BY <2>2, <3>3 DEF Moved0, Leaves, Puts, Enters
      <4>3. d < Top
        BY <1>5, <2>2, <4>2
      <4> QED
        BY <1>2, <2>2, <3>3, <4>1, <4>3
    <3> QED
      BY <1>7, <3>2, <3>3
  <2> QED
    BY <1>6, <2>1, <2>2
<1>16. ASSUME NEW i \in LiveEntries(f, n)', NEW j \in LiveEntries(f, n)',
              out'[i].pos = out'[j].pos
       PROVE  i = j
  <2>1. CASE i \in LiveEntries(f, n) /\ j \in LiveEntries(f, n)
    <3>1. out'[i] = out[i] /\ out'[j] = out[j]
      <4>1. \A k \in LiveEntries(f, n) : k \in Entries(f)
        BY DEF LiveEntries
      <4> QED
        BY <2>1, <4>1, EntriesStep
    <3> QED
      BY <1>4, <1>16, <2>1, <3>1
  <2>2. ASSUME NEW k \in LiveEntries(f, n)', k \notin LiveEntries(f, n)
        PROVE  /\ k = Len(out) + 1 /\ out'[k].pos = Pos
               /\ Top \in Passing(f, n) /\ ~skipping /\ frames[Top].pos = Pos
    BY <1>7, <1>8, <2>2
  <2>3. ASSUME NEW k \in LiveEntries(f, n)', NEW m \in LiveEntries(f, n)',
               k \notin LiveEntries(f, n), m \in LiveEntries(f, n)
        PROVE  out'[m].pos # out'[k].pos
    <3>1. out'[m] = out[m] /\ out[m].pos \in Nat
      <4>1. m \in Entries(f)
        BY <2>3 DEF LiveEntries
      <4>2. out[m].pos \in Nat
        BY <4>1 DEF Entries, Placed
      <4> QED
        BY <4>1, <4>2, EntriesStep
    <3>2. out[m].pos < Pos
      BY <1>3, <2>2, <2>3
    <3>3. Pos \in Nat
      BY DEF Frame
    <3> QED
      BY <2>2, <2>3, <3>1, <3>2, <3>3
  <2> QED
    BY <1>16, <2>1, <2>2, <2>3
<1> QED
  BY <1>13, <1>14, <1>15, <1>16 DEF GuardHolds

(***************************************************************************)
(* In files without #undef an include guard works as #pragma once does:    *)
(* each line behind the guard comes out live at most once.                 *)
(***************************************************************************)
THEOREM GuardsWork == Spec => []GuardRunsOnce
<1>1. Init => GuardInv
  <2> SUFFICES ASSUME Init, NEW f \in Paths, NEW n \in Names
               PROVE  GuardHolds(f, n)
    BY DEF GuardInv
  <2>1. Entries(f) = {} /\ Top = 1 /\ frames[1].pos = 1
    BY DEF Init, Entries, Top
  <2>2. LiveEntries(f, n) = {} /\ Passing(f, n) = {}
    BY <2>1 DEF LiveEntries, Passing
  <2> QED
    BY <2>2 DEF GuardHolds
<1>2. TypeOK /\ Placed /\ GuardInv /\ [Next]_vars => GuardInv'
  <2> SUFFICES ASSUME TypeOK, Placed, GuardInv, [Next]_vars PROVE GuardInv'
    OBVIOUS
  <2>1. CASE UNCHANGED vars
    BY <2>1 DEF vars, GuardInv, NoUndef, GuardHolds, LiveEntries, Entries,
       Passing, Top, skipping
  <2>2. ASSUME NEW l \in Upcoming, l \in LineType, Read(l),
               \/ Puts(l) \/ Enters(l) \/ Begins(l) \/ Takes(l)
               \/ Ends(l) \/ Leaves(l),
               NoUndef', NEW f \in Paths, NEW n \in Names
        PROVE  GuardHolds(f, n)'
    <3>1. \A g \in Paths : /\ text[g] \in Seq(LineType)
                           /\ Len(text'[g]) >= Len(text[g])
                           /\ Len(text'[g]) \in Nat
                           /\ \A k \in 1 .. Len(text[g]) : text'[g][k] = text[g][k]
      BY <2>2, ReadGrows, TextType
    <3>2. \A g \in Paths : DOMAIN text'[g] = 1 .. Len(text'[g])
      BY TypeStep DEF TypeOK
    <3>3. NoUndef
      BY <2>2, <3>1, <3>2 DEF NoUndef
    <3>4. l.op # "undef"
      BY <2>2, <3>2, ReadGrows, UpcomingIsLine DEF NoUndef
    <3>5. GuardHolds(f, n)
      BY <3>3 DEF GuardInv
    <3> QED
      BY <2>2, <3>4, <3>5, GuardStep
  <2> QED
    BY <2>1, <2>2, StepKind DEF GuardInv
<1>3. TypeOK /\ Placed /\ GuardInv => GuardRunsOnce
  <2> SUFFICES ASSUME TypeOK, Placed, GuardInv, NoUndef,
                      NEW f \in included \ {MainPath}, Guarded(f),
                      NEW i \in DOMAIN out, NEW j \in DOMAIN out,
                      out[i].file = f, out[i].pos \in 2 .. Len(text[f]) - 2,
                      ~out[i].skipped, out[j] = out[i]
               PROVE  i = j
    BY DEF GuardRunsOnce
  <2> DEFINE n == text[f][1].test.name
  <2>1. f \in Paths /\ Len(text[f]) \in Nat
    BY TextType DEF TypeOK, Paths
  <2>2. text[f][1] \in LineType
    BY <2>1, TextType DEF Guarded
  <2>3. n \in Names
    <3>1. text[f][1].test \in Tests
      BY <2>2 DEF LineType, Guarded
    <3> QED
      BY <3>1 DEF Tests, Guarded, Malformed
  <2>4. Behind(text[f], n, out[i].pos)
    BY <2>1 DEF Behind, Guarded, Branching
  <2>5. i \in LiveEntries(f, n) /\ j \in LiveEntries(f, n)
    BY <2>1, <2>4 DEF LiveEntries, Entries
  <2> QED
    BY <2>1, <2>3, <2>5 DEF GuardInv, GuardHolds
<1> QED
  BY <1>1, <1>2, <1>3, AlwaysPlaced, PTL DEF Spec

-----------------------------------------------------------------------------
(***************************************************************************)
(* The stack and the groups, in a file without includes.  What has come    *)
(* out lies in front of the mark; the levels are those of the groups open  *)
(* at the mark; the marks set so far and the macro table are what the      *)
(* groups call for; and an invocation begins in live text only.            *)
(***************************************************************************)
OpenedAt == [d \in DOMAIN cond |-> cond[d].opened_at[2]]
Active == {d \in DOMAIN cond : cond[d].active}
Taken == {d \in DOMAIN cond : cond[d].taken}

EntriesBehind == \A i \in DOMAIN out : out[i].pos < Mark(1)

StackIsGroups ==
  Stacked(MainLines, Holding(MainLines, Unskipped), Mark(1),
          OpenedAt, Active, Taken)

MarksAreLive ==
  \A i \in DOMAIN out :
    MainLines[out[i].pos].op \notin Branching =>
      out[i].skipped = ~IsLive(MainLines, Holding(MainLines, Unskipped), out[i].pos)

TableIsLive ==
  \A n \in Names : macros[n] = DefinitionAt(MainLines, Unskipped, n, Mark(1))

CallIsLive == collecting => ~skipping

GroupsHold ==
  /\ EntriesBehind /\ StackIsGroups /\ MarksAreLive
  /\ TableIsLive /\ CallIsLive

GroupsInv == Comparable => GroupsHold

(***************************************************************************)
(* DefinitionAt looks at the lines in front only, and reads one line after *)
(* the other.                                                              *)
(***************************************************************************)
Changing(lines, alive, n, k) ==
  k \in alive /\ lines[k].op \in {"define", "undef"} /\ lines[k].name = n

\* Two texts that are the same in front of line m, with the same lines left in.
Agree(lines, alive, other, living, m) ==
  \A k \in 1 .. m - 1 : /\ k \in DOMAIN lines /\ k \in DOMAIN other
                        /\ other[k] = lines[k]
                        /\ k \in living <=> k \in alive

LEMMA DefinitionSame ==
  ASSUME NEW lines, NEW alive, NEW other, NEW living, NEW m \in Nat,
         Agree(lines, alive, other, living, m), NEW n, NEW i \in Nat, i <= m
  PROVE  DefinitionAt(other, living, n, i) = DefinitionAt(lines, alive, n, i)
<1> DEFINE changes == {k \in 1 .. i - 1 : Changing(lines, alive, n, k)}
<1>1. \A k \in 1 .. i - 1 : /\ k \in 1 .. m - 1 /\ other[k] = lines[k]
                            /\ k \in living <=> k \in alive
  BY DEF Agree
<1>2. {k \in 1 .. i - 1 : Changing(other, living, n, k)} = changes
  BY <1>1 DEF Changing
<1>3. changes # {} => Max(changes) \in changes
  <2>1. changes \subseteq Nat /\ \A k \in changes : k <= i
    OBVIOUS
  <2> HIDE DEF changes
  <2> QED
    BY <2>1, MaxOf
<1>4. /\ DefinitionAt(lines, alive, n, i) =
           IF changes = {} \/ lines[Max(changes)].op = "undef" THEN "undefined"
           ELSE lines[Max(changes)].def
      /\ DefinitionAt(other, living, n, i) =
           IF changes = {} \/ other[Max(changes)].op = "undef" THEN "undefined"
           ELSE other[Max(changes)].def
  BY <1>2, Zenon DEF DefinitionAt, Changing
<1>5. changes # {} => other[Max(changes)] = lines[Max(changes)]
  BY <1>1, <1>3
<1> HIDE DEF changes
<1> QED
  BY <1>4, <1>5

LEMMA DefinitionNext ==
  ASSUME NEW lines, NEW alive, NEW n, NEW m \in Nat \ {0}
  PROVE  DefinitionAt(lines, alive, n, m + 1) =
           IF ~Changing(lines, alive, n, m) THEN DefinitionAt(lines, alive, n, m)
           ELSE IF lines[m].op = "undef" THEN "undefined" ELSE lines[m].def
<1> DEFINE changes(i) == {k \in 1 .. i - 1 : Changing(lines, alive, n, k)}
<1>1. \A i : DefinitionAt(lines, alive, n, i) =
               IF changes(i) = {} \/ lines[Max(changes(i))].op = "undef"
               THEN "undefined" ELSE lines[Max(changes(i))].def
  BY Zenon DEF DefinitionAt, Changing
<1>2. CASE Changing(lines, alive, n, m)
  <2>1. /\ m \in changes(m + 1) /\ changes(m + 1) \subseteq Nat
        /\ \A k \in changes(m + 1) : k <= m
    BY <1>2
  <2> HIDE DEF changes
  <2>2. Max(changes(m + 1)) = m
    BY <2>1, MaxIs
  <2> QED
    BY <1>1, <1>2, <2>1, <2>2
<1>3. CASE ~Changing(lines, alive, n, m)
  <2>1. changes(m + 1) = changes(m)
    BY <1>3
  <2> HIDE DEF changes
  <2> QED
    BY <1>1, <1>3, <2>1
<1> QED
  BY <1>2, <1>3

LEMMA DefinitionRun ==
  ASSUME NEW lines, NEW alive, NEW n, NEW m \in Nat \ {0}, NEW j \in Nat, m <= j,
         \A k \in m .. j - 1 : ~Changing(lines, alive, n, k)
  PROVE  DefinitionAt(lines, alive, n, j) = DefinitionAt(lines, alive, n, m)
<1>1. {k \in 1 .. j - 1 : Changing(lines, alive, n, k)}
        = {k \in 1 .. m - 1 : Changing(lines, alive, n, k)}
  OBVIOUS
<1> QED
  BY <1>1, Zenon DEF DefinitionAt, Changing

LEMMA DefinitionBy ==
  ASSUME NEW lines, NEW alive, NEW living, NEW n, NEW i, NEW j,
         {k \in 1 .. i - 1 : Changing(lines, alive, n, k)}
           = {k \in 1 .. j - 1 : Changing(lines, living, n, k)}
  PROVE  DefinitionAt(lines, alive, n, i) = DefinitionAt(lines, living, n, j)
BY Zenon DEF DefinitionAt, Changing

LEMMA AgreeSame ==
  ASSUME NEW lines, NEW alive, NEW other, NEW living, NEW m \in Nat,
         Agree(lines, alive, other, living, m)
  PROVE  SameUpTo(lines, Holding(lines, alive), other, Holding(other, living), m)
<1> SUFFICES ASSUME NEW k \in 1 .. m - 1
             PROVE  /\ other[k].op = lines[k].op
                    /\ k \in Holding(other, living) <=> k \in Holding(lines, alive)
  BY DEF SameUpTo
<1>1. k \in DOMAIN lines /\ k \in DOMAIN other /\ other[k] = lines[k]
  BY DEF Agree
<1>2. \A n : DefinitionAt(other, living, n, k) = DefinitionAt(lines, alive, n, k)
  BY DefinitionSame
<1>3. TestHolds(other, living, k) <=> TestHolds(lines, alive, k)
  BY <1>1, <1>2 DEF TestHolds
<1> QED
  BY <1>1, <1>3 DEF Holding

(***************************************************************************)
(* What a step makes of the main file as the groups see it.                *)
(***************************************************************************)
OnlyTextFrom(lines, m) == \A k \in DOMAIN lines : k >= m => lines[k].op = "text"

LEMMA MainOnly ==
  ASSUME TypeOK, Placed, included = {}
  PROVE  /\ Top = 1 /\ File = MainPath /\ MainPath \in Paths
         /\ Mark(1) \in Nat \ {0} /\ Mark(1) <= Len(text[MainPath]) + 1
         /\ ~collecting => Mark(1) = Pos
         /\ collecting => Mark(1) = call.at
<1>1. Top = 1
  BY FramesShape DEF Placed
<1> QED
  BY <1>1, MainFrame DEF Mark, Pos

LEMMA LinesShape ==
  ASSUME TypeOK, Placed, EntriesBehind, included = {}
  PROVE  /\ DOMAIN MainLines = 1 .. Len(text[MainPath])
         /\ Mark(1) \in Nat \ {0} /\ Mark(1) <= Len(text[MainPath]) + 1
         /\ OnlyTextFrom(MainLines, Mark(1))
         /\ \A k \in Unskipped : k < Mark(1)
         /\ \A i \in DOMAIN out : /\ out[i].pos \in 1 .. Mark(1) - 1
                                  /\ out[i] \in Entry
                                  /\ MainLines[out[i].pos] = text[MainPath][out[i].pos]
<1>1. /\ Mark(1) \in Nat \ {0} /\ Mark(1) <= Len(text[MainPath]) + 1
      /\ MainPath \in Paths
  BY MainOnly
<1>2. DOMAIN MainLines = 1 .. Len(text[MainPath])
  BY <1>1, TextType DEF MainLines
<1>3. \A i \in DOMAIN out : out[i] \in Entry /\ out[i].pos \in Nat \ {0}
  <2>1. \A i \in DOMAIN out : out[i] \in Entry
    BY DEF TypeOK
  <2>2. \A e \in Entry : e.pos \in Nat \ {0}
    BY DEF Entry
  <2> QED
    BY <2>1, <2>2
<1>4. \A i \in DOMAIN out : out[i].pos \in 1 .. Mark(1) - 1
  BY <1>1, <1>3 DEF EntriesBehind
<1>5. OnlyTextFrom(MainLines, Mark(1))
  <2>1. \A k \in 1 .. Len(text[MainPath]) :
          k >= Mark(1) => ~ \E i \in DOMAIN out : out[i].pos = k
    BY <1>1, <1>4
  <2> QED
    BY <1>2, <2>1 DEF OnlyTextFrom, MainLines
<1>6. \A i \in DOMAIN out : MainLines[out[i].pos] = text[MainPath][out[i].pos]
  <2>1. Len(text[MainPath]) \in Nat
    BY <1>1, TextType
  <2>2. \A i \in DOMAIN out : out[i].pos \in 1 .. Len(text[MainPath])
    BY <1>1, <1>4, <2>1
  <2>3. DOMAIN text[MainPath] = 1 .. Len(text[MainPath])
    BY <1>1, TextType
  <2> QED
    BY <2>2, <2>3 DEF MainLines
<1>7. \A k \in Unskipped : k < Mark(1)
  BY DEF Unskipped, EntriesBehind
<1> QED
  BY <1>1, <1>2, <1>3, <1>4, <1>5, <1>6, <1>7

\* Nothing is put out: what is read is not seen yet.
LEMMA QuietStep ==
  ASSUME TypeOK, Placed, EntriesBehind, included = {},
         NEW l \in Upcoming, Read(l), UNCHANGED out
  PROVE  Agree(MainLines, Unskipped, MainLines', Unskipped', Mark(1))
<1>1. /\ MainPath \in Paths /\ File = MainPath
      /\ Mark(1) \in Nat \ {0} /\ Mark(1) <= Len(text[MainPath]) + 1
  BY MainOnly
<1>2. /\ Len(text'[MainPath]) >= Len(text[MainPath])
      /\ Len(text'[MainPath]) \in Nat /\ Len(text[MainPath]) \in Nat
      /\ \A k \in 1 .. Len(text[MainPath]) :
           text'[MainPath][k] = text[MainPath][k]
  BY <1>1, ReadGrows, TextType
<1>3. /\ DOMAIN text[MainPath] = 1 .. Len(text[MainPath])
      /\ DOMAIN text'[MainPath] = 1 .. Len(text'[MainPath])
  <2>1. text[MainPath] \in Seq(LineType) /\ text'[MainPath] \in Seq(LineType)
    BY <1>1, TextType, ReadType
  <2> QED
    BY <2>1
<1>4. Unskipped' = Unskipped
  BY DEF Unskipped
<1>5. ASSUME NEW k \in 1 .. Mark(1) - 1
      PROVE  /\ k \in DOMAIN MainLines /\ k \in DOMAIN MainLines'
             /\ MainLines'[k] = MainLines[k]
  <2>1. k \in 1 .. Len(text[MainPath]) /\ k \in 1 .. Len(text'[MainPath])
    BY <1>1, <1>2
  <2> QED
    BY <1>2, <1>3, <2>1 DEF MainLines
<1> QED
  BY <1>4, <1>5 DEF Agree

\* The line at the mark comes out.
LEMMA OutStep ==
  ASSUME TypeOK, Placed, EntriesBehind, included = {},
         NEW l \in Upcoming, Read(l),
         NEW m, m = Mark(1), m <= Len(text'[MainPath]),
         NEW directive \in BOOLEAN, NEW skipped \in BOOLEAN,
         out' = Append(out, EntryAt(m, directive, skipped))
  PROVE  /\ Agree(MainLines, Unskipped, MainLines', Unskipped', m)
         /\ m \in DOMAIN MainLines' /\ MainLines'[m] = text'[MainPath][m]
         /\ m \in Unskipped' <=> ~skipped
         /\ OnlyTextFrom(MainLines', m + 1)
         /\ \A i \in DOMAIN out' : out'[i].pos <= m
<1>1. /\ MainPath \in Paths /\ File = MainPath
      /\ m \in Nat \ {0} /\ m <= Len(text[MainPath]) + 1
  BY MainOnly
<1>2. /\ Len(text'[MainPath]) >= Len(text[MainPath])
      /\ Len(text'[MainPath]) \in Nat /\ Len(text[MainPath]) \in Nat
      /\ \A k \in 1 .. Len(text[MainPath]) :
           text'[MainPath][k] = text[MainPath][k]
  BY <1>1, ReadGrows, TextType
<1>3. /\ DOMAIN text[MainPath] = 1 .. Len(text[MainPath])
      /\ DOMAIN text'[MainPath] = 1 .. Len(text'[MainPath])
  <2>1. text[MainPath] \in Seq(LineType) /\ text'[MainPath] \in Seq(LineType)
    BY <1>1, TextType, ReadType
  <2> QED
    BY <2>1
<1>4. /\ DOMAIN out' = DOMAIN out \cup {Len(out) + 1}
      /\ \A i \in DOMAIN out : out'[i] = out[i]
      /\ out'[Len(out) + 1].pos = m /\ out'[Len(out) + 1].skipped = skipped
  BY PutsOut
<1>5. \A i \in DOMAIN out : out[i].pos < m /\ out[i].pos \in Nat
  BY LinesShape DEF EntriesBehind, Entry
<1>6. ASSUME NEW k \in 1 .. m - 1
      PROVE  /\ k \in DOMAIN MainLines /\ k \in DOMAIN MainLines'
             /\ MainLines'[k] = MainLines[k]
             /\ k \in Unskipped' <=> k \in Unskipped
  <2>1. k \in 1 .. Len(text[MainPath]) /\ k \in 1 .. Len(text'[MainPath])
    BY <1>1, <1>2
  <2>2. (\E i \in DOMAIN out' : out'[i].pos = k)
          <=> \E i \in DOMAIN out : out[i].pos = k
    BY <1>1, <1>4
  <2>3. k \in Unskipped' <=> k \in Unskipped
    BY <1>1, <1>4 DEF Unskipped
  <2> QED
    BY <1>2, <1>3, <2>1, <2>2, <2>3 DEF MainLines
<1>7. m \in DOMAIN MainLines' /\ MainLines'[m] = text'[MainPath][m]
  BY <1>1, <1>2, <1>3, <1>4 DEF MainLines
<1>8. m \in Unskipped' <=> ~skipped
  BY <1>4, <1>5 DEF Unskipped
<1>9. \A i \in DOMAIN out' : out'[i].pos <= m /\ out'[i].pos \in Nat
  BY <1>1, <1>4, <1>5
<1>10. OnlyTextFrom(MainLines', m + 1)
  <2>1. \A k \in DOMAIN text'[MainPath] :
          k >= m + 1 => ~ \E i \in DOMAIN out' : out'[i].pos = k
    BY <1>1, <1>2, <1>3, <1>9
  <2> QED
    BY <2>1 DEF OnlyTextFrom, MainLines
<1> QED
  BY <1>6, <1>7, <1>8, <1>9, <1>10 DEF Agree

(***************************************************************************)
(* The levels as the groups see them, and the ways of changing them.       *)
(***************************************************************************)
LEMMA LevelsAreTyped ==
  ASSUME TypeOK
  PROVE  /\ cond \in Seq(Level) /\ Len(cond) \in Nat /\ DOMAIN cond = 1 .. Len(cond)
         /\ \A d \in DOMAIN cond : cond[d] \in Level
         /\ \A level \in Level : level.opened_at[2] \in Nat
<1>1. \A level \in Level : level.opened_at \in Positions
  BY DEF Level
<1>2. \A p \in Positions : p[2] \in Nat
  BY DEF Positions
<1> QED
  BY <1>1, <1>2 DEF TypeOK

LEMMA OpenedAtType ==
  ASSUME TypeOK
  PROVE  /\ OpenedAt \in Seq(Nat) /\ Len(OpenedAt) = Len(cond)
         /\ DOMAIN OpenedAt = DOMAIN cond
         /\ cond = <<>> <=> OpenedAt = <<>>
         /\ skipping <=> ~TopIsLive(OpenedAt, Active)
<1>1. /\ OpenedAt \in [1 .. Len(cond) -> Nat]
      /\ OpenedAt \in Seq(Nat) /\ Len(OpenedAt) = Len(cond)
      /\ DOMAIN OpenedAt = DOMAIN cond
  BY LevelsAreTyped DEF OpenedAt
<1>2. cond = <<>> <=> OpenedAt = <<>>
  BY <1>1, LevelsAreTyped
<1>3. cond # <<>> => Len(cond) \in DOMAIN cond /\ Last(cond) = cond[Len(cond)]
  BY LevelsAreTyped DEF Last
<1> QED
  BY <1>1, <1>2, <1>3 DEF skipping, TopIsLive, Active

LEMMA Pushed ==
  ASSUME TypeOK, NEW active, NEW taken,
         cond' = Append(cond, LevelOf(active, taken)), Pos \in Nat
  PROVE  /\ OpenedAt' = Append(OpenedAt, Pos)
         /\ \A d \in DOMAIN OpenedAt : (d \in Active' <=> d \in Active)
                                         /\ (d \in Taken' <=> d \in Taken)
         /\ Len(OpenedAt) + 1 \in Active' <=> active
         /\ Len(OpenedAt) + 1 \in Taken' <=> taken
<1> DEFINE new == LevelOf(active, taken)
<1>1. /\ cond' = Append(cond, new) /\ (new.active <=> active)
      /\ new.taken <=> taken
      /\ new.opened_at[2] = Pos
  BY DEF LevelOf, Here
<1> HIDE DEF new
<1>2. /\ cond \in Seq(Level) /\ Len(cond) \in Nat /\ DOMAIN cond = 1 .. Len(cond)
      /\ OpenedAt \in Seq(Nat) /\ Len(OpenedAt) = Len(cond)
      /\ DOMAIN OpenedAt = DOMAIN cond
  BY LevelsAreTyped, OpenedAtType
<1>3. /\ DOMAIN cond' = 1 .. Len(cond) + 1
      /\ \A d \in DOMAIN cond : cond'[d] = cond[d] /\ d \in DOMAIN cond'
      /\ cond'[Len(cond) + 1] = new /\ Len(cond) + 1 \in DOMAIN cond'
  BY <1>1, <1>2
<1>4. OpenedAt' = Append(OpenedAt, Pos)
  <2> DEFINE grown == Append(OpenedAt, Pos)
  <2>1. /\ DOMAIN grown = 1 .. Len(cond) + 1 /\ grown[Len(cond) + 1] = Pos
        /\ \A d \in DOMAIN cond : grown[d] = cond[d].opened_at[2]
        /\ grown = [d \in 1 .. Len(cond) + 1 |-> grown[d]]
    BY <1>2 DEF OpenedAt
  <2>2. OpenedAt' = [d \in 1 .. Len(cond) + 1 |-> cond'[d].opened_at[2]]
    BY <1>3 DEF OpenedAt
  <2>3. \A d \in 1 .. Len(cond) + 1 : d \in DOMAIN cond \/ d = Len(cond) + 1
    BY <1>2
  <2> HIDE DEF grown
  <2>4. \A d \in 1 .. Len(cond) + 1 : cond'[d].opened_at[2] = grown[d]
    BY <1>1, <1>3, <2>1, <2>3
  <2>5. OpenedAt' = grown
    BY <2>1, <2>2, <2>4
  <2> QED
    BY <2>5 DEF grown
<1> QED
  BY <1>1, <1>2, <1>3, <1>4 DEF Active, Taken

LEMMA Popped ==
  ASSUME TypeOK, cond # <<>>, cond' = Front(cond)
  PROVE  /\ OpenedAt' = Front(OpenedAt)
         /\ \A d \in DOMAIN OpenedAt :
              d < Len(OpenedAt) => (d \in Active' <=> d \in Active)
                                     /\ (d \in Taken' <=> d \in Taken)
<1>1. /\ cond \in Seq(Level) /\ OpenedAt \in Seq(Nat) /\ OpenedAt # <<>>
      /\ Len(OpenedAt) = Len(cond) /\ DOMAIN OpenedAt = DOMAIN cond
  BY LevelsAreTyped, OpenedAtType
<1>2. /\ DOMAIN cond' = 1 .. Len(cond) - 1 /\ DOMAIN cond = 1 .. Len(cond)
      /\ \A d \in DOMAIN cond' : cond'[d] = cond[d] /\ d \in DOMAIN cond
      /\ Len(cond) \in Nat
  BY <1>1, FrontIs
<1>3. /\ Front(OpenedAt) \in Seq(Nat) /\ DOMAIN Front(OpenedAt) = 1 .. Len(cond) - 1
      /\ \A d \in 1 .. Len(cond) - 1 : Front(OpenedAt)[d] = OpenedAt[d]
  BY <1>1, FrontIs
<1>4. OpenedAt' = Front(OpenedAt)
  <2>1. OpenedAt' = [d \in 1 .. Len(cond) - 1 |-> cond'[d].opened_at[2]]
    BY <1>2 DEF OpenedAt
  <2>2. \A d \in 1 .. Len(cond) - 1 : cond'[d].opened_at[2] = Front(OpenedAt)[d]
    BY <1>2, <1>3 DEF OpenedAt
  <2>3. Front(OpenedAt) = [d \in 1 .. Len(cond) - 1 |-> Front(OpenedAt)[d]]
    BY <1>3
  <2> QED
    BY <2>1, <2>2, <2>3
<1> QED
  BY <1>1, <1>2, <1>4 DEF Active, Taken

LEMMA TopSet ==
  ASSUME TypeOK, cond # <<>>, NEW level, SetTop(level),
         level.opened_at = Last(cond).opened_at
  PROVE  /\ OpenedAt' = OpenedAt
         /\ \A d \in DOMAIN OpenedAt :
              d < Len(OpenedAt) => (d \in Active' <=> d \in Active)
                                     /\ (d \in Taken' <=> d \in Taken)
         /\ Len(OpenedAt) \in Active' <=> level.active
         /\ Len(OpenedAt) \in Taken' <=> level.taken
         /\ Len(OpenedAt) \in Taken <=> Last(cond).taken
<1>1. /\ Len(OpenedAt) = Len(cond) /\ Len(cond) \in Nat
      /\ DOMAIN OpenedAt = DOMAIN cond /\ DOMAIN cond = 1 .. Len(cond)
      /\ Len(cond) \in DOMAIN cond /\ Last(cond) = cond[Len(cond)]
  BY LevelsAreTyped, OpenedAtType DEF Last
<1>2. cond' = [cond EXCEPT ![Len(cond)] = level]
  BY DEF SetTop
<1>3. /\ DOMAIN cond' = DOMAIN cond /\ cond'[Len(cond)] = level
      /\ \A d \in DOMAIN cond : d # Len(cond) => cond'[d] = cond[d]
  BY <1>1, <1>2
<1>4. \A d \in DOMAIN cond : cond'[d].opened_at[2] = cond[d].opened_at[2]
  BY <1>1, <1>3
<1>5. OpenedAt' = OpenedAt
  BY <1>3, <1>4 DEF OpenedAt
<1>6. \A d \in DOMAIN cond : d < Len(cond) => cond'[d] = cond[d]
  BY <1>1, <1>3
<1> QED
  BY <1>1, <1>3, <1>5, <1>6 DEF Active, Taken

(***************************************************************************)
(* The line at the mark comes out and the mark moves on: what has been     *)
(* marked stays right, and the line is marked as the groups call for.      *)
(***************************************************************************)
LEMMA MarksStep ==
  ASSUME TypeOK, Placed, GroupsHold, included = {},
         NEW l \in Upcoming, Read(l),
         NEW m, m = Mark(1), m <= Len(text'[MainPath]),
         NEW directive \in BOOLEAN, NEW skipped \in BOOLEAN,
         out' = Append(out, EntryAt(m, directive, skipped)),
         text'[MainPath][m].op \notin Branching => (skipped <=> skipping),
         Mark(1)' \in Nat, Mark(1)' > m
  PROVE  /\ EntriesBehind' /\ MarksAreLive'
         /\ Stacked(MainLines', Holding(MainLines, Unskipped)', m,
                    OpenedAt, Active, Taken)
<1> DEFINE L == MainLines
           H == Holding(MainLines, Unskipped)
<1>1. /\ Agree(L, Unskipped, L', Unskipped', m)
      /\ m \in DOMAIN L' /\ L'[m] = text'[MainPath][m]
      /\ \A i \in DOMAIN out' : out'[i].pos <= m
  BY OutStep DEF GroupsHold
<1>2. m \in Nat \ {0} /\ m \in Nat
  BY MainOnly
<1>3. SameUpTo(L, H, L', H', m)
  BY <1>1, <1>2, AgreeSame
<1>4. OpenedAt \in Seq(Nat)
  BY OpenedAtType
<1>5. Stacked(L, H, m, OpenedAt, Active, Taken)
  BY DEF GroupsHold, StackIsGroups
<1>6. Stacked(L', H', m, OpenedAt, Active, Taken)
  BY <1>2, <1>3, <1>4, <1>5, StackSame
<1>7. IsLive(L', H', m) <=> ~skipping
  BY <1>2, <1>4, <1>6, LiveIsTop, OpenedAtType
<1>8. /\ DOMAIN out' = DOMAIN out \cup {Len(out) + 1}
      /\ \A i \in DOMAIN out : out'[i] = out[i]
      /\ out'[Len(out) + 1].pos = m /\ out'[Len(out) + 1].skipped = skipped
  BY PutsOut
<1>9. EntriesBehind'
  <2>1. \A i \in DOMAIN out' : out'[i].pos \in Nat
    <3>1. \A i \in DOMAIN out : out[i].pos \in Nat
      BY LinesShape DEF GroupsHold, Entry
    <3> QED
      BY <1>2, <1>8, <3>1
  <2> QED
    BY <1>1, <1>2, <2>1 DEF EntriesBehind
<1>10. ASSUME NEW i \in DOMAIN out', L'[out'[i].pos].op \notin Branching
       PROVE  out'[i].skipped = ~IsLive(L', H', out'[i].pos)
  <2>1. CASE i \in DOMAIN out
    <3>1. out'[i] = out[i] /\ out[i].pos \in 1 .. m - 1
      BY <1>8, <2>1, LinesShape DEF GroupsHold
    <3>2. L'[out[i].pos] = L[out[i].pos]
      BY <1>1, <3>1 DEF Agree
    <3>3. out[i].skipped = ~IsLive(L, H, out[i].pos)
      BY <1>10, <2>1, <3>1, <3>2 DEF GroupsHold, MarksAreLive
    <3>4. out[i].pos \in Nat /\ out[i].pos <= m
      BY <1>2, <3>1
    <3>5. IsLive(L', H', out[i].pos) <=> IsLive(L, H, out[i].pos)
      BY <1>2, <1>3, <3>4, KeepsSame
    <3> QED
      BY <3>1, <3>3, <3>5, Zenon
  <2>2. CASE i \notin DOMAIN out
    <3>1. out'[i].pos = m /\ out'[i].skipped = skipped
      BY <1>8, <2>2
    <3>2. skipped <=> skipping
      BY <1>1, <1>10, <3>1
    <3> QED
      BY <1>7, <3>1, <3>2, SkippingType, Zenon
  <2> QED
    BY <2>1, <2>2
<1> QED
  BY <1>6, <1>9, <1>10 DEF MarksAreLive

\* The table holds what it held when no line passed changes a name.
LEMMA TableStep ==
  ASSUME NEW m \in Nat \ {0}, m = Mark(1), TableIsLive,
         Agree(MainLines, Unskipped, MainLines', Unskipped', m),
         Mark(1)' \in Nat, m <= Mark(1)', UNCHANGED macros,
         \A n \in Names : \A k \in m .. Mark(1)' - 1 :
           ~Changing(MainLines', Unskipped', n, k)
  PROVE  TableIsLive'
<1> SUFFICES ASSUME NEW n \in Names
             PROVE  macros'[n] = DefinitionAt(MainLines', Unskipped', n, Mark(1)')
  BY DEF TableIsLive
<1>1. DefinitionAt(MainLines', Unskipped', n, Mark(1)')
        = DefinitionAt(MainLines', Unskipped', n, m)
  BY DefinitionRun
<1>2. DefinitionAt(MainLines', Unskipped', n, m)
        = DefinitionAt(MainLines, Unskipped, n, m)
  <2>1. m \in Nat /\ m <= m
    OBVIOUS
  <2> QED
    BY <2>1, DefinitionSame
<1> QED
  BY <1>1, <1>2 DEF TableIsLive

\* The conditions are evaluated as the groups see them.
LEMMA ConditionIsLive ==
  ASSUME TypeOK, NEW l \in LineType, l.op \in {"if", "elif"},
         NEW m \in Nat \ {0}, m = Mark(1), TableIsLive,
         Agree(MainLines, Unskipped, MainLines', Unskipped', m),
         m \in DOMAIN MainLines', MainLines'[m] = l,
         l.test.kind # Malformed
  PROVE  m \in Holding(MainLines, Unskipped)' <=> Evaluate(l.test)
<1>1. l.test \in Tests
  BY DEF LineType
<1>2. l.test.name \in Names /\ l.test.kind \in {"defined", "undefined", "value"}
  BY <1>1 DEF Tests
<1>3. DefinitionAt(MainLines', Unskipped', l.test.name, m) = macros[l.test.name]
  <2>1. m \in Nat /\ m <= m
    OBVIOUS
  <2> QED
    BY <1>2, <2>1, DefinitionSame DEF TableIsLive
<1>4. TestHolds(MainLines', Unskipped', m) <=> Evaluate(l.test)
  BY <1>2, <1>3 DEF TestHolds, Evaluate, Undefined, Malformed
<1> QED
  BY <1>4 DEF Holding

\* A line that comes out whole, where the scan stands.
LEMMA LineComesOut ==
  ASSUME TypeOK, Placed, GroupsHold, included = {},
         NEW l \in Upcoming, Read(l), ~collecting, Advance, UNCHANGED call,
         NEW m, m = Mark(1),
         NEW directive \in BOOLEAN, NEW skipped \in BOOLEAN,
         Emit(directive, skipped),
         l.op \notin Branching => (skipped <=> skipping)
  PROVE  /\ m \in Nat \ {0} /\ m = Pos /\ Mark(1)' = m + 1 /\ l \in LineType
         /\ EntriesBehind' /\ MarksAreLive' /\ CallIsLive'
         /\ Stacked(MainLines', Holding(MainLines, Unskipped)', m,
                    OpenedAt, Active, Taken)
         /\ Agree(MainLines, Unskipped, MainLines', Unskipped', m)
         /\ m \in DOMAIN MainLines' /\ MainLines'[m] = l
         /\ m \in Unskipped' <=> ~skipped
<1>1. /\ Top = 1 /\ File = MainPath /\ m \in Nat \ {0} /\ m = Pos /\ l \in LineType
  BY MainOnly, UpcomingIsLine
<1>2. Pos \in 1 .. Len(text'[MainPath]) /\ text'[MainPath][m] = l
  BY <1>1, ReadGrows
<1>3. ~collecting' /\ Mark(1)' = m + 1
  <2>1. ~collecting'
    BY DEF collecting
  <2>2. frames'[1].pos = Pos + 1
    BY <1>1, Advances
  <2> QED
    BY <1>1, <2>1, <2>2 DEF Mark
<1>4. out' = Append(out, EntryAt(m, directive, skipped))
  BY <1>1 DEF Emit
<1>5. m <= Len(text'[MainPath]) /\ Mark(1)' \in Nat /\ Mark(1)' > m
  <2>1. m + 1 \in Nat /\ m + 1 > m
    BY <1>1
  <2> QED
    BY <1>1, <1>2, <1>3, <2>1
<1>6. /\ EntriesBehind' /\ MarksAreLive'
      /\ Stacked(MainLines', Holding(MainLines, Unskipped)', m,
                 OpenedAt, Active, Taken)
  BY <1>2, <1>4, <1>5, MarksStep
<1>7. /\ Agree(MainLines, Unskipped, MainLines', Unskipped', m)
      /\ m \in DOMAIN MainLines' /\ MainLines'[m] = l
      /\ m \in Unskipped' <=> ~skipped
  BY <1>2, <1>4, <1>5, OutStep DEF GroupsHold
<1> QED
  BY <1>1, <1>3, <1>6, <1>7 DEF CallIsLive

(***************************************************************************)
(* The conditional directives: the levels stay those of the open groups.   *)
(***************************************************************************)
LEMMA ConditionalGroupsStep ==
  ASSUME TypeOK, Placed, GroupsHold, included = {}, NEW l \in Upcoming,
         \/ OpenDeadIf(l) \/ OpenIf(l) \/ Unmatched(l) \/ EndIf(l)
         \/ AfterElse(l) \/ Else(l) \/ ElifTaken(l) \/ Elif(l),
         \A code \in StructuralCodes : ~Report(code)
  PROVE  GroupsHold'
<1>1. Conditional(l) /\ l.op \in Branching
  BY DEF OpenDeadIf, OpenIf, Unmatched, EndIf, AfterElse, Else, ElifTaken,
     Elif, Branching
<1>2. /\ ~collecting /\ Read(l) /\ Emit(TRUE, FALSE) /\ Advance
      /\ UNCHANGED <<macros, included, call>>
  BY <1>1 DEF Conditional
<1>3. PICK m : m = Mark(1)
  OBVIOUS
<1>4. PICK L : L = MainLines'
  OBVIOUS
<1>5. PICK H : H = Holding(MainLines, Unskipped)'
  OBVIOUS
<1>6. PICK P \in Seq(Nat) : P = OpenedAt
  BY OpenedAtType
<1>7. PICK A : A = Active
  OBVIOUS
<1>8. PICK T : T = Taken
  OBVIOUS
<1>9. /\ m \in Nat \ {0} /\ m = Pos /\ Mark(1)' = m + 1 /\ l \in LineType
      /\ EntriesBehind' /\ MarksAreLive' /\ CallIsLive'
      /\ Stacked(MainLines', Holding(MainLines, Unskipped)', m,
                 OpenedAt, Active, Taken)
      /\ Agree(MainLines, Unskipped, MainLines', Unskipped', m)
      /\ m \in DOMAIN MainLines' /\ MainLines'[m] = l
  <2>1. TRUE \in BOOLEAN /\ FALSE \in BOOLEAN
    OBVIOUS
  <2> QED
    BY <1>1, <1>2, <1>3, <2>1, LineComesOut
<1>10. TableIsLive'
  <2>1. \A n \in Names : \A k \in m .. Mark(1)' - 1 :
          ~Changing(MainLines', Unskipped', n, k)
    BY <1>1, <1>9 DEF Changing, Branching
  <2>2. m <= Mark(1)' /\ Mark(1)' \in Nat /\ TableIsLive
    BY <1>9 DEF GroupsHold
  <2> QED
    BY <1>2, <1>3, <1>9, <2>1, <2>2, TableStep
<1>11. Stacked(L, H, m, P, A, T) /\ L[m] = l
  BY <1>4, <1>5, <1>6, <1>7, <1>8, <1>9
<1>12. /\ skipping <=> ~TopIsLive(P, A)
       /\ cond = <<>> <=> P = <<>>
  BY <1>6, <1>7, OpenedAtType
<1>13. l.op \in {"if", "elif"} /\ l.test.kind # Malformed =>
         (m \in H <=> Evaluate(l.test))
  <2>1. TableIsLive
    BY DEF GroupsHold
  <2> QED
    BY <1>3, <1>5, <1>9, <2>1, ConditionIsLive
<1>14. StackIsGroups'
  <2>1. SUFFICES Stacked(L, H, m + 1, OpenedAt', Active', Taken')
    BY <1>4, <1>5, <1>9 DEF StackIsGroups
  <2>2. PICK B : B = Active'
    OBVIOUS
  <2>3. PICK U : U = Taken'
    OBVIOUS
  <2>4. "MalformedDirective" \in StructuralCodes
    BY DEF StructuralCodes
  <2>5. CASE OpenDeadIf(l) \/ OpenIf(l)
    <3>1. l.op = "if" /\ L[m].op = "if"
      BY <1>11, <2>5 DEF OpenDeadIf, OpenIf
    <3>2. PICK active \in BOOLEAN, taken \in BOOLEAN :
            /\ cond' = Append(cond, LevelOf(active, taken))
            /\ skipping => ~active /\ taken
            /\ ~skipping => (active <=> m \in H) /\ (taken <=> m \in H)
      <4>1. CASE OpenDeadIf(l)
        BY <4>1 DEF OpenDeadIf, DeadLevel
      <4>2. CASE OpenIf(l)
        <5>1. l.test.kind # Malformed
          BY <2>4, <4>2 DEF OpenIf, ReportTest
        <5>2. /\ ~skipping
              /\ cond' = Append(cond, LevelOf(Evaluate(l.test), Evaluate(l.test)))
          BY <4>2 DEF OpenIf
        <5> QED
          BY <1>13, <3>1, <5>1, <5>2, EvaluateType
      <4> QED
        BY <2>5, <4>1, <4>2
    <3>3. /\ OpenedAt' = Append(OpenedAt, Pos)
          /\ \A d \in DOMAIN OpenedAt : (d \in Active' <=> d \in Active)
                                          /\ (d \in Taken' <=> d \in Taken)
          /\ Len(OpenedAt) + 1 \in Active' <=> active
          /\ Len(OpenedAt) + 1 \in Taken' <=> taken
      BY <1>9, <3>2, Pushed
    <3>4. /\ OpenedAt' = Append(P, m)
          /\ \A d \in DOMAIN P : (d \in B <=> d \in A) /\ (d \in U <=> d \in T)
          /\ Len(P) + 1 \in B <=> active
          /\ Len(P) + 1 \in U <=> taken
      BY <1>6, <1>7, <1>8, <1>9, <2>2, <2>3, <3>3
    <3>5. IF TopIsLive(P, A)
          THEN /\ Len(P) + 1 \in B <=> m \in H
               /\ Len(P) + 1 \in U <=> m \in H
          ELSE Len(P) + 1 \notin B /\ Len(P) + 1 \in U
      BY <1>12, <3>2, <3>4
    <3>6. \A d \in DOMAIN P : (d \in B <=> d \in A) /\ (d \in U <=> d \in T)
      BY <3>4
    <3>7. Stacked(L, H, m + 1, Append(P, m), B, U)
      BY <1>9, <1>11, <3>1, <3>5, <3>6, StackPush
    <3> QED
      BY <2>2, <2>3, <3>4, <3>7
  <2>6. CASE Unmatched(l) \/ AfterElse(l)
    <3>1. Report("MalformedDirective") \/ Report("UnmatchedEndif")
      BY <2>6 DEF Unmatched, AfterElse
    <3> QED
      BY <3>1 DEF StructuralCodes
  <2>7. CASE EndIf(l)
    <3>1. cond # <<>> /\ cond' = Front(cond) /\ L[m].op = "endif"
      BY <1>11, <2>7 DEF EndIf, PopLevel
    <3>2. /\ OpenedAt' = Front(OpenedAt)
          /\ \A d \in DOMAIN OpenedAt :
               d < Len(OpenedAt) => (d \in Active' <=> d \in Active)
                                      /\ (d \in Taken' <=> d \in Taken)
      BY <3>1, Popped
    <3>3. /\ OpenedAt' = Front(P) /\ P # <<>>
          /\ \A d \in DOMAIN P :
               d < Len(P) => (d \in B <=> d \in A) /\ (d \in U <=> d \in T)
      BY <1>6, <1>7, <1>8, <1>12, <2>2, <2>3, <3>1, <3>2
    <3>4. Stacked(L, H, m + 1, Front(P), B, U)
      BY <1>9, <1>11, <3>1, <3>3, StackPop
    <3> QED
      BY <2>2, <2>3, <3>3, <3>4
  <2>8. CASE Else(l) \/ ElifTaken(l) \/ Elif(l)
    <3>1. cond # <<>> /\ l.op \in Branches /\ L[m].op \in Branches
      BY <1>11, <2>8 DEF Else, ElifTaken, Elif, Branches
    <3>2. Last(cond) \in Level /\ Last(cond).taken \in BOOLEAN
      <4>1. Len(cond) \in DOMAIN cond /\ Last(cond) = cond[Len(cond)]
        BY <3>1, LevelsAreTyped DEF Last
      <4>2. Last(cond) \in Level
        BY <4>1, LevelsAreTyped
      <4> QED
        BY <4>2 DEF Level
    <3>3. \E level : /\ SetTop(level) /\ level.opened_at = Last(cond).opened_at
                     /\ level.active <=> ~Last(cond).taken /\ Admits(L, H, m)
                     /\ level.taken <=> Last(cond).taken \/ Admits(L, H, m)
      <4>1. CASE Else(l)
        <5> DEFINE level == ElseLevel
        <5>1. SetTop(level) /\ l.op = "else"
          BY <4>1 DEF Else
        <5>2. /\ level.opened_at = Last(cond).opened_at
              /\ level.active = ~Last(cond).taken /\ level.taken = TRUE
          BY <3>2 DEF ElseLevel, Level
        <5>3. Admits(L, H, m)
          BY <1>11, <5>1 DEF Admits
        <5> HIDE DEF level
        <5> QED
          BY <3>2, <5>1, <5>2, <5>3
      <4>2. CASE ElifTaken(l)
        <5> DEFINE level == [Last(cond) EXCEPT !.active = FALSE]
        <5>1. SetTop(level) /\ Last(cond).taken
          BY <4>2 DEF ElifTaken
        <5>2. /\ level.opened_at = Last(cond).opened_at
              /\ level.active = FALSE /\ level.taken = Last(cond).taken
          BY <3>2 DEF Level
        <5> HIDE DEF level
        <5> QED
          BY <5>1, <5>2
      <4>3. CASE Elif(l)
        <5> DEFINE level == [Last(cond) EXCEPT !.active = Evaluate(l.test),
                                               !.taken = Evaluate(l.test)]
        <5>1. SetTop(level) /\ ~Last(cond).taken /\ l.op = "elif"
          BY <4>3 DEF Elif
        <5>2. /\ level.opened_at = Last(cond).opened_at
              /\ level.active = Evaluate(l.test) /\ level.taken = Evaluate(l.test)
          BY <3>2 DEF Level
        <5>3. l.test.kind # Malformed
          BY <2>4, <4>3 DEF Elif, ReportTest
        <5>4. Admits(L, H, m) <=> Evaluate(l.test)
          BY <1>11, <1>13, <5>1, <5>3 DEF Admits
        <5> HIDE DEF level
        <5> QED
          BY <5>1, <5>2, <5>4, EvaluateType
      <4> QED
        BY <2>8, <4>1, <4>2, <4>3
    <3>4. PICK level : /\ SetTop(level) /\ level.opened_at = Last(cond).opened_at
                       /\ level.active <=> ~Last(cond).taken /\ Admits(L, H, m)
                       /\ level.taken <=> Last(cond).taken \/ Admits(L, H, m)
      BY <3>3
    <3>5. /\ OpenedAt' = OpenedAt
          /\ \A d \in DOMAIN OpenedAt :
               d < Len(OpenedAt) => (d \in Active' <=> d \in Active)
                                      /\ (d \in Taken' <=> d \in Taken)
          /\ Len(OpenedAt) \in Active' <=> level.active
          /\ Len(OpenedAt) \in Taken' <=> level.taken
          /\ Len(OpenedAt) \in Taken <=> Last(cond).taken
      BY <3>1, <3>4, TopSet
    <3>6. /\ OpenedAt' = P /\ P # <<>>
          /\ \A d \in DOMAIN P :
               d < Len(P) => (d \in B <=> d \in A) /\ (d \in U <=> d \in T)
          /\ Len(P) \in B <=> level.active
          /\ Len(P) \in U <=> level.taken
          /\ Len(P) \in T <=> Last(cond).taken
      BY <1>6, <1>7, <1>8, <1>12, <2>2, <2>3, <3>1, <3>5
    <3>7. /\ Len(P) \in B <=> Len(P) \notin T /\ Admits(L, H, m)
          /\ Len(P) \in U <=> Len(P) \in T \/ Admits(L, H, m)
      BY <3>4, <3>6
    <3>8. Stacked(L, H, m + 1, P, B, U)
      BY <1>9, <1>11, <3>1, <3>6, <3>7, StackBranch
    <3> QED
      BY <2>2, <2>3, <3>6, <3>8
  <2> QED
    BY <2>5, <2>6, <2>7, <2>8
<1> QED
  BY <1>9, <1>10, <1>14 DEF GroupsHold

(***************************************************************************)
(* The lines that are no conditional directive and come out whole: marked  *)
(* when skipping, and in live text a #define or #undef changes the table.  *)
(***************************************************************************)
Alters(l) ==
  IF skipping \/ l.op \notin {"define", "undef"} THEN UNCHANGED macros
  ELSE \/ l.op = "undef" /\ macros' = [macros EXCEPT ![l.name] = Undefined]
       \/ l.op = "define" /\ l.def = Malformed /\ Report("MalformedDirective")
       \/ l.op = "define" /\ macros' = [macros EXCEPT ![l.name] = l.def]

Passes(l) ==
  /\ ~collecting /\ l.op \notin Branching
  /\ Read(l) /\ Advance /\ UNCHANGED <<cond, call>>
  /\ \E directive, skipped \in BOOLEAN :
       Emit(directive, skipped) /\ (skipped <=> skipping)
  /\ Alters(l)

LEMMA PassesKind ==
  ASSUME NEW l,
         \/ PlainText(l) \/ DeadDirective(l) \/ Define(l) \/ Undef(l)
         \/ PragmaOnce(l) \/ SilentDirective(l) \/ Message(l) \/ BadInclude(l)
         \/ IncludeTooDeep(l) \/ IncludeNotFound(l) \/ IncludeOnceAgain(l)
  PROVE  Passes(l)
<1>1. CASE PlainText(l)
  <2>1. l.op \notin Branching \cup {"define", "undef"}
    BY <1>1 DEF PlainText, Branching
  <2>2. Emit(FALSE, skipping) /\ FALSE \in BOOLEAN /\ skipping \in BOOLEAN
    BY <1>1, SkippingType DEF PlainText
  <2> QED
    BY <1>1, <2>1, <2>2 DEF PlainText, Passes, Alters
<1>2. CASE DeadDirective(l)
  <2>1. l.op \notin Branching /\ skipping /\ Emit(TRUE, TRUE) /\ TRUE \in BOOLEAN
    BY <1>2 DEF DeadDirective, PlainDirectives, Branching
  <2> QED
    BY <1>2, <2>1 DEF DeadDirective, Passes, Alters
<1>3. ASSUME \E ops \in SUBSET PlainDirectives : LiveDirective(l, ops)
      PROVE  /\ ~collecting /\ l.op \notin Branching /\ Read(l) /\ ~skipping
             /\ \E directive, skipped \in BOOLEAN :
                  Emit(directive, skipped) /\ (skipped <=> skipping)
  <2>1. PICK ops \in SUBSET PlainDirectives : LiveDirective(l, ops)
    BY <1>3
  <2>2. l.op \in PlainDirectives
    BY <2>1 DEF LiveDirective
  <2>3. l.op \notin Branching
    BY <2>2 DEF PlainDirectives, Branching
  <2>4. Emit(TRUE, FALSE) /\ ~skipping /\ TRUE \in BOOLEAN /\ FALSE \in BOOLEAN
    BY <2>1 DEF LiveDirective
  <2> QED
    BY <2>1, <2>3, <2>4 DEF LiveDirective
<1>4. CASE Define(l)
  <2>1. LiveDirective(l, {"define"}) /\ {"define"} \in SUBSET PlainDirectives
        /\ l.op = "define"
    BY <1>4 DEF Define, LiveDirective, PlainDirectives
  <2>2. Alters(l)
    BY <1>4, <2>1 DEF Define, Alters, LiveDirective
  <2> QED
    BY <1>3, <1>4, <2>1, <2>2 DEF Define, Passes
<1>5. CASE Undef(l)
  <2>1. LiveDirective(l, {"undef"}) /\ {"undef"} \in SUBSET PlainDirectives
        /\ l.op = "undef"
    BY <1>5 DEF Undef, LiveDirective, PlainDirectives
  <2>2. Alters(l)
    BY <1>5, <2>1 DEF Undef, Alters, LiveDirective
  <2> QED
    BY <1>3, <1>5, <2>1, <2>2 DEF Undef, Passes
<1>6. CASE \/ PragmaOnce(l) \/ SilentDirective(l) \/ Message(l) \/ BadInclude(l)
           \/ IncludeTooDeep(l) \/ IncludeNotFound(l) \/ IncludeOnceAgain(l)
  <2>1. \/ LiveDirective(l, {"once"}) \/ LiveDirective(l, {"pragma", "null"})
        \/ LiveDirective(l, {"error", "warning", "unknown"})
        \/ LiveDirective(l, {"badinclude"}) \/ LiveDirective(l, {"include"})
    BY <1>6 DEF PragmaOnce, SilentDirective, Message, BadInclude,
       IncludeTooDeep, IncludeNotFound, IncludeOnceAgain, IncludeLine
  <2>2. \E ops \in SUBSET PlainDirectives : LiveDirective(l, ops)
    BY <2>1 DEF PlainDirectives
  <2>3. l.op \notin {"define", "undef"}
    BY <2>1 DEF LiveDirective
  <2>4. Advance /\ UNCHANGED <<cond, call, macros>>
    BY <1>6 DEF PragmaOnce, SilentDirective, Message, BadInclude,
       IncludeTooDeep, IncludeNotFound, IncludeOnceAgain, IncludeLine,
       FailInclude
  <2> QED
    BY <1>3, <2>2, <2>3, <2>4 DEF Passes, Alters
<1> QED
  BY <1>1, <1>2, <1>4, <1>5, <1>6

LEMMA PassesStep ==
  ASSUME TypeOK, Placed, GroupsHold, included = {}, NEW l \in Upcoming, Passes(l),
         \A code \in StructuralCodes : ~Report(code)
  PROVE  GroupsHold'
<1>1. PICK directive \in BOOLEAN, skipped \in BOOLEAN :
        Emit(directive, skipped) /\ (skipped <=> skipping)
  BY DEF Passes
<1>2. PICK m : m = Mark(1)
  OBVIOUS
<1>3. /\ m \in Nat \ {0} /\ m = Pos /\ Mark(1)' = m + 1 /\ l \in LineType
      /\ EntriesBehind' /\ MarksAreLive' /\ CallIsLive'
      /\ Stacked(MainLines', Holding(MainLines, Unskipped)', m,
                 OpenedAt, Active, Taken)
      /\ Agree(MainLines, Unskipped, MainLines', Unskipped', m)
      /\ m \in DOMAIN MainLines' /\ MainLines'[m] = l
      /\ m \in Unskipped' <=> ~skipped
  BY <1>1, <1>2, LineComesOut DEF Passes
<1>4. StackIsGroups'
  <2>1. OpenedAt' = OpenedAt /\ Active' = Active /\ Taken' = Taken
    BY DEF Passes, OpenedAt, Active, Taken
  <2>2. \A i \in m .. (m + 1) - 1 : MainLines'[i].op \notin Directives
    BY <1>3 DEF Passes, Branching, Directives, Branches
  <2>3. m + 1 \in Nat /\ m <= m + 1 /\ OpenedAt \in Seq(Nat)
    BY <1>3, OpenedAtType
  <2>4. Stacked(MainLines', Holding(MainLines, Unskipped)', m + 1,
                OpenedAt, Active, Taken)
    BY <1>3, <2>2, <2>3, StackRun
  <2> QED
    BY <1>3, <2>1, <2>4 DEF StackIsGroups
<1>5. TableIsLive'
  <2>1. TableIsLive /\ m <= Mark(1)' /\ Mark(1)' \in Nat
    BY <1>3 DEF GroupsHold
  <2>2. CASE skipping \/ l.op \notin {"define", "undef"}
    <3>1. UNCHANGED macros
      BY <2>2 DEF Passes, Alters
    <3>2. \A n \in Names : \A k \in m .. Mark(1)' - 1 :
            ~Changing(MainLines', Unskipped', n, k)
      BY <1>1, <1>3, <2>2 DEF Changing
    <3> QED
      BY <1>2, <1>3, <2>1, <3>1, <3>2, TableStep
  <2>3. CASE ~(skipping \/ l.op \notin {"define", "undef"})
    <3>1. PICK d : /\ d = IF l.op = "undef" THEN "undefined" ELSE l.def
                   /\ macros' = [macros EXCEPT ![l.name] = d]
      BY <2>3 DEF Passes, Alters, StructuralCodes, Undefined
    <3>2. l.name \in Names
      BY <1>3, <2>3 DEF LineType
    <3>3. ASSUME NEW n \in Names
          PROVE  macros'[n] = DefinitionAt(MainLines', Unskipped', n, m + 1)
      <4>1. Changing(MainLines', Unskipped', n, m) <=> n = l.name
        BY <1>1, <1>3, <2>3 DEF Changing
      <4>2. DefinitionAt(MainLines', Unskipped', n, m)
              = DefinitionAt(MainLines, Unskipped, n, m)
        <5>1. m \in Nat /\ m <= m
          BY <1>3
        <5> QED
          BY <1>3, <5>1, DefinitionSame
      <4>3. macros[n] = DefinitionAt(MainLines, Unskipped, n, m)
        BY <1>2, <2>1 DEF TableIsLive
      <4>4. DefinitionAt(MainLines', Unskipped', n, m + 1) =
              IF n = l.name THEN d
              ELSE DefinitionAt(MainLines', Unskipped', n, m)
        BY <1>3, <3>1, <4>1, DefinitionNext
      <4>5. macros'[n] = IF n = l.name THEN d ELSE macros[n]
        BY <3>1, <3>2 DEF TypeOK
      <4> QED
        BY <4>2, <4>3, <4>4, <4>5
    <3> QED
      BY <1>3, <3>3 DEF TableIsLive
  <2> QED
    BY <2>2, <2>3
<1> QED
  BY <1>3, <1>4, <1>5 DEF GroupsHold

(***************************************************************************)
(* An invocation: while its arguments are collected nothing comes out, and *)
(* at its end the one line that began it; the lines it took are text.      *)
(***************************************************************************)
LEMMA QuietGroups ==
  ASSUME TypeOK, Placed, GroupsHold, included = {},
         NEW l \in Upcoming, Read(l),
         UNCHANGED <<out, cond, macros>>, Mark(1)' = Mark(1)
  PROVE  /\ EntriesBehind' /\ StackIsGroups' /\ MarksAreLive' /\ TableIsLive'
<1>1. PICK m \in Nat \ {0} : m = Mark(1)
  BY MainOnly
<1>2. m \in Nat /\ m <= m /\ m <= Mark(1)' /\ Mark(1)' \in Nat
  BY <1>1
<1> DEFINE L == MainLines
           H == Holding(MainLines, Unskipped)
<1>3. Agree(L, Unskipped, L', Unskipped', m)
  BY <1>1, QuietStep DEF GroupsHold
<1>4. SameUpTo(L, H, L', H', m)
  BY <1>2, <1>3, AgreeSame
<1>5. EntriesBehind'
  BY DEF GroupsHold, EntriesBehind
<1>6. StackIsGroups'
  <2>1. OpenedAt' = OpenedAt /\ Active' = Active /\ Taken' = Taken
    BY DEF OpenedAt, Active, Taken
  <2>2. OpenedAt \in Seq(Nat) /\ Stacked(L, H, m, OpenedAt, Active, Taken)
    BY <1>1, OpenedAtType DEF GroupsHold, StackIsGroups
  <2>3. Stacked(L', H', m, OpenedAt, Active, Taken)
    BY <1>2, <1>4, <2>2, StackSame
  <2> QED
    BY <1>1, <2>1, <2>3 DEF StackIsGroups
<1>7. MarksAreLive'
  <2>1. SUFFICES ASSUME NEW i \in DOMAIN out, L'[out[i].pos].op \notin Branching
                 PROVE  out[i].skipped = ~IsLive(L', H', out[i].pos)
    BY DEF MarksAreLive
  <2>2. out[i].pos \in 1 .. m - 1
    BY <1>1, LinesShape DEF GroupsHold
  <2>3. L'[out[i].pos] = L[out[i].pos]
    BY <1>3, <2>2 DEF Agree
  <2>4. out[i].skipped = ~IsLive(L, H, out[i].pos)
    BY <2>1, <2>3 DEF GroupsHold, MarksAreLive
  <2>5. out[i].pos \in Nat /\ out[i].pos <= m
    BY <2>2
  <2>6. IsLive(L', H', out[i].pos) <=> IsLive(L, H, out[i].pos)
    BY <1>2, <1>4, <2>5, KeepsSame
  <2> QED
    BY <2>4, <2>6, Zenon
<1>8. TableIsLive'
  <2>1. TableIsLive
    BY DEF GroupsHold
  <2>2. \A n \in Names : \A k \in m .. Mark(1)' - 1 :
          ~Changing(MainLines', Unskipped', n, k)
    BY <1>1
  <2> QED
    BY <1>1, <1>2, <1>3, <2>1, <2>2, TableStep
<1> QED
  BY <1>5, <1>6, <1>7, <1>8

LEMMA CallStep ==
  ASSUME TypeOK, Placed, GroupsHold, included = {}, NEW l \in Upcoming, Read(l),
         Begins(l) \/ Takes(l)
  PROVE  GroupsHold'
<1>1. /\ UNCHANGED <<out, cond, macros>> /\ Advance
      /\ Begins(l) => ~collecting /\ ~skipping /\ call'.at = Pos
      /\ Takes(l) => collecting /\ call'.at = call.at
  BY DEF Begins, Takes
<1>2. /\ Top = 1 /\ Pos \in Nat \ {0}
      /\ ~collecting => Mark(1) = Pos
      /\ collecting => Mark(1) = call.at
  BY MainOnly, UpcomingIsLine
<1>3. collecting'
  BY <1>1, <1>2 DEF collecting
<1>4. Mark(1)' = Mark(1)
  <2>1. Top' = 1
    BY <1>1, <1>2, Advances
  <2>2. Mark(1)' = call'.at
    BY <1>3, <2>1 DEF Mark
  <2> QED
    BY <1>1, <1>2, <2>2
<1>5. skipping' = skipping /\ ~skipping
  BY <1>1 DEF skipping, GroupsHold, CallIsLive
<1>6. EntriesBehind' /\ StackIsGroups' /\ MarksAreLive' /\ TableIsLive'
  BY <1>1, <1>4, QuietGroups
<1> QED
  BY <1>5, <1>6 DEF GroupsHold, CallIsLive

LEMMA CallEnds ==
  ASSUME TypeOK, Placed, GroupsHold, included = {}, NEW l \in Upcoming, Read(l),
         Ends(l)
  PROVE  GroupsHold'
<1>1. /\ collecting /\ UNCHANGED <<cond, macros>> /\ call' = NoCall
      /\ out' = Append(out, EntryAt(call.at, FALSE, FALSE))
      /\ Advance \/ GoTo(call.at + 1)
  BY DEF Ends
<1>2. PICK m : m = Mark(1)
  OBVIOUS
<1>3. /\ Top = 1 /\ File = MainPath /\ MainPath \in Paths
      /\ m = call.at /\ m \in Nat \ {0}
      /\ Pos \in Nat \ {0} /\ m <= Pos - 1
      /\ text[MainPath][m].op = "call"
  <2>1. call.at \in 1 .. Pos - 1 /\ text[File][call.at].op = "call"
    BY <1>1 DEF Placed
  <2> QED
    BY <1>1, <1>2, <2>1, MainOnly, UpcomingIsLine
<1>4. /\ Pos <= Len(text'[MainPath]) /\ Len(text'[MainPath]) \in Nat
      /\ text'[MainPath][m].op = "call" /\ m <= Len(text'[MainPath])
  <2>1. Pos <= Len(text[MainPath]) + 1 /\ Len(text[MainPath]) \in Nat
    BY <1>3, TextType, FramesShape DEF Placed
  <2>2. /\ Pos \in 1 .. Len(text'[MainPath]) /\ Len(text'[MainPath]) \in Nat
        /\ \A k \in 1 .. Len(text[MainPath]) :
             text'[MainPath][k] = text[MainPath][k]
    BY <1>3, ReadGrows
  <2>3. m \in 1 .. Len(text[MainPath])
    BY <1>3, <2>1
  <2> QED
    BY <1>3, <2>2, <2>3
<1>5. ~collecting' /\ Mark(1)' \in Nat /\ Mark(1)' > m /\ Mark(1)' - 1 <= Pos
  <2>1. ~collecting'
    BY <1>1 DEF collecting, NoCall
  <2>2. Mark(1)' = frames'[1].pos
    BY <2>1 DEF Mark
  <2>3. CASE Advance
    <3>1. frames'[1].pos = Pos + 1
      BY <1>3, <2>3, Advances
    <3> QED
      BY <1>3, <2>1, <2>2, <3>1
  <2>4. CASE GoTo(call.at + 1)
    <3>1. m + 1 \in Nat \ {0} /\ GoTo(m + 1)
      BY <1>3, <2>4
    <3>2. frames'[1].pos = m + 1
      BY <1>3, <3>1, GoesTo
    <3> QED
      BY <1>3, <2>1, <2>2, <3>2
  <2> QED
    BY <1>1, <2>3, <2>4
<1>6. out' = Append(out, EntryAt(m, FALSE, FALSE)) /\ FALSE \in BOOLEAN /\ ~skipping
  BY <1>1, <1>3 DEF GroupsHold, CallIsLive
<1>7. /\ EntriesBehind' /\ MarksAreLive'
      /\ Stacked(MainLines', Holding(MainLines, Unskipped)', m,
                 OpenedAt, Active, Taken)
  BY <1>2, <1>4, <1>5, <1>6, MarksStep
<1>8. /\ Agree(MainLines, Unskipped, MainLines', Unskipped', m)
      /\ m \in DOMAIN MainLines' /\ MainLines'[m] = text'[MainPath][m]
      /\ OnlyTextFrom(MainLines', m + 1)
  BY <1>2, <1>4, <1>6, OutStep DEF GroupsHold
<1>9. DOMAIN MainLines' = 1 .. Len(text'[MainPath])
  <2>1. text'[MainPath] \in Seq(LineType)
    BY <1>3, ReadType
  <2> QED
    BY <2>1 DEF MainLines
<1>10. \A k \in m .. Mark(1)' - 1 : MainLines'[k].op \in {"call", "text"}
  <2>1. ASSUME NEW k \in m .. Mark(1)' - 1
        PROVE  MainLines'[k].op \in {"call", "text"}
    <3>1. CASE k = m
      BY <1>4, <1>8, <3>1
    <3>2. CASE k # m
      <4>1. k \in DOMAIN MainLines' /\ k >= m + 1
        BY <1>3, <1>4, <1>5, <1>9, <3>2
      <4> QED
        BY <1>8, <4>1 DEF OnlyTextFrom
    <3> QED
      BY <3>1, <3>2
  <2> QED
    BY <2>1
<1>11. m <= Mark(1)' /\ OpenedAt \in Seq(Nat) /\ TableIsLive
  BY <1>3, <1>5, OpenedAtType DEF GroupsHold
<1>12. StackIsGroups'
  <2>1. OpenedAt' = OpenedAt /\ Active' = Active /\ Taken' = Taken
    BY <1>1 DEF OpenedAt, Active, Taken
  <2>2. \A k \in m .. Mark(1)' - 1 : MainLines'[k].op \notin Directives
    BY <1>10 DEF Directives, Branches
  <2>3. Stacked(MainLines', Holding(MainLines, Unskipped)', Mark(1)',
                OpenedAt, Active, Taken)
    BY <1>3, <1>5, <1>7, <1>11, <2>2, StackRun
  <2> QED
    BY <2>1, <2>3 DEF StackIsGroups
<1>13. TableIsLive'
  <2>1. \A n \in Names : \A k \in m .. Mark(1)' - 1 :
          ~Changing(MainLines', Unskipped', n, k)
    BY <1>10 DEF Changing
  <2> QED
    BY <1>1, <1>2, <1>3, <1>5, <1>8, <1>11, <2>1, TableStep
<1> QED
  BY <1>5, <1>7, <1>12, <1>13 DEF GroupsHold, CallIsLive

LEMMA Comparing ==
  ASSUME TypeOK, Placed, GroupsInv, Comparable', UNCHANGED included,
         UNCHANGED diags \/ Reports
  PROVE  /\ GroupsHold /\ included = {} /\ Top = 1
         /\ \A code \in StructuralCodes : ~Report(code)
<1>1. Faultless /\ \A code \in StructuralCodes : ~Report(code)
  BY FaultsStay DEF Comparable
<1>2. included = {} /\ GroupsHold
  BY <1>1 DEF GroupsInv, Comparable
<1> QED
  BY <1>1, <1>2, MainOnly

LEMMA GroupsStep ==
  ASSUME TypeOK, Placed, GroupsInv, [Next]_vars
  PROVE  GroupsInv'
<1> SUFFICES ASSUME Comparable' PROVE GroupsHold'
  BY DEF GroupsInv
<1>1. CASE UNCHANGED vars
  <2>1. UNCHANGED <<text, frames, cond, macros, call, out, included, diags>>
    BY <1>1 DEF vars
  <2>2. GroupsHold /\ included = {}
    BY <2>1, Comparing
  <2>3. Mark(1)' = Mark(1)
    BY <2>1 DEF Mark, Top, collecting
  <2>4. MainLines' = MainLines /\ Unskipped' = Unskipped
    BY <2>1 DEF MainLines, Unskipped
  <2>5. OpenedAt' = OpenedAt /\ Active' = Active /\ Taken' = Taken
    BY <2>1 DEF OpenedAt, Active, Taken
  <2>6. EntriesBehind'
    BY <2>1, <2>2, <2>3 DEF GroupsHold, EntriesBehind
  <2>7. StackIsGroups'
    BY <2>2, <2>3, <2>4, <2>5 DEF GroupsHold, StackIsGroups
  <2>8. MarksAreLive'
    BY <2>1, <2>2, <2>4 DEF GroupsHold, MarksAreLive
  <2>9. TableIsLive'
    BY <2>1, <2>2, <2>3, <2>4 DEF GroupsHold, TableIsLive
  <2> QED
    BY <2>1, <2>2, <2>6, <2>7, <2>8, <2>9
       DEF GroupsHold, CallIsLive, collecting, skipping
<1>2. ASSUME NEW l \in Upcoming,
             \/ OpenDeadIf(l) \/ OpenIf(l) \/ Unmatched(l) \/ EndIf(l)
             \/ AfterElse(l) \/ Else(l) \/ ElifTaken(l) \/ Elif(l)
      PROVE  GroupsHold'
  <2>1. UNCHANGED included
    BY <1>2 DEF OpenDeadIf, OpenIf, Unmatched, EndIf, AfterElse, Else,
       ElifTaken, Elif, Conditional
  <2>2. UNCHANGED diags \/ Reports
    BY <1>2 DEF OpenDeadIf, OpenIf, Unmatched, EndIf, AfterElse, Else,
       ElifTaken, Elif, ReportTest, Report, Reports
  <2>3. /\ GroupsHold /\ included = {}
        /\ \A code \in StructuralCodes : ~Report(code)
    BY <2>1, <2>2, Comparing
  <2> QED
    BY <1>2, <2>3, ConditionalGroupsStep
<1>3. ASSUME NEW l \in Upcoming,
             \/ PlainText(l) \/ DeadDirective(l) \/ Define(l) \/ Undef(l)
             \/ PragmaOnce(l) \/ SilentDirective(l) \/ Message(l)
             \/ BadInclude(l) \/ IncludeTooDeep(l) \/ IncludeNotFound(l)
             \/ IncludeOnceAgain(l)
      PROVE  GroupsHold'
  <2>1. UNCHANGED included /\ (UNCHANGED diags \/ Reports)
    BY <1>3 DEF PlainText, DeadDirective, Define, Undef, PragmaOnce,
       SilentDirective, Message, BadInclude, IncludeTooDeep, IncludeNotFound,
       IncludeOnceAgain, IncludeLine, FailInclude, Report, Reports
  <2>2. /\ GroupsHold /\ included = {}
        /\ \A code \in StructuralCodes : ~Report(code)
    BY <2>1, Comparing
  <2> QED
    BY <1>3, <2>2, PassesKind, PassesStep
<1>4. ASSUME NEW l \in Upcoming, OpenCall(l) \/ CollectArgument(l)
      PROVE  GroupsHold'
  <2>1. Read(l) /\ UNCHANGED <<included, diags>>
    BY <1>4 DEF OpenCall, CollectArgument
  <2>2. Begins(l) \/ Takes(l)
    <3>1. CASE OpenCall(l)
      BY <3>1 DEF OpenCall, Begins
    <3>2. CASE CollectArgument(l)
      <4>1. call \in [at : Nat \ {0}, depth : Nat \ {0}, args : Nat \ {0}]
        BY <3>2 DEF CollectArgument, collecting, TypeOK, NoCall
      <4> QED
        BY <3>2, <4>1 DEF CollectArgument, Takes
    <3> QED
      BY <1>4, <3>1, <3>2
  <2>3. GroupsHold /\ included = {}
    BY <2>1, Comparing
  <2> QED
    BY <2>1, <2>2, <2>3, CallStep
<1>5. ASSUME NEW l \in Upcoming,
             CompleteCall(l) \/ MacroArity(l) \/ UnterminatedCall(l)
      PROVE  GroupsHold'
  <2>1. /\ Read(l) /\ UNCHANGED included /\ (UNCHANGED diags \/ Reports)
        /\ Ends(l)
    BY <1>5 DEF CompleteCall, MacroArity, UnterminatedCall, GiveUpCall,
       Ends, Reports
  <2>2. GroupsHold /\ included = {}
    BY <2>1, Comparing
  <2> QED
    BY <2>1, <2>2, CallEnds
<1>6. ASSUME NEW l \in Upcoming, EnterInclude(l) PROVE FALSE
  BY <1>6 DEF EnterInclude, Comparable
<1>7. ASSUME NEW l \in Upcoming, LeaveInclude(l) PROVE FALSE
  <2>1. UNCHANGED included /\ (UNCHANGED diags \/ Reports) /\ Top > 1
    BY <1>7 DEF LeaveInclude, Reports
  <2> QED
    BY <2>1, Comparing
<1>8. ASSUME NEW l \in Upcoming, Finish(l) PROVE GroupsHold'
  <2>1. /\ Read(l) /\ UNCHANGED included /\ (UNCHANGED diags \/ Reports)
        /\ UNCHANGED <<frames, cond, macros, out, call>>
    BY <1>8 DEF Finish, Reports
  <2>2. GroupsHold /\ included = {}
    BY <2>1, Comparing
  <2>3. Mark(1)' = Mark(1)
    BY <2>1 DEF Mark, Top, collecting
  <2>4. EntriesBehind' /\ StackIsGroups' /\ MarksAreLive' /\ TableIsLive'
    BY <2>1, <2>2, <2>3, QuietGroups
  <2> QED
    BY <2>1, <2>2, <2>4 DEF GroupsHold, CallIsLive, collecting, skipping
<1> QED
  BY <1>1, <1>2, <1>3, <1>4, <1>5, <1>6, <1>7, <1>8 DEF Next, Process, Returned

LEMMA GroupsInit == Init => GroupsInv
<1> SUFFICES ASSUME Init PROVE GroupsHold
  BY DEF GroupsInv
<1>1. /\ cond = <<>> /\ out = <<>> /\ call = NoCall
      /\ macros = [n \in Names |-> Undefined]
      /\ frames = << [file |-> MainPath, pos |-> 1, depth |-> 0] >>
  BY DEF Init
<1>2. DOMAIN out = {} /\ DOMAIN cond = {} /\ ~collecting /\ Mark(1) = 1
  BY <1>1 DEF collecting, NoCall, Mark
<1>3. OpenedAt = <<>>
  BY <1>2 DEF OpenedAt
<1>4. ASSUME NEW lines, NEW holding, NEW A, NEW T
      PROVE  Stacked(lines, holding, 1, <<>>, A, T)
  <2>1. DOMAIN <<>> = {} /\ Enclosing(lines, 1) = {}
    BY DEF Enclosing
  <2> QED
    BY <2>1 DEF Stacked, AreOpen
<1>5. \A n \in Names : DefinitionAt(MainLines, Unskipped, n, 1) = "undefined"
  <2>1. 1 .. 1 - 1 = {}
    OBVIOUS
  <2> QED
    BY <2>1, Zenon DEF DefinitionAt
<1> QED
  BY <1>1, <1>2, <1>3, <1>4, <1>5 DEF GroupsHold, EntriesBehind, StackIsGroups,
     MarksAreLive, TableIsLive, CallIsLive, Undefined

LEMMA AlwaysGroups == Spec => [](TypeOK /\ Placed /\ GroupsInv)
<1>1. TypeOK /\ Placed /\ GroupsInv /\ [Next]_vars => GroupsInv'
  BY GroupsStep
<1> QED
  BY <1>1, GroupsInit, AlwaysPlaced, PTL DEF Spec

(***************************************************************************)
(* In a file without includes that has reported no structural error, run() *)
(* has marked Skipped exactly what the structure of the groups drops:      *)
(* whatever the file's lines are, its conditions, its definitions and the  *)
(* directives that an invocation swallows among them.                      *)
(***************************************************************************)
THEOREM GroupsDecideTheMarks == Spec => []SkipsWhatTheGroupsDrop
<1>1. TypeOK /\ Placed /\ GroupsInv => SkipsWhatTheGroupsDrop
  BY DEF GroupsInv, GroupsHold, MarksAreLive, SkipsWhatTheGroupsDrop, Branching
<1> QED
  BY <1>1, AlwaysGroups, PTL

(***************************************************************************)
(* In such a file the macro table holds, at every moment, what the #define *)
(* and #undef lines read so far that the groups leave in say, and nothing  *)
(* that a dropped line says.                                               *)
(***************************************************************************)
THEOREM LiveLinesDecideTheTable == Spec => []MacrosFollowTheLiveText
<1>1. ASSUME TypeOK, Placed, GroupsInv, Comparable, NEW n \in Names
      PROVE  LET lines   == MainLines
                 holding == Holding(lines, Unskipped)
                 alive   == {p \in DOMAIN lines : IsLive(lines, holding, p)}
             IN macros[n] = DefinitionAt(lines, alive, n, Len(lines) + 1)
  <2> DEFINE lines == MainLines
             holding == Holding(lines, Unskipped)
             alive == {p \in DOMAIN lines : IsLive(lines, holding, p)}
  <2>1. GroupsHold /\ included = {}
    BY <1>1 DEF GroupsInv, Comparable
  <2>2. PICK m \in Nat \ {0} : m = Mark(1)
    BY <1>1, <2>1, MainOnly
  <2>3. /\ DOMAIN lines = 1 .. Len(text[MainPath])
        /\ m <= Len(text[MainPath]) + 1 /\ Len(text[MainPath]) \in Nat
        /\ OnlyTextFrom(lines, m)
        /\ \A i \in DOMAIN out : out[i].pos \in 1 .. m - 1 /\ out[i] \in Entry
    BY <1>1, <2>1, <2>2, LinesShape, MainOnly, TextType DEF GroupsHold
  <2>4. Len(lines) = Len(text[MainPath])
    BY <2>3
  <2>5. ASSUME NEW k \in 1 .. Len(lines)
        PROVE  Changing(lines, alive, n, k) <=>
                 k < m /\ Changing(lines, Unskipped, n, k)
    <3>1. CASE k >= m
      BY <2>3, <2>4, <3>1 DEF OnlyTextFrom, Changing
    <3>2. CASE k < m /\ lines[k].op \in {"define", "undef"}
      <4>1. PICK i \in DOMAIN out : out[i].pos = k
        BY <2>3, <2>4, <3>2 DEF MainLines
      <4>2. \A j \in DOMAIN out : out[j].pos = k =>
              (out[j].skipped = ~IsLive(lines, holding, k))
        BY <2>1, <3>2 DEF GroupsHold, MarksAreLive, Branching
      <4>3. k \in Unskipped <=> IsLive(lines, holding, k)
        BY <4>1, <4>2 DEF Unskipped
      <4> QED
        BY <2>3, <2>4, <3>2, <4>3 DEF Changing
    <3>3. CASE lines[k].op \notin {"define", "undef"}
      BY <3>3 DEF Changing
    <3> QED
      BY <2>2, <3>1, <3>2, <3>3
  <2>6. {k \in 1 .. Len(lines) + 1 - 1 : Changing(lines, alive, n, k)}
          = {k \in 1 .. m - 1 : Changing(lines, Unskipped, n, k)}
    BY <2>2, <2>3, <2>4, <2>5
  <2>7. macros[n] = DefinitionAt(lines, Unskipped, n, m)
    BY <2>1, <2>2 DEF GroupsHold, TableIsLive
  <2>8. PICK L, A, living : L = lines /\ A = Unskipped /\ living = alive
    OBVIOUS
  <2> HIDE DEF lines, holding, alive
  <2>9. {k \in 1 .. Len(L) + 1 - 1 : Changing(L, living, n, k)}
          = {k \in 1 .. m - 1 : Changing(L, A, n, k)}
    BY <2>6, <2>8
  <2>10. DefinitionAt(L, living, n, Len(L) + 1) = DefinitionAt(L, A, n, m)
    BY <2>9, DefinitionBy
  <2> QED
    BY <2>7, <2>8, <2>10 DEF lines, holding, alive
<1>2. TypeOK /\ Placed /\ GroupsInv => MacrosFollowTheLiveText
  BY <1>1 DEF MacrosFollowTheLiveText
<1> QED
  BY <1>2, AlwaysGroups, PTL
=============================================================================
