--------------------------- MODULE CPreprocessor ---------------------------
(***************************************************************************)
(* The directive machine of the C preprocessor: CPreprocessor::run and the *)
(* handlers it calls, over lines instead of tokens.  A source file is a    *)
(* sequence of lines, each one directive, one line of ordinary text, or    *)
(* one line that opens or closes the argument list of a function-like      *)
(* invocation.  What the expansion of a text line yields is the subject of *)
(* MacroExpand; here only its control matters: an invocation may swallow   *)
(* lines, directives included, up to its closing parenthesis.              *)
(*                                                                         *)
(* The files' contents are inputs.  A line is chosen when it is read for   *)
(* the first time and remembered in text, so one behaviour is one set of   *)
(* files and TLC visits all of them.                                       *)
(*                                                                         *)
(* Some operators stand in front of the one they are a broken form of, as  *)
(* TooDeepOffByOne does in front of TooDeep.  The specification does not   *)
(* use them: replacing the operator by its broken form is how each         *)
(* property is shown to notice a bug.                                      *)
(***************************************************************************)
EXTENDS Integers, SequencesExt

CONSTANTS
  Dirs,             \* directories
  HeaderNames,      \* what an #include line can name
  Disk,             \* the paths <<directory, name>> the reader can read
  MainPath,         \* the path of the main file
  IncludeDirs,      \* _include_dirs, a sequence of directories
  CurrentDir,       \* where a relative path without a candidate is looked up
  Names,            \* macro names
  LinesOf,          \* for each file, the lines its 1st, 2nd, ... line can be:
                    \* the bound on its length and contents
  MaxIncludeDepth   \* CPreprocessor::MaxIncludeDepth (200 in the code)

Paths == Disk \cup {MainPath}
NotFound == <<"not", "found">>

Definitions == {"zero", "one", "func"}   \* macro bodies: 0, 1, f(x)
Undefined == "undefined"
Malformed == "malformed"

Tests ==
  [kind : {"defined", "undefined", "value"}, name : Names]
    \cup [kind : {Malformed}, value : BOOLEAN]

(***************************************************************************)
(* One kind of line per case of run().  "once" is #pragma once, "pragma"   *)
(* any other pragma, "null" a lone '#'.  "call" is the text F(, "comma"    *)
(* the text , and "close" the text ).  "eof" ends every file.              *)
(***************************************************************************)
LineType ==
  [op : {"text", "comma", "close", "else", "endif", "once", "pragma",
         "error", "warning", "unknown", "null", "eof", "badinclude"}]
    \cup [op : {"call", "undef"}, name : Names]
    \cup [op : {"define"}, name : Names, def : Definitions \cup {Malformed}]
    \cup [op : {"if", "elif"}, test : Tests]
    \cup [op : {"include"}, name : HeaderNames, angled : BOOLEAN]

Eof == [op |-> "eof"]

ASSUME ConstantsAssumption ==
  /\ Disk \subseteq Dirs \X HeaderNames
  /\ MainPath \in Dirs \X HeaderNames
  /\ IncludeDirs \in Seq(Dirs)
  /\ CurrentDir \in Dirs
  /\ NotFound \notin Dirs \X HeaderNames
  /\ Undefined \notin Definitions
  /\ LinesOf \in [Paths -> Seq(SUBSET LineType)]
  /\ MaxIncludeDepth \in Nat \ {0}

VARIABLES
  text,      \* the lines of each file read so far
  frames,    \* the active run() calls; their paths are _files
  cond,      \* _cond
  macros,    \* _macros
  included,  \* keys of _included
  once,      \* those of them whose once flag is set
  diags,     \* _diags
  out,       \* the vector run() appends to, one entry per line
  call,      \* the argument list collect_arguments is scanning
  done       \* process() has returned

vars == <<text, frames, cond, macros, included, once, diags, out, call, done>>

Positions == Paths \X (Nat \ {0})

Level == [active : BOOLEAN, taken : BOOLEAN, in_else : BOOLEAN,
          opened_at : Positions]

Frame == [file : Paths, pos : Nat \ {0}, depth : Nat]

Codes == {"UnknownDirective", "UnterminatedIf", "UnmatchedEndif",
          "IncludeNotFound", "MalformedDirective", "IncludeTooDeep",
          "MacroRedefined", "UnterminatedArgs", "MacroArity",
          "UserError", "UserWarning"}

Diagnostic == [code : Codes, at : Positions]

Entry == [file : Paths, pos : Nat \ {0}, directive : BOOLEAN,
          skipped : BOOLEAN]

NoCall == [at |-> 0, depth |-> 0, args |-> 0]

TypeOK ==
  /\ text \in [Paths -> Seq(LineType)]
  /\ frames \in Seq(Frame)
  /\ Len(frames) \in 1 .. MaxIncludeDepth
  /\ cond \in Seq(Level)
  /\ macros \in [Names -> Definitions \cup {Undefined}]
  /\ included \subseteq Disk
  /\ once \subseteq included
  /\ diags \in Seq(Diagnostic)
  /\ out \in Seq(Entry)
  /\ call \in {NoCall} \cup [at : Nat \ {0}, depth : Nat \ {0}, args : Nat \ {0}]
  /\ done \in BOOLEAN
-----------------------------------------------------------------------------
Top == Len(frames)
File == frames[Top].file
Pos == frames[Top].pos
Here == <<File, Pos>>

skippingOutermost == cond # <<>> /\ ~cond[1].active
skipping == cond # <<>> /\ ~Last(cond).active

collecting == call.at # 0

(***************************************************************************)
(* The lines the running file can continue with: the one already read, or  *)
(* any line the bound allows.                                              *)
(***************************************************************************)
Upcoming ==
  IF done THEN {}
  ELSE IF Pos <= Len(text[File]) THEN {text[File][Pos]}
  ELSE IF Pos \in DOMAIN LinesOf[File] THEN {Eof} \cup LinesOf[File][Pos]
  ELSE {Eof}

Read(l) ==
  /\ l \in Upcoming
  /\ text' = IF Pos <= Len(text[File]) THEN text
             ELSE [text EXCEPT ![File] = Append(@, l)]

GoTo(p) == frames' = [frames EXCEPT ![Top].pos = p]
Advance == GoTo(Pos + 1)

EntryAt(p, directive, skipped) ==
  [file |-> File, pos |-> p, directive |-> directive, skipped |-> skipped]
Emit(directive, skipped) ==
  out' = Append(out, EntryAt(Pos, directive, skipped))

Diag(code) == [code |-> code, at |-> Here]
Report(code) == diags' = Append(diags, Diag(code))
-----------------------------------------------------------------------------
(***************************************************************************)
(* Ordinary text: marked while skipping, expanded otherwise.               *)
(***************************************************************************)
PlainText(l) ==
  /\ ~collecting
  /\ \/ l.op \in {"text", "comma", "close"}
     \/ l.op = "call" /\ (skipping \/ macros[l.name] # "func")
  /\ Read(l)
  /\ Emit(FALSE, skipping)
  /\ Advance
  /\ UNCHANGED <<cond, macros, included, once, diags, call, done>>

\* expand_into finds a function-like name and the parenthesis behind it.
OpenCall(l) ==
  /\ ~collecting /\ ~skipping
  /\ l.op = "call" /\ macros[l.name] = "func"
  /\ Read(l)
  /\ call' = [at |-> Pos, depth |-> 1, args |-> 1]
  /\ Advance
  /\ UNCHANGED <<cond, macros, included, once, diags, out, done>>

ClosesTooLate(l) == l.op = "close" /\ call.depth = 0
Closes(l) == l.op = "close" /\ call.depth = 1

\* One step of collect_arguments: any line is an argument, a directive too.
CollectArgument(l) ==
  /\ collecting
  /\ l.op # "eof" /\ ~Closes(l)
  /\ Read(l)
  /\ call' = [call EXCEPT
                !.depth = CASE l.op = "call" -> @ + 1
                            [] l.op = "close" -> @ - 1
                            [] OTHER -> @,
                !.args = IF l.op = "comma" /\ call.depth = 1 THEN @ + 1 ELSE @]
  /\ Advance
  /\ UNCHANGED <<cond, macros, included, once, diags, out, done>>

AnyNumberFits == TRUE
ArgumentsFit == call.args = 1   \* the body "func" has one parameter

\* The closing parenthesis: the replacement stands where the name stood.
CompleteCall(l) ==
  /\ collecting
  /\ Closes(l) /\ ArgumentsFit
  /\ Read(l)
  /\ out' = Append(out, EntryAt(call.at, FALSE, FALSE))
  /\ call' = NoCall
  /\ Advance
  /\ UNCHANGED <<cond, macros, included, once, diags, done>>

\* The list is given up: the name is text and the scan resumes behind it, over
\* the lines that were collected, whose directives act now.
GiveUpCall(code) ==
  /\ diags' = Append(diags, [code |-> code, at |-> <<File, call.at>>])
  /\ out' = Append(out, EntryAt(call.at, FALSE, FALSE))
  /\ call' = NoCall
  /\ GoTo(call.at + 1)
  /\ UNCHANGED <<cond, macros, included, once, done>>

\* The list is closed but holds too many arguments.
MacroArity(l) ==
  /\ collecting
  /\ Closes(l) /\ ~ArgumentsFit
  /\ Read(l)
  /\ GiveUpCall("MacroArity")

\* The tokens run out.
UnterminatedCall(l) ==
  /\ collecting
  /\ l.op = "eof"
  /\ Read(l)
  /\ GiveUpCall("UnterminatedArgs")
-----------------------------------------------------------------------------
(***************************************************************************)
(* Conditional directives are handled whether or not the group is dead.    *)
(***************************************************************************)
Evaluate(t) ==
  \/ t.kind = "defined" /\ macros[t.name] # Undefined
  \/ t.kind = "undefined" /\ macros[t.name] = Undefined
  \/ t.kind = "value" /\ macros[t.name] = "one"
  \/ t.kind = Malformed /\ t.value

ReportTest(t) ==
  IF t.kind = Malformed THEN Report("MalformedDirective") ELSE UNCHANGED diags

LevelOf(active, taken) ==
  [active |-> active, taken |-> taken, in_else |-> FALSE, opened_at |-> Here]

DeadLevelRevivable == LevelOf(FALSE, FALSE)
DeadLevel == LevelOf(FALSE, TRUE)

Conditional(l) ==
  /\ ~collecting
  /\ Read(l)
  /\ Emit(TRUE, FALSE)
  /\ Advance
  /\ UNCHANGED <<macros, included, once, call, done>>

OpenDeadIf(l) ==
  /\ l.op = "if" /\ skipping
  /\ Conditional(l)
  /\ cond' = Append(cond, DeadLevel)
  /\ UNCHANGED diags

OpenIf(l) ==
  /\ l.op = "if" /\ ~skipping
  /\ Conditional(l)
  /\ cond' = Append(cond, LevelOf(Evaluate(l.test), Evaluate(l.test)))
  /\ ReportTest(l.test)

UnmatchedNotEndif(l) ==
  /\ l.op \in {"elif", "else"} /\ cond = <<>>
  /\ Conditional(l)
  /\ Report("MalformedDirective")
  /\ UNCHANGED cond
Unmatched(l) ==
  /\ l.op \in {"elif", "else", "endif"} /\ cond = <<>>
  /\ Conditional(l)
  /\ Report(IF l.op = "endif" THEN "UnmatchedEndif" ELSE "MalformedDirective")
  /\ UNCHANGED cond

PopDeadOnly == IF Last(cond).active THEN cond ELSE Front(cond)
PopLevel == Front(cond)
EndIf(l) ==
  /\ l.op = "endif" /\ cond # <<>>
  /\ Conditional(l)
  /\ cond' = PopLevel
  /\ UNCHANGED diags

AfterElse(l) ==
  /\ l.op \in {"elif", "else"} /\ cond # <<>> /\ Last(cond).in_else
  /\ Conditional(l)
  /\ Report("MalformedDirective")
  /\ UNCHANGED cond

SetTop(level) == cond' = [cond EXCEPT ![Len(cond)] = level]

ElseLevelUntaken ==
  [Last(cond) EXCEPT !.in_else = TRUE, !.active = ~Last(cond).taken]
ElseLevel ==
  [Last(cond) EXCEPT !.in_else = TRUE, !.taken = TRUE,
                     !.active = ~Last(cond).taken]
Else(l) ==
  /\ l.op = "else" /\ cond # <<>> /\ ~Last(cond).in_else
  /\ Conditional(l)
  /\ SetTop(ElseLevel)
  /\ UNCHANGED diags

\* A branch was taken before: the condition is not even evaluated.
ElifTaken(l) ==
  /\ l.op = "elif" /\ cond # <<>> /\ ~Last(cond).in_else /\ Last(cond).taken
  /\ Conditional(l)
  /\ SetTop([Last(cond) EXCEPT !.active = FALSE])
  /\ UNCHANGED diags

ElifAnyway(l) ==
  /\ l.op = "elif" /\ cond # <<>> /\ ~Last(cond).in_else
  /\ Conditional(l)
  /\ SetTop([Last(cond) EXCEPT !.active = Evaluate(l.test),
                               !.taken = Evaluate(l.test)])
  /\ ReportTest(l.test)
Elif(l) ==
  /\ l.op = "elif" /\ cond # <<>> /\ ~Last(cond).in_else /\ ~Last(cond).taken
  /\ Conditional(l)
  /\ SetTop([Last(cond) EXCEPT !.active = Evaluate(l.test),
                               !.taken = Evaluate(l.test)])
  /\ ReportTest(l.test)
-----------------------------------------------------------------------------
(***************************************************************************)
(* The other directives act only in a live group.                          *)
(***************************************************************************)
PlainDirectives == {"define", "undef", "include", "badinclude", "once",
                    "pragma", "error", "warning", "unknown", "null"}

DeadDirective(l) ==
  /\ ~collecting /\ skipping
  /\ l.op \in PlainDirectives
  /\ Read(l)
  /\ Emit(TRUE, TRUE)
  /\ Advance
  /\ UNCHANGED <<cond, macros, included, once, diags, call, done>>

LiveDirectiveAnywhere(l, ops) ==
  /\ ~collecting
  /\ l.op \in ops
  /\ Read(l)
  /\ Emit(TRUE, FALSE)
LiveDirective(l, ops) ==
  /\ ~collecting /\ ~skipping
  /\ l.op \in ops
  /\ Read(l)
  /\ Emit(TRUE, FALSE)

\* A definition that differs is reported and replaces the old one anyway.
Define(l) ==
  /\ LiveDirective(l, {"define"})
  /\ Advance
  /\ IF l.def = Malformed
     THEN Report("MalformedDirective") /\ UNCHANGED macros
     ELSE /\ macros' = [macros EXCEPT ![l.name] = l.def]
          /\ IF macros[l.name] \in {Undefined, l.def}
             THEN UNCHANGED diags
             ELSE Report("MacroRedefined")
  /\ UNCHANGED <<cond, included, once, call, done>>

Undef(l) ==
  /\ LiveDirective(l, {"undef"})
  /\ Advance
  /\ macros' = [macros EXCEPT ![l.name] = Undefined]
  /\ UNCHANGED <<cond, included, once, diags, call, done>>

\* handle_pragma: the running file is marked if the cache holds it.
OnceFileOutermost == frames[1].file
OnceFile == File
PragmaOnce(l) ==
  /\ LiveDirective(l, {"once"})
  /\ Advance
  /\ once' = once \cup ({OnceFile} \cap included)
  /\ UNCHANGED <<cond, macros, included, diags, call, done>>

SilentDirective(l) ==
  /\ LiveDirective(l, {"pragma", "null"})
  /\ Advance
  /\ UNCHANGED <<cond, macros, included, once, diags, call, done>>

Message(l) ==
  /\ LiveDirective(l, {"error", "warning", "unknown"})
  /\ Advance
  /\ Report(CASE l.op = "error"   -> "UserError"
              [] l.op = "warning" -> "UserWarning"
              [] l.op = "unknown" -> "UnknownDirective")
  /\ UNCHANGED <<cond, macros, included, once, call, done>>
-----------------------------------------------------------------------------
(***************************************************************************)
(* #include.                                                               *)
(***************************************************************************)
Candidates(l) ==
  LET beside == IF l.angled THEN <<>> ELSE << <<File[1], l.name>> >>
      listed == [i \in DOMAIN IncludeDirs |-> <<IncludeDirs[i], l.name>>]
      both   == beside \o listed
  IN IF both = <<>> THEN << <<CurrentDir, l.name>> >> ELSE both

\* A candidate counts when it is cached or can be read; the first one wins.
find_header(l) ==
  LET hits == {i \in DOMAIN Candidates(l) :
                 Candidates(l)[i] \in included \cup Disk}
  IN IF hits = {} THEN NotFound
     ELSE Candidates(l)[CHOOSE i \in hits : \A j \in hits : i <= j]

IncludeLine(l) ==
  /\ LiveDirective(l, {"include"})
  /\ UNCHANGED <<cond, macros, once, call, done>>

FailInclude(code) ==
  /\ Report(code)
  /\ Advance
  /\ UNCHANGED included

BadInclude(l) ==
  /\ LiveDirective(l, {"badinclude"})
  /\ FailInclude("MalformedDirective")
  /\ UNCHANGED <<cond, macros, once, call, done>>

TooDeepOffByOne == Top > MaxIncludeDepth
TooDeep == Top >= MaxIncludeDepth
IncludeTooDeep(l) ==
  /\ IncludeLine(l)
  /\ TooDeep
  /\ FailInclude("IncludeTooDeep")

IncludeNotFound(l) ==
  /\ IncludeLine(l)
  /\ ~TooDeep /\ find_header(l) = NotFound
  /\ FailInclude("IncludeNotFound")

IncludeOnceAgain(l) ==
  /\ IncludeLine(l)
  /\ ~TooDeep /\ find_header(l) \in once
  /\ Advance
  /\ UNCHANGED <<included, diags>>

FrameOf(f) == [file |-> f, pos |-> 1, depth |-> Len(cond)]

EnterInclude(l) ==
  /\ IncludeLine(l)
  /\ ~TooDeep
  /\ find_header(l) # NotFound /\ find_header(l) \notin once
  /\ included' = included \cup {find_header(l)}
  /\ frames' = Append([frames EXCEPT ![Top].pos = @ + 1],
                      FrameOf(find_header(l)))
  /\ UNCHANGED diags

\* run() of a header returns: what it left open is reported and dropped.
BalancedCond == SubSeq(cond, 1, frames[Top].depth)
LeaveInclude(l) ==
  /\ ~collecting
  /\ l.op = "eof" /\ Top > 1
  /\ Read(l)
  /\ frames' = Front(frames)
  /\ IF Len(cond) > frames[Top].depth
     THEN /\ diags' = Append(diags,
                        [code |-> "UnterminatedIf",
                         at |-> cond[frames[Top].depth + 1].opened_at])
          /\ cond' = BalancedCond
     ELSE UNCHANGED <<diags, cond>>
  /\ UNCHANGED <<macros, included, once, out, call, done>>

\* run() of the main file returns and so does process().
Finish(l) ==
  /\ ~collecting
  /\ l.op = "eof" /\ Top = 1
  /\ Read(l)
  /\ diags' = IF cond = <<>> THEN diags
              ELSE Append(diags, [code |-> "UnterminatedIf",
                                  at |-> cond[1].opened_at])
  /\ done' = TRUE
  /\ UNCHANGED <<frames, cond, macros, included, once, out, call>>
-----------------------------------------------------------------------------
Init ==
  /\ text = [f \in Paths |-> <<>>]
  /\ frames = << [file |-> MainPath, pos |-> 1, depth |-> 0] >>
  /\ cond = <<>>
  /\ macros = [n \in Names |-> Undefined]
  /\ included = {}
  /\ once = {}
  /\ diags = <<>>
  /\ out = <<>>
  /\ call = NoCall
  /\ done = FALSE

Process ==
  \/ \E l \in Upcoming : PlainText(l)
  \/ \E l \in Upcoming : OpenCall(l)
  \/ \E l \in Upcoming : CollectArgument(l)
  \/ \E l \in Upcoming : CompleteCall(l)
  \/ \E l \in Upcoming : MacroArity(l)
  \/ \E l \in Upcoming : UnterminatedCall(l)
  \/ \E l \in Upcoming : OpenDeadIf(l)
  \/ \E l \in Upcoming : OpenIf(l)
  \/ \E l \in Upcoming : Unmatched(l)
  \/ \E l \in Upcoming : EndIf(l)
  \/ \E l \in Upcoming : AfterElse(l)
  \/ \E l \in Upcoming : Else(l)
  \/ \E l \in Upcoming : ElifTaken(l)
  \/ \E l \in Upcoming : Elif(l)
  \/ \E l \in Upcoming : DeadDirective(l)
  \/ \E l \in Upcoming : Define(l)
  \/ \E l \in Upcoming : Undef(l)
  \/ \E l \in Upcoming : PragmaOnce(l)
  \/ \E l \in Upcoming : SilentDirective(l)
  \/ \E l \in Upcoming : Message(l)
  \/ \E l \in Upcoming : BadInclude(l)
  \/ \E l \in Upcoming : IncludeTooDeep(l)
  \/ \E l \in Upcoming : IncludeNotFound(l)
  \/ \E l \in Upcoming : IncludeOnceAgain(l)
  \/ \E l \in Upcoming : EnterInclude(l)
  \/ \E l \in Upcoming : LeaveInclude(l)
  \/ \E l \in Upcoming : Finish(l)

\* process() has returned and nothing more happens.
Returned == done /\ UNCHANGED vars

Next == Process \/ Returned

Spec == Init /\ [][Next]_vars /\ WF_vars(Process)
=============================================================================
