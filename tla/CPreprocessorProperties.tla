---------------------- MODULE CPreprocessorProperties ----------------------
(***************************************************************************)
(* What the directive machine of CPreprocessor promises.                   *)
(***************************************************************************)
EXTENDS CPreprocessor, ConditionalGroups

StructuralCodes ==
  {"UnterminatedIf", "UnmatchedEndif", "MalformedDirective"}
Faultless == \A i \in DOMAIN diags : diags[i].code \notin StructuralCodes

(***************************************************************************)
(* skipping() looks at the innermost level only.  That decides for the     *)
(* whole stack because every level above a dead one is dead as well and    *)
(* counts as taken, so that no #elif or #else of it can revive it.         *)
(***************************************************************************)
DeadBelowDead ==
  \A i, j \in DOMAIN cond :
    i < j /\ ~cond[i].active => ~cond[j].active /\ cond[j].taken

\* An active branch is a taken one, so at most one branch of a group lives.
LevelsConsistent ==
  \A i \in DOMAIN cond : cond[i].active \/ cond[i].in_else => cond[i].taken

(***************************************************************************)
(* The main file as the groups see it: a line that is not put out, because *)
(* it is yet to come or an invocation swallowed it as an argument, is      *)
(* text, whatever it looks like.                                           *)
(***************************************************************************)
MainLines == [p \in DOMAIN text[MainPath] |->
                IF \E i \in DOMAIN out : out[i].pos = p
                THEN text[MainPath][p] ELSE [op |-> "text"]]

\* The lines of it that were put out without the mark Skipped.
Unskipped == {out[i].pos : i \in {k \in DOMAIN out : ~out[k].skipped}}

(***************************************************************************)
(* The definition of name n in force in front of line i when the lines in  *)
(* alive count, and the #if and #elif lines whose condition this makes     *)
(* hold.                                                                   *)
(***************************************************************************)
DefinitionAt(lines, alive, n, i) ==
  LET changes == {k \in 1 .. i - 1 : /\ k \in alive
                                     /\ lines[k].op \in {"define", "undef"}
                                     /\ lines[k].name = n}
  IN IF changes = {} \/ lines[Max(changes)].op = "undef" THEN "undefined"
     ELSE lines[Max(changes)].def

TestHolds(lines, alive, b) ==
  LET t == lines[b].test
      d == DefinitionAt(lines, alive, t.name, b)
  IN \/ t.kind = "defined" /\ d # "undefined"
     \/ t.kind = "undefined" /\ d = "undefined"
     \/ t.kind = "value" /\ d = "one"

Holding(lines, alive) ==
  {b \in DOMAIN lines : lines[b].op \in {"if", "elif"} /\ TestHolds(lines, alive, b)}

(***************************************************************************)
(* run() keeps exactly the lines the standard's reading of the groups      *)
(* keeps: each line of the main file it has put out is marked Skipped if   *)
(* and only if it is in a branch that is not taken (conditional            *)
(* directives delimit a group and stay unmarked).  The conditions are      *)
(* those that the #define and #undef lines without the mark decide; since  *)
(* a condition looks at the lines in front of it only, that is, line by    *)
(* line, what the groups themselves leave in.  For a file without          *)
(* includes, as long as no structural error is reported.                   *)
(***************************************************************************)
Comparable == Faultless /\ included = {}

SkipsWhatTheGroupsDrop ==
  LET lines   == MainLines
      holding == Holding(lines, Unskipped)
  IN Comparable =>
       \A i \in DOMAIN out :
         lines[out[i].pos].op \notin {"if", "elif", "else", "endif"} =>
           out[i].skipped = ~IsLive(lines, holding, out[i].pos)

(***************************************************************************)
(* And it defines what the live lines define: the macro table is what the  *)
(* last #define or #undef of each name that is left in says, redefinitions *)
(* included.                                                               *)
(***************************************************************************)
MacrosFollowTheLiveText ==
  LET lines   == MainLines
      holding == Holding(lines, Unskipped)
      alive   == {p \in DOMAIN lines : IsLive(lines, holding, p)}
  IN Comparable =>
       \A n \in Names :
         macros[n] = DefinitionAt(lines, alive, n, Len(lines) + 1)

(***************************************************************************)
(* A group has one live branch: a branch that was taken and left never     *)
(* lives again, nor does any branch of a group opened inside a dead one,   *)
(* whatever #elif, #else and #endif follow.                                *)
(***************************************************************************)
NoSecondBranch ==
  [][\A i \in DOMAIN cond \cap DOMAIN cond' :
       cond'[i].active /\ ~cond[i].active => ~cond[i].taken]_vars

(***************************************************************************)
(* #pragma once: a header that starts with it puts out its lines at most   *)
(* once, whoever includes it, itself included.                             *)
(***************************************************************************)
OnceRunsOnce ==
  \A f \in included \ {MainPath} :
    Len(text[f]) > 0 /\ text[f][1].op = "once" =>
      \A i, j \in DOMAIN out :
        out[i].file = f /\ out[j] = out[i] => i = j

(***************************************************************************)
(* An include guard works as #pragma once does: when a header is all one   *)
(* #ifndef G ... #endif group that first defines G, and no #undef occurs,  *)
(* the lines inside are live at most once.                                 *)
(***************************************************************************)
Guarded(f) ==
  LET lines == text[f] IN
  /\ Len(lines) > 3
  /\ lines[1].op = "if" /\ lines[1].test.kind = "undefined"
  /\ lines[2].op = "define" /\ lines[2].def # Malformed
  /\ lines[2].name = lines[1].test.name
  /\ lines[Len(lines)].op = "eof" /\ lines[Len(lines) - 1].op = "endif"
  /\ \A i \in 2 .. Len(lines) - 2 :
       lines[i].op \notin {"if", "elif", "else", "endif", "call"}

NoUndef == \A f \in Paths : \A i \in DOMAIN text[f] : text[f][i].op # "undef"

GuardRunsOnce ==
  NoUndef =>
    \A f \in included \ {MainPath} :
      Guarded(f) =>
        \A i, j \in DOMAIN out :
          /\ out[i].file = f /\ out[i].pos \in 2 .. Len(text[f]) - 2
          /\ ~out[i].skipped
          /\ out[j] = out[i]
          => i = j

(***************************************************************************)
(* Across all the files that ran, the #if and #endif lines put out account *)
(* for the levels on the stack: as long as nothing structural is reported, *)
(* one level per #if that has no #endif yet.  In particular process() ends *)
(* without a structural error only on a stream that is balanced.           *)
(***************************************************************************)
Emitted(op) ==
  {i \in DOMAIN out : /\ out[i].directive
                      /\ text[out[i].file][out[i].pos].op = op}

StackCountsOpenGroups ==
  Faultless =>
    /\ Len(cond) = Cardinality(Emitted("if")) - Cardinality(Emitted("endif"))
    /\ done => cond = <<>>

(***************************************************************************)
(* How many parentheses are open behind line k of an argument list that    *)
(* begins at line from.                                                    *)
(***************************************************************************)
LinesWith(lines, op, from, k) == {j \in from .. k : lines[j].op = op}

OpenParens(lines, from, k) ==
  Cardinality(LinesWith(lines, "call", from, k))
    - Cardinality(LinesWith(lines, "close", from, k))

(***************************************************************************)
(* Lines from .. to - 1 are an invocation with one argument: to - 1 closes *)
(* the parenthesis that from opened, and no comma stands at its level.     *)
(***************************************************************************)
WithinArgument(lines, from, k) ==
  /\ OpenParens(lines, from, k) > 0
  /\ lines[k].op = "comma" => OpenParens(lines, from, k) > 1

Invocation(lines, from, to) ==
  /\ to > from + 1
  /\ lines[from].op = "call"
  /\ \A k \in from .. to - 2 : WithinArgument(lines, from, k)
  /\ OpenParens(lines, from, to - 1) = 0

(***************************************************************************)
(* Nothing is lost: the lines of the main file come out in order and every *)
(* one of them comes out, once, unless it is part of a complete invocation *)
(* with the number of arguments the macro has.  In particular the lines of *)
(* a list that never closes, or closes with too many arguments, come out   *)
(* after all (Preprocessor.cpp:277, 288), and what headers put out in      *)
(* between changes nothing.  For a main file that no header includes.      *)
(***************************************************************************)
Entries(f) == {i \in DOMAIN out : out[i].file = f}

\* The line the d-th run() puts out next: the one that began a call first.
Mark(d) == IF collecting /\ d = Top THEN call.at ELSE frames[d].pos

Follows(from, to) == to = from + 1 \/ Invocation(text[MainPath], from, to)

\* Line p of the main file is due when i entries have been put out.
Due(p, i) ==
  LET before == {k \in Entries(MainPath) : k <= i}
  IN \/ before = {} /\ p = 1
     \/ \E last \in before : /\ \A k \in before : k <= last
                             /\ Follows(out[last].pos, p)

MainFileComesOutInOrder ==
  MainPath \notin included =>
    /\ \A i \in Entries(MainPath) : Due(out[i].pos, i - 1)
    /\ Due(Mark(1), Len(out))

(***************************************************************************)
(* process() returns, whatever the files hold: an include cycle is cut at  *)
(* MaxIncludeDepth, and an unterminated argument list is rescanned only    *)
(* past the name that began it.                                            *)
(***************************************************************************)
Termination == <>done

(***************************************************************************)
(* Preprocessor_include_impl.cpp says that a conditional has to be         *)
(* balanced inside the file that opened it, and the test                   *)
(* UnbalancedConditionalDoesNotEscapeTheHeader that a header's conditional *)
(* does not reach the includer.  Hence a header never pops a level that    *)
(* was open when it was entered.                                           *)
(***************************************************************************)
HeaderKeepsIncludersLevels ==
  \A i \in DOMAIN frames : Len(cond) >= frames[i].depth
=============================================================================
