# A TLA+ model of Zaban

Zaban is a C++ front end for two languages, C and Z. This directory holds TLA+
modules translated from its code, TLC configurations that check them on small
instances, and theorems checked by TLAPS. `PROJECT.json` names the runs, the
broken forms each property has been shown to notice, the source lines every
definition models, the hazards, and the theorems.

Modelled are both lexers, both preprocessors (of the C one the directive
machine, macro expansion, hide sets, `#if` expressions and source offsets), and
the C parser.
The Z parser is not; "What is not modelled" says what else is left out.

## The system

The source names below are relative to `src/lib/Z/Zaban/Langs` and
`src/include/Z/Zaban`. Everything is sequential: no threads, no shared state
between objects. What is hard is state carried over long sequences of steps
(from directive to directive, from file to file, from chunk to chunk), recursion
that has to end, and error paths that leave state half changed.

| Component | State | Operations | Hard part | What makes it correct |
|---|---|---|---|---|
| C lexer (`CLang/Lexer.cpp`) | buffer position, pending flags, tokens | `scan` a chunk, `concat` two chunks, `repair` an open literal or comment, `merge_double_tokens`, `finalize` | chunks are scanned apart and joined; a split can fall anywhere | the tokens of joined chunks are those of one scan |
| Z lexer (`ZLang/Lexer*.cpp`) | position, lexer state, tokens | `scan`, `scan_fix` (resume), `concat`, `merge`, `finalize` | the state a chunk ends in is handed to the next scan | the same, and no token lost |
| C preprocessor (`CLang/Preprocessor*.cpp`) | macros, conditional stack, include stack and cache, diagnostics, hide sets, source offsets | `process`; `run` over one file; a handler per directive; `expand_into` | nesting of conditionals, includes and expansions in one another | below |
| `HideSetTable` (`PreProcess/HideSet.hpp`) | interned sets and their index | `add`, `merge`, `intersect`, `contains` | ids outlive the table they were made in | an id means one set for ever |
| `PpSources` (`CLang/Preprocessor.hpp`) | buffers end to end in one offset space | `add`, `whole`, `text`, `name` | binary search, ranges that leave their buffer | an offset finds the buffer that owns it |
| `CondEval` (`CLang/Preprocessor_cond_impl.cpp`) | position in the terms of an `#if` line, whether the operand is live | precedence climbing over `intmax_t`/`uintmax_t` | overflow, signedness, errors in dead operands | the value C gives the expression |
| Z preprocessor (`ZLang/Preprocessor.cpp`) | conditional stack, diagnostics | `process`; `#if` on configuration keys | as for the C conditionals | marks exactly the dropped branches |
| Token stream (`Parse/TokenStream.hpp`) | tokens, offset | `peek`, `match`, `advance` | none | |
| C parser (`CLang/Parser*.cpp`) | stream, loop depth, diagnostics | recursive descent, `synchronize*` | progress of error recovery | `parse` returns |
| Z parser (`ZLang/Parser*.cpp`) | stream | recursive descent | progress of `parse` | `parse` returns |
| AST, diagnostics, character classes | values | none | none | |

The lexer of a language turns chunks into one token vector, its preprocessor
marks and expands that vector (the C one calls the lexer again for every
header, paste and computed string, at a base in `PpSources`), and its parser
reads the result through a token stream.

## The modules

### The directive machine: `CPreprocessor`

`CPreprocessor::run` over *lines*. A file is a sequence of lines, each one
directive, one line of text, or one line of an invocation, which opens an argument
list, has a comma of it, or closes it. A malformed directive (a bad `#define`, which the code reports
under four codes, or a bad `#include`) is one form of its line. What
an ordinary line expands to is left to `MacroExpand`; what expansion means for
*control* is kept: once `expand_into` meets a function-like name and a
parenthesis, `collect_arguments` takes every following line as an argument,
directives too, up to the closing parenthesis or the end of the file. If the list closes
with as many arguments as the macro takes, its lines are gone (`CompleteCall`). If it
closes with another number, or never, the call is given up (`MacroArity`,
`UnterminatedCall`): the name is put out as it is and the run goes on behind it, so the lines
are read again, and the directives among them act.

The one macro that takes arguments has one parameter, and only the lines of an invocation
hold parentheses and commas. That `F()` is no argument of a macro
without parameters, the calls within an argument, and the text of a replacement are
`MacroExpand`'s; so a call within an argument has no diagnostic here.

| Variable | In the code |
|---|---|
| `text` | the tokens `in` of the main file and of each cached header (`IncludeFile::tokens`) |
| `frames` | the active calls of `run`: `_files` is its sequence of files, `depth` is `handle_include`'s local |
| `cond` | `_cond` |
| `macros` | `_macros`, bodies reduced to `0`, `1` and `f(x)` |
| `included`, `once` | keys of `_included`, and those with the `once` flag |
| `diags` | `_diags`: code and place |
| `out` | what `run` appends, one entry per line, with the Skipped and DirectiveLine marks |
| `call` | where the argument list being collected began, and `depth` and the size of `out` in `collect_arguments` |
| `done` | `process` has returned |

Each handler and each of its early returns is an action: `OpenIf`, `OpenDeadIf`,
`Unmatched`, `EndIf`, `AfterElse`, `Else`, `ElifTaken`, `Elif` are
`handle_conditional`; `BadInclude`, `IncludeTooDeep`, `IncludeNotFound`,
`IncludeOnceAgain`, `EnterInclude` and `LeaveInclude` are `handle_include` before
and after its call of `run`; and so on.

The files are inputs. A line is chosen when it is first read and remembered in
`text`, so each behaviour is one set of files and TLC visits every set the
bounds allow, without enumerating them in the initial states.

`ConditionalGroups` says which lines of a file are live, by the structure of
the text as the C standard does, with no stack. Which conditions hold is a
parameter of its operators. It is the reference that `CPreprocessorProperties`
compares the machine with, for a main file that includes nothing. There a
condition holds if the `#define` and `#undef` lines in front of it that came out
unmarked make it hold (`Holding`): it is decided by earlier lines only, so that, line by
line, these are the lines that the groups themselves leave in.

* `SkipsWhatTheGroupsDrop`: a line of the main file is marked Skipped exactly if
  its group's structure drops it;
* `MacrosFollowTheLiveText`: the macro table is what the last live `#define` or
  `#undef` of each name says;
* `DeadBelowDead`, `LevelsConsistent`, `NoSecondBranch`: why a glance at the
  innermost level is enough, and why a group has at most one live branch;
* `OnceRunsOnce`, `GuardRunsOnce`: `#pragma once` and include guards, also in
  files that include themselves;
* `StackCountsOpenGroups`: without a structural diagnostic the stack accounts
  for every `#if` and `#endif` put out by any file;
* `MainFileComesOutInOrder`: the lines of a main file that no header includes come
  out in order, none is lost or repeated, except those within a complete invocation: a
  list of lines that by its parentheses and commas has as many arguments as the
  macro takes. A list that is given up, for either reason, swallows nothing;
* `Termination`: `process` returns.

### Macro expansion: `HideSetTable`, `MacroExpand`

`HideSetTable` has the operations of the class as functions from a table to a
table and an id, because one step of the expansion applies several of them.

`MacroExpand` turns the recursion of `expand_into` into a stack of frames: the
text, an argument being expanded on its own, or a replacement being rescanned.
A token is a symbol and a hide set's id. A step is one round of a loop of the
code, so that it asks the hide set table at most once:

* `BeginCall` or `ExpandObject` begins an invocation; `Copy`, `UnterminatedArgs`
  and `MacroArity` are the early returns;
* `ExpandArgument` and `ArgumentExpanded` are the recursion into one argument;
* `Stringize`, `PasteNothing`, `PasteOntoNothing`, `paste`, `InvalidPaste`,
  `SubstituteParam` and `SubstituteToken` are the branches of a round of
  `substitute`, with `out` and the placemarker flag in `repl`;
* `HideCommon` and `HideName` compute the hide set `hs`, `Paint` merges it into one
  token of the replacement;
* `Rescan` and `Rescanned` are the recursion into the replacement.

Which pairs of symbols paste to which symbol is the parameter `Glue`; in the
code the lexer decides. Spellings, offsets and spacing flags are left out.

`MacroExpandProperties`:

* `HidesCoverStack`: all tokens of every loop nested in the rescan of a macro,
  arguments and pasted tokens included, hide that macro;
* `NoMacroWithinItself`: hence no macro is rescanned within its own rescan, and
  the recursion is no deeper than there are macros;
* `ReplacementIsStandard`: the one pass of `substitute` with its placemarker flag
  gives what the standard's three passes over placemarkers give;
* `ObjectsExpandByNesting`: for object-like macros the final text is the one in
  which a name is replaced unless it occurs within its own replacement;
* `IdsKeepTheirMeaning`: an id never comes to mean another set;
* `Termination`: `expand_into` returns whatever the macros are.

### The Z preprocessor: `ZPreprocessor`, `ZCondition`

`ZPreprocessor` is `ZPreprocessor::run` over lines, again with one action per
handler and early return. It deletes nothing, so `text` and `out` run in
step. `cond` is `_cond` with a level's flags as the set `CondState` encodes;
`diags` and `out` are what the running call of `process` adds, and `CallAgain` is
the next call on the same object, whose `_cond` is what the last one left.

`ZCondition` is `CondEval`. Its methods are operators that call each other
through the recursive function `parse`, from the method and the cursor it is
entered at to the cursor, the value and the failure it leaves. The loops of
`parse_or` and `parse_and` are written as recursion to the right, which leaves
the same cursor and the same value. `ZPreprocessor` knows a condition by
what `eval_condition` makes of it, the parameter `Outcome`; `MCZPreprocessor` puts
`ZCondition` there.

* `MarksWhatTheGroupsDrop`: text is marked Skipped exactly if `ConditionalGroups`
  drops it, also in files with unmatched directives, and on every call;
* `ReportsWhatTheStructureCalls`: each diagnostic follows from the structure of
  the text and each is there: unmatched closers, unterminated groups, unknown
  directives in live text, and bad conditions where they are evaluated;
* `ConditionsMeanTheirGrammar`: `eval_condition` has a value exactly for the
  conditions that the grammar in the code's comments derives over known keys,
  and that value;
* `DeadBelowDead`, `LevelsConsistent`, `NoSecondBranch`: as in C.

Both comparisons with the groups leave out files with a directive after `#else`
in its group, which the code reports as `ElseAfterElse` and otherwise ignores.

### `#if` expressions: `CCondition`

`CCondition` is `eval_condition` in its four steps: an empty line, `apply_defined`,
the expansion, and `CondEval`, whose methods are the fields of one recursive
function `eval`. Its loops (`or_loop`, `and_loop`, `binary_loop`) are recursion
behind an operand. `_live` is an argument, because every method restores it.
Words have `IntWidth` bits and characters `CharWidth`. Macros without
parameters are enough here, since `MacroExpand` models the rest.

The reference in `CConditionProperties` is not a parser: `Trees` relates the spans
of a line to the trees that C's grammar gives them, and `Meaning` computes in mathematical
integers, saying where C defines no value.

* `ValuesAreC`: the value returned is C's, wherever C defines one;
* `ErrorsOnlyWhereLive`: a line is reported exactly if it is outside the grammar
  or divides by zero in an operand that is evaluated.

### Source offsets: `PpSources`

Every header and every token made by `#` or `##` is a buffer of its own, and a
token is a range in the one space of offsets they share. `entries` and `next`
are the members, `lo` and `hi` the locals of `find`, whose loop is the action
`Halve`, and `line` holds the tokens that `text` is asked about: one
(`spelling`), or a first and a last (`read_header_name`, `handle_message`).
Offsets wrap at `SizeMod`. What `text` does for ranges within a buffer and over
two is proved (below); `NamesAreBetweenTheirBrackets` is violated.

### The C lexer: `CScan`, `CLexer`

A source is cut into chunks, a lexer scans each, in any order, and the first
takes the others in from the left. `CScan` is `scan` of one buffer, with one
operator per `lex_` and `skip_` method, and `merge_double_tokens`; it threads a
record of the position, the tokens, the pending flags and the diagnostics.
`CLexer` has `concat` (with `handle_split_cmt_opener`, `repair` and the
functions that look for the close in the next chunk) and `finalize`. A literal
or comment that a chunk leaves open is a token of kind `StringOpen`, `CharOpen`,
`BlockCommentOpen` or `LineCommentOpen`, as in the code.

| Variable | In the code |
|---|---|
| `source`, `chunks` | the text, and each lexer's `_buffer` and base |
| `lexers` | `_tokens` and the diagnostics of each lexer, empty before its scan |
| `joined` | how many chunks the first lexer's `concat` has taken in |
| `output` | what `finalize` returned |

`CLexerProperties` defines C's translation phases over the whole source: splices
are deleted, then each lexeme is the longest one.

* `TokensAreC`: the tokens are C's, of a source in one chunk, splices included, and of
  a source without splices that is cut at the starts of lines;
* `BadLexemesAreReported`: a source in one chunk has an error exactly if it holds a
  character that begins no token or an unclosed literal or comment;
* `LineStartsAreMarked`: the flag that makes a `#` a directive is on the first
  token of each line and on no other. Of sources in one chunk, and of those cut at line
  starts but for the first token of each later chunk;
* `SeamsAreClean`: a correct source without splices has no error after a cut in two, and
  its end is where it was, but for three places.

Whole sources are compared with their splices, cut ones without: the lexers of
two chunks do not touch over a splice, so an operator cut there (`+`, splice,
`=`) stays in two.

Each claim leaves out the sources for which the code does not keep it. Where these are cuts, the
code differs from its own documents: the comment at `LexerTest.cpp:81` says that
"Arbitrary splits must never produce a diagnostic or lose bytes", and the one at
`LexerTest.cpp:351` of a split at an arbitrary point that it "does not change the token
stream".

* A cut behind a backslash of a literal, in front of its quote or another backslash
  (`CutInEscape`). A string that holds one escaped quote, cut between the two characters of
  the escape, ends in `ErrorUnterminatedString`. `peek()` answers nothing at a
  buffer's last backslash (`Lexer.cpp:1027`), so `lex_string` leaves its loop before
  it can set `DanglingEscape`, and the scan of the right-hand side (`Lexer.cpp:436`) takes the
  escaped quote for the close. Of two backslashes the second one gets the flag, which
  escapes nothing. The comments at `Lexer.cpp:318` and `420` say otherwise.
* A cut within the opener of a comment that goes on with `*/`, such as `/` and
  `*/ x */` (`CutInOpener`): the star that opens it closes it, which
  `Lexer.hpp:130` says is rejected.
* A cut between two dots of a number (`CutInNumber`): the dots are fused and reported.
* A cut within a line can change the tokens (the comment at `LexerTest.cpp:82` leaves that
  open), the pending `AtLineStart` of a chunk is dropped with it (`Lexer.cpp:183`), so that the
  first token of a later chunk lacks it (`FirstOfItsChunk`), and a third chunk's
  comment end is looked for with the first one's buffer. So `TokensAreC` and
  `LineStartsAreMarked` speak of cuts at line starts only.

The others are spellings that the code reads in a way of its own, cut or not:

* rows of dots other than one dot or C's ellipsis, which are fused in pairs and
  reported as `..` (`DotsFuse`);
* `>>==` and `<<==`; a `#` beside the digraph `%:`, with which it fuses into `##`; a
  word in front of a fraction (`a.1`); a sign behind an exponent that an underscore of
  the number precedes, since `lex_number` stops at the underscore (`Munchable`);
* a backslash at the very start, and one that a splice leaves in front of a line end (`Tidy`).

### The Z lexer: `ZScan`, `ZLexer`

The Z lexer carries a state instead of repairing: a buffer ends in one of
`ZLexerInternalState`, and `concat` scans the right-hand text again from that
state (`Resumed`). `ZScan` is `scan`, `scan_impl` and `scan_fix`, with
`continue_identifier`, `continue_string`, `continue_block_comment` and
`continue_number`. The table `Continuations` holds the states that a number goes
through. `ZLexer` is `concat` with its three merges, and `finalize`.

The reference in `ZLexerProperties` takes the longest lexeme at each place of
the whole source.

* `TokensAreZ`: a source in one buffer yields its lexemes;
* `SeamsKeepLexemes`: a string or a comment over several buffers keeps its range,
  words and numbers are put together, nothing is lost or read twice;
* `FaultsAreReportedOnce`: each fault has one diagnostic, although a buffer may be
  scanned twice;
* `SplitsBetweenTokensAreInvisible`: violated, see below.

Left out of the comparison, as above: a number with a radix that is followed
by a blank (dropped) or by anything that ends it badly (the scan stops); `0e1` and
`1e5+3`; `*` and `/`, or `/` and `*`, on either side of a seam; an escape cut in two; a line
comment at a buffer's end; an unfinished number that the next buffer would
finish; a keyword cut in two, over two seams. `Tidy` and `CutKindly` name them.

### The C parser: `TokenStream`, `CParserCore`, `CExpressions`, `CDeclarations`, `CStatements`, `CParser`

A parser's method is an operator from the state it is entered in (cursor,
diagnostics, loop depth, tree so far) to the one it leaves. All of them are
fields of one recursive function `parse` in `CParser`, and the operators take it as a parameter,
so that each stands in the module of its source file. A method that only
calls others in turn, with an early return on `nullptr` after each, is a sequence
of steps (`Run`). `CParserCore` has `expect`, `report` and the recoveries `synchronize`,
`synchronize_record_member` and `synchronize_enumerator`.

The tree is written in postfix order, a label for each node, so that the
properties can read it back. Names, literals and ranges are left out. The actions are the
two paths of the loop in `CParser::parse`: `parse_globals`, where a global may
turn out well or not, and `skip_broken_global`.

`CParserProperties` reads the tree the other way: `Spell` writes it out as
tokens, with the parentheses that C's precedence demands, or fails if a child
binds too weakly for its place.

* `TreesSpellTheUnit`: a unit without diagnostics is spelled by its trees, token for
  token: no token is lost, and every declarator, operator and `else` belongs
  where C says. What the tree does not keep is left out of the comparison: type
  qualifiers, the `void` of an empty parameter list, a comma in front of
  `}`, a second pair of parentheses around a declarator;
* `AcceptsSentences`: correct C is accepted;
* `BrokenGlobalsAreReported`: each global that cannot be read adds a diagnostic, and
  behind every global, whatever errors are in it, the loop depth is back to 0;
* `LastGlobalSurvives`: however a global is broken, a well-formed one behind it
  is found, if the braces in front of it are balanced and it follows a `;` or
  the `}` of a function;
* `Termination`: `parse` returns;
* `NoGlobalFromABody`: violated, see below.

Some operators in the modules that model code stand in
front of the operator they are a broken form of (`TooDeepOffByOne` in front of
`TooDeep`). No specification uses them; putting the broken form in the
operator's place makes the run find the property of `PROJECT.json`'s `mutants`
violated, which shows that the property can fail.

## What is checked

| Run | Instance | Distinct states |
|---|---|---|
| `c_preprocessor_groups` | every main file of up to 6 lines: the first defines or is an `#if`, well-formed or not, the others are any of 11 (text, two definitions, `#undef`, `#if`, `#elif`, `#else`, `#endif`, and the opening, a comma and the closing of an argument list), the last one no definition and no comma | 1 311 399 |
| `c_preprocessor_includes` | main and the headers a and b, with up to 3, 4 and 2 lines; each can include the others and itself; depth limit 3 instead of 200 | 410 529 |
| `c_preprocessor_balance` | the same files | stops at the violation |
| `macro_expand` | see below | 368 759 |
| `z_preprocessor` | see below | 419 460 |
| `c_condition` | words of 4 bits; see below | 68 506 |
| `c_lexer` | see below | 224 310 |
| `pp_sources_names` | buffers of one to three characters, lines of two tokens | stops at the violation |
| `z_lexer` | see below | 215 337 |
| `z_lexer_splits` | the same sources | stops at the violation |
| `c_parser` | see below | 27 458 |
| `c_parser_recovery` | the same units | stops at the violation |

Why these bounds. A wrong branch of a conditional needs an outer level, an inner
one and a revival between them: `#if #if #else #endif #endif` and one line of
text fit in six lines, and the conditions depend on definitions made under way.
For the headers, the depth limit 3 lets main include a, a include b or itself,
and the next include be refused; an include guard needs four lines in a. A
longer chain of includes repeats the same step.

`macro_expand` takes three families: two macros f and g that call each other,
with seven bodies for f and six for g, and every text `f(...)` of up to three
tokens in the parentheses, with and without a second pair of them; every
accepted body of up to four tokens over two parameters, an ordinary token, `#`
and `##`, with chains of two pastes, called with empty, plain and two-token
arguments; and every pair of object-like bodies of up to two tokens. Bodies in
which `##` stands next to `#` or to another `##` are left out: in what order
these operators are evaluated the standard leaves open.

`z_preprocessor` takes three kinds of files, twice in a row in any combination:
one line `#if` with any of some 10 000 conditions (every sequence of up to three of
13 tokens, of four of 8 tokens, and two operators over four names, bare,
negated, and with parentheses in either place, closed or not), which is enough
for each pair of operators to compete and for each method to fail at each
token; five lines of anything, with true, false, empty and unknown-key
conditions; and six lines that begin with two `#if`s. `os` has a value, `vendor` an
empty one, `arch` none, and `pointer` is no key.

`c_condition` works on words of 4 bits and characters of 3, in which every
operator can wrap, overflow and shift too far within a few digits. Its lines are:
every operator between any two of 13 operands from both ends of both types, and
some of these compared with another value, which shows the type of the result; two
operators, one per level of precedence, in either order; ternaries and short
circuits over 0 and 1, also around a division by zero; names and `defined` in its
forms; and many of these with one token dropped, inserted or replaced, since an
error must be found at any token.

`c_lexer` and `z_lexer` take every source of up to three pieces (a character, or
two that belong together such as `/*` or a splice; 23 for C, 22 for Z), and
cut every source of up to three of 11 and 12 pieces in two at each place. That lets
each lexeme begin, end badly, be fused and be cut within. What takes more
characters is added for C: literals with escapes and comments within one another, as every
source of five characters (a quote, a backslash, a letter, `/`, `*`) cut at each place; numbers
and dots, as every source of four, cut likewise; and rows of five dots, digits, digraphs,
shifts and exponents, whole, with splices in some. Three chunks, in which a
literal or a comment runs through the middle one, come as three lines of 8
pieces in C and as three buffers of 6 pieces in Z.

`c_parser` parses 15 declarations and function bodies with 7 groups of statements
and 6 of expressions. Between them these use every method and every repetition of
one. Each comes alone and, in front of a correct global, with any one of its
tokens dropped, replaced or preceded by one of 8 kinds (the separators, brackets, a
name and a type), which makes each method fail at each of its tokens; and five
larger mistakes make the recoveries work inside each other. Tokens the
preprocessor drops surround every unit.

Four runs are expected to fail.

`c_preprocessor_balance`: the comment at
`Preprocessor_include_impl.cpp:169` says that "A conditional has to be balanced
inside the file that opened it.", and `handle_include` does drop what a header
left open. But an `#endif` in a header pops whatever level is innermost, the
includer's too (`Preprocessor_cond_impl.cpp:563`). Let main be `#ifndef G`,
`#include "a"`, `#endif` and let a be `#endif`: a closes main's group without a
diagnostic, and main's own `#endif` is the one reported. The test `UnbalancedConditionalDoesNotEscapeTheHeader` covers
the other direction only. `HeaderKeepsIncludersLevels` states the comment, and
TLC finds the behaviour. `StackCountsOpenGroups` holds nonetheless: across all
files the levels are counted right.

`pp_sources_names`: the comment at `Preprocessor_include_impl.cpp:47` says of a header
name that "everything between the brackets is contiguous in whichever buffer it
came from". So it is in `#include <a.h>`. But the same method reads the
expanded line of a computed `#include`, whose tokens keep the offsets they were
written at. After `#define SYS(x) <x.h>`, in `#include SYS(stdio)`, the first
token begins behind the end of the last, the length wraps, and `substr` returns
the rest of the file as the name. If the ends are in different buffers, as with
a pasted name, the name is empty.

`c_parser_recovery`: the comment at `Parser.cpp:93` says that "at top level a broken
declaration's body is skipped whole. nothing inside it is a place to resume". But
`synchronize` counts braces from where the parser failed. In
`enum A { int A; int A; };` it failed behind the opening brace, so the second `int A;`
looks like a global and becomes one.

`z_lexer_splits`: `ZLang/LexerTest.cpp:238` says "The split occurs between complete
tokens." and the next line "Concatenating them produces the same token stream as
the full source." But the right-hand buffer's operators are single characters
until they are fused, and `concat` fuses before it appends them: `.` and `==`, cut
between the two, leave `.`, `=`, `=`.

**Fairness.** `process`, `CParser::parse` and `expand_into` are single sequential loops that
nothing else can hold up, so `Spec` has weak fairness of the whole step,
`WF_vars(Process)`, `WF_vars(Expand)` and `WF_vars(Next)` of `CParser`, and of
no action of its own. `find` is such a loop too (`WF_vars(Halve \/ Answer)`); calls of
`add` and `text` have no fairness, since nothing says that they must come.
Termination is about the loops' structure (the depth limit, the resumption after
an argument list that is given up, the hide sets), not about scheduling.
In the preprocessors `Returned` lets the finished call stutter, so TLC checks for
deadlock, and a step missing from a case of the code would show as one. The
lexers, `CCondition` and the parser stop when their one result is there, so their
runs do not check for deadlock; `Termination` takes its place for the parser.

## What is proved

For every value of the constants: any disk, any files, any depth limit, any set
of names, any macros and any length of text. The modules, and what each rests on:

| Module | About |
|---|---|
| `SharedFacts` | least and greatest elements of sets of naturals, ascending enumerations; sequences, their ends and `FlattenSeq` |
| `ConditionalGroupsProofs` | what one more line does to the groups, and to a stack of levels |
| `CPreprocessorProofs` | the directive machine's types and stack of levels |
| `CPreprocessorOutputProofs` | what it puts out, and the groups |
| `HideSetTableProofs`, `MacroExpandProofs` | hide sets, and the expansion that uses them |
| `PpSourcesProofs` | source offsets |
| `ZPreprocessorProofs` | the Z preprocessor, and its groups |

No theorem of induction over the naturals is used (its operator parameter cannot be
instantiated): where an argument goes back line by line, it takes the least
counterexample, which `SetMinimum` of `SharedFacts` provides; the set-based form of that
for sequences is `SequencesBuildUp`. What the library defines by recursion
(`FlattenSeq`, `FoldLeft`) is a function chosen by its equation. That such a function exists is
proved the same way, by the length of the sequence or the size of the set.

The directive machine:

* `TypeCorrect`: `Spec => []TypeOK`. `TypeOK` is inductive. Beyond the types, it
  says that the include stack is never empty and never above
  `MaxIncludeDepth`, that only cached headers are marked once, and that levels
  and diagnostics have a place in a file. The one step that needs an argument
  is `EnterInclude`: that `find_header` answers with a file on the disk rests on
  its choice of a *least* candidate existing (`SetMinimum`, from the
  well-foundedness of the naturals).
* `OneLiveBranch`: `Spec => []LevelsConsistent`, and `DeadStaysDead`:
  `Spec => []DeadBelowDead`. `DeadBelowDead` alone is not inductive: `#else`
  revives the innermost level when it was not taken, which is harmless only
  because a level above a dead one counts as taken. That is why the invariant
  says both. The proof first reduces the twenty-seven actions to five
  ways of changing the stack (`CondStep`: unchanged, a level pushed, the top
  popped, the top rewritten, a prefix kept), then treats these.
* `OnlyOneBranch`: `Spec => NoSecondBranch`, from the same five ways.
* `NothingIsLost`: `Spec => []MainFileComesOutInOrder`. The invariant it needs is
  `Placed`: no file's position is beyond the first line not read yet, a file at its first
  line is the innermost one and live, an argument list being collected began at an
  invocation in the innermost file, in front of the position, and every entry put out
  is a line that was read. With it the proof counts up to
  `Mark(1)`, the line of the main file up to which all is decided: its position, or
  where the argument list being collected began, since a list that is given up is read
  again from there. That a completed list is one by the text alone is a second invariant,
  `Collected`: `call` holds the number of parentheses open at the position, and while it counts
  one argument there has been no comma at the list's own level (`CollectedStep`).
* `OnceMeansOnce`: `Spec => []OnceRunsOnce`. A header that begins with the pragma is marked by
  its first line, in live text, before anything in it can include it again. So the
  invariant (`OnceInv`) can say that it has one `run`, whose entries are all in
  front of its mark and differ from each other.
* `OpenGroupsAreCounted`: `Spec => []StackCountsOpenGroups`. It is inductive with
  `Placed`: an `#if` put out pushes a level, an `#endif` put out pops one or is
  reported, and what `handle_include` drops is reported too.
* `GuardsWork`: `Spec => []GuardRunsOnce`. The invariant (`GuardInv`) is about the
  `run`s that have passed a guard (`Passing`). While its name is undefined, none of the lines behind
  it has come out live and such a `run` is the innermost, in live text, in front of the
  `#define`, where nothing can be included. Later, any second one is the innermost and skips, and
  one that does not skip is ahead of all live lines that came out.
* `GroupsDecideTheMarks`: `Spec => []SkipsWhatTheGroupsDrop`, and
  `LiveLinesDecideTheTable`: `Spec => []MacrosFollowTheLiveText`. The invariant
  (`GroupsHold`) says of the moment the machine is at `Mark(1)`: everything put
  out is in front of the mark; the stack is the groups open there, outermost first, each level
  live or taken as the branches of its group say (`Stacked`); every mark set so far is right; the
  macro table is `DefinitionAt` the mark; and an argument list begins in live text only.
  None of the five is inductive without the others: a condition is decided by the table, the table by
  the marks, a mark by the stack. Lines that an invocation swallows were never
  directives, so a completed call turns them into text; the lemma `StackRun` says that
  text leaves the groups alone, and `StackSame` and `DefinitionSame` that the past does not
  change with lines read later.

Groups, for both preprocessors (`ConditionalGroupsProofs`): `Stacked` relates a stack
to the groups around a line, whatever made the stack. `StackPush`, `StackPop`,
`StackBranch` and `StackUnmatched` say that a directive changes both sides alike, and
`LiveIsTop` that a line is live exactly if the innermost level is.
`PlaceEnclosed` and `PlaceHeads` take the groups back to where the innermost one was opened.

Hide sets and macro expansion:

* `AlwaysInterned` and `IdsAreStable`: any sequence of operations keeps ids and
  sets in one to one correspondence and never changes what an id means;
  `AddCorrect`, `MergeCorrect` and `IntersectCorrect` say that each operation's
  answer is the set its name promises, shortcuts included. They rest on
  `InternCorrect`.
* `ExpansionIsTyped`: `Spec => []TypeOK`. Beyond the types: positions and calls lie within a frame's
  tokens, every id is one of the table's, and the outermost frame alone is the text.
* `HidesAlwaysCover` and `NeverWithinItself`: `Spec => []HidesCoverStack` and
  `Spec => []NoMacroWithinItself`. The invariant is about every token a frame
  holds, the ones put out, the arguments and the half-built
  replacement included: each hides every macro whose rescan the frame is nested in.
  A token that begins an invocation does not hide its name, so no rescan around it is of
  that name; the ids of the replacement are made by `merge`, `intersect` and
  `add`, whose correctness says that they cover the macros around and the name itself.
* `RecursionIsBounded`: it follows that, with finitely many names, rescans are nested in
  each other at most `Cardinality(Names)` deep.
* `ReplacementIsAlwaysStandard`: `Spec => []ReplacementIsStandard`, which is not inductive: it
  looks at the finished replacement only. The invariant (`SubstitutionOK`) compares after every
  round of the loop. `Position` says that the loop never stands between an operator and
  its operand, except that a `#` that stringizes nothing is a token. `StandsFor` says that the
  symbols put out are the standard's items of the body tokens read, all joined, without the
  placemarkers, and that in front of a `##` the flag is set exactly if the last of
  these items is a placemarker. In front of anything else the flag may be wrong, and is: an argument
  that *expands* to nothing sets it too. Each of the four outcomes of a `##` is then one case of
  `Join` (`NothingPasted`, `SomethingPasted`).
* `ObjectsAlwaysExpandByNesting`: `Spec => []ObjectsExpandByNesting`, for finitely many macro
  names (a program defines no more, and without it the nested expansion need not exist:
  `NestingExists` is an induction over the names that a token is not within). The property
  looks at the finished text; the invariant (`NestingOK`) says how far each loop is. In every
  frame the hide set of each token read is *exactly* the macros around it, where
  `HidesAlwaysCover` has only that it contains them, so no name is hidden too much either.
  What a frame has put out is the nested expansion of the tokens before its position; a
  frame below the top waits for the expansion of one token more, which is what the rescan above
  it comes to (`RescanStandsFor`). The replacement being painted
  has the painted hide set in front of its position and the empty one behind. The steps that
  arguments and `##` need are shown never to be taken (`ObjectSteps`). Function-like macros are
  not covered: there the standard's result does not depend on nesting alone.
* `ExpansionUsesTheTable`: the expansion implements `HideSetTable`'s own specification: every step is
  one operation of the table, or leaves it alone. That gives `IdsKeepTheirMeaningHere`.

Source offsets and the Z preprocessor:

* `FindsTheOwner`, `TokensKeepTheirText`, `NothingOverTwoBuffers`: `find` ends at the
  buffer that owns the offset; a range within a buffer has its characters, also
  after any number of further buffers; a range over two has none, although its
  length wraps or leaves the buffer. The invariant adds to what is claimed that
  buffers never overlap, not even in the offset behind each (`BasesIncrease`),
  which is what makes the owner unique (`SearchEndsAtTheOwner`), and that
  offsets stay below `SizeMod`. A range whose end lies in front of its beginning *within*
  one buffer is what is left, and the case of `pp_sources_names`.
* `ZTypeCorrect`, `ZOneLiveBranch`, `ZDeadStaysDead`, `ZOnlyOneBranch`: the same of
  the Z preprocessor, for any outcome of any condition and any number of calls.
  Here `TypeOK` is not inductive: that a level was opened by a line of the
  running call is kept by `CallAgain` only because a call leaves nothing on the
  stack (`NothingLeft`).
* `ZMarksTheGroups`: `Spec => []MarksWhatTheGroupsDrop`, from the lemmas about groups. The invariant
  (`GroupsInv`) adds that the stack is the groups open behind the text, as
  long as there was no branch behind an `#else`. An unmatched closer opens and closes no
  group, and a new call starts with both sides empty.
* `ZReportsTheStructure`: `Spec => []ReportsWhatTheStructureCalls`. With the same
  invariant it is inductive: a complaint depends on the lines in front of it only
  (`ComplaintsSame`), so a line read adds what it calls for itself. What an `#elif` calls for
  is decided by the place of its group and the branches before it; the machine looks at one flag of
  the innermost level. `StackEvaluates` says that these are the same.

The assumptions are `ConstantsAssumption` of `CPreprocessor` (the types of the
constants, and a depth limit of at least 1), `ZConstantsAssumption` of
`ZPreprocessor` (their types, and at least one call) and `ExpansionAssumption` of
`MacroExpand` (the types of macros and text) with `SpellingAssumption` of
`MacroExpandProperties` (no name is spelled like a punctuator, and the two marks the reference
uses are no symbols); TLC evaluates them in the runs of these modules. The theorems about `PpSources` carry
`SourcesAssumption` (the types of its constants) as a hypothesis.

Only model-checked: liveness (out of the prover's reach); what compares with a
definition over data that is a fold or recursion, and needs induction over it:
the grammar of Z conditions, and all properties of `CCondition`, the two lexers
and the parser.

## What is not modelled

* The Z parser. At this commit it is unfinished: error paths are TODOs that
  return `nullptr`, which several callers dereference; the argument list of a call
  leaves its `)` behind; the short forms of `if` and `loop` drop their statement;
  `parse` goes round for ever when a statement consumes nothing. One test of 17 lines
  and no document say what it should do, so a model could only repeat the code.
* The C `process` called twice on one object. The levels that the first call left open
  are not cleared, but no caller does it.
* The end marker of the main file is read (`eof`) but is not an entry of `out`.
* `#line` and other directives the code does not know: they are `unknown`.
* AST nodes, positions, diagnostics' texts, character classes: values.

## What could come next

1. For termination, which a proof can only approach: measures that the steps decrease.
   For macro expansion `RecursionIsBounded` is the first half of one.
2. The composition of `CPreprocessor`, `MacroExpand` and `PpSources` over tokens, so that
   a header name comes from an expansion and not from any order of tokens.
3. The Z parser, once its error paths are written.
