---------------------------- MODULE MacroExpand ----------------------------
(***************************************************************************)
(* Macro expansion: CPreprocessor::expand_into, collect_arguments and      *)
(* substitute over one run of text, with the recursion of expand_into as a *)
(* stack of frames.  A frame is one loop over a token vector: the text, an *)
(* argument expanded on its own, or a replacement being rescanned.  A step *)
(* is one round of a loop of the code, and asks the table at most once.    *)
(*                                                                         *)
(* A token is a symbol and a hide set's id.  What two tokens paste to is a *)
(* parameter; spellings, ranges and token flags are left out.              *)
(***************************************************************************)
EXTENDS HideSetTable, SequencesExt, FiniteSetsExt

CONSTANTS
  Symbols,    \* what a token can be: identifiers, punctuation, ...
  Glue,       \* the valid pastes, a function from pairs of symbols to symbols
  Inputs      \* the macro tables and source texts to expand: records of
              \* macros and source

Punctuation == {"(", ")", ",", "#", "##", "string"}

Macro == { def \in [function_like : BOOLEAN, defined : BOOLEAN,
                     params : Seq(Names), body : Seq(Symbols)] :
             def.function_like \/ def.params = <<>> }
NotMacro == [function_like |-> FALSE, defined |-> FALSE,
             params |-> <<>>, body |-> <<>>]

NoName == "no name"

ASSUME ExpansionAssumption ==
  /\ Names \cup Punctuation \subseteq Symbols
  /\ NoName \notin Names
  /\ DOMAIN Glue \subseteq Symbols \X Symbols
  /\ \A p \in DOMAIN Glue : Glue[p] \in Symbols
  /\ \A input \in Inputs : /\ input.macros \in [Names -> Macro]
                           /\ input.source \in Seq(Symbols)

VARIABLES
  macros,   \* _macros
  frames,   \* the active loops over expand_into
  repl,     \* the replacement under construction for the top frame's call
  diags,    \* the codes reported
  out,      \* the expanded text
  done

vars == <<table, macros, frames, repl, diags, out, done>>

Token(sym, id) == [sym |-> sym, hides |-> id]
Plain(s) == [i \in DOMAIN s |-> Token(s[i], Empty)]
Syms(tokens) == [i \in DOMAIN tokens |-> tokens[i].sym]

\* An invocation ends at the token at close: its closing parenthesis, or the
\* name itself.
NoCall == [close |-> 0, raw |-> <<>>, expanded |-> <<>>]

Frame(kind, name, tokens) ==
  [kind |-> kind, name |-> name, tokens |-> tokens, pos |-> 1,
   out |-> <<>>, call |-> NoCall]

\* A replacement is substituted, its hide set computed, and painted over it;
\* i is where the loop of the phase stands.
NoReplacement == [phase |-> "substitute", i |-> 1, out |-> <<>>,
                  placemarker |-> FALSE, id |-> Empty]

Tokens == [sym : Symbols, hides : Ids(table)]
Calls == [close : Nat, raw : Seq(Seq(Tokens)), expanded : Seq(Seq(Tokens))]
Frames == [kind : {"text", "argument", "replacement"},
           name : Names \cup {NoName}, tokens : Seq(Tokens), pos : Nat,
           out : Seq(Tokens), call : Calls]

TypeOK ==
  /\ TableInterned
  /\ macros \in [Names -> Macro]
  /\ frames \in Seq(Frames) /\ frames # <<>>
  /\ \A d \in DOMAIN frames :
       LET f == frames[d] IN
       /\ f.kind = "text" <=> d = 1
       /\ f.kind = "replacement" <=> f.name \in Names
       /\ f.pos \in 1 .. Len(f.tokens) + 1
       /\ f.call # NoCall => f.call.close \in f.pos .. Len(f.tokens)
  /\ repl \in [phase : {"substitute", "hide", "paint"}, i : Nat,
               out : Seq(Tokens), placemarker : BOOLEAN, id : Ids(table)]
  /\ diags \in Seq({"UnterminatedArgs", "MacroArity", "InvalidPaste"})
  /\ out \in Seq(Tokens)
  /\ done \in BOOLEAN
-----------------------------------------------------------------------------
Top == Len(frames)
F == frames[Top]
Here == F.tokens[F.pos]
Def == macros[Here.sym]

Scanning == ~done /\ F.call = NoCall /\ F.pos <= Len(F.tokens)
Calling == ~done /\ F.call # NoCall

MacroName ==
  /\ Scanning
  /\ Here.sym \in Names /\ Def # NotMacro
  /\ ~Hides(table, Here.hides, Here.sym)

\* find_invocation_paren
ParenFollows == F.pos < Len(F.tokens) /\ F.tokens[F.pos + 1].sym = "("

(***************************************************************************)
(* collect_arguments: the closing parenthesis, or 0, and the vectors the   *)
(* commas at depth one cut the list into.                                  *)
(***************************************************************************)
Depth(k) ==
  Quantify(F.pos + 1 .. k, LAMBDA i : F.tokens[i].sym = "(")
    - Quantify(F.pos + 1 .. k, LAMBDA i : F.tokens[i].sym = ")")

Close ==
  LET closing == {k \in F.pos + 2 .. Len(F.tokens) : Depth(k) = 0}
  IN IF closing = {} THEN 0 ELSE Min(closing)

\* A finite set of numbers in order.
Ascending(S) ==
  CHOOSE c \in [1 .. Cardinality(S) -> S] :
    \A a, b \in DOMAIN c : a < b => c[a] < c[b]

Arguments ==
  LET commas == {k \in F.pos + 2 .. Close - 1 :
                   F.tokens[k].sym = "," /\ Depth(k) = 1}
      cuts == Ascending(commas \cup {F.pos + 1, Close})
      list == [a \in 1 .. Len(cuts) - 1 |->
                 SubSeq(F.tokens, cuts[a] + 1, cuts[a + 1] - 1)]
  IN IF Def.params = <<>> /\ list = << <<>> >> THEN <<>> ELSE list

CopyHere(frame) == [frame EXCEPT !.out = Append(@, Here), !.pos = @ + 1]
SetTop(frame) == frames' = [frames EXCEPT ![Top] = frame]

\* Anything that is no invocation goes out as it is.
Copy ==
  /\ Scanning
  /\ MacroName => Def.function_like /\ ~ParenFollows
  /\ SetTop(CopyHere(F))
  /\ UNCHANGED <<table, macros, repl, diags, out, done>>

Invocation == MacroName /\ Def.function_like /\ ParenFollows

Refuse(code) ==
  /\ diags' = Append(diags, code)
  /\ SetTop(CopyHere(F))
  /\ UNCHANGED <<table, macros, repl, out, done>>

UnterminatedArgs == Invocation /\ Close = 0 /\ Refuse("UnterminatedArgs")

MacroArity ==
  /\ Invocation /\ Close # 0
  /\ Len(Arguments) # Len(Def.params)
  /\ Refuse("MacroArity")

Call(close, arguments) ==
  /\ SetTop([F EXCEPT !.call = [close |-> close, raw |-> arguments,
                                expanded |-> <<>>]])
  /\ UNCHANGED <<table, macros, repl, diags, out, done>>

BeginCall ==
  /\ Invocation /\ Close # 0
  /\ Len(Arguments) = Len(Def.params)
  /\ Call(Close, Arguments)

ExpandObject ==
  /\ MacroName /\ ~Def.function_like
  /\ Call(F.pos, <<>>)

\* The macro's own name is not hidden yet while its arguments are expanded.
ExpandArgument ==
  /\ Calling
  /\ Len(F.call.expanded) < Len(F.call.raw)
  /\ frames' = Append(frames,
                 Frame("argument", NoName,
                       F.call.raw[Len(F.call.expanded) + 1]))
  /\ UNCHANGED <<table, macros, repl, diags, out, done>>

Exhausted(kind) ==
  /\ ~done /\ F.kind = kind /\ F.call = NoCall
  /\ F.pos > Len(F.tokens)

ArgumentExpandedUnrecorded ==
  /\ Exhausted("argument")
  /\ frames' = Front(frames)
  /\ UNCHANGED <<table, macros, repl, diags, out, done>>
ArgumentExpanded ==
  /\ Exhausted("argument")
  /\ frames' = [Front(frames) EXCEPT
                  ![Top - 1].call.expanded = Append(@, F.out)]
  /\ UNCHANGED <<table, macros, repl, diags, out, done>>

ArgumentsReady ==
  /\ Calling
  /\ Len(F.call.expanded) = Len(F.call.raw)
-----------------------------------------------------------------------------
(***************************************************************************)
(* substitute: one round of its loop per step.                             *)
(***************************************************************************)
ParamIndex(def, i) ==
  IF i \in DOMAIN def.body /\ def.body[i] \in Range(def.params)
  THEN CHOOSE p \in DOMAIN def.params : def.params[p] = def.body[i]
  ELSE 0

Body == Def.body
I == repl.i

Substituting == ArgumentsReady /\ repl.phase = "substitute" /\ I <= Len(Body)

Emit(tokens, placemarker, next) ==
  /\ repl' = [repl EXCEPT !.out = @ \o tokens, !.placemarker = placemarker,
                          !.i = next]
  /\ UNCHANGED <<table, macros, frames, out, done>>

Stringized == Body[I] = "#" /\ ParamIndex(Def, I + 1) # 0
Operator == Body[I] = "##" /\ I < Len(Body)

Stringize ==
  /\ Substituting /\ Stringized
  /\ Emit(<< Token("string", Empty) >>, FALSE, I + 2)
  /\ UNCHANGED diags

\* The right operand of ##, taken unexpanded.
Operand ==
  LET p == ParamIndex(Def, I + 1)
  IN IF p # 0 THEN F.call.raw[p] ELSE << Token(Body[I + 1], Empty) >>

PasteNothing ==
  /\ Substituting /\ Operator
  /\ Operand = <<>>
  /\ Emit(<<>>, repl.placemarker, I + 2)
  /\ UNCHANGED diags

PasteOntoNothing ==
  /\ Substituting /\ Operator
  /\ Operand # <<>>
  /\ repl.out = <<>> \/ repl.placemarker
  /\ Emit(Operand, FALSE, I + 2)
  /\ UNCHANGED diags

Pasting ==
  /\ Substituting /\ Operator
  /\ Operand # <<>>
  /\ repl.out # <<>> /\ ~repl.placemarker

Pair == << Last(repl.out).sym, Head(Operand).sym >>

\* paste(): the operands' common hide set.
paste ==
  /\ Pasting /\ Pair \in DOMAIN Glue
  /\ \E both \in {Intersect(table, Last(repl.out).hides, Head(Operand).hides)} :
       /\ table' = both.table
       /\ repl' = [repl EXCEPT
                     !.out = Append(Front(@), Token(Glue[Pair], both.id))
                             \o Tail(Operand),
                     !.i = I + 2]
  /\ UNCHANGED <<macros, frames, diags, out, done>>

InvalidPaste ==
  /\ Pasting /\ Pair \notin DOMAIN Glue
  /\ Emit(Operand, FALSE, I + 2)
  /\ diags' = Append(diags, "InvalidPaste")

\* The left operand of ## is taken unexpanded too.
Source ==
  LET p == ParamIndex(Def, I)
  IN IF I < Len(Body) /\ Body[I + 1] = "##"
     THEN F.call.raw[p] ELSE F.call.expanded[p]

SubstituteParamWithoutFlag ==
  /\ Substituting /\ ParamIndex(Def, I) # 0
  /\ Emit(Source, FALSE, I + 1)
  /\ UNCHANGED diags
SubstituteParam ==
  /\ Substituting /\ ParamIndex(Def, I) # 0
  /\ Emit(Source, Source = <<>>, I + 1)
  /\ UNCHANGED diags

SubstituteToken ==
  /\ Substituting /\ ~Stringized /\ ~Operator /\ ParamIndex(Def, I) = 0
  /\ Emit(<< Token(Body[I], Empty) >>, FALSE, I + 1)
  /\ UNCHANGED diags

Substituted == ArgumentsReady /\ repl.phase = "substitute" /\ I > Len(Body)
-----------------------------------------------------------------------------
(***************************************************************************)
(* The replacement hides what the name and the closing parenthesis have in *)
(* common, and the name; then it is rescanned.                             *)
(***************************************************************************)
HideCommon ==
  /\ Substituted
  /\ \E both \in { IF Def.function_like
                   THEN Intersect(table, Here.hides, F.tokens[F.call.close].hides)
                   ELSE Answer(table, Here.hides) } :
       /\ table' = both.table
       /\ repl' = [repl EXCEPT !.phase = "hide", !.id = both.id]
  /\ UNCHANGED <<macros, frames, diags, out, done>>

Hiding == ArgumentsReady /\ repl.phase = "hide"

Hide(hs) ==
  /\ table' = hs.table
  /\ repl' = [repl EXCEPT !.phase = "paint", !.id = hs.id, !.i = 1]
  /\ UNCHANGED <<macros, frames, diags, out, done>>

HideNameOnly == Hiding /\ \E hs \in {Add(table, Empty, Here.sym)} : Hide(hs)
HideCommonOnly == Hiding /\ Hide(Answer(table, repl.id))
HideName == Hiding /\ \E hs \in {Add(table, repl.id, Here.sym)} : Hide(hs)

Painting == ArgumentsReady /\ repl.phase = "paint"

\* Every token of a replacement gets the invocation's hide set on top.
Paint ==
  /\ Painting /\ I <= Len(repl.out)
  /\ \E both \in {Merge(table, repl.out[I].hides, repl.id)} :
       /\ table' = both.table
       /\ repl' = [repl EXCEPT !.out[I].hides = both.id, !.i = I + 1]
  /\ UNCHANGED <<macros, frames, diags, out, done>>

Rescan ==
  /\ Painting /\ I > Len(repl.out)
  /\ frames' = Append([frames EXCEPT ![Top].call = NoCall,
                                     ![Top].pos = F.call.close + 1],
                      Frame("replacement", Here.sym, repl.out))
  /\ repl' = NoReplacement
  /\ UNCHANGED <<table, macros, diags, out, done>>

\* The replacement stands where the invocation stood.
Rescanned ==
  /\ Exhausted("replacement")
  /\ frames' = [Front(frames) EXCEPT ![Top - 1].out = @ \o F.out]
  /\ UNCHANGED <<table, macros, repl, diags, out, done>>

Finish ==
  /\ Exhausted("text")
  /\ out' = F.out
  /\ done' = TRUE
  /\ UNCHANGED <<table, macros, frames, repl, diags>>
-----------------------------------------------------------------------------
Init ==
  /\ TableInit
  /\ \E input \in Inputs :
       /\ macros = input.macros
       /\ frames = << Frame("text", NoName, Plain(input.source)) >>
  /\ repl = NoReplacement
  /\ diags = <<>>
  /\ out = <<>>
  /\ done = FALSE

Expand ==
  \/ Copy \/ UnterminatedArgs \/ MacroArity
  \/ BeginCall \/ ExpandObject \/ ExpandArgument \/ ArgumentExpanded
  \/ Stringize \/ PasteNothing \/ PasteOntoNothing \/ paste \/ InvalidPaste
  \/ SubstituteParam \/ SubstituteToken
  \/ HideCommon \/ HideName \/ Paint \/ Rescan
  \/ Rescanned \/ Finish

Returned == done /\ UNCHANGED vars

Next == Expand \/ Returned

Spec == Init /\ [][Next]_vars /\ WF_vars(Expand)
=============================================================================
