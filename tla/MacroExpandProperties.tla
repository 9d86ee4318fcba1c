----------------------- MODULE MacroExpandProperties -----------------------
(***************************************************************************)
(* What MacroExpand promises, measured against the C standard's rules for  *)
(* replacement (C23 6.10.5).                                               *)
(***************************************************************************)
EXTENDS MacroExpand

(***************************************************************************)
(* Why expansion ends: every token of a loop nested in the rescan of a     *)
(* macro hides that macro, arguments and pasted tokens included.           *)
(***************************************************************************)
HidesCoverStack ==
  \A d \in DOMAIN frames :
    frames[d].kind = "replacement" =>
      \A e \in d .. Len(frames) : \A t \in Range(frames[e].tokens) :
        Hides(table, t.hides, frames[d].name)

(***************************************************************************)
(* A macro is never expanded inside the rescan of its own replacement, so  *)
(* the recursion of expand_into is no deeper than there are macros.        *)
(***************************************************************************)
NoMacroWithinItself ==
  \A d, e \in DOMAIN frames :
    /\ frames[d].kind = "replacement" /\ frames[e].kind = "replacement"
    /\ frames[d].name = frames[e].name
    => d = e
-----------------------------------------------------------------------------
(***************************************************************************)
(* Substitution as the standard describes it: an operand of ## is replaced *)
(* by its unexpanded argument, by a placemarker when that is empty, then   *)
(* every ## joins its neighbours, then the placemarkers go.                *)
(***************************************************************************)
PasteOp == "paste operator"
Placemarker == "placemarker"

ASSUME SpellingAssumption ==
  /\ Names \cap Punctuation = {}
  /\ {PasteOp, Placemarker} \cap Symbols = {}

BodyItem(def, args, i) ==
  LET p == ParamIndex(def, i)
      besidePaste == \/ i > 1 /\ def.body[i - 1] = "##"
                     \/ i < Len(def.body) /\ def.body[i + 1] = "##"
  IN CASE p # 0 /\ i > 1 /\ def.body[i - 1] = "#" -> <<>>
       [] p # 0 /\ ~(i > 1 /\ def.body[i - 1] = "#") /\ besidePaste ->
            IF args[p].raw = <<>> THEN << Placemarker >> ELSE Syms(args[p].raw)
       [] p # 0 /\ ~(i > 1 /\ def.body[i - 1] = "#") /\ ~besidePaste ->
            Syms(args[p].expanded)
       [] p = 0 /\ def.body[i] = "#" /\ ParamIndex(def, i + 1) # 0 ->
            << "string" >>
       [] p = 0 /\ def.body[i] = "##" -> << PasteOp >>
       [] OTHER -> << def.body[i] >>

Join(a, b) ==
  CASE a = Placemarker -> << b >>
    [] a # Placemarker /\ b = Placemarker -> << a >>
    [] a # Placemarker /\ b # Placemarker /\ <<a, b>> \in DOMAIN Glue ->
         << Glue[<<a, b>>] >>
    [] OTHER -> << a, b >>

\* The arguments of the top frame's invocation, as expand_into's args.
Called == [a \in DOMAIN F.call.raw |->
             [raw |-> F.call.raw[a], expanded |-> F.call.expanded[a]]]

\* The next item, when the items before it have come to s.out and join says
\* that a ## is waiting.
JoinItem(s, item) ==
  IF item = PasteOp THEN [s EXCEPT !.join = TRUE]
  ELSE IF s.join
  THEN [out |-> Front(s.out) \o Join(Last(s.out), item), join |-> FALSE]
  ELSE [s EXCEPT !.out = Append(@, item)]
Joined(items) == FoldLeft(JoinItem, [out |-> <<>>, join |-> FALSE], items)

WithoutPlacemarkers(items) ==
  FlattenSeq([i \in DOMAIN items |->
    IF items[i] = Placemarker THEN <<>> ELSE << items[i] >>])

BodyItems(def, args, k) == FlattenSeq([i \in 1 .. k |-> BodyItem(def, args, i)])

StandardReplacement(def, args) ==
  WithoutPlacemarkers(Joined(BodyItems(def, args, Len(def.body))).out)

\* handle_define rejects a body with ## at either end; of ## next to # or to
\* another ## the standard leaves the order of evaluation open.
OperatorsOrdered(def) ==
  LET body == def.body
  IN /\ body # <<>> => body[1] # "##" /\ body[Len(body)] # "##"
     /\ \A i \in 2 .. Len(body) :
          body[i - 1] = "##" =>
            /\ body[i] # "##"
            /\ ~(body[i] = "#" /\ ParamIndex(def, i + 1) # 0)

\* The code's one pass with a placemarker flag yields what the standard says.
ReplacementIsStandard ==
  Substituted /\ OperatorsOrdered(Def) =>
    Syms(repl.out) = StandardReplacement(Def, Called)
-----------------------------------------------------------------------------
(***************************************************************************)
(* With object-like macros only, and no ##, the standard's result depends  *)
(* on nesting alone: a name is replaced unless it occurs within its own    *)
(* replacement.  Hide sets, which travel with the tokens instead, give the *)
(* same text.                                                              *)
(***************************************************************************)
ObjectLikeOnly ==
  \A n \in Names : ~macros[n].function_like /\ "##" \notin Range(macros[n].body)

NestedExpansion[within \in SUBSET Names] ==
  [sym \in Symbols |->
     IF sym \in Names \ within /\ macros[sym] # NotMacro
     THEN FlattenSeq([i \in DOMAIN macros[sym].body |->
            NestedExpansion[within \cup {sym}][macros[sym].body[i]]])
     ELSE << sym >>]

ObjectsExpandByNesting ==
  done /\ ObjectLikeOnly =>
    LET source == frames[1].tokens
    IN Syms(out) = FlattenSeq([i \in DOMAIN source |->
                                 NestedExpansion[{}][source[i].sym]])
-----------------------------------------------------------------------------
\* expand_into's recursion ends whatever the macros are.
Termination == <>done
=============================================================================
