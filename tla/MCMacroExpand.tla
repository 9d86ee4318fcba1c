--------------------------- MODULE MCMacroExpand ---------------------------
(***************************************************************************)
(* Three families of macro tables and texts: two macros that call each     *)
(* other in every way a short text allows; every short body with # and ##  *)
(* over two parameters; and every pair of short object-like macros.        *)
(***************************************************************************)
EXTENDS MacroExpandProperties

MCNames == {"f", "g", "x", "y"}
MCSymbols == MCNames \cup {"a", "b"} \cup Punctuation
MCGlue == (<<"a", "a">> :> "a") @@ (<<"a", "b">> :> "g") @@ (<<"b", "a">> :> "f")

Object(body) == [function_like |-> FALSE, defined |-> TRUE,
                 params |-> <<>>, body |-> body]
Function(params, body) == [function_like |-> TRUE, defined |-> TRUE,
                           params |-> params, body |-> body]

TableOf(f, g) == [n \in MCNames |-> CASE n = "f" -> f
                                      [] n = "g" -> g
                                      [] OTHER -> NotMacro]

UpTo(S, n) == UNION {[1 .. k -> S] : k \in 0 .. n}

\* Macros that call each other.
CallingF ==
  { Function(<<"x">>, body) : body \in
      { <<"x">>, <<"f", "(", "x", ")">>, <<"g", "(", "x", ")">>,
        <<"x", "x">>, <<"g">>, <<"x", "##", "b">>, <<"x", "(", "a", ")">> } }
  \cup { Function(<<"x", "y">>, <<"y", "(", "x", ")">>) }
CallingG ==
  { Object(body) : body \in
      { <<"f">>, <<"f", "(", "g", ")">>, <<"g", "a">>, <<>> } }
  \cup { Function(<<>>, <<"f">>), Function(<<"x">>, <<"f", "(", "x", ")">>) }
CallingTokens == {"f", "g", "(", ")", "a", ","}
CallingText ==
  { <<"f", "(">> \o inner \o <<")">> :
      inner \in UpTo(CallingTokens, 3)
                \cup {<<"f", "(", "g", ")">>, <<"g", "(", "f", ")">>} }
  \cup
  { <<"f", "(">> \o inner \o <<")", "(", "a", ")">> :
      inner \in UpTo(CallingTokens, 2) }

\* Bodies that handle_define accepts, without ## next to # or to another ##,
\* whose order of evaluation the standard leaves open.
Accepted(body) ==
  /\ body # <<>> => body[1] # "##" /\ Last(body) # "##"
  /\ \A i \in DOMAIN body :
       body[i] = "#" => i < Len(body) /\ body[i + 1] \in {"x", "y"}
  /\ \A i \in 2 .. Len(body) :
       ~(body[i] \in {"#", "##"} /\ body[i - 1] = "##")

PastingF ==
  { Function(<<"x", "y">>, body) : body \in
      { b \in UpTo({"x", "y", "a", "#", "##"}, 4) : Accepted(b) }
      \cup { <<p, "##", q, "##", r>> : p, q, r \in {"x", "y", "a"} }
      \cup { <<p, q, "##", r, "##", s>> : p, q, r, s \in {"x", "y"} } }
PastingText ==
  { <<"f", "(">> \o first \o <<",">> \o second \o <<")">> :
      first, second \in {<<>>, <<"g">>, <<"a", "b">>} }

\* Object-like macros.
ObjectBodies == UpTo({"f", "g", "a"}, 2) \cup {<<"a", "##", "b">>}

MCInputs ==
  { [macros |-> TableOf(f, g), source |-> s] :
      f \in CallingF, g \in CallingG, s \in CallingText }
  \cup
  { [macros |-> TableOf(f, Object(<<"b">>)), source |-> s] :
      f \in PastingF, s \in PastingText }
  \cup
  { [macros |-> TableOf(Object(f), Object(g)), source |-> s] :
      f, g \in ObjectBodies, s \in {<<"f">>, <<"g", "f">>} }
=============================================================================
