---------------------------- MODULE MCCCondition ----------------------------
(***************************************************************************)
(* Conditions for CondEval in words of 4 bits and characters of 3: every   *)
(* operator on values from both ends of both types, every pair of          *)
(* operators, conditions that must not evaluate a division by zero, and    *)
(* all of it with a token dropped, inserted or replaced.                   *)
(***************************************************************************)
EXTENDS CConditionProperties

T(kind) == [kind |-> kind, text |-> <<>>]
Number(text) == [kind |-> "Numeric", text |-> text]
Char(text) == [kind |-> "CharLiteral", text |-> text]
Name(name) == [kind |-> "Identifier", text |-> <<name>>]

MCCode == [c \in {"a", "z"} |-> IF c = "a" THEN 1 ELSE 6] @@
          [c \in {"0", "1", "7", "x", "q"} |-> 2]
MCEscapes == [c \in {"n", "a"} |-> IF c = "n" THEN 5 ELSE 3]

MCMacros == (<<"ONE">> :> <<Number(<<"1">>)>>) @@
            (<<"SUM">> :> <<Number(<<"1">>), T("+"), Number(<<"2">>)>>) @@
            (<<"NONE">> :> <<>>)

Signed1(v) == [v |-> v, u |-> FALSE]
Unsigned(v) == [v |-> v, u |-> TRUE]

MCMeanings ==
  (<<"0">> :> Signed1(0)) @@ (<<"1">> :> Signed1(1)) @@ (<<"2">> :> Signed1(2)) @@
  (<<"3">> :> Signed1(3)) @@ (<<"4">> :> Signed1(4)) @@ (<<"7">> :> Signed1(7)) @@
  (<<"8">> :> Unsigned(8)) @@ (<<"0", "x", "f">> :> Unsigned(15)) @@
  (<<"1", "u">> :> Unsigned(1)) @@ (<<"0", "l", "u", "l">> :> Unsigned(0)) @@
  (<<"0", "1", "1">> :> Unsigned(9)) @@ (<<"0", "b", "1", "1">> :> Signed1(3)) @@
  (<<"a">> :> Signed1(1)) @@ (<<"z">> :> Signed1(-2)) @@
  (<<"bs", "n">> :> Signed1(-3)) @@ (<<"bs", "7">> :> Signed1(-1)) @@
  (<<"bs", "x", "0", "2">> :> Signed1(2)) @@ (<<"bs", "0", "0", "1">> :> Signed1(1))

CharTexts == {<<"a">>, <<"z">>, <<"bs", "n">>, <<"bs", "7">>,
              <<"bs", "x", "0", "2">>, <<"bs", "0", "0", "1">>}
Good == {IF text \in CharTexts THEN Char(text) ELSE Number(text) :
           text \in DOMAIN MCMeanings}
Bad == {Number(<<"0", "x">>), Number(<<"0", "7", "x">>), Number(<<"1", "u", "u">>),
        Number(<<"1", "l", "l", "l">>), Number(<<"0", "b", "2">>), Char(<<>>),
        Char(<<"bs">>), Char(<<"bs", "q">>), Char(<<"bs", "x">>)}

N0 == Number(<<"0">>)
N1 == Number(<<"1">>)
N2 == Number(<<"2">>)
N3 == Number(<<"3">>)

\* Operands from -8 to 7 and from 0u to 15u.
Ends == {<<n>> : n \in {N0, N1, N3, Number(<<"7">>), Number(<<"8">>),
                        Number(<<"1", "u">>), Number(<<"0", "x", "f">>)}}
        \cup {<<T("-"), N1>>, <<T("~"), Number(<<"7">>)>>, <<T("!"), N2>>,
              <<T("-"), N2>>, <<T("-"), Number(<<"1", "u">>)>>, <<T("+"), N2>>}

Ops == {T(op) : op \in UNION ToSet(BinaryOps)}
OnePerLevel == {T(op) : op \in {"||", "&&", "|", "^", "&", "==", "<", "<<", "-", "*", "%"}}

Single == {a \o <<op>> \o b : a \in Ends, op \in Ops, b \in Ends}
\* The value and the type of a result show in a comparison with another.
Compared == {<<T("(")>> \o a \o <<op>> \o b \o <<T(")"), T("<"), c>> :
               a \in Ends, op \in Ops \ {T("||"), T("&&")}, b \in Ends,
               c \in {N0, N2}}
Pairs == {<<a, o, b, p, c>> : a \in {N2, N3}, o \in OnePerLevel, b \in {N2, N3},
                              p \in OnePerLevel, c \in {N1, N3}}

Crash == <<N1, T("/"), N0>>
Q == T("?")
K == T(":")
Open == T("(")
Close == T(")")

Ternaries == {
  <<N0, Q>> \o Crash \o <<K, N2>>,
  <<N1, Q>> \o Crash \o <<K, N2>>,
  <<N1, Q, N2, K>> \o Crash,
  <<N0, Q, N1, K, N1, Q, N0, K, N1>>,
  <<N1, Q, N0, Q, N1, K, N0, K, N1>>,
  <<Open, N1, Q, T("-"), N1, K, Number(<<"1", "u">>), Close, T(">"), N0>>,
  <<N0, T("&&"), N1, Q, N0, K, N1, T("||")>> \o Crash }
Circuits == {
  <<a, op, Open>> \o Crash \o <<o2, b, Close>> :
    a \in {N0, N2}, op \in {T("||"), T("&&")}, o2 \in {T("||"), T("&&"), T("+")},
    b \in {N0, N1} }
  \cup {<<a, op>> \o Crash \o <<o2, b>> :
    a \in {N0, N2}, op \in {T("||"), T("&&")}, o2 \in {T("||"), T("&&")}, b \in {N0, N1} }
D == Name("defined")
Names == {
  <<D, Name("ONE"), T("&&"), T("!"), D, Open, Name("X"), Close>>,
  <<D, Open, Name("SUM"), Close, T("*"), Name("SUM"), T("=="), N3>>,
  <<Name("SUM"), T("*"), N2, T("=="), Number(<<"7">>)>>,
  <<Name("X"), T("||"), D, [kind |-> "Keyword", text |-> <<"int">>]>>,
  <<D, Name("NONE"), T("&&"), T("-"), Name("NONE"), N1, T("<"), N0>>,
  <<T("True"), T("=="), T("False")>>,
  <<T("!"), D, T("True"), T("=="), T("True")>> }

Changes == {N0, N1, T("-"), T("/"), Q, K, Open, Close, Name("SUM"), D}
Damaged(s) ==
  {RemoveAt(s, i) : i \in DOMAIN s}
    \cup {InsertAt(s, i, w) : i \in DOMAIN s, w \in Changes}
    \cup {ReplaceAt(s, i, w) : i \in DOMAIN s, w \in Changes}

Known == Ternaries \cup Circuits \cup Names
Spoiled ==
  UNION {Damaged(s) : s \in Known \cup {<<N2, T("+"), N3, T("<<"), N1>>}}
    \cup {<<t>> \o s : t \in Bad, s \in {<<>>, <<T("||"), N1>>}}

MCLines == {<<>>} \cup {<<t>> : t \in Good} \cup {<<t, T("<"), N0>> : t \in Good}
             \cup {<<T("!"), t>> : t \in Good} \cup Single \cup Compared \cup Pairs \cup Known \cup Spoiled
=============================================================================
