---------------------- MODULE MCCPreprocessorIncludes ----------------------
(***************************************************************************)
(* A main file and the headers a and b, which may include each other and   *)
(* themselves: include guards, #pragma once, conditionals that cross a     *)
(* file's end, and argument lists that reach it.                           *)
(***************************************************************************)
EXTENDS CPreprocessorProperties

MCMain == <<"src", "main">>
A == <<"src", "a">>
B == <<"inc", "b">>
MCDisk == {A, B}
MCIncludeDirs == <<"inc">>

TextLine == [op |-> "text"]
ElseLine == [op |-> "else"]
EndIfLine == [op |-> "endif"]
OnceLine == [op |-> "once"]
IncludeLineOf(name, angled) ==
  [op |-> "include", name |-> name, angled |-> angled]
IfLine(kind) == [op |-> "if", test |-> [kind |-> kind, name |-> "G"]]
DefineLine == [op |-> "define", name |-> "G", def |-> "one"]
DefineFunc == [op |-> "define", name |-> "G", def |-> "func"]
CallLine == [op |-> "call", name |-> "G"]
UndefLine == [op |-> "undef", name |-> "G"]
IncludeA == IncludeLineOf("a", FALSE)
IncludeB == IncludeLineOf("b", TRUE)

MCLinesOf ==
  (MCMain :>
     << {IfLine("undefined"), IncludeA, IncludeB, IncludeLineOf("main", FALSE),
         OnceLine, DefineFunc, [op |-> "error"], [op |-> "pragma"], [op |-> "badinclude"]},
        {IncludeA, IncludeB, ElseLine},
        {IncludeA, CallLine, EndIfLine} >>)
  @@ (A :>
     << {OnceLine, IfLine("undefined"), IncludeB},
        {DefineLine, IncludeA, EndIfLine},
        {IncludeA, IncludeB, OnceLine, TextLine},
        {EndIfLine, ElseLine} >>)
  @@ (B :>
     << {CallLine, EndIfLine, ElseLine, IfLine("value")},
        {EndIfLine, UndefLine, IfLine("value"),
         [op |-> "elif", test |-> [kind |-> "malformed", value |-> TRUE]]} >>)
=============================================================================
