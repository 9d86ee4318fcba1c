---------------------------- MODULE MCPpSources -----------------------------
(***************************************************************************)
(* Buffers of up to three characters, and lines of up to three tokens from *)
(* any of them.                                                            *)
(***************************************************************************)
EXTENDS PpSources, SequencesExt

MCChars == {"a", "b", "c"}
MCTexts == {<<"a">>, <<"b", "c">>, <<"a", "b", "c">>}

Spelling(r) ==
  Spelled((CHOOSE e \in Range(entries) : r \in RangesOf(e)), r)

\* Preprocessor_include_impl.cpp:48 "read the bytes back: everything between
\* the brackets is contiguous in whichever buffer it came from": the header
\* name read begins with the first token behind < and ends with the last one
\* in front of >.
NamesAreBetweenTheirBrackets ==
  pc = "done" =>
    IsPrefix(Spelling(line[1]), answer) /\ IsSuffix(Spelling(Last(line)), answer)
=============================================================================
