---------------------------- MODULE TokenStream ----------------------------
(***************************************************************************)
(* Parse::TokenStream: a cursor over the tokens of a program.  A token is  *)
(* its kind.  The cursor s.at counts from 1, and no method moves it behind *)
(* the Eof token.                                                          *)
(***************************************************************************)
EXTENDS Integers, Sequences

VARIABLE m_stream   \* the tokens; the last one is Eof

NoToken == "no token"

peek(s, n) ==
  IF s.at + n <= Len(m_stream) THEN m_stream[s.at + n] ELSE NoToken

check(s, kind) == peek(s, 0) = kind

end(s) == peek(s, 0) \in {NoToken, "Eof"}

advance(s) == IF end(s) THEN s ELSE [s EXCEPT !.at = @ + 1]
=============================================================================
