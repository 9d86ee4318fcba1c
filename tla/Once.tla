-------------------------------- MODULE Once --------------------------------
(***************************************************************************)
(* TLC evaluates an operator's argument, and a LET, anew at each use while *)
(* it computes a step.  What a method returns is used often, so it is      *)
(* bound as the one element of a set.                                      *)
(***************************************************************************)

\* F(x), with x evaluated once.
With(x, F(_)) == CHOOSE y \in {F(v) : v \in {x}} : TRUE

\* The loop that repeats Step from x on until it changes nothing; S holds all
\* that it passes through.
Repeated(Step(_), x, S) ==
  LET run[y \in S] == With(Step(y), LAMBDA z : IF z = y THEN y ELSE run[z])
  IN run[x]
=============================================================================
