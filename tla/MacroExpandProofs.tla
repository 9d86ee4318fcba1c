------------------------- MODULE MacroExpandProofs -------------------------
(***************************************************************************)
(* Expansion is well-typed, hides on every token of a rescan the macros it *)
(* is nested in, and so never replaces a macro within its own replacement; *)
(* what it makes of a body is what the standard says, and what it makes of *)
(* a text of object-like macros is what their nesting says: for every set  *)
(* of names and symbols, every paste function, macro table and text.       *)
(***************************************************************************)
EXTENDS MacroExpandProperties, HideSetTableProofs, SharedFacts,
        SequenceTheorems, TLAPS

(***************************************************************************)
(* The tokens whose hide set has every name of S, under the table t.       *)
(***************************************************************************)
Covering(t, S) ==
  { token \in [sym : Symbols, hides : Ids(t)] : S \subseteq t.sets[token.hides] }

\* The macros a frame is nested in the rescan of, its own included.
Within(fs, d) == {fs[e].name : e \in {c \in 1 .. d : fs[c].kind = "replacement"}}

CallsOver(C) == [close : Nat, raw : Seq(Seq(C)), expanded : Seq(Seq(C))]
FramesOver(C) == [kind : {"text", "argument", "replacement"},
                  name : Names \cup {NoName}, tokens : Seq(C), pos : Nat,
                  out : Seq(C), call : CallsOver(C)]

\* A call in progress is one of a macro its name token does not hide.
CallOK(f, t, m) ==
  LET here == f.tokens[f.pos]
  IN /\ f.call.close \in f.pos .. Len(f.tokens)
     /\ here.sym \in Names
     /\ here.sym \notin t.sets[here.hides]
     /\ Len(f.call.raw) = Len(m[here.sym].params)
     /\ Len(f.call.expanded) <= Len(f.call.raw)

FrameOK(f, t, S, m) ==
  /\ f \in FramesOver(Covering(t, S))
  /\ f.kind = "replacement" <=> f.name \in Names
  /\ f.pos \in 1 .. Len(f.tokens) + 1
  /\ f.call # NoCall => CallOK(f, t, m)

AwaitsArgument(f) ==
  f.call # NoCall /\ Len(f.call.expanded) < Len(f.call.raw)

StackOK(fs, t, m) ==
  /\ fs \in Seq(FramesOver(Covering(t, {}))) /\ fs # <<>>
  /\ \A d \in 1 .. Len(fs) :
       /\ FrameOK(fs[d], t, Within(fs, d), m)
       /\ fs[d].kind = "text" <=> d = 1
       /\ fs[d].kind = "argument" => AwaitsArgument(fs[d - 1])
       /\ fs[d].kind = "replacement" => fs[d].name \notin Within(fs, d - 1)

ReplacementOK ==
  LET S == Within(frames, Top)
  IN /\ repl \in [phase : {"substitute", "hide", "paint"}, i : Nat \ {0},
                  out : Seq(Covering(table, {})), placemarker : BOOLEAN,
                  id : Ids(table)]
     /\ repl.phase # "substitute" =>
          /\ F.call # NoCall /\ Len(F.call.expanded) = Len(F.call.raw)
          /\ S \subseteq table.sets[repl.id]
     /\ repl.phase = "paint" =>
          /\ Here.sym \in table.sets[repl.id]
          /\ \A j \in DOMAIN repl.out :
               j < repl.i => S \cup {Here.sym} \subseteq
                               table.sets[repl.out[j].hides]

Inv ==
  /\ TableInterned
  /\ macros \in [Names -> Macro]
  /\ StackOK(frames, table, macros)
  /\ ReplacementOK
  /\ diags \in Seq({"UnterminatedArgs", "MacroArity", "InvalidPaste"})
  /\ out \in Seq(Covering(table, {}))
  /\ done \in BOOLEAN
-----------------------------------------------------------------------------
(***************************************************************************)
(* Hide sets only grow with the table, so what covers a set goes on        *)
(* covering it.                                                            *)
(***************************************************************************)
LEMMA CoveringKept ==
  ASSUME NEW t, NEW u, NEW S, NEW R, Extends(t, u), R \subseteq S
  PROVE  Covering(t, S) \subseteq Covering(u, R)
BY DEF Covering, Extends

LEMMA SeqWiden ==
  ASSUME NEW C, NEW D, C \subseteq D
  PROVE  Seq(C) \subseteq Seq(D) /\ Seq(Seq(C)) \subseteq Seq(Seq(D))
<1>1. Seq(C) \subseteq Seq(D)
  BY SeqMonotonic
<1> QED
  BY <1>1, SeqMonotonic

LEMMA FramesWiden ==
  ASSUME NEW C, NEW D, C \subseteq D
  PROVE  FramesOver(C) \subseteq FramesOver(D)
<1>1. Seq(C) \subseteq Seq(D) /\ Seq(Seq(C)) \subseteq Seq(Seq(D))
  BY SeqWiden
<1>2. CallsOver(C) \subseteq CallsOver(D)
  BY <1>1 DEF CallsOver
<1> QED
  BY <1>1, <1>2 DEF FramesOver

LEMMA FrameKept ==
  ASSUME NEW f, NEW t, NEW u, NEW S, NEW m,
         FrameOK(f, t, S, m), Extends(t, u)
  PROVE  FrameOK(f, u, S, m)
<1>1. f \in FramesOver(Covering(u, S))
  BY CoveringKept, FramesWiden DEF FrameOK
<1>2. ASSUME f.call # NoCall PROVE CallOK(f, u, m)
  <2> DEFINE C == Covering(t, S)
  <2>1. CallOK(f, t, m) /\ f.pos \in 1 .. Len(f.tokens) + 1
    BY <1>2 DEF FrameOK
  <2>2. f.tokens \in Seq(C)
    BY DEF FrameOK, FramesOver
  <2> HIDE DEF C
  <2>3. f.pos \in 1 .. Len(f.tokens)
    BY <2>1, <2>2 DEF CallOK
  <2>4. f.tokens[f.pos] \in C
    BY <2>2, <2>3, ElementOfSeq
  <2>5. f.tokens[f.pos].hides \in Ids(t)
    BY <2>4 DEF C, Covering
  <2>6. u.sets[f.tokens[f.pos].hides] = t.sets[f.tokens[f.pos].hides]
    BY <2>5 DEF Extends
  <2> QED
    BY <2>1, <2>6 DEF CallOK
<1> QED
  BY <1>1, <1>2 DEF FrameOK

LEMMA StackKept ==
  ASSUME NEW fs, NEW t, NEW u, NEW m, StackOK(fs, t, m), Extends(t, u)
  PROVE  StackOK(fs, u, m)
<1>1. fs \in Seq(FramesOver(Covering(u, {})))
  <2>1. Covering(t, {}) \subseteq Covering(u, {})
    BY CoveringKept
  <2>2. FramesOver(Covering(t, {})) \subseteq FramesOver(Covering(u, {}))
    BY <2>1, FramesWiden
  <2> QED
    BY <2>2, SeqMonotonic DEF StackOK
<1>2. \A d \in 1 .. Len(fs) : FrameOK(fs[d], u, Within(fs, d), m)
  BY FrameKept DEF StackOK
<1> QED
  BY <1>1, <1>2 DEF StackOK
-----------------------------------------------------------------------------
(***************************************************************************)
(* What the actions do to the stack: change the top frame without changing *)
(* what it is, put a frame on top, take the top frame off.                 *)
(***************************************************************************)
LEMMA WithinSame ==
  ASSUME NEW fs, NEW gs, NEW d \in Nat,
         \A e \in 1 .. d : gs[e].kind = fs[e].kind /\ gs[e].name = fs[e].name
  PROVE  Within(gs, d) = Within(fs, d)
BY DEF Within

LEMMA WithinNext ==
  ASSUME NEW fs, NEW d \in Nat \ {0}
  PROVE  Within(fs, d) = Within(fs, d - 1) \cup
           (IF fs[d].kind = "replacement" THEN {fs[d].name} ELSE {})
<1>1. 1 .. d = (1 .. d - 1) \cup {d}
  OBVIOUS
<1> QED
  BY <1>1 DEF Within

LEMMA StackShape ==
  ASSUME NEW fs, NEW t, NEW m, StackOK(fs, t, m)
  PROVE  /\ Len(fs) \in Nat \ {0} /\ DOMAIN fs = 1 .. Len(fs)
         /\ \A d \in 1 .. Len(fs) : FrameOK(fs[d], t, Within(fs, d), m)
BY EmptySeq, LenProperties DEF StackOK

LEMMA FrameIsAny ==
  ASSUME NEW f, NEW t, NEW S, NEW m, FrameOK(f, t, S, m)
  PROVE  f \in FramesOver(Covering(t, {}))
<1>1. Covering(t, S) \subseteq Covering(t, {})
  BY DEF Covering
<1> QED
  BY <1>1, FramesWiden DEF FrameOK

LEMMA StackTop ==
  ASSUME NEW fs, NEW t, NEW m, StackOK(fs, t, m), NEW g,
         FrameOK(g, t, Within(fs, Len(fs)), m),
         g.kind = fs[Len(fs)].kind, g.name = fs[Len(fs)].name
  PROVE  LET gs == [fs EXCEPT ![Len(fs)] = g]
         IN /\ StackOK(gs, t, m) /\ Len(gs) = Len(fs) /\ gs[Len(fs)] = g
            /\ Within(gs, Len(fs)) = Within(fs, Len(fs))
<1> DEFINE n == Len(fs)
           gs == [fs EXCEPT ![n] = g]
           A == FramesOver(Covering(t, {}))
<1>1. n \in Nat \ {0} /\ DOMAIN fs = 1 .. n /\ n \in 1 .. n
  BY StackShape
<1>2. g \in A /\ fs \in Seq(A)
  BY FrameIsAny DEF StackOK
<1> HIDE DEF A
<1>3. /\ gs \in Seq(A) /\ Len(gs) = n
      /\ \A e \in 1 .. n : gs[e] = IF e = n THEN g ELSE fs[e]
  BY <1>1, <1>2, ExceptSeq
<1> HIDE DEF gs
<1>4. \A e \in 1 .. n : gs[e].kind = fs[e].kind /\ gs[e].name = fs[e].name
  BY <1>3
<1>5. \A d \in 0 .. n : Within(gs, d) = Within(fs, d)
  <2> TAKE d \in 0 .. n
  <2>1. d \in Nat /\ \A e \in 1 .. d : e \in 1 .. n
    BY <1>1
  <2> QED
    BY <1>4, <2>1, WithinSame
<1>6. gs # <<>>
  BY <1>1, <1>3, EmptySeq
<1>7. ASSUME NEW d \in 1 .. n
      PROVE  /\ FrameOK(gs[d], t, Within(gs, d), m)
             /\ gs[d].kind = "text" <=> d = 1
             /\ gs[d].kind = "argument" => AwaitsArgument(gs[d - 1])
             /\ gs[d].kind = "replacement" => gs[d].name \notin Within(gs, d - 1)
  <2>1. d \in 0 .. n /\ d - 1 \in 0 .. n
    BY <1>1, <1>7
  <2>2. /\ FrameOK(fs[d], t, Within(fs, d), m)
        /\ fs[d].kind = "text" <=> d = 1
        /\ fs[d].kind = "argument" => AwaitsArgument(fs[d - 1])
        /\ fs[d].kind = "replacement" => fs[d].name \notin Within(fs, d - 1)
    BY <1>7 DEF StackOK
  <2>3. FrameOK(gs[d], t, Within(gs, d), m)
    <3>1. CASE d = n
      BY <1>3, <1>5, <1>7, <2>1, <3>1
    <3>2. CASE d # n
      BY <1>3, <1>5, <1>7, <2>1, <2>2, <3>2
    <3> QED
      BY <3>1, <3>2
  <2>4. ASSUME gs[d].kind = "argument" PROVE AwaitsArgument(gs[d - 1])
    <3>1. d # 1
      BY <1>4, <1>7, <2>2, <2>4
    <3>2. d - 1 \in 1 .. n /\ d - 1 # n
      BY <1>1, <1>7, <3>1
    <3> QED
      BY <1>3, <1>4, <1>7, <2>2, <2>4, <3>2
  <2> QED
    BY <1>4, <1>5, <1>7, <2>1, <2>2, <2>3, <2>4
<1>8. gs[n] = g /\ Within(gs, n) = Within(fs, n)
  <2>1. n \in 0 .. n /\ n \in 1 .. n
    BY <1>1
  <2> QED
    BY <1>3, <1>5, <2>1
<1>9. StackOK(gs, t, m)
  BY <1>3, <1>6, <1>7 DEF StackOK, A
<1> QED
  BY <1>3, <1>8, <1>9 DEF gs

LEMMA StackPush ==
  ASSUME NEW fs, NEW t, NEW m, StackOK(fs, t, m), NEW g,
         g.kind \in {"argument", "replacement"},
         FrameOK(g, t, Within(fs, Len(fs)) \cup
                   (IF g.kind = "replacement" THEN {g.name} ELSE {}), m),
         g.kind = "argument" => AwaitsArgument(fs[Len(fs)]),
         g.kind = "replacement" => g.name \notin Within(fs, Len(fs))
  PROVE  LET gs == Append(fs, g)
         IN /\ StackOK(gs, t, m) /\ Len(gs) = Len(fs) + 1
            /\ gs[Len(fs) + 1] = g
<1> DEFINE n == Len(fs)
           gs == Append(fs, g)
           A == FramesOver(Covering(t, {}))
<1>1. n \in Nat \ {0}
  BY StackShape
<1>2. g \in A /\ fs \in Seq(A)
  BY FrameIsAny DEF StackOK
<1> HIDE DEF A
<1>3. /\ gs \in Seq(A) /\ gs # <<>> /\ Len(gs) = n + 1
      /\ gs[n + 1] = g /\ \A e \in 1 .. n : gs[e] = fs[e]
  BY <1>2, AppendProperties
<1> HIDE DEF gs
<1>4. \A d \in 0 .. n : Within(gs, d) = Within(fs, d)
  <2> TAKE d \in 0 .. n
  <2>1. d \in Nat /\ \A e \in 1 .. d : e \in 1 .. n
    BY <1>1
  <2> QED
    BY <1>3, <2>1, WithinSame
<1>5. ASSUME NEW d \in 1 .. n
      PROVE  /\ FrameOK(gs[d], t, Within(gs, d), m)
             /\ gs[d].kind = "text" <=> d = 1
             /\ gs[d].kind = "argument" => AwaitsArgument(gs[d - 1])
             /\ gs[d].kind = "replacement" => gs[d].name \notin Within(gs, d - 1)
  <2>1. d \in 0 .. n /\ d - 1 \in 0 .. n /\ (d # 1 => d - 1 \in 1 .. n)
    BY <1>1, <1>5
  <2>2. /\ FrameOK(fs[d], t, Within(fs, d), m)
        /\ fs[d].kind = "text" <=> d = 1
        /\ fs[d].kind = "argument" => AwaitsArgument(fs[d - 1])
        /\ fs[d].kind = "replacement" => fs[d].name \notin Within(fs, d - 1)
    BY <1>5 DEF StackOK
  <2>3. gs[d] = fs[d] /\ (d # 1 => gs[d - 1] = fs[d - 1])
    BY <1>3, <1>5, <2>1
  <2>4. fs[d].kind = "argument" => d # 1
    BY <2>2
  <2> QED
    BY <1>4, <2>1, <2>2, <2>3, <2>4
<1>6. /\ Within(gs, n) = Within(fs, n)
      /\ Within(gs, n + 1) = Within(fs, n) \cup
           (IF g.kind = "replacement" THEN {g.name} ELSE {})
  <2>1. n + 1 \in Nat \ {0} /\ (n + 1) - 1 = n /\ n \in 0 .. n
    BY <1>1
  <2> QED
    BY <1>3, <1>4, <2>1, WithinNext
<1>7. /\ FrameOK(gs[n + 1], t, Within(gs, n + 1), m)
      /\ gs[n + 1].kind = "text" <=> n + 1 = 1
      /\ gs[n + 1].kind = "argument" => AwaitsArgument(gs[n])
      /\ gs[n + 1].kind = "replacement" => gs[n + 1].name \notin Within(gs, n)
  <2>1. n + 1 # 1 /\ n \in 1 .. n
    BY <1>1
  <2> QED
    BY <1>3, <1>6, <2>1
<1>8. \A d \in 1 .. n + 1 : d \in 1 .. n \/ (d = n + 1 /\ d - 1 = n)
  BY <1>1
<1> QED
  BY <1>3, <1>5, <1>7, <1>8 DEF StackOK, A, gs

LEMMA StackPop ==
  ASSUME NEW fs, NEW t, NEW m, StackOK(fs, t, m), Len(fs) > 1
  PROVE  LET gs == Front(fs)
         IN /\ StackOK(gs, t, m) /\ Len(gs) = Len(fs) - 1
            /\ gs[Len(fs) - 1] = fs[Len(fs) - 1]
            /\ Within(gs, Len(fs) - 1) = Within(fs, Len(fs) - 1)
<1> DEFINE n == Len(fs) - 1
           gs == Front(fs)
           A == FramesOver(Covering(t, {}))
<1>1. Len(fs) \in Nat /\ n \in Nat \ {0}
  BY StackShape
<1>2. fs \in Seq(A)
  BY DEF StackOK
<1> HIDE DEF A
<1>3. /\ gs \in Seq(A) /\ Len(gs) = n
      /\ \A e \in 1 .. n : gs[e] = fs[e]
  <2>1. \A e \in 1 .. n : fs[e] \in A
    BY <1>1, <1>2
  <2>2. gs = SubSeq(fs, 1, n)
    BY DEF Front
  <2>3. /\ SubSeq(fs, 1, n) \in Seq(A)
        /\ Len(SubSeq(fs, 1, n)) = IF 1 <= n THEN n - 1 + 1 ELSE 0
        /\ \A e \in 1 .. n - 1 + 1 : SubSeq(fs, 1, n)[e] = fs[1 + e - 1]
    BY <1>1, <2>1, SubSeqProperties
  <2> HIDE DEF gs
  <2> QED
    BY <1>1, <2>2, <2>3
<1> HIDE DEF gs
<1>4. gs # <<>>
  BY <1>1, <1>3, EmptySeq
<1>5. \A d \in 0 .. n : Within(gs, d) = Within(fs, d)
  <2> TAKE d \in 0 .. n
  <2>1. d \in Nat /\ \A e \in 1 .. d : e \in 1 .. n
    BY <1>1
  <2> QED
    BY <1>3, <2>1, WithinSame
<1>6. ASSUME NEW d \in 1 .. n
      PROVE  /\ FrameOK(gs[d], t, Within(gs, d), m)
             /\ gs[d].kind = "text" <=> d = 1
             /\ gs[d].kind = "argument" => AwaitsArgument(gs[d - 1])
             /\ gs[d].kind = "replacement" => gs[d].name \notin Within(gs, d - 1)
  <2>1. /\ d \in 1 .. Len(fs) /\ d \in 0 .. n /\ d - 1 \in 0 .. n
        /\ d # 1 => d - 1 \in 1 .. n
    BY <1>1, <1>6
  <2>2. /\ FrameOK(fs[d], t, Within(fs, d), m)
        /\ fs[d].kind = "text" <=> d = 1
        /\ fs[d].kind = "argument" => AwaitsArgument(fs[d - 1])
        /\ fs[d].kind = "replacement" => fs[d].name \notin Within(fs, d - 1)
    BY <2>1 DEF StackOK
  <2>3. gs[d] = fs[d] /\ (d # 1 => gs[d - 1] = fs[d - 1])
    BY <1>3, <1>6, <2>1
  <2>4. fs[d].kind = "argument" => d # 1
    BY <2>2
  <2> QED
    BY <1>5, <2>1, <2>2, <2>3, <2>4
<1>7. n \in 1 .. n /\ n \in 0 .. n
  BY <1>1
<1> QED
  BY <1>3, <1>4, <1>5, <1>6, <1>7 DEF StackOK, A, gs
-----------------------------------------------------------------------------
(***************************************************************************)
(* What the actions do to one frame.                                       *)
(***************************************************************************)
LEMMA FrameParts ==
  ASSUME NEW f, NEW t, NEW S, NEW m, FrameOK(f, t, S, m)
  PROVE  LET C == Covering(t, S)
         IN /\ f.tokens \in Seq(C) /\ f.out \in Seq(C)
            /\ f.call \in CallsOver(C)
            /\ f.call.raw \in Seq(Seq(C)) /\ f.call.expanded \in Seq(Seq(C))
            /\ f.pos \in Nat \ {0} /\ Len(f.tokens) \in Nat
            /\ f.pos <= Len(f.tokens) => f.tokens[f.pos] \in C
<1> DEFINE C == Covering(t, S)
<1>1. /\ f.tokens \in Seq(C) /\ f.out \in Seq(C) /\ f.call \in CallsOver(C)
      /\ f.pos \in Nat
  BY DEF FrameOK, FramesOver
<1>2. f.pos \in 1 .. Len(f.tokens) + 1
  BY DEF FrameOK
<1> HIDE DEF C
<1>3. Len(f.tokens) \in Nat
  BY <1>1, LenProperties
<1>4. f.pos \in Nat \ {0}
  BY <1>2, <1>3
<1>5. ASSUME f.pos <= Len(f.tokens) PROVE f.tokens[f.pos] \in C
  <2>1. f.pos \in 1 .. Len(f.tokens)
    BY <1>3, <1>4, <1>5
  <2> QED
    BY <1>1, <2>1, ElementOfSeq
<1>6. f.call.raw \in Seq(Seq(C)) /\ f.call.expanded \in Seq(Seq(C))
  BY <1>1 DEF CallsOver
<1> QED
  BY <1>1, <1>3, <1>4, <1>5, <1>6 DEF C

LEMMA NoCallType == \A C : NoCall \in CallsOver(C)
BY EmptySeq DEF NoCall, CallsOver

LEMMA FrameCopied ==
  ASSUME NEW f, NEW t, NEW S, NEW m, FrameOK(f, t, S, m),
         f.call = NoCall, f.pos <= Len(f.tokens)
  PROVE  LET g == [f EXCEPT !.out = Append(@, f.tokens[f.pos]), !.pos = @ + 1]
         IN FrameOK(g, t, S, m) /\ g.kind = f.kind /\ g.name = f.name
<1> DEFINE C == Covering(t, S)
           o == Append(f.out, f.tokens[f.pos])
           next == f.pos + 1
           g == [f EXCEPT !.out = o, !.pos = next]
<1>1. f \in FramesOver(C) /\ (f.kind = "replacement" <=> f.name \in Names)
  BY DEF FrameOK
<1>2. /\ f.out \in Seq(C) /\ f.tokens[f.pos] \in C /\ f.pos \in Nat \ {0}
      /\ Len(f.tokens) \in Nat
  BY FrameParts
<1> HIDE DEF C
<1>3. o \in Seq(C)
  BY <1>2, AppendProperties
<1> HIDE DEF o
<1>4. g \in FramesOver(C)
  <2>1. next \in Nat
    BY <1>2
  <2> HIDE DEF next
  <2> QED
    BY <1>1, <1>3, <2>1 DEF FramesOver
<1>5. /\ g.kind = f.kind /\ g.name = f.name /\ g.tokens = f.tokens
      /\ g.pos = f.pos + 1 /\ g.call = f.call
  BY <1>1 DEF FramesOver
<1>6. g.pos \in 1 .. Len(g.tokens) + 1
  BY <1>2, <1>5
<1>7. g = [f EXCEPT !.out = Append(@, f.tokens[f.pos]), !.pos = @ + 1]
  BY DEF o
<1> HIDE DEF g
<1>8. FrameOK(g, t, S, m)
  BY <1>1, <1>4, <1>5, <1>6 DEF FrameOK, C
<1> QED
  BY <1>5, <1>7, <1>8

LEMMA FrameCalled ==
  ASSUME NEW f, NEW t, NEW S, NEW m, FrameOK(f, t, S, m),
         NEW c \in CallsOver(Covering(t, S)),
         CallOK([f EXCEPT !.call = c], t, m)
  PROVE  LET g == [f EXCEPT !.call = c]
         IN FrameOK(g, t, S, m) /\ g.kind = f.kind /\ g.name = f.name
<1> DEFINE C == Covering(t, S)
           g == [f EXCEPT !.call = c]
<1>1. f \in FramesOver(C) /\ c \in CallsOver(C) /\ CallOK(g, t, m)
  BY DEF FrameOK
<1> HIDE DEF C
<1>2. g \in FramesOver(C)
  BY <1>1 DEF FramesOver
<1>3. /\ g.kind = f.kind /\ g.name = f.name /\ g.tokens = f.tokens
      /\ g.pos = f.pos
  BY <1>1 DEF FramesOver
<1> HIDE DEF g
<1>4. FrameOK(g, t, S, m)
  BY <1>1, <1>2, <1>3 DEF FrameOK, C
<1> QED
  BY <1>3, <1>4 DEF g

LEMMA FrameArgument ==
  ASSUME NEW f, NEW t, NEW S, NEW m, FrameOK(f, t, S, m), AwaitsArgument(f),
         NEW s \in Seq(Covering(t, S))
  PROVE  LET g == [f EXCEPT !.call.expanded = Append(@, s)]
         IN FrameOK(g, t, S, m) /\ g.kind = f.kind /\ g.name = f.name
<1> DEFINE C == Covering(t, S)
           x == Append(f.call.expanded, s)
           c == [f.call EXCEPT !.expanded = x]
           g == [f EXCEPT !.call = c]
<1>1. f.call \in CallsOver(C) /\ f.call.expanded \in Seq(Seq(C))
      /\ f.call.raw \in Seq(Seq(C)) /\ s \in Seq(C)
  BY FrameParts
<1>2. f \in FramesOver(C) /\ CallOK(f, t, m)
  BY DEF FrameOK, AwaitsArgument
<1>3. Len(f.call.expanded) < Len(f.call.raw)
  BY DEF AwaitsArgument
<1> HIDE DEF C
<1>4. /\ x \in Seq(Seq(C)) /\ Len(x) = Len(f.call.expanded) + 1
      /\ Len(f.call.expanded) \in Nat /\ Len(f.call.raw) \in Nat
  BY <1>1, AppendProperties, LenProperties
<1>5. g = [f EXCEPT !.call.expanded = Append(@, s)]
  BY <1>2 DEF FramesOver
<1> HIDE DEF x
<1>6. /\ c \in CallsOver(C) /\ c.raw = f.call.raw /\ c.close = f.call.close
      /\ c.expanded = x
  BY <1>1, <1>4 DEF CallsOver
<1> HIDE DEF c
<1>7. g.call = c /\ g.tokens = f.tokens /\ g.pos = f.pos
  BY <1>2 DEF FramesOver
<1>8. Len(x) <= Len(f.call.raw)
  BY <1>3, <1>4
<1> HIDE DEF g
<1>9. CallOK(g, t, m)
  BY <1>2, <1>6, <1>7, <1>8 DEF CallOK
<1> QED
  BY <1>5, <1>6, <1>9, FrameCalled DEF C, g

LEMMA FrameResumed ==
  ASSUME NEW f, NEW t, NEW S, NEW m, FrameOK(f, t, S, m), f.call # NoCall
  PROVE  LET g == [f EXCEPT !.call = NoCall, !.pos = f.call.close + 1]
         IN FrameOK(g, t, S, m) /\ g.kind = f.kind /\ g.name = f.name
<1> DEFINE C == Covering(t, S)
           next == f.call.close + 1
           g == [f EXCEPT !.call = NoCall, !.pos = next]
<1>1. f \in FramesOver(C) /\ (f.kind = "replacement" <=> f.name \in Names)
  BY DEF FrameOK
<1>2. f.call.close \in f.pos .. Len(f.tokens)
  BY DEF FrameOK, CallOK
<1>3. f.pos \in Nat \ {0} /\ Len(f.tokens) \in Nat
  BY FrameParts
<1> HIDE DEF C
<1>4. f.call.close + 1 \in 1 .. Len(f.tokens) + 1
  BY <1>2, <1>3
<1>5. NoCall \in CallsOver(C)
  BY NoCallType
<1>6. g \in FramesOver(C)
  <2>1. next \in Nat
    BY <1>3, <1>4
  <2> HIDE DEF next
  <2> QED
    BY <1>1, <1>5, <2>1 DEF FramesOver
<1>7. /\ g.kind = f.kind /\ g.name = f.name /\ g.tokens = f.tokens
      /\ g.pos = f.call.close + 1 /\ g.call = NoCall
  BY <1>1 DEF FramesOver
<1> HIDE DEF g
<1>8. FrameOK(g, t, S, m)
  BY <1>1, <1>4, <1>6, <1>7 DEF FrameOK, C
<1> QED
  BY <1>7, <1>8 DEF g

LEMMA FrameExtended ==
  ASSUME NEW f, NEW t, NEW S, NEW m, FrameOK(f, t, S, m),
         NEW s \in Seq(Covering(t, S))
  PROVE  LET g == [f EXCEPT !.out = @ \o s]
         IN FrameOK(g, t, S, m) /\ g.kind = f.kind /\ g.name = f.name
<1> DEFINE C == Covering(t, S)
           o == f.out \o s
           g == [f EXCEPT !.out = o]
<1>1. f \in FramesOver(C)
  BY DEF FrameOK
<1>2. f.out \in Seq(C) /\ s \in Seq(C)
  BY FrameParts
<1> HIDE DEF C
<1>3. o \in Seq(C)
  BY <1>2, ConcatProperties
<1>4. g = [f EXCEPT !.out = @ \o s]
  OBVIOUS
<1> HIDE DEF o
<1>5. g \in FramesOver(C)
  BY <1>1, <1>3 DEF FramesOver
<1>6. /\ g.kind = f.kind /\ g.name = f.name /\ g.tokens = f.tokens
      /\ g.pos = f.pos /\ g.call = f.call
  BY <1>1 DEF FramesOver
<1> HIDE DEF g
<1>7. FrameOK(g, t, S, m)
  BY <1>5, <1>6 DEF FrameOK, CallOK, C
<1> QED
  BY <1>4, <1>6, <1>7

LEMMA FrameNew ==
  ASSUME NEW t, NEW S, NEW m, NEW s \in Seq(Covering(t, S)),
         NEW name \in Names \cup {NoName},
         NEW kind \in {"text", "argument", "replacement"},
         kind = "replacement" <=> name \in Names
  PROVE  LET g == Frame(kind, name, s)
         IN FrameOK(g, t, S, m) /\ g.kind = kind /\ g.name = name
<1> DEFINE C == Covering(t, S)
           g == Frame(kind, name, s)
<1>1. s \in Seq(C) /\ <<>> \in Seq(C)
  BY EmptySeq
<1> HIDE DEF C
<1>2. Len(s) \in Nat
  BY <1>1, LenProperties
<1>3. NoCall \in CallsOver(C)
  BY NoCallType
<1>4. g \in FramesOver(C)
  BY <1>1, <1>3 DEF Frame, FramesOver
<1>5. /\ g.kind = kind /\ g.name = name /\ g.tokens = s /\ g.pos = 1
      /\ g.call = NoCall
  BY DEF Frame
<1>6. g.pos \in 1 .. Len(g.tokens) + 1
  BY <1>2, <1>5
<1> HIDE DEF g
<1>7. FrameOK(g, t, S, m)
  BY <1>4, <1>5, <1>6 DEF FrameOK, C
<1> QED
  BY <1>5, <1>7 DEF g
-----------------------------------------------------------------------------
(***************************************************************************)
(* collect_arguments cuts its arguments out of the tokens in hand.         *)
(***************************************************************************)
Inherited == Covering(table, Within(frames, Top))

LEMMA TopOK ==
  ASSUME Inv
  PROVE  /\ Top \in Nat \ {0} /\ Top \in 1 .. Top /\ Len(frames) = Top
         /\ FrameOK(F, table, Within(frames, Top), macros)
BY StackShape DEF Inv, Top, F

LEMMA CloseType ==
  ASSUME Inv, Close # 0
  PROVE  Close \in F.pos + 2 .. Len(F.tokens)
<1> DEFINE closing == {k \in F.pos + 2 .. Len(F.tokens) : Depth(k) = 0}
<1>1. F.pos \in Nat \ {0} /\ Len(F.tokens) \in Nat
  BY TopOK, FrameParts
<1>2. /\ Close = IF closing = {} THEN 0 ELSE Min(closing)
      /\ closing \subseteq F.pos + 2 .. Len(F.tokens)
  BY DEF Close
<1> HIDE DEF closing
<1>3. closing # {} /\ closing \subseteq Nat /\ Close = Min(closing)
  BY <1>1, <1>2
<1>4. \E k \in closing : \A n \in closing : k <= n
  BY <1>3, SetMinimum
<1>5. Min(closing) \in closing
  BY <1>4 DEF Min
<1> QED
  BY <1>2, <1>3, <1>5

LEMMA AscendingType ==
  ASSUME NEW S, S \subseteq Nat, IsFiniteSet(S)
  PROVE  Ascending(S) \in [1 .. Cardinality(S) -> S]
<1>1. \E c \in [1 .. Cardinality(S) -> S] :
        \A a, b \in DOMAIN c : a < b => c[a] < c[b]
  BY AscendingExists DEF IsAscending
<1> QED
  BY <1>1 DEF Ascending

LEMMA ArgumentsType ==
  ASSUME Inv, F.pos <= Len(F.tokens), Close # 0
  PROVE  Arguments \in Seq(Seq(Inherited))
<1> DEFINE C == Inherited
           commas == {k \in F.pos + 2 .. Close - 1 :
                        F.tokens[k].sym = "," /\ Depth(k) = 1}
           S == commas \cup {F.pos + 1, Close}
           cuts == Ascending(S)
           Piece(a) == SubSeq(F.tokens, cuts[a] + 1, cuts[a + 1] - 1)
           list == [a \in 1 .. Len(cuts) - 1 |-> Piece(a)]
           n == Cardinality(S)
<1>1. /\ F.pos \in Nat \ {0} /\ Len(F.tokens) \in Nat
      /\ F.tokens \in Seq(C)
  BY TopOK, FrameParts DEF Inherited
<1>2. Close \in F.pos + 2 .. Len(F.tokens)
  BY CloseType
<1>3. S \subseteq 1 .. Len(F.tokens)
  <2>1. commas \subseteq F.pos + 2 .. Close - 1
    OBVIOUS
  <2> HIDE DEF commas
  <2>2. \A k \in S : k \in F.pos + 2 .. Close - 1 \/ k = F.pos + 1 \/ k = Close
    BY <2>1
  <2> HIDE DEF S
  <2>3. \A k \in S : k \in 1 .. Len(F.tokens)
    BY <1>1, <1>2, <2>2
  <2> QED
    BY <2>3
<1>4. Arguments = IF Def.params = <<>> /\ list = << <<>> >> THEN <<>> ELSE list
  BY DEF Arguments
<1> HIDE DEF S, C
<1>5. IsFiniteSet(S) /\ S \subseteq Nat
  <2>1. IsFiniteSet(1 .. Len(F.tokens))
    BY <1>1, FS_Interval
  <2>2. IsFiniteSet(S)
    BY <1>3, <2>1, FS_Subset
  <2> QED
    BY <1>1, <1>3, <2>2
<1>6. cuts \in [1 .. n -> S] /\ n \in Nat
  BY <1>5, AscendingType, FS_CardinalityType
<1> HIDE DEF cuts, n
<1>7. Len(cuts) = n
  BY <1>6
<1>8. ASSUME NEW a \in 1 .. n - 1
      PROVE  Piece(a) \in Seq(C)
  <2> DEFINE first == cuts[a] + 1
             last == cuts[a + 1] - 1
  <2>1. a \in 1 .. n /\ a + 1 \in 1 .. n
    BY <1>6
  <2>2. cuts[a] \in 1 .. Len(F.tokens) /\ cuts[a + 1] \in 1 .. Len(F.tokens)
    BY <1>3, <1>6, <2>1
  <2>3. first \in Int /\ last \in Int /\ first >= 1 /\ last <= Len(F.tokens)
    BY <1>1, <2>2
  <2>4. Piece(a) = SubSeq(F.tokens, first, last)
    OBVIOUS
  <2> HIDE DEF first, last
  <2>5. \A i \in first .. last : i \in 1 .. Len(F.tokens)
    BY <1>1, <2>3
  <2>6. \A i \in first .. last : F.tokens[i] \in C
    BY <1>1, <2>5, ElementOfSeq
  <2>7. SubSeq(F.tokens, first, last) \in Seq(C)
    BY <2>3, <2>6, SubSeqProperties
  <2> QED
    BY <2>4, <2>7
<1>9. list \in Seq(Seq(C))
  <2> DEFINE k == IF n = 0 THEN 0 ELSE n - 1
  <2>1. k \in Nat /\ 1 .. k = 1 .. n - 1
    BY <1>6
  <2>2. list \in [1 .. n - 1 -> Seq(C)]
    BY <1>7, <1>8
  <2> HIDE DEF list, k
  <2>3. list \in [1 .. k -> Seq(C)]
    BY <2>1, <2>2
  <2> QED
    BY <2>1, <2>3, SeqDef
<1> HIDE DEF list
<1> QED
  BY <1>4, <1>9, EmptySeq DEF C
-----------------------------------------------------------------------------
(***************************************************************************)
(* The invariant after each action.  The actions that scan find no         *)
(* replacement under construction.                                         *)
(***************************************************************************)
LEMMA Idle ==
  ASSUME Inv, F.call = NoCall \/ AwaitsArgument(F)
  PROVE  repl.phase = "substitute"
<1>1. CASE F.call = NoCall
  BY <1>1 DEF Inv, ReplacementOK
<1>2. CASE AwaitsArgument(F)
  <2>1. Len(F.call.expanded) < Len(F.call.raw)
    BY <1>2 DEF AwaitsArgument
  <2>2. Len(F.call.expanded) \in Nat /\ Len(F.call.raw) \in Nat
    BY TopOK, FrameParts, LenProperties
  <2>3. Len(F.call.expanded) # Len(F.call.raw)
    BY <2>1, <2>2
  <2> QED
    BY <2>3 DEF Inv, ReplacementOK
<1> QED
  BY <1>1, <1>2

LEMMA IdleStep ==
  ASSUME Inv, repl.phase = "substitute", UNCHANGED <<table, macros, repl>>,
         StackOK(frames', table, macros),
         diags' \in Seq({"UnterminatedArgs", "MacroArity", "InvalidPaste"}),
         out' \in Seq(Covering(table, {})), done' \in BOOLEAN
  PROVE  Inv'
<1>1. TableInterned' /\ (macros \in [Names -> Macro])'
  BY DEF Inv, TableInterned
<1>2. ReplacementOK'
  BY DEF Inv, ReplacementOK
<1>3. StackOK(frames, table, macros)'
  OBVIOUS
<1>4. (out \in Seq(Covering(table, {})))'
  OBVIOUS
<1> QED
  BY <1>1, <1>2, <1>3, <1>4 DEF Inv

LEMMA CopyStep ==
  ASSUME Inv, Scanning, SetTop(CopyHere(F)),
         UNCHANGED <<table, macros, repl, out, done>>,
         diags' \in Seq({"UnterminatedArgs", "MacroArity", "InvalidPaste"})
  PROVE  Inv'
<1> DEFINE g == [F EXCEPT !.out = Append(@, F.tokens[F.pos]), !.pos = @ + 1]
<1>1. F.call = NoCall /\ F.pos <= Len(F.tokens)
  BY DEF Scanning
<1>2. /\ FrameOK(g, table, Within(frames, Top), macros)
      /\ g.kind = F.kind /\ g.name = F.name
  BY <1>1, TopOK, FrameCopied
<1>3. frames' = [frames EXCEPT ![Len(frames)] = g]
  BY DEF SetTop, CopyHere, Here, Top
<1> HIDE DEF g
<1>4. StackOK(frames', table, macros)
  BY <1>2, <1>3, StackTop DEF Inv, F, Top
<1> QED
  BY <1>1, <1>4, Idle, IdleStep DEF Inv

LEMMA NamedType ==
  ASSUME Inv, MacroName
  PROVE  /\ Scanning /\ Here \in Inherited
         /\ Here.sym \in Names /\ Here.sym \notin table.sets[Here.hides]
         /\ Def \in Macro /\ F.pos \in 1 .. Len(F.tokens)
<1>1. /\ Scanning /\ Here.sym \in Names
      /\ Here.sym \notin table.sets[Here.hides]
  BY DEF MacroName, Hides
<1>2. F.pos <= Len(F.tokens)
  BY <1>1 DEF Scanning
<1>3. Here \in Inherited
  BY <1>2, TopOK, FrameParts DEF Here, Inherited
<1>4. Def \in Macro
  BY <1>1 DEF Inv, Def
<1>5. F.pos \in 1 .. Len(F.tokens)
  <2>1. F.pos \in Nat \ {0} /\ Len(F.tokens) \in Nat
    BY TopOK, FrameParts
  <2> QED
    BY <1>2, <2>1
<1> QED
  BY <1>1, <1>3, <1>4, <1>5

LEMMA CallStep ==
  ASSUME Inv, MacroName,
         NEW close \in F.pos .. Len(F.tokens),
         NEW arguments \in Seq(Seq(Inherited)),
         Len(arguments) = Len(Def.params),
         Call(close, arguments)
  PROVE  Inv'
<1> DEFINE c == [close |-> close, raw |-> arguments, expanded |-> <<>>]
           g == [F EXCEPT !.call = c]
           S == Within(frames, Top)
<1>1. F.call = NoCall
  BY DEF MacroName, Scanning
<1>2. FrameOK(F, table, S, macros) /\ F \in FramesOver(Covering(table, S))
  BY TopOK DEF FrameOK
<1>3. c \in CallsOver(Covering(table, S))
  <2>1. close \in Nat
    BY NamedType
  <2>2. <<>> \in Seq(Seq(Inherited))
    BY EmptySeq
  <2> QED
    BY <2>1, <2>2 DEF CallsOver, Inherited
<1>4. CallOK(g, table, macros)
  <2>1. g.call = c /\ g.tokens = F.tokens /\ g.pos = F.pos
    BY <1>2 DEF FramesOver
  <2>2. c.close = close /\ c.raw = arguments /\ Len(c.expanded) = 0
    BY EmptySeq
  <2>3. Len(arguments) \in Nat
    BY LenProperties
  <2> HIDE DEF g, c
  <2>4. /\ F.tokens[F.pos].sym \in Names
        /\ F.tokens[F.pos].sym \notin table.sets[F.tokens[F.pos].hides]
        /\ Len(c.raw) = Len(macros[F.tokens[F.pos].sym].params)
    BY <2>2, NamedType DEF Here, Def
  <2>5. Len(c.expanded) <= Len(c.raw) /\ c.close \in F.pos .. Len(F.tokens)
    BY <2>2, <2>3
  <2> QED
    BY <2>1, <2>4, <2>5 DEF CallOK
<1>5. /\ FrameOK(g, table, S, macros)
      /\ g.kind = F.kind /\ g.name = F.name
  BY <1>2, <1>3, <1>4, FrameCalled
<1>6. frames' = [frames EXCEPT ![Len(frames)] = g]
  BY DEF Call, SetTop, Top
<1>7. UNCHANGED <<table, macros, repl, diags, out, done>>
  BY DEF Call
<1> HIDE DEF g
<1>8. StackOK(frames', table, macros)
  BY <1>5, <1>6, StackTop DEF Inv, F, Top
<1> QED
  BY <1>1, <1>7, <1>8, Idle, IdleStep DEF Inv

LEMMA ReportType ==
  ASSUME Inv, NEW code \in {"UnterminatedArgs", "MacroArity", "InvalidPaste"}
  PROVE  Append(diags, code) \in
           Seq({"UnterminatedArgs", "MacroArity", "InvalidPaste"})
<1> DEFINE Codes == {"UnterminatedArgs", "MacroArity", "InvalidPaste"}
<1>1. diags \in Seq(Codes) /\ code \in Codes
  BY DEF Inv
<1> HIDE DEF Codes
<1>2. Append(diags, code) \in Seq(Codes)
  BY <1>1, AppendProperties
<1> QED
  BY <1>2 DEF Codes

LEMMA ScanKeeps ==
  ASSUME Inv, Copy \/ UnterminatedArgs \/ MacroArity \/ BeginCall \/ ExpandObject
  PROVE  Inv'
<1>1. CASE Copy
  BY <1>1, CopyStep DEF Copy, Inv
<1>2. CASE UnterminatedArgs
  BY <1>2, CopyStep, ReportType
     DEF UnterminatedArgs, Invocation, MacroName, Refuse
<1>3. CASE MacroArity
  BY <1>3, CopyStep, ReportType DEF MacroArity, Invocation, MacroName, Refuse
<1>4. CASE BeginCall
  <2>1. /\ MacroName /\ Close # 0 /\ Len(Arguments) = Len(Def.params)
        /\ Call(Close, Arguments)
    BY <1>4 DEF BeginCall, Invocation
  <2>2. F.pos \in 1 .. Len(F.tokens)
    BY <2>1, NamedType
  <2>3. Close \in F.pos .. Len(F.tokens)
    <3>1. Close \in F.pos + 2 .. Len(F.tokens)
      BY <2>1, CloseType
    <3> QED
      BY <2>2, <3>1
  <2>4. Arguments \in Seq(Seq(Inherited))
    BY <2>1, <2>2, ArgumentsType
  <2> QED
    BY <2>1, <2>3, <2>4, CallStep
<1>5. CASE ExpandObject
  <2>1. MacroName /\ ~Def.function_like /\ Call(F.pos, <<>>)
    BY <1>5 DEF ExpandObject
  <2>2. Def \in Macro /\ F.pos \in F.pos .. Len(F.tokens)
    BY <2>1, NamedType
  <2>3. Def.params = <<>>
    BY <2>1, <2>2 DEF Macro
  <2>4. <<>> \in Seq(Seq(Inherited))
    BY EmptySeq
  <2> QED
    BY <2>1, <2>2, <2>3, <2>4, CallStep
<1> QED
  BY <1>1, <1>2, <1>3, <1>4, <1>5

LEMMA ExpandArgumentKeeps ==
  ASSUME Inv, ExpandArgument
  PROVE  Inv'
<1> DEFINE s == F.call.raw[Len(F.call.expanded) + 1]
           g == Frame("argument", NoName, s)
           S == Within(frames, Top)
<1>1. AwaitsArgument(F)
  BY DEF ExpandArgument, Calling, AwaitsArgument
<1>2. /\ F.call.raw \in Seq(Seq(Inherited))
      /\ F.call.expanded \in Seq(Seq(Inherited))
  BY TopOK, FrameParts DEF Inherited
<1>3. Len(F.call.expanded) + 1 \in 1 .. Len(F.call.raw)
  <2>1. Len(F.call.expanded) \in Nat /\ Len(F.call.raw) \in Nat
    BY <1>2, LenProperties
  <2> QED
    BY <1>1, <2>1 DEF AwaitsArgument
<1>4. s \in Seq(Covering(table, S))
  BY <1>2, <1>3, ElementOfSeq DEF Inherited
<1> HIDE DEF s
<1>5. FrameOK(g, table, S, macros) /\ g.kind = "argument" /\ g.name = NoName
  BY <1>4, FrameNew, ExpansionAssumption
<1>6. frames' = Append(frames, g) /\ UNCHANGED <<table, macros, repl, diags, out, done>>
  BY DEF ExpandArgument, s
<1> HIDE DEF g
<1>7. S \cup (IF g.kind = "replacement" THEN {g.name} ELSE {}) = S
  BY <1>5
<1>8. StackOK(frames', table, macros)
  BY <1>1, <1>5, <1>6, <1>7, StackPush DEF Inv, F, Top
<1> QED
  BY <1>1, <1>6, <1>8, Idle, IdleStep DEF Inv

LEMMA ReturnStep ==
  ASSUME Inv, F.call = NoCall, F.kind # "text"
  PROVE  /\ Len(frames) > 1 /\ Len(Front(frames)) = Top - 1
         /\ StackOK(Front(frames), table, macros)
         /\ Front(frames)[Top - 1] = frames[Top - 1]
         /\ FrameOK(frames[Top - 1], table, Within(Front(frames), Top - 1), macros)
         /\ F.kind = "argument" => AwaitsArgument(frames[Top - 1])
         /\ F.out \in Seq(Covering(table, Within(Front(frames), Top - 1)))
<1>1. Top \in Nat \ {0} /\ Len(frames) = Top /\ StackOK(frames, table, macros)
  BY TopOK DEF Inv
<1>2. /\ F.kind = "text" <=> Top = 1
      /\ F.kind = "argument" => AwaitsArgument(frames[Top - 1])
  BY <1>1, TopOK DEF StackOK, F
<1>3. Top > 1
  BY <1>1, <1>2
<1>4. /\ StackOK(Front(frames), table, macros)
      /\ Len(Front(frames)) = Top - 1
      /\ Front(frames)[Top - 1] = frames[Top - 1]
      /\ Within(Front(frames), Top - 1) = Within(frames, Top - 1)
  BY <1>1, <1>3, StackPop
<1>5. FrameOK(frames[Top - 1], table, Within(frames, Top - 1), macros)
  <2>1. Top - 1 \in 1 .. Len(frames)
    BY <1>1, <1>3
  <2> QED
    BY <1>1, <2>1 DEF StackOK
<1>6. F.out \in Seq(Covering(table, Within(frames, Top - 1)))
  <2>1. Within(frames, Top - 1) \subseteq Within(frames, Top)
    BY <1>1, WithinNext
  <2>2. Covering(table, Within(frames, Top)) \subseteq
          Covering(table, Within(frames, Top - 1))
    BY <2>1 DEF Covering
  <2>3. F.out \in Seq(Covering(table, Within(frames, Top)))
    BY TopOK, FrameParts
  <2> QED
    BY <2>2, <2>3, SeqMonotonic
<1> QED
  BY <1>1, <1>2, <1>3, <1>4, <1>5, <1>6

LEMMA ReturnKeeps ==
  ASSUME Inv, ArgumentExpanded \/ Rescanned \/ Finish
  PROVE  Inv'
<1> DEFINE fs == Front(frames)
           below == frames[Top - 1]
           S == Within(fs, Top - 1)
<1>1. F.call = NoCall
  BY DEF ArgumentExpanded, Rescanned, Finish, Exhausted
<1>2. ASSUME F.kind # "text", NEW g,
             FrameOK(g, table, S, macros),
             g.kind = below.kind, g.name = below.name,
             frames' = [fs EXCEPT ![Top - 1] = g],
             UNCHANGED <<table, macros, repl, diags, out, done>>
      PROVE  Inv'
  <2>1. StackOK(fs, table, macros) /\ Len(fs) = Top - 1 /\ fs[Top - 1] = below
    BY <1>1, <1>2, ReturnStep
  <2> HIDE DEF fs, below
  <2>2. StackOK(frames', table, macros)
    BY <1>2, <2>1, StackTop
  <2> QED
    BY <1>1, <1>2, <2>2, Idle, IdleStep DEF Inv
<1>3. CASE ArgumentExpanded
  <2> DEFINE o == F.out
             g == [below EXCEPT !.call.expanded = Append(@, o)]
  <2>1. F.kind = "argument"
    BY <1>3 DEF ArgumentExpanded, Exhausted
  <2>2. /\ FrameOK(below, table, S, macros) /\ AwaitsArgument(below)
        /\ o \in Seq(Covering(table, S)) /\ fs[Top - 1] = below
    BY <1>1, <2>1, ReturnStep
  <2>3. /\ frames' = [fs EXCEPT ![Top - 1].call.expanded = Append(@, o)]
        /\ UNCHANGED <<table, macros, repl, diags, out, done>>
    BY <1>3 DEF ArgumentExpanded
  <2> HIDE DEF fs, S, below, o
  <2>4. FrameOK(g, table, S, macros) /\ g.kind = below.kind /\ g.name = below.name
    <3>1. /\ FrameOK(below, table, S, macros) /\ AwaitsArgument(below)
          /\ o \in Seq(Covering(table, S))
      BY <2>2
    <3>2. FrameOK(g, table, S, macros)
      BY <3>1, FrameArgument
    <3>3. g.kind = below.kind
      BY <3>1, FrameArgument
    <3>4. g.name = below.name
      BY <3>1, FrameArgument
    <3> QED
      BY <3>2, <3>3, <3>4
  <2>5. frames' = [fs EXCEPT ![Top - 1] = g]
    BY <2>2, <2>3
  <2> HIDE DEF g
  <2> QED
    BY <1>2, <2>1, <2>3, <2>4, <2>5
<1>4. CASE Rescanned
  <2> DEFINE o == F.out
             g == [below EXCEPT !.out = @ \o o]
  <2>1. F.kind = "replacement"
    BY <1>4 DEF Rescanned, Exhausted
  <2>2. /\ FrameOK(below, table, S, macros)
        /\ o \in Seq(Covering(table, S)) /\ fs[Top - 1] = below
    BY <1>1, <2>1, ReturnStep
  <2>3. /\ frames' = [fs EXCEPT ![Top - 1].out = @ \o o]
        /\ UNCHANGED <<table, macros, repl, diags, out, done>>
    BY <1>4 DEF Rescanned
  <2> HIDE DEF fs, S, below, o
  <2>4. FrameOK(g, table, S, macros) /\ g.kind = below.kind /\ g.name = below.name
    <3>1. FrameOK(below, table, S, macros) /\ o \in Seq(Covering(table, S))
      BY <2>2
    <3>2. FrameOK(g, table, S, macros)
      BY <3>1, FrameExtended
    <3>3. g.kind = below.kind
      BY <3>1, FrameExtended
    <3>4. g.name = below.name
      BY <3>1, FrameExtended
    <3> QED
      BY <3>2, <3>3, <3>4
  <2>5. frames' = [fs EXCEPT ![Top - 1] = g]
    BY <2>2, <2>3
  <2> HIDE DEF g
  <2> QED
    BY <1>2, <2>1, <2>3, <2>4, <2>5
<1>5. CASE Finish
  <2>1. /\ out' = F.out /\ done' = TRUE
        /\ UNCHANGED <<table, macros, frames, repl, diags>>
    BY <1>5 DEF Finish
  <2>2. F.out \in Seq(Covering(table, {}))
    <3>1. F.out \in Seq(Covering(table, Within(frames, Top)))
      BY TopOK, FrameParts
    <3>2. Covering(table, Within(frames, Top)) \subseteq Covering(table, {})
      BY DEF Covering
    <3> QED
      BY <3>1, <3>2, SeqMonotonic
  <2>3. repl.phase = "substitute"
    BY <1>1, Idle
  <2> QED
    BY <2>1, <2>2, <2>3, IdleStep DEF Inv
<1> QED
  BY <1>3, <1>4, <1>5
-----------------------------------------------------------------------------
(***************************************************************************)
(* Substitution: the operands are arguments or tokens of the body.         *)
(***************************************************************************)
AnyToken == Covering(table, {})

LEMMA BodyToken ==
  ASSUME Inv, NEW sym \in Symbols
  PROVE  Token(sym, Empty) \in AnyToken /\ << Token(sym, Empty) >> \in Seq(AnyToken)
<1>1. Empty \in Ids(table)
  BY DEF Inv, TableInterned, Interned, Ids, Empty
<1>2. Token(sym, Empty) \in AnyToken
  BY <1>1 DEF Token, AnyToken, Covering
<1> QED
  BY <1>2

LEMMA InheritedIsAny == Inherited \subseteq AnyToken /\ Seq(Inherited) \subseteq Seq(AnyToken)
<1>1. Inherited \subseteq AnyToken
  BY DEF Inherited, AnyToken, Covering
<1> QED
  BY <1>1, SeqMonotonic

LEMMA CalledType ==
  ASSUME Inv, Calling
  PROVE  /\ Here \in Inherited /\ Here.sym \in Names
         /\ Here.sym \notin table.sets[Here.hides]
         /\ F.tokens[F.call.close] \in Inherited
         /\ Def \in Macro /\ Body \in Seq(Symbols)
         /\ Len(F.call.raw) = Len(Def.params)
         /\ F.call.raw \in Seq(Seq(Inherited))
         /\ F.call.expanded \in Seq(Seq(Inherited))
<1>1. /\ CallOK(F, table, macros) /\ F.tokens \in Seq(Inherited)
      /\ F.pos \in Nat \ {0} /\ Len(F.tokens) \in Nat
      /\ F.call.raw \in Seq(Seq(Inherited))
      /\ F.call.expanded \in Seq(Seq(Inherited))
      /\ F.pos <= Len(F.tokens) => F.tokens[F.pos] \in Inherited
  BY TopOK, FrameParts DEF Inherited, FrameOK, Calling
<1>2. /\ Here.sym \in Names /\ Here.sym \notin table.sets[Here.hides]
      /\ Len(F.call.raw) = Len(Def.params)
      /\ F.call.close \in F.pos .. Len(F.tokens)
  BY <1>1 DEF CallOK, Here, Def
<1>3. F.call.close \in 1 .. Len(F.tokens) /\ F.pos <= Len(F.tokens)
  BY <1>1, <1>2
<1>4. Here \in Inherited
  BY <1>1, <1>3 DEF Here
<1>5. F.tokens[F.call.close] \in Inherited
  BY <1>1, <1>3, ElementOfSeq
<1>6. Def \in Macro
  BY <1>2 DEF Inv, Def
<1>7. Body \in Seq(Symbols)
  BY <1>6 DEF Macro, Body
<1> QED
  BY <1>1, <1>2, <1>4, <1>5, <1>6, <1>7

LEMMA ParamIndexType ==
  ASSUME NEW def, NEW i, ParamIndex(def, i) # 0
  PROVE  ParamIndex(def, i) \in DOMAIN def.params
<1>1. def.body[i] \in Range(def.params)
  BY DEF ParamIndex
<1>2. \E p \in DOMAIN def.params : def.params[p] = def.body[i]
  BY <1>1 DEF Range
<1> QED
  BY <1>2 DEF ParamIndex

LEMMA ParamType ==
  ASSUME Inv, ArgumentsReady, NEW i, ParamIndex(Def, i) # 0
  PROVE  /\ F.call.raw[ParamIndex(Def, i)] \in Seq(AnyToken)
         /\ F.call.expanded[ParamIndex(Def, i)] \in Seq(AnyToken)
<1> DEFINE p == ParamIndex(Def, i)
<1>1. /\ Def \in Macro /\ Len(F.call.raw) = Len(Def.params)
      /\ F.call.raw \in Seq(Seq(Inherited))
      /\ F.call.expanded \in Seq(Seq(Inherited))
      /\ Len(F.call.expanded) = Len(F.call.raw)
  BY CalledType DEF ArgumentsReady
<1>2. Def.params \in Seq(Names)
  BY <1>1 DEF Macro
<1>3. p \in DOMAIN Def.params
  BY ParamIndexType
<1> HIDE DEF p
<1>4. p \in 1 .. Len(F.call.raw) /\ p \in 1 .. Len(F.call.expanded)
  BY <1>1, <1>2, <1>3, LenProperties
<1>5. F.call.raw[p] \in Seq(Inherited) /\ F.call.expanded[p] \in Seq(Inherited)
  BY <1>1, <1>4, ElementOfSeq
<1> QED
  BY <1>5, InheritedIsAny DEF p

LEMMA SubstitutingType ==
  ASSUME Inv, Substituting
  PROVE  /\ ArgumentsReady /\ Calling /\ I \in 1 .. Len(Body)
         /\ Len(Body) \in Nat /\ \A i \in 1 .. Len(Body) : Body[i] \in Symbols
         /\ repl.out \in Seq(AnyToken) /\ repl.placemarker \in BOOLEAN
         /\ repl.phase = "substitute"
<1>1. ArgumentsReady /\ Calling /\ I <= Len(Body) /\ repl.phase = "substitute"
  BY DEF Substituting, ArgumentsReady
<1>2. Body \in Seq(Symbols)
  BY <1>1, CalledType
<1>3. Len(Body) \in Nat /\ \A i \in 1 .. Len(Body) : Body[i] \in Symbols
  BY <1>2, LenProperties, ElementOfSeq
<1>4. /\ I \in Nat \ {0} /\ repl.out \in Seq(AnyToken)
      /\ repl.placemarker \in BOOLEAN
  BY DEF Inv, ReplacementOK, I, AnyToken
<1> QED
  BY <1>1, <1>3, <1>4

LEMMA OperandType ==
  ASSUME Inv, Substituting, Operator
  PROVE  Operand \in Seq(AnyToken)
<1>1. CASE ParamIndex(Def, I + 1) # 0
  BY <1>1, SubstitutingType, ParamType DEF Operand
<1>2. CASE ParamIndex(Def, I + 1) = 0
  <2>1. I + 1 \in 1 .. Len(Body)
    BY SubstitutingType DEF Operator
  <2>2. Body[I + 1] \in Symbols
    BY <2>1, SubstitutingType
  <2>3. << Token(Body[I + 1], Empty) >> \in Seq(AnyToken)
    BY <2>2, BodyToken
  <2> QED
    BY <1>2, <2>3 DEF Operand
<1> QED
  BY <1>1, <1>2

(***************************************************************************)
(* A step of the replacement that asks the table and leaves the stack.     *)
(***************************************************************************)
LEMMA ReplacementStep ==
  ASSUME Inv, Interned(table'), Extends(table, table'), ReplacementOK',
         UNCHANGED <<macros, frames, out, done>>,
         diags' \in Seq({"UnterminatedArgs", "MacroArity", "InvalidPaste"})
  PROVE  Inv'
<1>1. StackOK(frames, table, macros)'
  BY StackKept DEF Inv
<1>2. (out \in Seq(Covering(table, {})))'
  <2>1. Covering(table, {}) \subseteq Covering(table', {})
    BY CoveringKept
  <2>2. out' \in Seq(Covering(table, {}))
    BY DEF Inv
  <2> QED
    BY <2>1, <2>2, SeqMonotonic
<1> QED
  BY <1>1, <1>2 DEF Inv, TableInterned

LEMMA SubstituteStep ==
  ASSUME Inv, Substituting, Interned(table'), Extends(table, table'),
         NEW o \in Seq(Covering(table', {})), NEW b \in BOOLEAN,
         NEW next \in {I + 1, I + 2},
         repl' = [repl EXCEPT !.out = o, !.placemarker = b, !.i = next],
         UNCHANGED <<macros, frames, out, done>>,
         diags' \in Seq({"UnterminatedArgs", "MacroArity", "InvalidPaste"})
  PROVE  Inv'
<1> DEFINE R(C, D) == [phase : {"substitute", "hide", "paint"}, i : Nat \ {0},
                       out : Seq(C), placemarker : BOOLEAN, id : D]
<1>1. repl \in R(Covering(table, {}), Ids(table)) /\ repl.phase = "substitute"
  BY SubstitutingType DEF Inv, ReplacementOK
<1>2. next \in Nat \ {0}
  BY SubstitutingType
<1>3. Ids(table) \subseteq Ids(table')
  BY DEF Extends
<1> DEFINE C == Covering(table, {})
           D == Covering(table', {})
<1>4. repl \in R(C, Ids(table)) /\ o \in Seq(D)
  BY <1>1
<1> HIDE DEF C, D
<1>5. repl' \in R(D, Ids(table')) /\ repl'.phase = "substitute"
  BY <1>1, <1>2, <1>3, <1>4
<1>6. ReplacementOK'
  BY <1>5 DEF ReplacementOK, D
<1> QED
  BY <1>6, ReplacementStep

LEMMA EmitStep ==
  ASSUME Inv, Substituting,
         NEW s \in Seq(AnyToken), NEW b \in BOOLEAN, NEW next \in {I + 1, I + 2},
         Emit(s, b, next), UNCHANGED table,
         diags' \in Seq({"UnterminatedArgs", "MacroArity", "InvalidPaste"})
  PROVE  Inv'
<1>1. repl.out \o s \in Seq(AnyToken)
  BY SubstitutingType, ConcatProperties
<1>2. repl' = [repl EXCEPT !.out = repl.out \o s, !.placemarker = b, !.i = next]
  BY DEF Emit
<1>3. Interned(table') /\ Extends(table, table')
  BY DEF Inv, TableInterned, Extends
<1>4. repl.out \o s \in Seq(Covering(table', {}))
  BY <1>1 DEF AnyToken
<1> QED
  BY <1>2, <1>3, <1>4, SubstituteStep DEF Emit

LEMMA PasteKeeps ==
  ASSUME Inv, paste
  PROVE  Inv'
<1> DEFINE lhs == Last(repl.out)
           rhs == Head(Operand)
           both == Intersect(table, lhs.hides, rhs.hides)
           o == Append(Front(repl.out), Token(Glue[Pair], both.id)) \o Tail(Operand)
           T == Covering(both.table, {})
<1>1. /\ Substituting /\ Operator /\ Operand # <<>> /\ repl.out # <<>>
      /\ Pair \in DOMAIN Glue
      /\ UNCHANGED <<macros, frames, diags, out, done>>
  BY DEF paste, Pasting
<1>2. /\ table' = both.table
      /\ repl' = [repl EXCEPT !.out = o, !.i = I + 2]
  BY DEF paste
<1>3. repl.out \in Seq(AnyToken) /\ Operand \in Seq(AnyToken)
  BY <1>1, SubstitutingType, OperandType
<1>4. lhs \in AnyToken /\ rhs \in AnyToken /\ Tail(Operand) \in Seq(AnyToken)
  <2>1. Len(repl.out) \in 1 .. Len(repl.out)
    BY <1>1, <1>3, EmptySeq
  <2>2. lhs \in AnyToken
    BY <1>3, <2>1, ElementOfSeq DEF Last
  <2> QED
    BY <1>1, <1>3, <2>2, HeadTailProperties
<1>5. lhs.hides \in Ids(table) /\ rhs.hides \in Ids(table)
  BY <1>4 DEF AnyToken, Covering
<1>6. /\ Interned(both.table) /\ Extends(table, both.table)
      /\ both.id \in Ids(both.table)
  BY <1>5, IntersectCorrect DEF Inv, TableInterned
<1>7. Token(Glue[Pair], both.id) \in T
  <2>1. Glue[Pair] \in Symbols
    BY <1>1, ExpansionAssumption
  <2> QED
    BY <1>6, <2>1 DEF Token, Covering
<1>8. AnyToken \subseteq T
  BY <1>6, CoveringKept DEF AnyToken
<1>9. Front(repl.out) \in Seq(T) /\ Tail(Operand) \in Seq(T)
  <2>1. repl.out \in Seq(T) /\ Tail(Operand) \in Seq(T)
    BY <1>3, <1>4, <1>8, SeqMonotonic
  <2> HIDE DEF T
  <2>2. Len(repl.out) \in Nat
    BY <1>3, LenProperties
  <2>3. \A e \in 1 .. Len(repl.out) - 1 : repl.out[e] \in T
    BY <2>1, <2>2
  <2>4. Front(repl.out) \in Seq(T)
    BY <2>2, <2>3, SubSeqProperties DEF Front
  <2> QED
    BY <2>1, <2>4
<1>10. o \in Seq(T)
  <2> DEFINE a == Append(Front(repl.out), Token(Glue[Pair], both.id))
  <2> HIDE DEF T
  <2>1. a \in Seq(T)
    BY <1>7, <1>9, AppendProperties
  <2> HIDE DEF a
  <2>2. a \o Tail(Operand) \in Seq(T)
    BY <1>9, <2>1, ConcatProperties
  <2> QED
    BY <2>2 DEF a
<1> HIDE DEF o, both
<1>11. repl.placemarker \in BOOLEAN /\ diags' \in Seq({"UnterminatedArgs", "MacroArity", "InvalidPaste"})
  BY <1>1 DEF Inv, ReplacementOK
<1>12. repl' = [repl EXCEPT !.out = o, !.placemarker = repl.placemarker, !.i = I + 2]
  BY <1>2 DEF Inv, ReplacementOK
<1> QED
  BY <1>1, <1>2, <1>6, <1>10, <1>11, <1>12, SubstituteStep

LEMMA SubstituteKeeps ==
  ASSUME Inv,
         \/ Stringize \/ PasteNothing \/ PasteOntoNothing \/ paste
         \/ InvalidPaste \/ SubstituteParam \/ SubstituteToken
  PROVE  Inv'
<1>1. diags \in Seq({"UnterminatedArgs", "MacroArity", "InvalidPaste"})
  BY DEF Inv
<1>2. CASE Stringize
  <2>1. << Token("string", Empty) >> \in Seq(AnyToken)
    BY BodyToken, ExpansionAssumption DEF Punctuation
  <2> QED
    BY <1>1, <1>2, <2>1, EmitStep DEF Stringize, Emit
<1>3. CASE PasteNothing
  <2>1. <<>> \in Seq(AnyToken) /\ repl.placemarker \in BOOLEAN
    BY <1>3, SubstitutingType, EmptySeq DEF PasteNothing
  <2> QED
    BY <1>1, <1>3, <2>1, EmitStep DEF PasteNothing, Emit
<1>4. CASE PasteOntoNothing
  BY <1>1, <1>4, OperandType, EmitStep DEF PasteOntoNothing, Emit
<1>5. CASE paste
  BY <1>5, PasteKeeps
<1>6. CASE InvalidPaste
  BY <1>6, OperandType, ReportType, EmitStep DEF InvalidPaste, Pasting, Emit
<1>7. CASE SubstituteParam
  <2>1. Source \in Seq(AnyToken)
    BY <1>7, SubstitutingType, ParamType DEF SubstituteParam, Source
  <2>2. (Source = <<>>) \in BOOLEAN
    OBVIOUS
  <2> QED
    BY <1>1, <1>7, <2>1, <2>2, EmitStep DEF SubstituteParam, Emit
<1>8. CASE SubstituteToken
  <2>1. Body[I] \in Symbols
    BY <1>8, SubstitutingType DEF SubstituteToken
  <2>2. << Token(Body[I], Empty) >> \in Seq(AnyToken)
    BY <2>1, BodyToken
  <2> QED
    BY <1>1, <1>8, <2>2, EmitStep DEF SubstituteToken, Emit
<1> QED
  BY <1>2, <1>3, <1>4, <1>5, <1>6, <1>7, <1>8
-----------------------------------------------------------------------------
(***************************************************************************)
(* The invocation's hide set covers the stack and the name, and painting   *)
(* passes it on to every token of the replacement.                         *)
(***************************************************************************)
LEMMA Prepared ==
  ASSUME Inv, ArgumentsReady
  PROVE  /\ Calling /\ F.call # NoCall
         /\ Len(F.call.expanded) = Len(F.call.raw)
         /\ Here \in Inherited /\ Here.sym \in Names
         /\ F.tokens[F.call.close] \in Inherited
BY CalledType DEF ArgumentsReady, Calling

LEMMA InheritedHides ==
  ASSUME NEW token \in Inherited
  PROVE  /\ token.hides \in Ids(table)
         /\ Within(frames, Top) \subseteq table.sets[token.hides]
BY DEF Inherited, Covering

LEMMA HideStep ==
  ASSUME Inv, ArgumentsReady, repl.phase \in {"substitute", "hide"},
         NEW t, Interned(t), Extends(table, t), NEW id \in Ids(t),
         Within(frames, Top) \subseteq t.sets[id],
         NEW phase \in {"hide", "paint"}, NEW i \in Nat \ {0},
         phase = "paint" => i = 1 /\ Here.sym \in t.sets[id],
         table' = t,
         repl' = [repl EXCEPT !.phase = phase, !.id = id, !.i = i],
         UNCHANGED <<macros, frames, diags, out, done>>
  PROVE  Inv'
<1> DEFINE R(C, D) == [phase : {"substitute", "hide", "paint"}, i : Nat \ {0},
                       out : Seq(C), placemarker : BOOLEAN, id : D]
           C == Covering(table, {})
           D == Covering(t, {})
<1>1. repl \in R(C, Ids(table)) /\ repl.out \in Seq(C)
  BY DEF Inv, ReplacementOK
<1>2. repl.out \in Seq(D)
  <2>1. C \subseteq D
    BY CoveringKept
  <2> QED
    BY <1>1, <2>1, SeqMonotonic
<1> HIDE DEF C, D
<1>3. /\ repl' \in R(D, Ids(t)) /\ repl'.phase = phase /\ repl'.id = id
      /\ repl'.i = i /\ repl'.out = repl.out
  BY <1>1, <1>2
<1>4. /\ (repl.phase # "substitute")' =>
           (/\ F.call # NoCall /\ Len(F.call.expanded) = Len(F.call.raw)
            /\ Within(frames, Top) \subseteq table.sets[repl.id])'
      /\ (repl.phase = "paint")' => (Here.sym \in table.sets[repl.id])'
  BY <1>3, Prepared DEF F, Top, Here
<1>5. ASSUME phase = "paint", NEW j \in DOMAIN repl.out PROVE ~(j < i)
  <2>1. DOMAIN repl.out = 1 .. Len(repl.out)
    BY <1>1, LenProperties
  <2> QED
    BY <1>5, <2>1
<1>6. ReplacementOK'
  BY <1>3, <1>4, <1>5 DEF ReplacementOK, D
<1> QED
  BY <1>6, ReplacementStep DEF Inv

LEMMA HideKeeps ==
  ASSUME Inv, HideCommon \/ HideName
  PROVE  Inv'
<1> DEFINE S == Within(frames, Top)
<1>1. ArgumentsReady /\ Interned(table)
  BY DEF HideCommon, Substituted, HideName, Hiding, Inv, TableInterned
<1>2. CASE HideCommon
  <2> DEFINE both == IF Def.function_like
                     THEN Intersect(table, Here.hides, F.tokens[F.call.close].hides)
                     ELSE Answer(table, Here.hides)
  <2>1. /\ repl.phase = "substitute" /\ table' = both.table
        /\ repl' = [repl EXCEPT !.phase = "hide", !.id = both.id]
        /\ UNCHANGED <<macros, frames, diags, out, done>>
    BY <1>2 DEF HideCommon, Substituted
  <2>2. /\ Here.hides \in Ids(table) /\ F.tokens[F.call.close].hides \in Ids(table)
        /\ S \subseteq table.sets[Here.hides]
        /\ S \subseteq table.sets[F.tokens[F.call.close].hides]
    BY <1>1, Prepared, InheritedHides
  <2>3. /\ Interned(both.table) /\ Extends(table, both.table)
        /\ both.id \in Ids(both.table) /\ S \subseteq both.table.sets[both.id]
    <3>1. CASE Def.function_like
      <4> DEFINE a == Here.hides
                 b == F.tokens[F.call.close].hides
                 u == Intersect(table, a, b)
      <4>1. a \in Ids(table) /\ b \in Ids(table) /\ S \subseteq table.sets[a]
            /\ S \subseteq table.sets[b]
        BY <2>2
      <4>2. both = u
        BY <3>1
      <4> HIDE DEF a, b, both, S
      <4>3. /\ Interned(u.table) /\ Extends(table, u.table)
            /\ u.id \in Ids(u.table)
            /\ u.table.sets[u.id] = table.sets[a] \cap table.sets[b]
        BY <1>1, <4>1, IntersectCorrect
      <4> HIDE DEF u
      <4> QED
        BY <4>1, <4>2, <4>3
    <3>2. CASE ~Def.function_like
      BY <1>1, <2>2, <3>2 DEF Answer, Extends
    <3> QED
      BY <3>1, <3>2
  <2> HIDE DEF both
  <2>4. repl.i \in Nat \ {0}
    BY DEF Inv, ReplacementOK
  <2>5. repl' = [repl EXCEPT !.phase = "hide", !.id = both.id, !.i = repl.i]
    BY <2>1 DEF Inv, ReplacementOK
  <2> QED
    BY <1>1, <2>1, <2>3, <2>4, <2>5, HideStep
<1>3. CASE HideName
  <2> DEFINE hs == Add(table, repl.id, Here.sym)
  <2>1. /\ repl.phase = "hide" /\ table' = hs.table
        /\ repl' = [repl EXCEPT !.phase = "paint", !.id = hs.id, !.i = 1]
        /\ UNCHANGED <<macros, frames, diags, out, done>>
    BY <1>3 DEF HideName, Hiding, Hide
  <2>2. repl.id \in Ids(table) /\ S \subseteq table.sets[repl.id]
    BY <2>1 DEF Inv, ReplacementOK
  <2>3. Here.sym \in Names
    BY <1>1, Prepared
  <2>4. /\ Interned(hs.table) /\ Extends(table, hs.table)
        /\ hs.id \in Ids(hs.table)
        /\ hs.table.sets[hs.id] = table.sets[repl.id] \cup {Here.sym}
    BY <1>1, <2>2, <2>3, AddCorrect
  <2> HIDE DEF hs
  <2>5. S \subseteq hs.table.sets[hs.id] /\ Here.sym \in hs.table.sets[hs.id]
    BY <2>2, <2>4
  <2> DEFINE id == hs.id
             t == hs.table
             first == 1
  <2>6. /\ first \in Nat \ {0} /\ first = 1
        /\ repl' = [repl EXCEPT !.phase = "paint", !.id = id, !.i = first]
        /\ table' = t /\ Interned(t) /\ Extends(table, t) /\ id \in Ids(t)
        /\ S \subseteq t.sets[id] /\ Here.sym \in t.sets[id]
    BY <2>1, <2>4, <2>5
  <2> HIDE DEF id, t, first
  <2> QED
    BY <1>1, <2>1, <2>6, HideStep
<1> QED
  BY <1>2, <1>3

LEMMA PaintKeeps ==
  ASSUME Inv, Paint
  PROVE  Inv'
<1> DEFINE S == Within(frames, Top) \cup {Here.sym}
           both == Merge(table, repl.out[I].hides, repl.id)
           t == both.table
           token == [repl.out[I] EXCEPT !.hides = both.id]
           o == [repl.out EXCEPT ![I] = token]
           next == I + 1
           R(C, D) == [phase : {"substitute", "hide", "paint"}, i : Nat \ {0},
                       out : Seq(C), placemarker : BOOLEAN, id : D]
           C == Covering(table, {})
           D == Covering(t, {})
<1>1. /\ ArgumentsReady /\ repl.phase = "paint" /\ I <= Len(repl.out)
      /\ table' = t
      /\ repl' = [repl EXCEPT !.out[I].hides = both.id, !.i = I + 1]
      /\ UNCHANGED <<macros, frames, diags, out, done>>
  BY DEF Paint, Painting
<1>2. /\ repl \in R(C, Ids(table)) /\ repl.out \in Seq(C) /\ I \in Nat \ {0}
      /\ repl.id \in Ids(table) /\ repl.i = I
  BY DEF Inv, ReplacementOK, I
<1>3. /\ S \subseteq table.sets[repl.id]
      /\ \A j \in DOMAIN repl.out :
           j < I => S \subseteq table.sets[repl.out[j].hides]
  BY <1>1 DEF Inv, ReplacementOK, I
<1>4. /\ Len(repl.out) \in Nat /\ DOMAIN repl.out = 1 .. Len(repl.out)
      /\ I \in 1 .. Len(repl.out)
  BY <1>1, <1>2, LenProperties
<1>5. repl.out[I] \in C /\ \A j \in 1 .. Len(repl.out) : repl.out[j] \in C
  BY <1>2, <1>4, ElementOfSeq
<1>6. repl.out[I].hides \in Ids(table)
  BY <1>5 DEF Covering
<1>7. /\ Interned(t) /\ Extends(table, t) /\ both.id \in Ids(t)
      /\ t.sets[both.id] = table.sets[repl.out[I].hides] \cup table.sets[repl.id]
  BY <1>2, <1>6, MergeCorrect DEF Inv, TableInterned
<1>8. token \in D /\ token.hides = both.id
  BY <1>5, <1>7 DEF Covering
<1>9. repl' = [repl EXCEPT !.out = o, !.i = next]
  BY <1>1, <1>2
<1> HIDE DEF both, t, token
<1>10. C \subseteq D
  BY <1>7, CoveringKept
<1>11. /\ o \in Seq(D) /\ Len(o) = Len(repl.out)
       /\ \A j \in 1 .. Len(repl.out) : o[j] = IF j = I THEN token ELSE repl.out[j]
  <2>1. repl.out \in Seq(D) /\ token \in D
    BY <1>2, <1>8, <1>10, SeqMonotonic
  <2> HIDE DEF D
  <2> QED
    BY <1>4, <2>1, ExceptSeq
<1>12. next \in Nat \ {0} /\ repl.id \in Ids(t)
  BY <1>2, <1>7 DEF Extends
<1> HIDE DEF o, C, D
<1>13. /\ repl' \in R(D, Ids(t)) /\ repl'.phase = "paint" /\ repl'.id = repl.id
       /\ repl'.out = o /\ repl'.i = next
  BY <1>1, <1>2, <1>9, <1>11, <1>12
<1>14. t.sets[repl.id] = table.sets[repl.id]
  BY <1>2, <1>7 DEF Extends
<1>15. ASSUME NEW j \in DOMAIN o, j < next
       PROVE  S \subseteq t.sets[o[j].hides]
  <2>1. j \in 1 .. Len(repl.out)
    BY <1>11, LenProperties
  <2>2. CASE j = I
    <3>1. o[j] = token
      BY <1>11, <2>1, <2>2
    <3> QED
      BY <1>3, <1>7, <1>8, <3>1
  <2>3. CASE j # I
    <3>1. o[j] = repl.out[j]
      BY <1>11, <2>1, <2>3
    <3>2. j < I
      BY <1>2, <1>15, <2>1, <2>3
    <3>3. S \subseteq table.sets[repl.out[j].hides]
      BY <1>3, <1>4, <2>1, <3>2
    <3>4. repl.out[j].hides \in Ids(table)
      BY <1>5, <2>1 DEF C, Covering
    <3> QED
      BY <1>7, <3>1, <3>3, <3>4 DEF Extends
  <2> QED
    BY <2>2, <2>3
<1>16. F' = F /\ Here' = Here /\ Within(frames, Top)' = Within(frames, Top)
  BY <1>1 DEF F, Here, Top
<1>17. ReplacementOK'
  <2>1. repl' \in R(D, Ids(t)) /\ table' = t
    BY <1>1, <1>13
  <2>2. F'.call # NoCall /\ Len(F'.call.expanded) = Len(F'.call.raw)
    BY <1>1, <1>16, Prepared
  <2>3. Within(frames, Top)' \cup {Here'.sym} \subseteq t.sets[repl'.id]
    BY <1>3, <1>13, <1>14, <1>16
  <2>4. \A j \in DOMAIN repl'.out : j < repl'.i =>
          Within(frames, Top)' \cup {Here'.sym} \subseteq t.sets[repl'.out[j].hides]
    BY <1>13, <1>15, <1>16
  <2> HIDE DEF S
  <2> QED
    BY <2>1, <2>2, <2>3, <2>4 DEF ReplacementOK, D
<1> QED
  BY <1>1, <1>7, <1>17, ReplacementStep DEF Inv

LEMMA RescanKeeps ==
  ASSUME Inv, Rescan
  PROVE  Inv'
<1> DEFINE n == Here.sym
           S == Within(frames, Top)
           g == [F EXCEPT !.call = NoCall, !.pos = F.call.close + 1]
           fs == [frames EXCEPT ![Len(frames)] = g]
           r == Frame("replacement", n, repl.out)
<1>1. /\ ArgumentsReady /\ repl.phase = "paint" /\ I > Len(repl.out)
      /\ frames' = Append([frames EXCEPT ![Top].call = NoCall,
                                         ![Top].pos = F.call.close + 1], r)
      /\ repl' = NoReplacement
      /\ UNCHANGED <<table, macros, diags, out, done>>
  BY DEF Rescan, Painting
<1>2. frames' = Append(fs, r)
  <2>1. Len(frames) \in DOMAIN frames
    BY TopOK, StackShape DEF Inv
  <2> QED
    BY <1>1, <2>1 DEF F, Top
<1>3. /\ FrameOK(g, table, S, macros) /\ g.kind = F.kind /\ g.name = F.name
  BY <1>1, TopOK, Prepared, FrameResumed
<1> HIDE DEF g
<1>4. /\ StackOK(fs, table, macros) /\ Len(fs) = Top /\ Within(fs, Top) = S
  BY <1>3, StackTop DEF Inv, F, Top
<1> HIDE DEF fs
<1>5. n \in Names /\ n \notin S
  <2>1. Here \in Inherited /\ n \in Names /\ n \notin table.sets[Here.hides]
    BY <1>1, CalledType DEF ArgumentsReady
  <2> QED
    BY <2>1, InheritedHides
<1>6. repl.out \in Seq(Covering(table, S \cup {n}))
  <2>1. /\ repl.out \in Seq(AnyToken) /\ I \in Nat \ {0}
        /\ \A j \in DOMAIN repl.out :
             j < I => S \cup {n} \subseteq table.sets[repl.out[j].hides]
    BY <1>1 DEF Inv, ReplacementOK, I, AnyToken
  <2>2. Len(repl.out) \in Nat /\ DOMAIN repl.out = 1 .. Len(repl.out)
    BY <2>1, LenProperties
  <2>3. \A j \in 1 .. Len(repl.out) : repl.out[j] \in AnyToken
    BY <2>1, ElementOfSeq
  <2>4. \A j \in 1 .. Len(repl.out) : j < I
    BY <1>1, <2>1, <2>2
  <2> HIDE DEF S, n
  <2>5. \A j \in 1 .. Len(repl.out) : repl.out[j] \in Covering(table, S \cup {n})
    BY <2>1, <2>2, <2>3, <2>4 DEF AnyToken, Covering
  <2>6. repl.out \in [1 .. Len(repl.out) -> Covering(table, S \cup {n})]
    <3>1. repl.out \in [1 .. Len(repl.out) -> AnyToken]
      BY <2>1, LenProperties
    <3> QED
      BY <2>5, <3>1
  <2> QED
    BY <2>2, <2>6, SeqDef
<1> HIDE DEF n, S
<1>7. /\ FrameOK(r, table, S \cup {n}, macros)
      /\ r.kind = "replacement" /\ r.name = n
  BY <1>5, <1>6, FrameNew
<1> HIDE DEF r
<1>8. StackOK(frames', table, macros)
  BY <1>2, <1>4, <1>5, <1>7, StackPush
<1>9. ReplacementOK'
  <2>1. Empty \in Ids(table) /\ <<>> \in Seq(Covering(table, {}))
    BY EmptySeq DEF Inv, TableInterned, Interned, Ids, Empty
  <2>2. repl'.phase = "substitute"
    BY <1>1 DEF NoReplacement
  <2>3. NoReplacement \in [phase : {"substitute", "hide", "paint"}, i : Nat \ {0},
                           out : Seq(Covering(table, {})), placemarker : BOOLEAN,
                           id : Ids(table)]
    BY <2>1 DEF NoReplacement
  <2> QED
    BY <1>1, <2>2, <2>3 DEF ReplacementOK
<1>10. StackOK(frames, table, macros)'
  BY <1>1, <1>8
<1>11. (out \in Seq(Covering(table, {})))'
  BY <1>1 DEF Inv
<1> QED
  BY <1>1, <1>9, <1>10, <1>11 DEF Inv, TableInterned

LEMMA InvInit == Init => Inv
<1> SUFFICES ASSUME Init PROVE Inv
  OBVIOUS
<1>1. TableInterned /\ Empty \in Ids(table)
  <2>1. TableInterned
    BY NewTableInterned DEF Init
  <2> QED
    BY <2>1 DEF TableInterned, Interned, Ids, Empty
<1>2. PICK input \in Inputs :
        /\ macros = input.macros
        /\ frames = << Frame("text", NoName, Plain(input.source)) >>
  BY DEF Init
<1>3. macros \in [Names -> Macro] /\ input.source \in Seq(Symbols)
  BY <1>2, ExpansionAssumption
<1> DEFINE C == Covering(table, {})
           s == Plain(input.source)
           f == Frame("text", NoName, s)
<1>4. s \in Seq(C)
  <2>1. /\ Len(input.source) \in Nat
        /\ DOMAIN input.source = 1 .. Len(input.source)
    BY <1>3, LenProperties
  <2>2. \A i \in 1 .. Len(input.source) : Token(input.source[i], Empty) \in C
    BY <1>1, <1>3, ElementOfSeq DEF Token, Covering
  <2> HIDE DEF C
  <2>3. s \in [1 .. Len(input.source) -> C]
    BY <2>1, <2>2 DEF Plain
  <2> QED
    BY <2>1, <2>3, SeqDef
<1> HIDE DEF s
<1>5. FrameOK(f, table, {}, macros) /\ f.kind = "text" /\ f.name = NoName
  BY <1>4, FrameNew, ExpansionAssumption
<1>6. f \in FramesOver(C)
  BY <1>5, FrameIsAny
<1>7. Len(frames) = 1 /\ frames[1] = f
  BY <1>2 DEF s
<1>8. Within(frames, 1) = {}
  BY <1>5, <1>7 DEF Within
<1>9. StackOK(frames, table, macros)
  <2>1. frames \in Seq(FramesOver(C)) /\ frames # <<>>
    BY <1>2, <1>6 DEF s
  <2>2. \A d \in 1 .. Len(frames) : d = 1
    BY <1>7
  <2> HIDE DEF f
  <2> QED
    BY <1>5, <1>7, <1>8, <2>1, <2>2 DEF StackOK
<1>10. ReplacementOK
  <2>1. <<>> \in Seq(C) /\ repl = NoReplacement
    BY EmptySeq DEF Init
  <2> QED
    BY <1>1, <2>1 DEF ReplacementOK, NoReplacement
<1>11. /\ diags \in Seq({"UnterminatedArgs", "MacroArity", "InvalidPaste"})
       /\ out \in Seq(C) /\ done \in BOOLEAN
  BY EmptySeq DEF Init
<1> QED
  BY <1>1, <1>3, <1>9, <1>10, <1>11 DEF Inv

LEMMA InvStep == Inv /\ [Next]_vars => Inv'
<1> SUFFICES ASSUME Inv, [Next]_vars PROVE Inv'
  OBVIOUS
<1>1. CASE UNCHANGED vars
  <2>1. UNCHANGED <<table, macros, frames, repl, diags, out, done>>
    BY <1>1 DEF vars
  <2> QED
    BY <2>1 DEF Inv, TableInterned, ReplacementOK, F, Here, Top
<1>2. CASE Copy \/ UnterminatedArgs \/ MacroArity \/ BeginCall \/ ExpandObject
  BY <1>2, ScanKeeps
<1>3. CASE ExpandArgument
  BY <1>3, ExpandArgumentKeeps
<1>4. CASE ArgumentExpanded \/ Rescanned \/ Finish
  BY <1>4, ReturnKeeps
<1>5. CASE \/ Stringize \/ PasteNothing \/ PasteOntoNothing \/ paste
           \/ InvalidPaste \/ SubstituteParam \/ SubstituteToken
  BY <1>5, SubstituteKeeps
<1>6. CASE HideCommon \/ HideName
  BY <1>6, HideKeeps
<1>7. CASE Paint
  BY <1>7, PaintKeeps
<1>8. CASE Rescan
  BY <1>8, RescanKeeps
<1> QED
  BY <1>1, <1>2, <1>3, <1>4, <1>5, <1>6, <1>7, <1>8 DEF Next, Expand, Returned

LEMMA AlwaysInv == Spec => []Inv
BY InvInit, InvStep, PTL DEF Spec
-----------------------------------------------------------------------------
(***************************************************************************)
(* Whatever the macros and the text, every id in a token is one the table  *)
(* handed out, no loop runs past its tokens, and a call in progress ends   *)
(* within the tokens it was found in.                                      *)
(***************************************************************************)
THEOREM ExpansionIsTyped == Spec => []TypeOK
<1>1. Inv => TypeOK
  <2> SUFFICES ASSUME Inv PROVE TypeOK
    OBVIOUS
  <2> DEFINE C == Covering(table, {})
  <2>1. Tokens = C
    BY DEF Tokens, Covering
  <2>2. Calls = CallsOver(C) /\ Frames = FramesOver(C)
    BY <2>1 DEF Calls, Frames, CallsOver, FramesOver
  <2>3. /\ frames \in Seq(FramesOver(C)) /\ frames # <<>>
        /\ DOMAIN frames = 1 .. Len(frames)
    BY StackShape DEF Inv, StackOK
  <2>4. ASSUME NEW d \in DOMAIN frames
        PROVE  LET f == frames[d] IN
               /\ f.kind = "text" <=> d = 1
               /\ f.kind = "replacement" <=> f.name \in Names
               /\ f.pos \in 1 .. Len(f.tokens) + 1
               /\ f.call # NoCall => f.call.close \in f.pos .. Len(f.tokens)
    BY <2>3 DEF Inv, StackOK, FrameOK, CallOK
  <2>5. repl \in [phase : {"substitute", "hide", "paint"}, i : Nat,
                  out : Seq(C), placemarker : BOOLEAN, id : Ids(table)]
    BY DEF Inv, ReplacementOK
  <2> HIDE DEF C
  <2>6. frames \in Seq(Frames) /\ out \in Seq(Tokens)
    BY <2>1, <2>2, <2>3 DEF Inv, C
  <2>7. repl \in [phase : {"substitute", "hide", "paint"}, i : Nat,
                  out : Seq(Tokens), placemarker : BOOLEAN, id : Ids(table)]
    BY <2>1, <2>5
  <2> QED
    BY <2>3, <2>4, <2>6, <2>7 DEF Inv, TypeOK
<1> QED
  BY <1>1, AlwaysInv, PTL

(***************************************************************************)
(* What blocks a recursive macro: every token met inside the rescan of a   *)
(* replacement hides the macro, the tokens of arguments, of pastes and of  *)
(* macros nested in it included, whatever the table holds.                 *)
(***************************************************************************)
THEOREM HidesAlwaysCover == Spec => []HidesCoverStack
<1>1. Inv => HidesCoverStack
  <2> SUFFICES ASSUME Inv, NEW d \in DOMAIN frames,
                      frames[d].kind = "replacement",
                      NEW e \in d .. Len(frames),
                      NEW token \in Range(frames[e].tokens)
               PROVE  Hides(table, token.hides, frames[d].name)
    BY DEF HidesCoverStack
  <2>1. /\ Len(frames) \in Nat \ {0} /\ DOMAIN frames = 1 .. Len(frames)
        /\ \A c \in 1 .. Len(frames) :
             FrameOK(frames[c], table, Within(frames, c), macros)
    BY StackShape DEF Inv
  <2>2. e \in 1 .. Len(frames) /\ d \in 1 .. e
    BY <2>1
  <2>3. frames[d].name \in Within(frames, e)
    BY <2>2 DEF Within
  <2>4. frames[e].tokens \in Seq(Covering(table, Within(frames, e)))
    BY <2>1, <2>2, FrameParts
  <2>5. token \in Covering(table, Within(frames, e))
    <3>1. PICK i \in DOMAIN frames[e].tokens : token = frames[e].tokens[i]
      BY DEF Range
    <3>2. i \in 1 .. Len(frames[e].tokens)
      BY <2>4, LenProperties
    <3> QED
      BY <2>4, <3>1, <3>2, ElementOfSeq
  <2> QED
    BY <2>3, <2>5 DEF Covering, Hides
<1> QED
  BY <1>1, AlwaysInv, PTL

(***************************************************************************)
(* So no macro is expanded inside its own rescan.                          *)
(***************************************************************************)
LEMMA NamesDiffer == Inv => NoMacroWithinItself
<1> SUFFICES ASSUME Inv, NEW d \in DOMAIN frames, NEW e \in DOMAIN frames,
                    frames[d].kind = "replacement",
                    frames[e].kind = "replacement",
                    frames[d].name = frames[e].name
             PROVE  d = e
  BY DEF NoMacroWithinItself
<1>1. Len(frames) \in Nat \ {0} /\ DOMAIN frames = 1 .. Len(frames)
  BY StackShape DEF Inv
<1>2. ASSUME NEW a \in 1 .. Len(frames), NEW b \in 1 .. Len(frames),
             frames[a].kind = "replacement", frames[b].kind = "replacement",
             a < b
      PROVE  frames[a].name # frames[b].name
  <2>1. a \in 1 .. b - 1
    BY <1>1, <1>2
  <2>2. frames[a].name \in Within(frames, b - 1)
    BY <1>2, <2>1 DEF Within
  <2>3. frames[b].name \notin Within(frames, b - 1)
    BY <1>2 DEF Inv, StackOK
  <2> QED
    BY <2>2, <2>3
<1>3. d \in 1 .. Len(frames) /\ e \in 1 .. Len(frames)
  BY <1>1
<1>4. ~(d < e) /\ ~(e < d)
  BY <1>2, <1>3
<1> QED
  BY <1>3, <1>4

THEOREM NeverWithinItself == Spec => []NoMacroWithinItself
BY NamesDiffer, AlwaysInv, PTL

(***************************************************************************)
(* And the rescans of expand_into are never nested deeper than there are   *)
(* macros to replace.                                                      *)
(***************************************************************************)
Rescans == {d \in DOMAIN frames : frames[d].kind = "replacement"}

RescansBounded == Cardinality(Rescans) <= Cardinality(Names)

THEOREM RecursionIsBounded ==
  ASSUME IsFiniteSet(Names)
  PROVE  Spec => []RescansBounded
<1>1. Inv => RescansBounded
  <2> SUFFICES ASSUME Inv PROVE RescansBounded
    OBVIOUS
  <2> DEFINE name == [d \in Rescans |-> frames[d].name]
  <2>1. Len(frames) \in Nat \ {0} /\ DOMAIN frames = 1 .. Len(frames)
    BY StackShape DEF Inv
  <2>2. \A d \in Rescans : frames[d].name \in Names
    BY <2>1 DEF Rescans, Inv, StackOK, FrameOK
  <2>3. \A d, e \in Rescans : frames[d].name = frames[e].name => d = e
    BY NamesDiffer DEF NoMacroWithinItself, Rescans
  <2>4. name \in Injection(Rescans, Names)
    BY <2>2, <2>3 DEF Injection, IsInjective
  <2>5. Cardinality(Rescans) <= Cardinality(Names)
    BY <2>4, FS_Injection DEF ExistsInjection
  <2> QED
    BY <2>5 DEF RescansBounded
<1> QED
  BY <1>1, AlwaysInv, PTL
-----------------------------------------------------------------------------
(***************************************************************************)
(* Expansion is a client of the hide-set table: it only ever asks it for   *)
(* sets made from ids that the table handed out, so what is proved of the  *)
(* table on its own holds of the table in use.                             *)
(***************************************************************************)
LEMMA AsksTheTable ==
  ASSUME Inv, [Next]_vars
  PROVE  [TableNext]_table
<1>1. CASE paste
  <2>1. /\ Substituting /\ Operator /\ Operand # <<>> /\ repl.out # <<>>
        /\ table' = Intersect(table, Last(repl.out).hides, Head(Operand).hides).table
    BY <1>1 DEF paste, Pasting
  <2>2. repl.out \in Seq(AnyToken) /\ Operand \in Seq(AnyToken)
    BY <2>1, SubstitutingType, OperandType
  <2>3. Last(repl.out) \in AnyToken /\ Head(Operand) \in AnyToken
    <3>1. Len(repl.out) \in 1 .. Len(repl.out)
      BY <2>1, <2>2, EmptySeq
    <3>2. Last(repl.out) \in AnyToken
      BY <2>2, <3>1, ElementOfSeq DEF Last
    <3> QED
      BY <2>1, <2>2, <3>2, HeadTailProperties
  <2>4. /\ Last(repl.out).hides \in Ids(table)
        /\ Head(Operand).hides \in Ids(table)
    BY <2>3 DEF AnyToken, Covering
  <2> QED
    BY <2>1, <2>4 DEF TableNext
<1>2. CASE HideCommon
  <2>1. ArgumentsReady
    BY <1>2 DEF HideCommon, Substituted
  <2>2. Here.hides \in Ids(table) /\ F.tokens[F.call.close].hides \in Ids(table)
    BY <2>1, Prepared, InheritedHides
  <2>3. CASE Def.function_like
    <3>1. table' = Intersect(table, Here.hides,
                             F.tokens[F.call.close].hides).table
      BY <1>2, <2>3 DEF HideCommon
    <3> QED
      BY <2>2, <3>1 DEF TableNext
  <2>4. CASE ~Def.function_like
    BY <1>2, <2>4 DEF HideCommon, Answer
  <2> QED
    BY <2>3, <2>4
<1>3. CASE HideName
  <2>1. /\ ArgumentsReady /\ repl.phase = "hide"
        /\ table' = Add(table, repl.id, Here.sym).table
    BY <1>3 DEF HideName, Hiding, Hide
  <2>2. repl.id \in Ids(table) /\ Here.sym \in Names
    BY <2>1, Prepared DEF Inv, ReplacementOK
  <2> QED
    BY <2>1, <2>2 DEF TableNext
<1>4. CASE Paint
  <2>1. /\ I <= Len(repl.out)
        /\ table' = Merge(table, repl.out[I].hides, repl.id).table
    BY <1>4 DEF Paint
  <2>2. /\ repl.out \in Seq(AnyToken) /\ I \in Nat \ {0}
        /\ repl.id \in Ids(table)
    BY DEF Inv, ReplacementOK, I, AnyToken
  <2>3. I \in 1 .. Len(repl.out)
    BY <2>1, <2>2, LenProperties
  <2>4. repl.out[I] \in AnyToken
    BY <2>2, <2>3, ElementOfSeq
  <2>5. repl.out[I].hides \in Ids(table)
    BY <2>4 DEF AnyToken, Covering
  <2> QED
    BY <2>1, <2>2, <2>5 DEF TableNext
<1>5. CASE UNCHANGED vars
  BY <1>5 DEF vars
<1>6. CASE \/ Copy \/ UnterminatedArgs \/ MacroArity \/ BeginCall
           \/ ExpandObject \/ ExpandArgument \/ ArgumentExpanded
           \/ Rescan \/ Rescanned \/ Finish
  BY <1>6 DEF Copy, UnterminatedArgs, MacroArity, Refuse, BeginCall,
              ExpandObject, Call, ExpandArgument, ArgumentExpanded, Rescan,
              Rescanned, Finish
<1>7. ASSUME Stringize \/ PasteNothing \/ PasteOntoNothing \/ InvalidPaste
             \/ SubstituteParam \/ SubstituteToken
      PROVE  UNCHANGED table
  BY <1>7 DEF Stringize, PasteNothing, PasteOntoNothing, InvalidPaste,
              SubstituteParam, SubstituteToken, Emit
<1> QED
  BY <1>1, <1>2, <1>3, <1>4, <1>5, <1>6, <1>7 DEF Next, Expand, Returned

THEOREM ExpansionUsesTheTable == Spec => TableSpec
<1>1. Init => TableInit
  BY DEF Init
<1>2. Inv /\ [Next]_vars => [TableNext]_table
  BY AsksTheTable
<1> QED
  BY <1>1, <1>2, AlwaysInv, PTL DEF Spec, TableSpec

(***************************************************************************)
(* An id in a macro body, an argument or a replacement means the same set  *)
(* for as long as expansion runs.                                          *)
(***************************************************************************)
THEOREM IdsKeepTheirMeaningHere == Spec => IdsKeepTheirMeaning
BY ExpansionUsesTheTable, IdsAreStable
-----------------------------------------------------------------------------
(***************************************************************************)
(* The standard's reading of a replacement, item by item.  Joined is a     *)
(* fold, whose value the library defines by a recursive function over sets *)
(* of positions: that function exists (by the size of the sets), its value *)
(* over the first k positions does not depend on the items behind, and so  *)
(* one more item is one more JoinItem.                                     *)
(***************************************************************************)
Unjoined == [out |-> <<>>, join |-> FALSE]

\* f says of each set of positions in D what its items are joined to.
JoinsOver(f, items, D) ==
  f = [s \in D |-> IF s = {} THEN Unjoined
                   ELSE LET x == Max(s) IN JoinItem(f[s \ {x}], items[x])]

Small(D, n) == {s \in SUBSET D : Cardinality(s) < n}

\* Over the sets of fewer than m positions, for each m; so over all.
LEMMA JoinsExist ==
  ASSUME NEW items, NEW n \in Nat, NEW D, D = 1 .. n
  PROVE  \E f : JoinsOver(f, items, SUBSET D)
<1> DEFINE Missing == {m \in Nat : ~\E f : JoinsOver(f, items, Small(D, m))}
<1>a. D \subseteq Nat /\ IsFiniteSet(D) /\ \A x \in D : x <= n
  BY FS_Interval
<1>1. Cardinality(D) + 1 \in Nat /\ Small(D, Cardinality(D) + 1) = SUBSET D
  BY <1>a, FS_CardinalityType, FS_Subset DEF Small
<1>2. SUFFICES ASSUME Missing # {} PROVE FALSE
  <2>1. \E f : JoinsOver(f, items, Small(D, Cardinality(D) + 1))
    BY <1>1, <1>2
  <2> QED
    BY <1>1, <2>1
<1>3. PICK m \in Missing : \A k \in Missing : m <= k
  BY <1>2, SetMinimum
<1>4. m \in Nat /\ ~\E f : JoinsOver(f, items, Small(D, m))
  BY <1>3
<1>5. m # 0
  <2>1. Small(D, 0) = {}
    <3>1. \A s \in SUBSET D : Cardinality(s) \in Nat
      BY <1>a, FS_Subset, FS_CardinalityType
    <3> QED
      BY <3>1 DEF Small
  <2> DEFINE f == [s \in {} |-> IF s = {} THEN Unjoined ELSE 0]
  <2>2. f = [s \in {} |-> IF s = {} THEN Unjoined
                   ELSE LET x == Max(s) IN JoinItem(f[s \ {x}], items[x])]
    OBVIOUS
  <2>3. JoinsOver(f, items, Small(D, 0))
    BY <2>1, <2>2 DEF JoinsOver
  <2> QED
    BY <1>4, <2>3
<1>6. m - 1 \in Nat /\ ~(m <= m - 1)
  BY <1>4, <1>5
<1>7. PICK f : JoinsOver(f, items, Small(D, m - 1))
  BY <1>3, <1>6
<1> DEFINE Value(h, s) == IF s = {} THEN Unjoined
             ELSE LET x == Max(s) IN JoinItem(h[s \ {x}], items[x])
           g == [s \in Small(D, m) |-> Value(f, s)]
<1>8. ASSUME NEW s \in Small(D, m), s # {}
      PROVE  s \ {Max(s)} \in Small(D, m - 1)
  <2>1. s \subseteq D /\ IsFiniteSet(s) /\ Cardinality(s) < m
    BY <1>a, <1>8, FS_Subset DEF Small
  <2>2. Max(s) \in s
    BY <1>a, <1>8, <2>1, MaxOf
  <2>3. IsFiniteSet(s \ {Max(s)}) /\ Cardinality(s \ {Max(s)}) = Cardinality(s) - 1
    BY <2>1, <2>2, FS_RemoveElement
  <2>4. Cardinality(s) \in Nat
    BY <2>1, FS_CardinalityType
  <2>5. Cardinality(s) - 1 < m - 1
    BY <1>4, <2>1, <2>4
  <2>6. s \ {Max(s)} \subseteq D /\ Cardinality(s \ {Max(s)}) < m - 1
    BY <2>1, <2>2, <2>3, <2>5
  <2> QED
    BY <2>6 DEF Small
<1>9. Small(D, m - 1) \subseteq Small(D, m)
  <2>1. \A s \in SUBSET D : Cardinality(s) \in Nat
    BY <1>a, FS_Subset, FS_CardinalityType
  <2> QED
    BY <1>4, <2>1 DEF Small
<1>10. ASSUME NEW s \in Small(D, m - 1) PROVE g[s] = f[s]
  <2>1. f[s] = Value(f, s)
    BY <1>7 DEF JoinsOver
  <2> QED
    BY <1>9, <2>1
<1>11. ASSUME NEW s \in Small(D, m) PROVE g[s] = Value(g, s)
  <2>1. s # {} => g[s \ {Max(s)}] = f[s \ {Max(s)}]
    BY <1>8, <1>10
  <2>2. g[s] = Value(f, s)
    OBVIOUS
  <2> QED
    BY <2>1, <2>2
<1>12. g = [s \in Small(D, m) |-> g[s]]
  OBVIOUS
<1> HIDE DEF g
<1>13. JoinsOver(g, items, Small(D, m))
  BY <1>11, <1>12 DEF JoinsOver
<1> QED
  BY <1>4, <1>13

JoinsUpTo(f, items, n) == JoinsOver(f, items, SUBSET (1 .. n))

LEMMA JoinedValue ==
  ASSUME NEW items, NEW n \in Nat, DOMAIN items = 1 .. n
  PROVE  \E f : JoinsUpTo(f, items, n) /\ Joined(items) = f[1 .. n]
<1> DEFINE f == CHOOSE f : JoinsOver(f, items, SUBSET DOMAIN items)
<1>1. JoinsOver(f, items, SUBSET DOMAIN items)
  BY JoinsExist
<1>2. Joined(items) = f[DOMAIN items]
  BY DEF Joined, FoldLeft, MapThenFoldSet, JoinsOver, Unjoined
<1>3. JoinsUpTo(f, items, n) /\ Joined(items) = f[1 .. n]
  BY <1>1, <1>2 DEF JoinsUpTo
<1> QED
  BY <1>3

LEMMA JoinsOverPrefix ==
  ASSUME NEW items, NEW n \in Nat, NEW f, JoinsUpTo(f, items, n),
         NEW k \in 0 .. n
  PROVE  f[1 .. k] = IF k = 0 THEN Unjoined
                     ELSE JoinItem(f[1 .. k - 1], items[k])
<1>1. 1 .. k \in SUBSET (1 .. n)
  OBVIOUS
<1>2. f[1 .. k] = IF 1 .. k = {} THEN Unjoined
                  ELSE LET x == Max(1 .. k)
                       IN JoinItem(f[(1 .. k) \ {x}], items[x])
  BY <1>1 DEF JoinsUpTo, JoinsOver
<1>3. CASE k = 0
  <2>1. 1 .. k = {}
    BY <1>3
  <2> QED
    BY <1>2, <1>3, <2>1
<1>4. CASE k # 0
  <2>1. k \in Nat \ {0}
    BY <1>4
  <2>2. 1 .. k # {} /\ Max(1 .. k) = k /\ (1 .. k) \ {k} = 1 .. k - 1
    BY <2>1, MaxOfInterval
  <2> QED
    BY <1>2, <1>4, <2>2
<1> QED
  BY <1>3, <1>4

LEMMA JoinsAgree ==
  ASSUME NEW m \in Nat, NEW n \in Nat, n >= m, NEW items, NEW other,
         NEW h, JoinsUpTo(h, items, m),
         NEW l, JoinsUpTo(l, other, n),
         \A i \in 1 .. m : items[i] = other[i]
  PROVE  h[1 .. m] = l[1 .. m]
<1> DEFINE Bad == {k \in 0 .. m : h[1 .. k] # l[1 .. k]}
<1>1. SUFFICES ASSUME Bad # {} PROVE FALSE
  <2>1. m \in 0 .. m
    OBVIOUS
  <2> QED
    BY <2>1
<1>2. Bad \subseteq Nat
  OBVIOUS
<1>3. PICK k \in Bad : \A j \in Bad : k <= j
  <2> HIDE DEF Bad
  <2> QED
    BY <1>1, <1>2, SetMinimum
<1>4. k \in 0 .. m /\ k \in 0 .. n /\ h[1 .. k] # l[1 .. k]
  BY <1>3
<1>5. /\ h[1 .. k] = IF k = 0 THEN Unjoined
                     ELSE JoinItem(h[1 .. k - 1], items[k])
      /\ l[1 .. k] = IF k = 0 THEN Unjoined
                     ELSE JoinItem(l[1 .. k - 1], other[k])
  BY <1>4, JoinsOverPrefix
<1>6. k # 0
  BY <1>4, <1>5
<1>7. k - 1 \in 0 .. m /\ ~(k <= k - 1) /\ k \in 1 .. m
  BY <1>4, <1>6
<1>8. h[1 .. k - 1] = l[1 .. k - 1]
  BY <1>3, <1>7
<1> QED
  BY <1>4, <1>5, <1>6, <1>7, <1>8

LEMMA JoinedNone == Joined(<<>>) = Unjoined
<1>1. 0 \in Nat /\ 0 \in 0 .. 0 /\ DOMAIN <<>> = 1 .. 0
  OBVIOUS
<1>2. PICK f : JoinsUpTo(f, <<>>, 0) /\ Joined(<<>>) = f[1 .. 0]
  BY <1>1, JoinedValue
<1>3. f[1 .. 0] = Unjoined
  BY <1>1, <1>2, JoinsOverPrefix
<1> QED
  BY <1>2, <1>3

LEMMA JoinedAppend ==
  ASSUME NEW C, NEW items \in Seq(C), NEW x \in C
  PROVE  Joined(Append(items, x)) = JoinItem(Joined(items), x)
<1> DEFINE longer == Append(items, x)
           n == Len(items)
           m == n + 1
<1>1. /\ n \in Nat /\ m \in Nat /\ m >= n /\ m - 1 = n /\ m # 0
      /\ m \in 0 .. m /\ DOMAIN items = 1 .. n /\ DOMAIN longer = 1 .. m
      /\ longer[m] = x /\ \A i \in 1 .. n : items[i] = longer[i]
  BY AppendProperties, LenProperties
<1> HIDE DEF longer, n, m
<1>2. PICK f : JoinsUpTo(f, items, n) /\ Joined(items) = f[1 .. n]
  BY <1>1, JoinedValue
<1>3. PICK g : JoinsUpTo(g, longer, m) /\ Joined(longer) = g[1 .. m]
  BY <1>1, JoinedValue
<1>4. f[1 .. n] = g[1 .. n]
  BY <1>1, <1>2, <1>3, JoinsAgree
<1>5. g[1 .. m] = JoinItem(g[1 .. m - 1], longer[m])
  BY <1>1, <1>3, JoinsOverPrefix
<1>6. g[1 .. m] = JoinItem(g[1 .. n], x)
  BY <1>1, <1>5
<1> QED
  BY <1>2, <1>3, <1>4, <1>6 DEF longer

(***************************************************************************)
(* What JoinItem makes of a run of items that are no ##, and of a ## with  *)
(* the run behind it: the last item so far and the first of the run are    *)
(* joined.                                                                 *)
(***************************************************************************)
Kept == Symbols \cup {Placemarker}

Item == Kept \cup {PasteOp}

LEMMA KindsDiffer ==
  PasteOp \notin Kept /\ Placemarker \notin Symbols /\ Symbols \subseteq Kept
BY SpellingAssumption DEF Kept, PasteOp, Placemarker

LEMMA KeptAreItems ==
  /\ \A C : C \subseteq Kept => Seq(C) \subseteq Seq(Kept)
  /\ Seq(Kept) \subseteq Seq(Item)
BY SeqMonotonic DEF Item

LEMMA JoinRun ==
  ASSUME NEW items \in Seq(Item), NEW o \in Seq(Kept),
         Joined(items) = [out |-> o, join |-> FALSE], NEW w \in Seq(Kept)
  PROVE  Joined(items \o w) = [out |-> o \o w, join |-> FALSE]
<1> DEFINE P == {v \in Seq(Kept) :
                   Joined(items \o v) = [out |-> o \o v, join |-> FALSE]}
<1>1. <<>> \in P
  BY ConcatEmptySeq, EmptySeq
<1>2. ASSUME NEW u \in P, NEW x \in Kept PROVE Append(u, x) \in P
  <2>1. u \in Seq(Kept) /\ u \in Seq(Item) /\ x \in Item
    BY KeptAreItems DEF Item
  <2>2. Append(u, x) \in Seq(Kept)
    BY <2>1, AppendProperties
  <2>3. /\ items \o Append(u, x) = Append(items \o u, x)
        /\ o \o Append(u, x) = Append(o \o u, x)
    BY <2>1, ConcatAppend
  <2>4. items \o u \in Seq(Item)
    BY <2>1, ConcatProperties
  <2>5. Joined(Append(items \o u, x)) = JoinItem(Joined(items \o u), x)
    BY <2>1, <2>4, JoinedAppend
  <2>6. x # PasteOp
    BY KindsDiffer
  <2>7. Joined(items \o u) = [out |-> o \o u, join |-> FALSE]
    OBVIOUS
  <2>8. JoinItem([out |-> o \o u, join |-> FALSE], x)
          = [out |-> Append(o \o u, x), join |-> FALSE]
    BY <2>6 DEF JoinItem
  <2> QED
    BY <2>2, <2>3, <2>5, <2>7, <2>8
<1>3. P \in SUBSET Seq(Kept)
  OBVIOUS
<1> HIDE DEF P
<1>4. P = Seq(Kept)
  BY <1>1, <1>2, <1>3, SequencesBuildUp
<1> QED
  BY <1>4 DEF P

LEMMA JoinType ==
  ASSUME NEW a \in Kept, NEW b \in Kept
  PROVE  Join(a, b) \in Seq(Kept) /\ Join(a, b) # <<>>
<1>1. CASE a = Placemarker
  BY <1>1 DEF Join
<1>2. CASE a # Placemarker /\ b = Placemarker
  BY <1>2 DEF Join
<1>3. CASE /\ a # Placemarker /\ b # Placemarker /\ <<a, b>> \in DOMAIN Glue
  <2>1. Join(a, b) = << Glue[<<a, b>>] >>
    BY <1>3 DEF Join
  <2>2. Glue[<<a, b>>] \in Kept
    BY <1>3, ExpansionAssumption, KindsDiffer
  <2> QED
    BY <2>1, <2>2
<1>4. CASE /\ a # Placemarker /\ b # Placemarker /\ <<a, b>> \notin DOMAIN Glue
  BY <1>4 DEF Join
<1> QED
  BY <1>1, <1>2, <1>3, <1>4

LEMMA JoinAcross ==
  ASSUME NEW items \in Seq(Item), NEW o \in Seq(Kept), o # <<>>,
         Joined(items) = [out |-> o, join |-> FALSE],
         NEW w \in Seq(Kept), w # <<>>
  PROVE  Joined(Append(items, PasteOp) \o w) =
           [out  |-> (Front(o) \o Join(Last(o), Head(w))) \o Tail(w),
            join |-> FALSE]
<1> DEFINE held == Append(items, PasteOp)
           both == Front(o) \o Join(Last(o), Head(w))
<1>1. /\ Head(w) \in Kept /\ Tail(w) \in Seq(Kept)
      /\ Front(o) \in Seq(Kept) /\ Last(o) \in Kept
  BY HeadTailProperties, SplitLast
<1>2. PasteOp \in Item /\ Head(w) \in Item /\ w \in Seq(Item)
  BY <1>1, KeptAreItems DEF Item
<1>3. both \in Seq(Kept)
  BY <1>1, JoinType, ConcatProperties
<1>4. held \in Seq(Item) /\ Append(held, Head(w)) \in Seq(Item)
  BY <1>2, AppendProperties
<1>5. held \o w = Append(held, Head(w)) \o Tail(w)
  BY <1>2, <1>4, SplitFirst
<1>6. Joined(held) = [out |-> o, join |-> TRUE]
  <2>1. Joined(held) = JoinItem(Joined(items), PasteOp)
    BY <1>2, JoinedAppend
  <2>2. JoinItem([out |-> o, join |-> FALSE], PasteOp) =
          [out |-> o, join |-> TRUE]
    BY DEF JoinItem
  <2> QED
    BY <2>1, <2>2
<1>7. Joined(Append(held, Head(w))) = [out |-> both, join |-> FALSE]
  <2>1. Joined(Append(held, Head(w))) = JoinItem(Joined(held), Head(w))
    BY <1>2, <1>4, JoinedAppend
  <2>2. Head(w) # PasteOp
    BY <1>1, KindsDiffer
  <2>3. JoinItem([out |-> o, join |-> TRUE], Head(w)) =
          [out |-> both, join |-> FALSE]
    BY <2>2 DEF JoinItem
  <2> QED
    BY <1>6, <2>1, <2>3
<1> HIDE DEF both, held
<1>8. Joined(Append(held, Head(w)) \o Tail(w)) =
        [out |-> both \o Tail(w), join |-> FALSE]
  BY <1>1, <1>3, <1>4, <1>7, JoinRun
<1> QED
  BY <1>5, <1>8 DEF both, held

(***************************************************************************)
(* Placemarkers go, the rest stays in place.                               *)
(***************************************************************************)
Unmarked(item) == IF item = Placemarker THEN <<>> ELSE << item >>

LEMMA UnmarkedType ==
  ASSUME NEW item \in Kept
  PROVE  Unmarked(item) \in Seq(Symbols)
<1>1. CASE item = Placemarker
  BY <1>1, EmptySeq DEF Unmarked
<1>2. CASE item # Placemarker
  BY <1>2 DEF Unmarked, Kept
<1> QED
  BY <1>1, <1>2

LEMMA WithoutNone == WithoutPlacemarkers(<<>>) = <<>>
<1>1. [i \in DOMAIN <<>> |-> Unmarked(<<>>[i])] = <<>>
  OBVIOUS
<1> QED
  BY <1>1, FlattenSeqNone DEF WithoutPlacemarkers, Unmarked

LEMMA WithoutAppend ==
  ASSUME NEW o \in Seq(Kept), NEW x \in Kept
  PROVE  /\ WithoutPlacemarkers(o) \in Seq(Symbols)
         /\ WithoutPlacemarkers(Append(o, x)) =
              WithoutPlacemarkers(o) \o Unmarked(x)
<1> DEFINE pieces(s) == [i \in DOMAIN s |-> Unmarked(s[i])]
           p == Append(o, x)
<1>1. /\ Len(o) \in Nat /\ DOMAIN o = 1 .. Len(o)
      /\ DOMAIN p = 1 .. Len(o) + 1
      /\ \A i \in 1 .. Len(o) : o[i] \in Kept /\ p[i] = o[i]
      /\ p[Len(o) + 1] = x
  BY LenProperties, AppendProperties, ElementOfSeq
<1>2. \A s : WithoutPlacemarkers(s) = FlattenSeq(pieces(s))
  BY DEF WithoutPlacemarkers, Unmarked
<1>3. pieces(o) \in Seq(Seq(Symbols)) /\ Len(pieces(o)) = Len(o)
  <2>1. \A i \in 1 .. Len(o) : Unmarked(o[i]) \in Seq(Symbols)
    BY <1>1, UnmarkedType
  <2> QED
    BY <1>1, <2>1
<1>4. pieces(p) = Append(pieces(o), Unmarked(x))
  <2> DEFINE long == Append(pieces(o), Unmarked(x))
  <2>1. Unmarked(x) \in Seq(Symbols)
    BY UnmarkedType
  <2> HIDE DEF p
  <2>2. pieces(p) \in Seq(Seq(Symbols)) /\ Len(pieces(p)) = Len(o) + 1
    <3>1. \A i \in 1 .. Len(o) + 1 : p[i] \in Kept
      <4>1. \A i \in 1 .. Len(o) + 1 : i \in 1 .. Len(o) \/ i = Len(o) + 1
        BY <1>1
      <4> QED
        BY <1>1, <4>1
    <3>2. \A i \in 1 .. Len(o) + 1 : Unmarked(p[i]) \in Seq(Symbols)
      BY <3>1, UnmarkedType
    <3>3. Len(o) + 1 \in Nat
      BY <1>1
    <3> QED
      BY <1>1, <3>2, <3>3
  <2> HIDE DEF pieces
  <2>3. /\ long \in Seq(Seq(Symbols)) /\ Len(long) = Len(o) + 1
        /\ \A i \in 1 .. Len(o) : long[i] = pieces(o)[i]
        /\ long[Len(o) + 1] = Unmarked(x)
    BY <1>3, <2>1, AppendProperties
  <2> HIDE DEF long
  <2>4. ASSUME NEW i \in 1 .. Len(o) + 1 PROVE pieces(p)[i] = long[i]
    <3>1. CASE i \in 1 .. Len(o)
      <4>1. pieces(p)[i] = Unmarked(p[i]) /\ pieces(o)[i] = Unmarked(o[i])
        BY <1>1, <3>1 DEF pieces
      <4> QED
        BY <1>1, <2>3, <3>1, <4>1
    <3>2. CASE i = Len(o) + 1
      <4>1. pieces(p)[i] = Unmarked(p[i])
        BY <1>1 DEF pieces
      <4> QED
        BY <1>1, <2>3, <3>2, <4>1
    <3> QED
      BY <1>1, <3>1, <3>2
  <2> QED
    BY <2>2, <2>3, <2>4, SeqEqual DEF long
<1> HIDE DEF pieces
<1>5. FlattenSeq(pieces(o)) \in Seq(Symbols)
  BY <1>3, FlattenSeqType
<1>6. FlattenSeq(Append(pieces(o), Unmarked(x))) =
        FlattenSeq(pieces(o)) \o Unmarked(x)
  BY <1>3, UnmarkedType, FlattenSeqAppend
<1> QED
  BY <1>2, <1>4, <1>5, <1>6

LEMMA WithoutRun ==
  ASSUME NEW o \in Seq(Kept), NEW w \in Seq(Symbols)
  PROVE  WithoutPlacemarkers(o \o w) = WithoutPlacemarkers(o) \o w
<1>a. PICK base \in Seq(Symbols) : base = WithoutPlacemarkers(o)
  <2>1. Placemarker \in Kept
    BY DEF Kept
  <2> QED
    BY <2>1, WithoutAppend
<1> DEFINE P == {v \in Seq(Symbols) : WithoutPlacemarkers(o \o v) = base \o v}
<1>1. <<>> \in P
  BY <1>a, ConcatEmptySeq, EmptySeq
<1>2. ASSUME NEW u \in P, NEW x \in Symbols PROVE Append(u, x) \in P
  <2>1. u \in Seq(Symbols) /\ u \in Seq(Kept) /\ x \in Kept /\ x # Placemarker
    BY KindsDiffer, KeptAreItems
  <2>2. Append(u, x) \in Seq(Symbols)
    BY <2>1, AppendProperties
  <2>3. o \o Append(u, x) = Append(o \o u, x)
    BY <2>1, ConcatAppend
  <2>4. o \o u \in Seq(Kept) /\ base \o u \in Seq(Symbols)
    BY <1>a, <2>1, ConcatProperties
  <2>5. WithoutPlacemarkers(Append(o \o u, x)) =
          WithoutPlacemarkers(o \o u) \o << x >>
    BY <2>1, <2>4, WithoutAppend DEF Unmarked
  <2>6. WithoutPlacemarkers(o \o u) = base \o u
    OBVIOUS
  <2>7. (base \o u) \o << x >> = Append(base \o u, x)
    BY <2>1, <2>4, AppendIsConcat
  <2>8. base \o Append(u, x) = Append(base \o u, x)
    BY <2>1, ConcatAppend
  <2> QED
    BY <2>2, <2>3, <2>5, <2>6, <2>7, <2>8
<1>3. P \in SUBSET Seq(Symbols)
  OBVIOUS
<1> HIDE DEF P
<1>4. P = Seq(Symbols)
  BY <1>1, <1>2, <1>3, SequencesBuildUp
<1> QED
  BY <1>a, <1>4 DEF P

(***************************************************************************)
(* The items of one body token, in the cases of substitute, and of the     *)
(* first k body tokens.                                                    *)
(***************************************************************************)
Stringizes(def, i) == def.body[i] = "#" /\ ParamIndex(def, i + 1) # 0

BesidePaste(def, i) == \/ i > 1 /\ def.body[i - 1] = "##"
                       \/ i < Len(def.body) /\ def.body[i + 1] = "##"

LEMMA BodyItemIs ==
  ASSUME NEW def, NEW args, NEW i \in Nat
  PROVE  /\ ParamIndex(def, i) # 0 /\ i > 1 /\ def.body[i - 1] = "#" =>
              BodyItem(def, args, i) = <<>>
         /\ ParamIndex(def, i) # 0 /\ ~(i > 1 /\ def.body[i - 1] = "#") =>
              BodyItem(def, args, i) =
                IF ~BesidePaste(def, i)
                THEN Syms(args[ParamIndex(def, i)].expanded)
                ELSE IF args[ParamIndex(def, i)].raw = <<>> THEN << Placemarker >>
                ELSE Syms(args[ParamIndex(def, i)].raw)
         /\ ParamIndex(def, i) = 0 /\ Stringizes(def, i) =>
              BodyItem(def, args, i) = << "string" >>
         /\ ParamIndex(def, i) = 0 /\ def.body[i] = "##" =>
              BodyItem(def, args, i) = << PasteOp >>
         /\ ParamIndex(def, i) = 0 /\ ~Stringizes(def, i) /\ def.body[i] # "##" =>
              BodyItem(def, args, i) = << def.body[i] >>
<1> DEFINE p == ParamIndex(def, i)
           hashed == i > 1 /\ def.body[i - 1] = "#"
<1>1. BodyItem(def, args, i) =
        CASE p # 0 /\ hashed -> <<>>
          [] p # 0 /\ ~hashed /\ BesidePaste(def, i) ->
               IF args[p].raw = <<>> THEN << Placemarker >> ELSE Syms(args[p].raw)
          [] p # 0 /\ ~hashed /\ ~BesidePaste(def, i) -> Syms(args[p].expanded)
          [] p = 0 /\ def.body[i] = "#" /\ ParamIndex(def, i + 1) # 0 ->
               << "string" >>
          [] p = 0 /\ def.body[i] = "##" -> << PasteOp >>
          [] OTHER -> << def.body[i] >>
  BY Zenon DEF BodyItem, BesidePaste
<1> HIDE DEF p, hashed
<1>2. CASE p # 0 /\ hashed
  BY <1>1, <1>2 DEF p, hashed
<1>3. CASE p # 0 /\ ~hashed
  <2>1. CASE BesidePaste(def, i)
    BY <1>1, <1>3, <2>1 DEF p, hashed
  <2>2. CASE ~BesidePaste(def, i)
    BY <1>1, <1>3, <2>2 DEF p, hashed
  <2> QED
    BY <2>1, <2>2
<1>4. CASE p = 0
  <2>1. CASE Stringizes(def, i)
    <3>1. BodyItem(def, args, i) = << "string" >> /\ def.body[i] # "##"
      BY <1>1, <1>4, <2>1 DEF Stringizes
    <3> QED
      BY <1>4, <2>1, <3>1 DEF p
  <2>2. CASE def.body[i] = "##"
    <3>1. BodyItem(def, args, i) = << PasteOp >> /\ ~Stringizes(def, i)
      BY <1>1, <1>4, <2>2 DEF Stringizes
    <3> QED
      BY <1>4, <2>2, <3>1 DEF p
  <2>3. CASE ~Stringizes(def, i) /\ def.body[i] # "##"
    <3>1. BodyItem(def, args, i) = << def.body[i] >>
      BY <1>1, <1>4, <2>3 DEF Stringizes
    <3> QED
      BY <1>4, <2>3, <3>1 DEF p
  <2> QED
    BY <2>1, <2>2, <2>3
<1> QED
  BY <1>2, <1>3, <1>4

\* Arguments of the macro's parameters, by their symbols.
ArgsOK(def, args) ==
  \A p \in DOMAIN def.params :
    /\ Syms(args[p].raw) \in Seq(Symbols) /\ Syms(args[p].expanded) \in Seq(Symbols)
    /\ Syms(args[p].raw) = <<>> => args[p].raw = <<>>

LEMMA BodyType ==
  ASSUME NEW def \in Macro
  PROVE  /\ def.body \in Seq(Symbols) /\ Len(def.body) \in Nat
         /\ DOMAIN def.body = 1 .. Len(def.body)
         /\ \A i \in 1 .. Len(def.body) : def.body[i] \in Symbols
         /\ def.params \in Seq(Names) /\ DOMAIN def.params = 1 .. Len(def.params)
         /\ \A i : ParamIndex(def, i) # 0 =>
              /\ i \in 1 .. Len(def.body) /\ def.body[i] \in Names
              /\ ParamIndex(def, i) \in DOMAIN def.params
              /\ def.body[i] # "#" /\ def.body[i] # "##"
<1>1. def.body \in Seq(Symbols) /\ def.params \in Seq(Names)
  BY DEF Macro
<1>2. /\ Len(def.body) \in Nat /\ DOMAIN def.body = 1 .. Len(def.body)
      /\ \A i \in 1 .. Len(def.body) : def.body[i] \in Symbols
      /\ DOMAIN def.params = 1 .. Len(def.params)
      /\ \A j \in DOMAIN def.params : def.params[j] \in Names
  BY <1>1, LenProperties, ElementOfSeq
<1>3. ASSUME NEW i, ParamIndex(def, i) # 0
      PROVE  /\ i \in 1 .. Len(def.body) /\ def.body[i] \in Names
             /\ ParamIndex(def, i) \in DOMAIN def.params
             /\ def.body[i] # "#" /\ def.body[i] # "##"
  <2>1. i \in DOMAIN def.body /\ def.body[i] \in Range(def.params)
    BY <1>3 DEF ParamIndex
  <2>2. def.body[i] \in Names
    BY <1>2, <2>1 DEF Range
  <2>3. def.body[i] # "#" /\ def.body[i] # "##"
    BY <2>2, SpellingAssumption DEF Punctuation
  <2> QED
    BY <1>2, <1>3, <2>1, <2>2, <2>3, ParamIndexType
<1> QED
  BY <1>1, <1>2, <1>3

LEMMA BodyItemType ==
  ASSUME NEW def \in Macro, NEW args, ArgsOK(def, args),
         NEW i \in 1 .. Len(def.body)
  PROVE  BodyItem(def, args, i) \in Seq(Item)
<1>1. i \in Nat /\ def.body[i] \in Symbols
  BY BodyType
<1>2. ParamIndex(def, i) # 0 => ParamIndex(def, i) \in DOMAIN def.params
  BY BodyType
<1>3. /\ <<>> \in Seq(Item) /\ << Placemarker >> \in Seq(Item)
      /\ << PasteOp >> \in Seq(Item) /\ << def.body[i] >> \in Seq(Item)
      /\ << "string" >> \in Seq(Item) /\ Seq(Symbols) \subseteq Seq(Item)
  <2>1. "string" \in Symbols
    BY ExpansionAssumption DEF Punctuation
  <2>2. Seq(Symbols) \subseteq Seq(Item)
    BY KindsDiffer, KeptAreItems
  <2> QED
    BY <1>1, <2>1, <2>2, KindsDiffer, EmptySeq DEF Item, Kept
<1> DEFINE p == ParamIndex(def, i)
<1>4. p # 0 => Syms(args[p].raw) \in Seq(Item) /\ Syms(args[p].expanded) \in Seq(Item)
  BY <1>2, <1>3 DEF ArgsOK
<1> HIDE DEF p
<1>5. CASE p # 0 /\ i > 1 /\ def.body[i - 1] = "#"
  BY <1>1, <1>3, <1>5, BodyItemIs DEF p
<1>6. CASE p # 0 /\ ~(i > 1 /\ def.body[i - 1] = "#")
  BY <1>1, <1>3, <1>4, <1>6, BodyItemIs DEF p
<1>7. CASE p = 0
  BY <1>1, <1>3, <1>7, BodyItemIs DEF p
<1> QED
  BY <1>5, <1>6, <1>7

LEMMA BodyItemsNone ==
  ASSUME NEW def, NEW args
  PROVE  BodyItems(def, args, 0) = <<>>
<1>1. [i \in 1 .. 0 |-> BodyItem(def, args, i)] = <<>>
  OBVIOUS
<1> QED
  BY <1>1, FlattenSeqNone DEF BodyItems

LEMMA BodyItemsNext ==
  ASSUME NEW def \in Macro, NEW args, ArgsOK(def, args),
         NEW k \in Nat, k < Len(def.body)
  PROVE  /\ BodyItems(def, args, k) \in Seq(Item)
         /\ BodyItems(def, args, k + 1) =
              BodyItems(def, args, k) \o BodyItem(def, args, k + 1)
         /\ BodyItems(def, args, k + 1) \in Seq(Item)
<1> DEFINE upto(n) == [i \in 1 .. n |-> BodyItem(def, args, i)]
<1>1. Len(def.body) \in Nat /\ k + 1 \in 1 .. Len(def.body) /\ k + 1 \in Nat
  BY BodyType
<1>2. \A i \in 1 .. k + 1 : BodyItem(def, args, i) \in Seq(Item)
  <2>1. \A i \in 1 .. k + 1 : i \in 1 .. Len(def.body)
    BY <1>1
  <2> QED
    BY <2>1, BodyItemType
<1>3. /\ upto(k) \in Seq(Seq(Item)) /\ Len(upto(k)) = k
      /\ upto(k + 1) \in Seq(Seq(Item)) /\ Len(upto(k + 1)) = k + 1
  BY <1>1, <1>2
<1>4. upto(k + 1) = Append(upto(k), BodyItem(def, args, k + 1))
  <2> DEFINE long == Append(upto(k), BodyItem(def, args, k + 1))
  <2>1. BodyItem(def, args, k + 1) \in Seq(Item)
    BY <1>1, BodyItemType
  <2>2. \A i \in 1 .. k : upto(k)[i] = upto(k + 1)[i]
    OBVIOUS
  <2>3. upto(k + 1)[k + 1] = BodyItem(def, args, k + 1)
    BY <1>1
  <2> HIDE DEF upto
  <2>4. /\ long \in Seq(Seq(Item)) /\ Len(long) = k + 1
        /\ \A i \in 1 .. k : long[i] = upto(k)[i]
        /\ long[k + 1] = BodyItem(def, args, k + 1)
    BY <1>3, <2>1, AppendProperties
  <2> HIDE DEF long
  <2>5. \A i \in 1 .. k + 1 : long[i] = upto(k + 1)[i]
    <3>1. \A i \in 1 .. k + 1 : i \in 1 .. k \/ i = k + 1
      OBVIOUS
    <3> QED
      BY <2>2, <2>3, <2>4, <3>1
  <2> QED
    BY <1>3, <2>4, <2>5, SeqEqual DEF long
<1>5. \A n : BodyItems(def, args, n) = FlattenSeq(upto(n))
  BY DEF BodyItems
<1> HIDE DEF upto
<1>6. FlattenSeq(upto(k)) \in Seq(Item) /\ FlattenSeq(upto(k + 1)) \in Seq(Item)
  BY <1>3, FlattenSeqType
<1>7. FlattenSeq(Append(upto(k), BodyItem(def, args, k + 1))) =
        FlattenSeq(upto(k)) \o BodyItem(def, args, k + 1)
  <2>1. BodyItem(def, args, k + 1) \in Seq(Item)
    BY <1>1, BodyItemType
  <2> QED
    BY <1>3, <2>1, FlattenSeqAppend
<1> QED
  BY <1>4, <1>5, <1>6, <1>7
-----------------------------------------------------------------------------
(***************************************************************************)
(* The loop of substitute after k body tokens, never between the two       *)
(* tokens of an operator: what it has put out, o, stands for the           *)
(* standard's items, and where a ## comes next, the flag says that the     *)
(* last of them is a placemarker.  In front of any other token the flag    *)
(* does not matter.                                                        *)
(***************************************************************************)
Position(def, k) ==
  /\ k \in 0 .. Len(def.body)
  /\ k > 0 => def.body[k] # "##" /\ ~Stringizes(def, k)

StandsFor(def, args, k, o, marked) ==
  LET joined == Joined(BodyItems(def, args, k))
  IN /\ joined = [out |-> joined.out, join |-> FALSE]
     /\ joined.out \in Seq(Kept)
     /\ o = WithoutPlacemarkers(joined.out)
     /\ k < Len(def.body) /\ def.body[k + 1] = "##" =>
          /\ joined.out # <<>>
          /\ marked <=> Last(joined.out) = Placemarker

LEMMA StandsForKept ==
  ASSUME NEW def, NEW args, NEW k, NEW o, NEW marked \in BOOLEAN,
         NEW kept \in Seq(Kept),
         Joined(BodyItems(def, args, k)) = [out |-> kept, join |-> FALSE],
         o = WithoutPlacemarkers(kept),
         k < Len(def.body) /\ def.body[k + 1] = "##" =>
           kept # <<>> /\ (marked <=> Last(kept) = Placemarker)
  PROVE  StandsFor(def, args, k, o, marked)
<1> DEFINE joined == Joined(BodyItems(def, args, k))
<1>1. joined.out = kept /\ joined = [out |-> joined.out, join |-> FALSE]
  OBVIOUS
<1> QED
  BY <1>1, Zenon DEF StandsFor

\* Nothing has been read.
LEMMA StandsForNone ==
  ASSUME NEW def \in Macro, NEW args, NEW marked \in BOOLEAN, OperatorsOrdered(def)
  PROVE  Position(def, 0) /\ StandsFor(def, args, 0, <<>>, marked)
<1>1. Joined(BodyItems(def, args, 0)) = [out |-> <<>>, join |-> FALSE]
  BY BodyItemsNone, JoinedNone DEF Unjoined
<1>2. Len(def.body) \in Nat /\ ~(0 < Len(def.body) /\ def.body[0 + 1] = "##")
  BY BodyType DEF OperatorsOrdered
<1>3. StandsFor(def, args, 0, <<>>, marked)
  BY <1>1, <1>2, WithoutNone, EmptySeq, StandsForKept
<1> QED
  BY <1>2, <1>3 DEF Position

(***************************************************************************)
(* A body token, or a stringized parameter, that is no operand on the      *)
(* right of a ##.                                                          *)
(***************************************************************************)
\* The items so far, when the last of them came with a run w.
EndsIn(kept, joined, o, w) ==
  /\ joined = [out |-> kept, join |-> FALSE]
  /\ o = WithoutPlacemarkers(kept)
  /\ w # <<>> => kept # <<>> /\ Last(kept) # Placemarker

LEMMA RunAppended ==
  ASSUME NEW def \in Macro, NEW args, ArgsOK(def, args),
         NEW o, NEW marked \in BOOLEAN,
         NEW k \in Nat, k < Len(def.body),
         StandsFor(def, args, k, o, marked),
         NEW w \in Seq(Symbols), BodyItem(def, args, k + 1) = w
  PROVE  \E kept \in Seq(Kept) :
           EndsIn(kept, Joined(BodyItems(def, args, k + 1)), o \o w, w)
<1> DEFINE items == BodyItems(def, args, k)
           kept == Joined(items).out
<1>1. /\ Joined(items) = [out |-> kept, join |-> FALSE] /\ kept \in Seq(Kept)
      /\ o = WithoutPlacemarkers(kept)
  BY DEF StandsFor
<1>2. w \in Seq(Kept)
  BY KindsDiffer, KeptAreItems
<1>3. items \in Seq(Item) /\ BodyItems(def, args, k + 1) = items \o w
  BY BodyItemsNext
<1> HIDE DEF items, kept
<1>4. Joined(items \o w) = [out |-> kept \o w, join |-> FALSE]
  BY <1>1, <1>2, <1>3, JoinRun
<1>5. kept \o w \in Seq(Kept)
  BY <1>1, <1>2, ConcatProperties
<1>6. WithoutPlacemarkers(kept \o w) = o \o w
  BY <1>1, WithoutRun
<1>7. w # <<>> => kept \o w # <<>> /\ Last(kept \o w) # Placemarker
  BY <1>1, <1>2, LastOfRun, SplitLast, KindsDiffer
<1>8. EndsIn(kept \o w, Joined(BodyItems(def, args, k + 1)), o \o w, w)
  BY <1>3, <1>4, <1>6, <1>7 DEF EndsIn
<1> QED
  BY <1>5, <1>8

LEMMA ItemsAppended ==
  ASSUME NEW def \in Macro, NEW args, ArgsOK(def, args),
         NEW o, NEW marked \in BOOLEAN,
         NEW k \in Nat, k < Len(def.body),
         StandsFor(def, args, k, o, marked),
         NEW w \in Seq(Symbols), BodyItem(def, args, k + 1) = w,
         NEW flag \in BOOLEAN,
         k + 1 < Len(def.body) /\ def.body[k + 2] = "##" => w # <<>> /\ ~flag
  PROVE  StandsFor(def, args, k + 1, o \o w, flag)
<1>1. PICK kept \in Seq(Kept) :
        EndsIn(kept, Joined(BodyItems(def, args, k + 1)), o \o w, w)
  BY RunAppended
<1>2. k + 1 < Len(def.body) /\ def.body[k + 1 + 1] = "##" =>
        kept # <<>> /\ (flag <=> Last(kept) = Placemarker)
  <2>1. k + 1 + 1 = k + 2
    OBVIOUS
  <2> QED
    BY <1>1, <2>1 DEF EndsIn
<1> QED
  BY <1>1, <1>2, StandsForKept DEF EndsIn

\* # and the parameter behind it.
LEMMA StringAppended ==
  ASSUME NEW def \in Macro, NEW args, ArgsOK(def, args),
         NEW o, NEW marked \in BOOLEAN,
         NEW k \in Nat, k + 2 <= Len(def.body),
         StandsFor(def, args, k, o, marked),
         NEW w \in Seq(Symbols), w # <<>>, BodyItem(def, args, k + 1) = w,
         BodyItem(def, args, k + 2) = <<>>
  PROVE  StandsFor(def, args, k + 2, o \o w, FALSE)
<1>1. k < Len(def.body) /\ k + 1 < Len(def.body) /\ k + 1 \in Nat
      /\ k + 1 + 1 = k + 2
  BY BodyType
<1>2. PICK kept \in Seq(Kept) :
        EndsIn(kept, Joined(BodyItems(def, args, k + 1)), o \o w, w)
  BY <1>1, RunAppended
<1>3. /\ BodyItems(def, args, k + 1) \in Seq(Item)
      /\ BodyItems(def, args, k + 2) = BodyItems(def, args, k + 1) \o <<>>
  BY <1>1, BodyItemsNext
<1>4. BodyItems(def, args, k + 2) = BodyItems(def, args, k + 1)
  BY <1>3, ConcatEmptySeq
<1> QED
  BY <1>2, <1>4, StandsForKept DEF EndsIn

\* An operand on the left of a ##, when its argument is empty.
LEMMA MarkerAppended ==
  ASSUME NEW def \in Macro, NEW args, ArgsOK(def, args), NEW o, NEW marked \in BOOLEAN,
         NEW k \in Nat, k < Len(def.body),
         StandsFor(def, args, k, o, marked),
         BodyItem(def, args, k + 1) = << Placemarker >>
  PROVE  StandsFor(def, args, k + 1, o, TRUE)
<1> DEFINE items == BodyItems(def, args, k)
           kept == Joined(items).out
           w == << Placemarker >>
<1>1. /\ Joined(items) = [out |-> kept, join |-> FALSE] /\ kept \in Seq(Kept)
      /\ o = WithoutPlacemarkers(kept)
  BY DEF StandsFor
<1>2. w \in Seq(Kept) /\ Placemarker \in Kept
  BY DEF Kept
<1>3. items \in Seq(Item) /\ BodyItems(def, args, k + 1) = items \o w
  BY BodyItemsNext
<1>a. w # <<>> /\ Last(w) = Placemarker
  BY DEF Last
<1> HIDE DEF items, kept
<1>4. kept \o w = Append(kept, Placemarker)
  BY <1>1, <1>2, AppendIsConcat
<1> HIDE DEF w
<1>5. Joined(items \o w) = [out |-> kept \o w, join |-> FALSE]
  BY <1>1, <1>2, <1>3, JoinRun
<1>6. kept \o w \in Seq(Kept)
  BY <1>1, <1>2, ConcatProperties
<1>7. WithoutPlacemarkers(kept \o w) = o
  <2>1. WithoutPlacemarkers(kept \o w) = o \o <<>> /\ o \in Seq(Symbols)
    BY <1>1, <1>2, <1>4, WithoutAppend DEF Unmarked
  <2> QED
    BY <2>1, ConcatEmptySeq
<1>8. kept \o w # <<>> /\ Last(kept \o w) = Placemarker
  BY <1>1, <1>2, <1>a, LastOfRun
<1> QED
  BY <1>3, <1>5, <1>6, <1>7, <1>8, StandsForKept

(***************************************************************************)
(* A ## and its right operand.                                             *)
(***************************************************************************)
LEMMA KeptAssociative ==
  ASSUME NEW s \in Seq(Kept), NEW t \in Seq(Kept), NEW u \in Seq(Kept)
  PROVE  s \o (t \o u) = (s \o t) \o u
BY ConcatAssociative

LEMMA SymbolsAssociative ==
  ASSUME NEW s \in Seq(Symbols), NEW t \in Seq(Symbols), NEW u \in Seq(Symbols)
  PROVE  s \o (t \o u) = (s \o t) \o u
BY ConcatAssociative

\* A run w is pasted onto the items kept so far.
LeftOf(kept, o, marked, w, joined) ==
  /\ kept # <<>> /\ o = WithoutPlacemarkers(kept)
  /\ marked <=> Last(kept) = Placemarker
  /\ joined = [out |-> (Front(kept) \o Join(Last(kept), Head(w))) \o Tail(w),
               join |-> FALSE]

LEMMA JoinedOver ==
  ASSUME NEW def \in Macro, NEW args, ArgsOK(def, args),
         NEW o, NEW marked \in BOOLEAN,
         NEW k \in Nat, k + 2 <= Len(def.body), def.body[k + 1] = "##",
         StandsFor(def, args, k, o, marked),
         NEW w \in Seq(Kept), w # <<>>, BodyItem(def, args, k + 2) = w
  PROVE  \E kept \in Seq(Kept) :
           LeftOf(kept, o, marked, w, Joined(BodyItems(def, args, k + 2)))
<1> DEFINE items == BodyItems(def, args, k)
           kept == Joined(items).out
<1>1. Len(def.body) \in Nat /\ k < Len(def.body) /\ k + 1 < Len(def.body)
      /\ k + 1 \in Nat /\ k + 1 + 1 = k + 2
  BY BodyType
<1>2. /\ Joined(items) = [out |-> kept, join |-> FALSE] /\ kept \in Seq(Kept)
      /\ o = WithoutPlacemarkers(kept)
      /\ kept # <<>> /\ (marked <=> Last(kept) = Placemarker)
  BY <1>1, Zenon DEF StandsFor
<1>3. BodyItem(def, args, k + 1) = << PasteOp >>
  <2>1. ParamIndex(def, k + 1) = 0
    BY BodyType
  <2> QED
    BY <1>1, <2>1, BodyItemIs
<1>4. /\ items \in Seq(Item)
      /\ BodyItems(def, args, k + 1) = items \o << PasteOp >>
  BY <1>1, <1>3, BodyItemsNext
<1>5. BodyItems(def, args, k + 2) = BodyItems(def, args, k + 1) \o w
  BY <1>1, BodyItemsNext
<1> HIDE DEF items, kept
<1>6. items \o << PasteOp >> = Append(items, PasteOp)
  <2>1. PasteOp \in Item
    BY DEF Item
  <2> QED
    BY <1>4, <2>1, AppendIsConcat
<1>7. Joined(Append(items, PasteOp) \o w) =
        [out |-> (Front(kept) \o Join(Last(kept), Head(w))) \o Tail(w),
         join |-> FALSE]
  BY <1>2, <1>4, JoinAcross
<1>8. LeftOf(kept, o, marked, w, Joined(BodyItems(def, args, k + 2)))
  BY <1>2, <1>4, <1>5, <1>6, <1>7 DEF LeftOf
<1> QED
  BY <1>2, <1>8

\* A ## with nothing on its right leaves what is on its left.
LEMMA NothingPasted ==
  ASSUME NEW def \in Macro, NEW args, ArgsOK(def, args),
         NEW o, NEW marked \in BOOLEAN,
         NEW k \in Nat, k + 2 <= Len(def.body), def.body[k + 1] = "##",
         StandsFor(def, args, k, o, marked),
         BodyItem(def, args, k + 2) = << Placemarker >>
  PROVE  StandsFor(def, args, k + 2, o, marked)
<1> DEFINE w == << Placemarker >>
<1>1. /\ w \in Seq(Kept) /\ w # <<>> /\ Head(w) = Placemarker /\ Tail(w) = <<>>
      /\ BodyItem(def, args, k + 2) = w
  BY DEF Kept
<1> HIDE DEF w
<1>2. PICK kept \in Seq(Kept) :
        LeftOf(kept, o, marked, w, Joined(BodyItems(def, args, k + 2)))
  BY <1>1, JoinedOver
<1>3. Front(kept) \in Seq(Kept) /\ Last(kept) \in Kept
      /\ kept = Append(Front(kept), Last(kept))
  BY <1>2, SplitLast DEF LeftOf
<1>4. Join(Last(kept), Head(w)) = << Last(kept) >>
  BY <1>1, Zenon DEF Join
<1>5. Front(kept) \o << Last(kept) >> = kept
  BY <1>3, AppendIsConcat
<1>6. kept \o Tail(w) = kept
  BY <1>1, ConcatEmptySeq
<1>7. Joined(BodyItems(def, args, k + 2)) = [out |-> kept, join |-> FALSE]
  BY <1>2, <1>4, <1>5, <1>6 DEF LeftOf
<1> QED
  BY <1>2, <1>7, StandsForKept DEF LeftOf

\* What is in front of the last item stays when symbols take its place.
LEMMA RunPasted ==
  ASSUME NEW def, NEW args, NEW k, NEW front \in Seq(Kept),
         NEW v \in Seq(Symbols), v # <<>>,
         Joined(BodyItems(def, args, k)) = [out |-> front \o v, join |-> FALSE]
  PROVE  StandsFor(def, args, k, WithoutPlacemarkers(front) \o v, FALSE)
<1>1. v \in Seq(Kept)
  BY KindsDiffer, KeptAreItems
<1>2. WithoutPlacemarkers(front \o v) = WithoutPlacemarkers(front) \o v
  BY WithoutRun
<1>3. /\ front \o v \in Seq(Kept) /\ front \o v # <<>>
      /\ Last(front \o v) = Last(v)
  BY <1>1, LastOfRun, ConcatProperties
<1>4. Last(v) # Placemarker
  BY SplitLast, KindsDiffer
<1> QED
  BY <1>2, <1>3, <1>4, StandsForKept

LEMMA SomethingPasted ==
  ASSUME NEW def \in Macro, NEW args, ArgsOK(def, args),
         NEW o, NEW marked \in BOOLEAN,
         NEW k \in Nat, k + 2 <= Len(def.body), def.body[k + 1] = "##",
         StandsFor(def, args, k, o, marked),
         NEW w \in Seq(Symbols), w # <<>>, BodyItem(def, args, k + 2) = w
  PROVE  /\ o \in Seq(Symbols)
         /\ o = <<>> \/ marked => StandsFor(def, args, k + 2, o \o w, FALSE)
         /\ o # <<>> /\ ~marked =>
              IF << Last(o), Head(w) >> \in DOMAIN Glue
              THEN StandsFor(def, args, k + 2,
                     Append(Front(o), Glue[<< Last(o), Head(w) >>]) \o Tail(w),
                     FALSE)
              ELSE StandsFor(def, args, k + 2, o \o w, FALSE)
<1>1. w \in Seq(Kept)
  BY KindsDiffer, KeptAreItems
<1>2. PICK kept \in Seq(Kept) :
        LeftOf(kept, o, marked, w, Joined(BodyItems(def, args, k + 2)))
  BY <1>1, JoinedOver
<1>3. PICK front \in Seq(Kept), last \in Kept :
        front = Front(kept) /\ last = Last(kept) /\ kept = Append(front, last)
  BY <1>2, SplitLast DEF LeftOf
<1>4. PICK head \in Symbols, tail \in Seq(Symbols) :
        head = Head(w) /\ tail = Tail(w) /\ w = << head >> \o tail
  <2>1. Head(w) \in Symbols /\ Tail(w) \in Seq(Symbols)
    BY HeadTailProperties
  <2>2. <<>> \o w = Append(<<>>, Head(w)) \o Tail(w)
    BY SplitFirst, EmptySeq
  <2>3. <<>> \o w = w /\ Append(<<>>, Head(w)) = << Head(w) >>
    BY <2>1, ConcatEmptySeq
  <2> QED
    BY <2>1, <2>2, <2>3
<1>5. PICK base \in Seq(Symbols) : base = WithoutPlacemarkers(front)
  <2>1. Placemarker \in Kept
    BY DEF Kept
  <2> QED
    BY <2>1, WithoutAppend
<1>6. o = base \o Unmarked(last)
  BY <1>2, <1>3, <1>5, WithoutAppend DEF LeftOf
<1>7. head # Placemarker
  BY KindsDiffer
<1>8. Joined(BodyItems(def, args, k + 2)) =
        [out |-> (front \o Join(last, head)) \o tail, join |-> FALSE]
  BY <1>2, <1>3, <1>4 DEF LeftOf
<1>9. ASSUME NEW j \in Seq(Symbols), Join(last, head) = j, j # <<>>
      PROVE  StandsFor(def, args, k + 2, base \o (j \o tail), FALSE)
  <2>1. j \o tail \in Seq(Symbols) /\ j \o tail # <<>>
    <3>1. Len(j) \in Nat \ {0} /\ Len(tail) \in Nat
      BY <1>9, LenProperties, EmptySeq
    <3>2. j \o tail \in Seq(Symbols) /\ Len(j \o tail) = Len(j) + Len(tail)
      BY ConcatProperties
    <3>3. Len(j \o tail) # 0
      BY <3>1, <3>2
    <3> QED
      BY <3>2, <3>3, EmptySeq
  <2>2. (front \o j) \o tail = front \o (j \o tail)
    <3>1. Seq(Symbols) \subseteq Seq(Kept)
      BY KindsDiffer, KeptAreItems
    <3>2. j \in Seq(Kept) /\ tail \in Seq(Kept)
      BY <3>1
    <3> QED
      BY <3>2, KeptAssociative
  <2>3. Joined(BodyItems(def, args, k + 2)) =
          [out |-> front \o (j \o tail), join |-> FALSE]
    BY <1>8, <1>9, <2>2
  <2> QED
    BY <1>5, <2>1, <2>3, RunPasted
<1>10. CASE last = Placemarker
  <2>1. marked /\ o = base
    <3>1. o = base \o <<>>
      BY <1>6, <1>10 DEF Unmarked
    <3> QED
      BY <1>2, <1>3, <1>10, <3>1, ConcatEmptySeq DEF LeftOf
  <2>2. Join(last, head) = << head >> /\ << head >> \in Seq(Symbols)
    BY <1>10 DEF Join
  <2>3. StandsFor(def, args, k + 2, base \o (<< head >> \o tail), FALSE)
    BY <1>9, <2>2
  <2> QED
    BY <1>4, <2>1, <2>3
<1>11. CASE last # Placemarker
  <2>1. ~marked /\ last \in Symbols
    BY <1>2, <1>3, <1>11 DEF Kept, LeftOf
  <2>2. o = Append(base, last) /\ o \in Seq(Symbols)
    <3>1. Unmarked(last) = << last >>
      BY <1>11 DEF Unmarked
    <3>2. o = base \o << last >>
      BY <1>6, <3>1
    <3> QED
      BY <2>1, <3>2, AppendIsConcat, AppendProperties
  <2>3. Front(o) = base /\ Last(o) = last /\ o # <<>>
    BY <2>1, <2>2, FrontAndLast, AppendProperties
  <2>4. CASE << last, head >> \in DOMAIN Glue
    <3>1. PICK g \in Symbols : g = Glue[<< last, head >>]
      BY <2>4, ExpansionAssumption
    <3>2. Join(last, head) = << g >> /\ << g >> \in Seq(Symbols)
      BY <1>7, <1>11, <2>4, <3>1 DEF Join
    <3>3. StandsFor(def, args, k + 2, base \o (<< g >> \o tail), FALSE)
      BY <1>9, <3>2
    <3>4. base \o (<< g >> \o tail) = Append(base, g) \o tail
      <4>1. base \o (<< g >> \o tail) = (base \o << g >>) \o tail
        BY <3>2, SymbolsAssociative
      <4> QED
        BY <4>1, AppendIsConcat
    <3> QED
      BY <1>4, <2>1, <2>2, <2>3, <2>4, <3>1, <3>3, <3>4
  <2>5. CASE << last, head >> \notin DOMAIN Glue
    <3>1. Join(last, head) = << last, head >>
      BY <1>7, <1>11, <2>5 DEF Join
    <3>2. << last, head >> = << last >> \o << head >>
          /\ << last, head >> \in Seq(Symbols)
          /\ << last >> \in Seq(Symbols) /\ << head >> \in Seq(Symbols)
      BY <2>1
    <3>3. StandsFor(def, args, k + 2, base \o (<< last, head >> \o tail), FALSE)
      BY <1>9, <3>1, <3>2
    <3>4. base \o (<< last, head >> \o tail) = o \o w
      <4>1. << last, head >> \o tail = << last >> \o w
        BY <1>4, <3>2, ConcatAssociative
      <4>2. base \o (<< last >> \o w) = (base \o << last >>) \o w
        BY <3>2, SymbolsAssociative
      <4>3. base \o << last >> = o
        BY <2>1, <2>2, AppendIsConcat
      <4> QED
        BY <4>1, <4>2, <4>3
    <3> QED
      BY <1>4, <2>1, <2>2, <2>3, <2>5, <3>3, <3>4
  <2> QED
    BY <2>4, <2>5
<1> QED
  BY <1>10, <1>11
-----------------------------------------------------------------------------
(***************************************************************************)
(* From tokens to their symbols.                                           *)
(***************************************************************************)
LEMMA AnySym == \A token \in AnyToken : token.sym \in Symbols
BY DEF AnyToken, Covering

LEMMA SymsType ==
  ASSUME NEW C, \A token \in C : token.sym \in Symbols, NEW s \in Seq(C)
  PROVE  /\ Syms(s) \in Seq(Symbols) /\ Len(Syms(s)) = Len(s)
         /\ \A i \in 1 .. Len(s) : Syms(s)[i] = s[i].sym
         /\ Syms(s) = <<>> <=> s = <<>>
<1>1. Len(s) \in Nat /\ DOMAIN s = 1 .. Len(s) /\ \A i \in 1 .. Len(s) : s[i] \in C
  BY LenProperties, ElementOfSeq
<1>2. /\ Syms(s) \in Seq(Symbols) /\ Len(Syms(s)) = Len(s)
      /\ \A i \in 1 .. Len(s) : Syms(s)[i] = s[i].sym
  BY <1>1 DEF Syms
<1> QED
  BY <1>2, EmptySeq

LEMMA SymsConcat ==
  ASSUME NEW C, \A token \in C : token.sym \in Symbols,
         NEW s \in Seq(C), NEW t \in Seq(C)
  PROVE  Syms(s \o t) = Syms(s) \o Syms(t)
<1>1. /\ Syms(s) \in Seq(Symbols) /\ Len(Syms(s)) = Len(s)
      /\ \A i \in 1 .. Len(s) : Syms(s)[i] = s[i].sym
      /\ Syms(t) \in Seq(Symbols) /\ Len(Syms(t)) = Len(t)
      /\ \A i \in 1 .. Len(t) : Syms(t)[i] = t[i].sym
      /\ Len(s) \in Nat /\ Len(t) \in Nat
  BY SymsType, LenProperties
<1>2. /\ s \o t \in Seq(C) /\ Len(s \o t) = Len(s) + Len(t)
      /\ \A i \in 1 .. Len(s) + Len(t) :
           (s \o t)[i] = IF i <= Len(s) THEN s[i] ELSE t[i - Len(s)]
  BY ConcatProperties
<1>3. /\ Syms(s \o t) \in Seq(Symbols) /\ Len(Syms(s \o t)) = Len(s \o t)
      /\ \A i \in 1 .. Len(s \o t) : Syms(s \o t)[i] = (s \o t)[i].sym
  BY <1>2, SymsType
<1> DEFINE u == Syms(s \o t)
           v == Syms(s) \o Syms(t)
           a == Syms(s)
           b == Syms(t)
<1>4. /\ v \in Seq(Symbols) /\ Len(v) = Len(a) + Len(b)
      /\ \A i \in 1 .. Len(a) + Len(b) :
           v[i] = IF i <= Len(a) THEN a[i] ELSE b[i - Len(a)]
  BY <1>1, ConcatProperties
<1> HIDE DEF u, v, a, b
<1>5. ASSUME NEW i \in 1 .. Len(s) + Len(t) PROVE u[i] = v[i]
  <2>1. u[i] = (s \o t)[i].sym
    BY <1>2, <1>3 DEF u
  <2>2. CASE i <= Len(s)
    <3>1. i \in 1 .. Len(s)
      BY <1>1, <2>2
    <3>2. v[i] = a[i] /\ a[i] = s[i].sym
      BY <1>1, <1>4, <2>2, <3>1 DEF a, b
    <3> QED
      BY <1>2, <2>1, <2>2, <3>2
  <2>3. CASE ~(i <= Len(s))
    <3>1. i - Len(s) \in 1 .. Len(t)
      BY <1>1, <2>3
    <3>2. v[i] = b[i - Len(s)] /\ b[i - Len(s)] = t[i - Len(s)].sym
      BY <1>1, <1>4, <2>3, <3>1 DEF a, b
    <3> QED
      BY <1>2, <2>1, <2>3, <3>2
  <2> QED
    BY <2>2, <2>3
<1>6. Len(u) = Len(s) + Len(t) /\ Len(v) = Len(s) + Len(t)
      /\ u \in Seq(Symbols)
  BY <1>1, <1>2, <1>3, <1>4 DEF a, b, u
<1>7. u = v
  BY <1>4, <1>5, <1>6, SeqEqual
<1> QED
  BY <1>7 DEF u, v

LEMMA SymsOne ==
  ASSUME NEW token
  PROVE  Syms(<< token >>) = << token.sym >>
BY DEF Syms

LEMMA SymsAppend ==
  ASSUME NEW C, \A token \in C : token.sym \in Symbols,
         NEW s \in Seq(C), NEW x \in C
  PROVE  Syms(Append(s, x)) = Append(Syms(s), x.sym)
<1>1. Append(s, x) = s \o << x >> /\ << x >> \in Seq(C)
  BY AppendIsConcat
<1>2. Syms(s \o << x >>) = Syms(s) \o << x.sym >>
  BY <1>1, SymsConcat, SymsOne
<1>3. Syms(s) \in Seq(Symbols) /\ x.sym \in Symbols
  BY SymsType
<1> QED
  BY <1>1, <1>2, <1>3, AppendIsConcat

LEMMA SymsEnds ==
  ASSUME NEW C, \A token \in C : token.sym \in Symbols,
         NEW s \in Seq(C), s # <<>>
  PROVE  /\ Front(Syms(s)) = Syms(Front(s)) /\ Last(Syms(s)) = Last(s).sym
         /\ Tail(Syms(s)) = Syms(Tail(s)) /\ Head(Syms(s)) = Head(s).sym
<1>1. Front(s) \in Seq(C) /\ Last(s) \in C /\ s = Append(Front(s), Last(s))
  BY SplitLast
<1>2. Syms(s) = Append(Syms(Front(s)), Last(s).sym)
  BY <1>1, SymsAppend
<1>3. Syms(Front(s)) \in Seq(Symbols) /\ Last(s).sym \in Symbols
  BY <1>1, SymsType
<1>4. Head(s) \in C /\ Tail(s) \in Seq(C)
  BY HeadTailProperties
<1>5. s = << Head(s) >> \o Tail(s)
  <2>1. <<>> \o s = Append(<<>>, Head(s)) \o Tail(s)
    BY SplitFirst, EmptySeq
  <2> QED
    BY <1>4, <2>1, ConcatEmptySeq
<1>6. Syms(s) = << Head(s).sym >> \o Syms(Tail(s))
  <2>1. << Head(s) >> \in Seq(C)
    BY <1>4
  <2>2. Syms(<< Head(s) >> \o Tail(s)) = Syms(<< Head(s) >>) \o Syms(Tail(s))
    BY <1>4, <2>1, SymsConcat
  <2> QED
    BY <1>5, <2>2, SymsOne
<1>7. Syms(Tail(s)) \in Seq(Symbols) /\ Head(s).sym \in Symbols
  BY <1>4, SymsType
<1>8. Front(Syms(s)) = Syms(Front(s)) /\ Last(Syms(s)) = Last(s).sym
  BY <1>2, <1>3, FrontAndLast
<1>9. Tail(Syms(s)) = Syms(Tail(s)) /\ Head(Syms(s)) = Head(s).sym
  BY <1>6, <1>7, HeadAndTail
<1> QED
  BY <1>8, <1>9
-----------------------------------------------------------------------------
(***************************************************************************)
(* The invariant of substitute.  A replacement has been begun only for the *)
(* invocation of the top frame, whose arguments are all expanded, and what *)
(* there is of it stands for the body tokens read.                         *)
(***************************************************************************)
SubstitutionOK ==
  repl # NoReplacement /\ repl.phase = "substitute" =>
    /\ ArgumentsReady
    /\ OperatorsOrdered(Def) =>
         /\ Position(Def, I - 1)
         /\ StandsFor(Def, Called, I - 1, Syms(repl.out), repl.placemarker)

\* The arguments of the call, and the reference's.
LEMMA CalledIs ==
  ASSUME Inv, ArgumentsReady
  PROVE  /\ Def \in Macro /\ ArgsOK(Def, Called)
         /\ \A p \in DOMAIN Def.params :
              /\ Called[p].raw = F.call.raw[p] /\ F.call.raw[p] \in Seq(AnyToken)
              /\ Called[p].expanded = F.call.expanded[p]
              /\ F.call.expanded[p] \in Seq(AnyToken)
<1>1. /\ Def \in Macro /\ Len(F.call.raw) = Len(Def.params)
      /\ F.call.raw \in Seq(Seq(Inherited))
      /\ F.call.expanded \in Seq(Seq(Inherited))
      /\ Len(F.call.expanded) = Len(F.call.raw)
  BY CalledType DEF ArgumentsReady
<1>2. DOMAIN Def.params = 1 .. Len(F.call.raw)
  BY <1>1, BodyType
<1>3. ASSUME NEW p \in DOMAIN Def.params
      PROVE  /\ Called[p].raw = F.call.raw[p] /\ F.call.raw[p] \in Seq(AnyToken)
             /\ Called[p].expanded = F.call.expanded[p]
             /\ F.call.expanded[p] \in Seq(AnyToken)
  <2>1. p \in 1 .. Len(F.call.raw) /\ p \in 1 .. Len(F.call.expanded)
    BY <1>1, <1>2
  <2>2. F.call.raw[p] \in Seq(Inherited) /\ F.call.expanded[p] \in Seq(Inherited)
    BY <1>1, <2>1, ElementOfSeq
  <2>3. p \in DOMAIN F.call.raw
    BY <1>1, <2>1, LenProperties
  <2>4. Called[p].raw = F.call.raw[p] /\ Called[p].expanded = F.call.expanded[p]
    BY <2>3 DEF Called
  <2> QED
    BY <2>2, <2>4, InheritedIsAny
<1>4. ArgsOK(Def, Called)
  BY <1>3, AnySym, SymsType DEF ArgsOK
<1> QED
  BY <1>1, <1>3, <1>4

\* In front of every round, the first included.
LEMMA Reached ==
  ASSUME Inv, SubstitutionOK, ArgumentsReady, repl.phase = "substitute",
         OperatorsOrdered(Def)
  PROVE  /\ Position(Def, I - 1) /\ I - 1 \in Nat /\ repl.placemarker \in BOOLEAN
         /\ StandsFor(Def, Called, I - 1, Syms(repl.out), repl.placemarker)
<1>1. I \in Nat \ {0} /\ repl.placemarker \in BOOLEAN
  BY DEF Inv, ReplacementOK, I
<1>2. CASE repl = NoReplacement
  <2>1. /\ I - 1 = 0 /\ repl.out = <<>> /\ repl.placemarker = FALSE
    BY <1>2 DEF NoReplacement, I
  <2>2. Syms(<<>>) = <<>>
    BY EmptySeq, SymsType, AnySym
  <2>3. Position(Def, 0) /\ StandsFor(Def, Called, 0, <<>>, FALSE)
    BY CalledIs, StandsForNone
  <2>4. StandsFor(Def, Called, I - 1, Syms(repl.out), repl.placemarker)
    BY <2>1, <2>2, <2>3, Zenon
  <2> QED
    BY <1>1, <2>1, <2>3, <2>4
<1>3. CASE repl # NoReplacement
  BY <1>1, <1>3 DEF SubstitutionOK
<1> QED
  BY <1>2, <1>3

\* After a round, for the conjuncts that it changes.
LEMMA RoundStep ==
  ASSUME Inv, Substituting, UNCHANGED <<macros, frames, done>>,
         NEW k \in Nat, repl'.i = k + 1,
         OperatorsOrdered(Def) =>
           /\ Position(Def, k)
           /\ StandsFor(Def, Called, k, Syms(repl'.out), repl'.placemarker)
  PROVE  SubstitutionOK'
<1>1. F' = F /\ Def' = Def
  BY DEF F, Def, Here, Top
<1>2. Called' = Called /\ ArgumentsReady' = ArgumentsReady
  BY <1>1 DEF Called, ArgumentsReady, Calling
<1>3. I' - 1 = k
  BY DEF I
<1>4. ArgumentsReady
  BY SubstitutingType
<1> QED
  BY <1>1, <1>2, <1>3, <1>4 DEF SubstitutionOK

LEMMA RoundIs ==
  ASSUME Inv, Substituting
  PROVE  \E k \in Nat : I = k + 1
<1>1. I \in Nat \ {0}
  BY DEF Inv, ReplacementOK, I
<1>2. I - 1 \in Nat /\ I = (I - 1) + 1
  BY <1>1
<1> QED
  BY <1>2

LEMMA EmitSubstitutes ==
  ASSUME Inv, Substituting,
         NEW s \in Seq(AnyToken), NEW b \in BOOLEAN, NEW n \in Nat, NEW next,
         next = n + 1, Emit(s, b, next),
         OperatorsOrdered(Def) =>
           /\ Position(Def, n)
           /\ StandsFor(Def, Called, n, Syms(repl.out) \o Syms(s), b)
  PROVE  SubstitutionOK'
<1>1. UNCHANGED <<macros, frames, done>>
  BY DEF Emit
<1>2. repl'.i = n + 1 /\ repl'.out = repl.out \o s /\ repl'.placemarker = b
  BY DEF Emit, Inv, ReplacementOK
<1>3. Syms(repl.out \o s) = Syms(repl.out) \o Syms(s)
  BY SubstitutingType, SymsConcat, AnySym
<1> QED
  BY <1>1, <1>2, <1>3, RoundStep

(***************************************************************************)
(* One round of the loop: #, a token, a parameter, and the four outcomes   *)
(* of a ##.                                                                *)
(***************************************************************************)
LEMMA StringizeSubstitutes ==
  ASSUME Inv, SubstitutionOK, Stringize
  PROVE  SubstitutionOK'
<1>1. PICK k \in Nat : I = k + 1
  BY RoundIs DEF Stringize
<1> DEFINE s == << Token("string", Empty) >>
<1>2. s \in Seq(AnyToken) /\ Syms(s) = << "string" >> /\ "string" \in Symbols
  <2>1. "string" \in Symbols
    BY ExpansionAssumption DEF Punctuation
  <2>2. s \in Seq(AnyToken)
    BY <2>1, BodyToken
  <2>3. Syms(s) = << "string" >>
    BY SymsOne DEF Token
  <2> QED
    BY <2>1, <2>2, <2>3
<1>3. /\ Substituting /\ ArgumentsReady /\ repl.phase = "substitute"
      /\ Stringizes(Def, I) /\ Emit(s, FALSE, I + 2)
  BY SubstitutingType DEF Stringize, Stringized, Stringizes, Body
<1>a. I + 2 = (k + 2) + 1 /\ k + 2 \in Nat
  BY <1>1
<1> HIDE DEF s
<1>4. ASSUME OperatorsOrdered(Def)
      PROVE  /\ Position(Def, k + 2)
             /\ StandsFor(Def, Called, k + 2, Syms(repl.out) \o Syms(s), FALSE)
  <2>1. /\ Position(Def, k) /\ repl.placemarker \in BOOLEAN
        /\ StandsFor(Def, Called, k, Syms(repl.out), repl.placemarker)
    <3>1. I - 1 = k
      BY <1>1
    <3> QED
      BY <1>3, <1>4, <3>1, Reached
  <2>2. Def \in Macro /\ ArgsOK(Def, Called)
    BY <1>3, CalledIs
  <2>3. I + 1 = k + 2 /\ I = k + 1 /\ I \in Nat /\ k + 2 \in Nat
        /\ k + 2 > 1 /\ (k + 2) - 1 = I
    BY <1>1
  <2>4. /\ ParamIndex(Def, k + 2) # 0 /\ k + 2 \in 1 .. Len(Def.body)
        /\ Def.body[k + 2] # "#" /\ Def.body[k + 2] # "##"
        /\ ParamIndex(Def, I) = 0
    BY <1>3, <2>2, <2>3, BodyType DEF Stringizes
  <2>5. BodyItem(Def, Called, k + 1) = << "string" >>
    BY <1>3, <2>3, <2>4, BodyItemIs
  <2>6. BodyItem(Def, Called, k + 2) = <<>>
    BY <1>3, <2>3, <2>4, BodyItemIs DEF Stringizes
  <2>7. /\ << "string" >> \in Seq(Symbols) /\ << "string" >> # <<>>
        /\ k + 2 <= Len(Def.body) /\ Len(Def.body) \in Nat
    BY <1>2, <2>2, <2>4, BodyType
  <2>8. StandsFor(Def, Called, k + 2, Syms(repl.out) \o << "string" >>, FALSE)
    BY <2>1, <2>2, <2>5, <2>6, <2>7, StringAppended
  <2>9. Position(Def, k + 2)
    BY <2>3, <2>4, <2>7 DEF Position, Stringizes
  <2> QED
    BY <1>2, <2>8, <2>9
<1> QED
  BY <1>a, <1>2, <1>3, <1>4, EmitSubstitutes

LEMMA TokenSubstitutes ==
  ASSUME Inv, SubstitutionOK, SubstituteToken
  PROVE  SubstitutionOK'
<1>1. PICK k \in Nat : I = k + 1
  BY RoundIs DEF SubstituteToken
<1> DEFINE s == << Token(Body[I], Empty) >>
<1>2. /\ Substituting /\ ArgumentsReady /\ repl.phase = "substitute"
      /\ ParamIndex(Def, I) = 0 /\ ~Stringizes(Def, I) /\ ~Operator
      /\ Emit(s, FALSE, I + 1)
      /\ I \in 1 .. Len(Body) /\ Body[I] \in Symbols
  BY SubstitutingType DEF SubstituteToken, Stringized, Stringizes, Body
<1>a. I + 1 = (k + 1) + 1 /\ k + 1 \in Nat
  BY <1>1
<1>3. /\ s \in Seq(AnyToken) /\ Syms(s) = << Def.body[I] >>
      /\ << Def.body[I] >> \in Seq(Symbols)
  BY <1>2, BodyToken, SymsOne DEF Token, Body
<1> HIDE DEF s
<1>4. ASSUME OperatorsOrdered(Def)
      PROVE  /\ Position(Def, k + 1)
             /\ StandsFor(Def, Called, k + 1, Syms(repl.out) \o Syms(s), FALSE)
  <2>1. /\ repl.placemarker \in BOOLEAN
        /\ StandsFor(Def, Called, k, Syms(repl.out), repl.placemarker)
    <3>1. I - 1 = k
      BY <1>1
    <3> QED
      BY <1>2, <1>4, <3>1, Reached
  <2>2. Def \in Macro /\ ArgsOK(Def, Called) /\ Len(Def.body) \in Nat
    BY <1>2, CalledIs, BodyType
  <2>3. Def.body[I] # "##"
    <3>1. Def.body # <<>>
      BY <1>2, <2>2, EmptySeq DEF Body
    <3>2. Def.body[Len(Def.body)] # "##"
      BY <1>4, <3>1 DEF OperatorsOrdered
    <3> QED
      BY <1>2, <2>2, <3>2 DEF Operator, Body
  <2>4. BodyItem(Def, Called, k + 1) = << Def.body[I] >>
    BY <1>1, <1>2, <2>3, BodyItemIs
  <2>5. k < Len(Def.body) /\ k + 1 \in 0 .. Len(Def.body)
    BY <1>1, <1>2, <2>2 DEF Body
  <2>6. StandsFor(Def, Called, k + 1, Syms(repl.out) \o << Def.body[I] >>, FALSE)
    BY <1>3, <2>1, <2>2, <2>4, <2>5, ItemsAppended
  <2>7. Position(Def, k + 1)
    BY <1>1, <1>2, <2>3, <2>5 DEF Position
  <2> QED
    BY <1>3, <2>6, <2>7
<1> QED
  BY <1>a, <1>2, <1>3, <1>4, EmitSubstitutes

LEMMA ParamSubstitutes ==
  ASSUME Inv, SubstitutionOK, SubstituteParam
  PROVE  SubstitutionOK'
<1>1. PICK k \in Nat : I = k + 1
  BY RoundIs DEF SubstituteParam
<1> DEFINE p == ParamIndex(Def, I)
           pasted == I < Len(Def.body) /\ Def.body[I + 1] = "##"
<1>2. /\ Substituting /\ ArgumentsReady /\ repl.phase = "substitute" /\ p # 0
      /\ Emit(Source, Source = <<>>, I + 1)
      /\ I \in 1 .. Len(Body)
  BY SubstitutingType DEF SubstituteParam
<1>a. I + 1 = (k + 1) + 1 /\ k + 1 \in Nat
  BY <1>1
<1>3. Def \in Macro /\ ArgsOK(Def, Called) /\ Len(Def.body) \in Nat
  BY <1>2, CalledIs, BodyType
<1>4. /\ p \in DOMAIN Def.params /\ Def.body[I] # "#" /\ Def.body[I] # "##"
  BY <1>2, <1>3, BodyType
<1>5. /\ Called[p].raw = F.call.raw[p] /\ F.call.raw[p] \in Seq(AnyToken)
      /\ Called[p].expanded = F.call.expanded[p]
      /\ F.call.expanded[p] \in Seq(AnyToken)
  BY <1>2, <1>4, CalledIs
<1>6. Source = IF pasted THEN F.call.raw[p] ELSE F.call.expanded[p]
  BY DEF Source, Body
<1>7. Source \in Seq(AnyToken) /\ (Source = <<>>) \in BOOLEAN
  BY <1>5, <1>6
<1>8. Syms(Source) \in Seq(Symbols) /\ (Syms(Source) = <<>> <=> Source = <<>>)
  BY <1>7, SymsType, AnySym
<1>9. ASSUME OperatorsOrdered(Def)
      PROVE  /\ Position(Def, k + 1)
             /\ StandsFor(Def, Called, k + 1, Syms(repl.out) \o Syms(Source),
                          Source = <<>>)
  <2>1. /\ repl.placemarker \in BOOLEAN /\ Position(Def, k)
        /\ StandsFor(Def, Called, k, Syms(repl.out), repl.placemarker)
    <3>1. I - 1 = k
      BY <1>1
    <3> QED
      BY <1>2, <1>9, <3>1, Reached
  <2>2. /\ k < Len(Def.body) /\ k + 1 \in 0 .. Len(Def.body)
        /\ I = k + 1 /\ I - 1 = k /\ I + 1 = k + 2 /\ I \in Nat
        /\ (I > 1 <=> k > 0)
    BY <1>1, <1>2, <1>3 DEF Body
  <2>3. ~(I > 1 /\ Def.body[I - 1] = "#") /\ ~(I > 1 /\ Def.body[I - 1] = "##")
    <3>1. k > 0 => Def.body[k] # "##" /\ ~Stringizes(Def, k)
      BY <2>1 DEF Position
    <3> QED
      BY <1>2, <2>2, <3>1 DEF Stringizes
  <2>4. BodyItem(Def, Called, k + 1) =
          IF ~pasted THEN Syms(F.call.expanded[p])
          ELSE IF F.call.raw[p] = <<>> THEN << Placemarker >>
          ELSE Syms(F.call.raw[p])
    <3>1. BesidePaste(Def, I) <=> pasted
      BY <2>3 DEF BesidePaste
    <3>2. BodyItem(Def, Called, I) =
            IF ~BesidePaste(Def, I) THEN Syms(Called[p].expanded)
            ELSE IF Called[p].raw = <<>> THEN << Placemarker >>
            ELSE Syms(Called[p].raw)
      BY <1>2, <2>2, <2>3, BodyItemIs
    <3> QED
      BY <1>5, <2>2, <3>1, <3>2
  <2>5. Position(Def, k + 1)
    BY <1>4, <2>2 DEF Position, Stringizes
  <2>6. CASE pasted /\ Source = <<>>
    <3>1. BodyItem(Def, Called, k + 1) = << Placemarker >>
      BY <1>6, <2>4, <2>6
    <3>2. StandsFor(Def, Called, k + 1, Syms(repl.out), TRUE)
      BY <1>3, <2>1, <2>2, <3>1, MarkerAppended
    <3>3. Syms(repl.out) \in Seq(Symbols)
      BY <1>2, SubstitutingType, SymsType, AnySym
    <3>4. Syms(repl.out) \o Syms(Source) = Syms(repl.out)
      BY <1>8, <2>6, <3>3, ConcatEmptySeq
    <3> QED
      BY <2>5, <2>6, <3>2, <3>4
  <2>7. CASE ~(pasted /\ Source = <<>>)
    <3>1. BodyItem(Def, Called, k + 1) = Syms(Source)
      BY <1>6, <2>4, <2>7
    <3>2. k + 1 < Len(Def.body) /\ Def.body[k + 2] = "##" =>
            Syms(Source) # <<>> /\ ~(Source = <<>>)
      BY <1>8, <2>2, <2>7
    <3>3. StandsFor(Def, Called, k + 1, Syms(repl.out) \o Syms(Source),
                    Source = <<>>)
      BY <1>3, <1>7, <1>8, <2>1, <2>2, <3>1, <3>2, ItemsAppended
    <3> QED
      BY <2>5, <3>3
  <2> QED
    BY <2>6, <2>7
<1> QED
  BY <1>a, <1>2, <1>7, <1>9, EmitSubstitutes

\* What the standard puts on the right of a ## is what the code takes there.
LEMMA OperandIs ==
  ASSUME Inv, SubstitutionOK, Substituting, Operator, OperatorsOrdered(Def),
         NEW k \in Nat, I = k + 1
  PROVE  /\ Def \in Macro /\ ArgsOK(Def, Called)
         /\ k + 2 <= Len(Def.body) /\ Def.body[k + 1] = "##"
         /\ Position(Def, k + 2) /\ repl.placemarker \in BOOLEAN
         /\ StandsFor(Def, Called, k, Syms(repl.out), repl.placemarker)
         /\ Operand \in Seq(AnyToken)
         /\ Operand = <<>> => BodyItem(Def, Called, k + 2) = << Placemarker >>
         /\ Operand # <<>> => BodyItem(Def, Called, k + 2) = Syms(Operand)
<1>1. /\ ArgumentsReady /\ repl.phase = "substitute" /\ I \in 1 .. Len(Def.body)
      /\ Operand \in Seq(AnyToken)
  BY SubstitutingType, OperandType DEF Body
<1>2. Def \in Macro /\ ArgsOK(Def, Called) /\ Len(Def.body) \in Nat
  BY <1>1, CalledIs, BodyType
<1>3. /\ repl.placemarker \in BOOLEAN
      /\ StandsFor(Def, Called, k, Syms(repl.out), repl.placemarker)
  <2>1. I - 1 = k
    OBVIOUS
  <2> QED
    BY <1>1, <2>1, Reached
<1>4. Def.body[I] = "##" /\ I < Len(Def.body)
  BY DEF Operator, Body
<1>5. /\ I + 1 = k + 2 /\ k + 2 \in 2 .. Len(Def.body) /\ (k + 2) - 1 = I
      /\ k + 2 \in Nat /\ k + 2 > 1 /\ k + 2 \in 0 .. Len(Def.body)
      /\ k + 2 <= Len(Def.body)
  BY <1>1, <1>2, <1>4
<1>6. Def.body[k + 2] # "##" /\ ~Stringizes(Def, k + 2)
  BY <1>4, <1>5 DEF OperatorsOrdered, Stringizes
<1>7. Position(Def, k + 2)
  BY <1>5, <1>6 DEF Position
<1> DEFINE p == ParamIndex(Def, k + 2)
<1>8. /\ Operand = <<>> => BodyItem(Def, Called, k + 2) = << Placemarker >>
      /\ Operand # <<>> => BodyItem(Def, Called, k + 2) = Syms(Operand)
  <2>1. CASE p = 0
    <3>1. Operand = << Token(Def.body[k + 2], Empty) >>
      BY <1>5, <2>1 DEF Operand, Body
    <3>2. Syms(Operand) = << Def.body[k + 2] >> /\ Operand # <<>>
      BY <3>1, SymsOne DEF Token
    <3>3. BodyItem(Def, Called, k + 2) = << Def.body[k + 2] >>
      BY <1>5, <1>6, <2>1, BodyItemIs
    <3> QED
      BY <3>2, <3>3
  <2>2. CASE p # 0
    <3>1. Operand = F.call.raw[p]
      BY <1>5, <2>2 DEF Operand, Body
    <3>2. p \in DOMAIN Def.params
      BY <1>2, <2>2, BodyType
    <3>3. Called[p].raw = F.call.raw[p]
      BY <1>1, <3>2, CalledIs
    <3>4. BesidePaste(Def, k + 2) /\ ~(k + 2 > 1 /\ Def.body[(k + 2) - 1] = "#")
      BY <1>4, <1>5 DEF BesidePaste
    <3>5. BodyItem(Def, Called, k + 2) =
            IF Called[p].raw = <<>> THEN << Placemarker >> ELSE Syms(Called[p].raw)
      BY <1>5, <2>2, <3>4, BodyItemIs
    <3> QED
      BY <3>1, <3>3, <3>5
  <2> QED
    BY <2>1, <2>2
<1> QED
  BY <1>1, <1>2, <1>3, <1>4, <1>5, <1>7, <1>8

LEMMA PasteNothingSubstitutes ==
  ASSUME Inv, SubstitutionOK, PasteNothing
  PROVE  SubstitutionOK'
<1>1. PICK k \in Nat : I = k + 1
  BY RoundIs DEF PasteNothing
<1>2. /\ Substituting /\ Operator /\ Operand = <<>>
      /\ Emit(<<>>, repl.placemarker, I + 2) /\ repl.placemarker \in BOOLEAN
  BY SubstitutingType DEF PasteNothing
<1>3. I + 2 = (k + 2) + 1 /\ k + 2 \in Nat
  BY <1>1
<1>4. <<>> \in Seq(AnyToken)
  BY EmptySeq
<1>5. ASSUME OperatorsOrdered(Def)
      PROVE  /\ Position(Def, k + 2)
             /\ StandsFor(Def, Called, k + 2, Syms(repl.out) \o Syms(<<>>),
                          repl.placemarker)
  <2>1. StandsFor(Def, Called, k + 2, Syms(repl.out), repl.placemarker)
    BY <1>1, <1>2, <1>5, OperandIs, NothingPasted
  <2>2. Syms(repl.out) \o Syms(<<>>) = Syms(repl.out)
    <3>1. Syms(repl.out) \in Seq(Symbols) /\ Syms(<<>>) = <<>>
      BY <1>2, <1>4, SubstitutingType, SymsType, AnySym
    <3> QED
      BY <3>1, ConcatEmptySeq
  <2>3. Position(Def, k + 2)
    BY <1>1, <1>2, <1>5, OperandIs
  <2> QED
    BY <2>1, <2>2, <2>3
<1> QED
  BY <1>2, <1>3, <1>4, <1>5, EmitSubstitutes

\* A ## with something on its right: on its left there may be nothing.
LEMMA OperandSubstituted ==
  ASSUME Inv, SubstitutionOK, Substituting, Operator, OperatorsOrdered(Def),
         Operand # <<>>, NEW k \in Nat, I = k + 1
  PROVE  LET o == Syms(repl.out)
             w == Syms(Operand)
         IN /\ Position(Def, k + 2)
            /\ o = <<>> \/ repl.placemarker =>
                 StandsFor(Def, Called, k + 2, o \o w, FALSE)
            /\ o # <<>> /\ ~repl.placemarker =>
                 IF << Last(o), Head(w) >> \in DOMAIN Glue
                 THEN StandsFor(Def, Called, k + 2,
                        Append(Front(o), Glue[<< Last(o), Head(w) >>]) \o Tail(w),
                        FALSE)
                 ELSE StandsFor(Def, Called, k + 2, o \o w, FALSE)
<1> DEFINE o == Syms(repl.out)
           w == Syms(Operand)
<1>1. /\ Def \in Macro /\ ArgsOK(Def, Called)
      /\ k + 2 <= Len(Def.body) /\ Def.body[k + 1] = "##"
      /\ Position(Def, k + 2) /\ repl.placemarker \in BOOLEAN
      /\ StandsFor(Def, Called, k, o, repl.placemarker)
      /\ BodyItem(Def, Called, k + 2) = w /\ Operand \in Seq(AnyToken)
  BY OperandIs
<1>2. w \in Seq(Symbols) /\ w # <<>>
  BY <1>1, SymsType, AnySym
<1> HIDE DEF o, w
<1>3. /\ o = <<>> \/ repl.placemarker =>
           StandsFor(Def, Called, k + 2, o \o w, FALSE)
      /\ o # <<>> /\ ~repl.placemarker =>
           IF << Last(o), Head(w) >> \in DOMAIN Glue
           THEN StandsFor(Def, Called, k + 2,
                  Append(Front(o), Glue[<< Last(o), Head(w) >>]) \o Tail(w),
                  FALSE)
           ELSE StandsFor(Def, Called, k + 2, o \o w, FALSE)
  BY <1>1, <1>2, SomethingPasted
<1> QED
  BY <1>1, <1>3 DEF o, w

LEMMA PasteOntoNothingSubstitutes ==
  ASSUME Inv, SubstitutionOK, PasteOntoNothing
  PROVE  SubstitutionOK'
<1>1. PICK k \in Nat : I = k + 1
  BY RoundIs DEF PasteOntoNothing
<1>2. /\ Substituting /\ Operator /\ Operand # <<>>
      /\ Emit(Operand, FALSE, I + 2) /\ Operand \in Seq(AnyToken)
      /\ repl.out = <<>> \/ repl.placemarker
  BY OperandType DEF PasteOntoNothing
<1>3. I + 2 = (k + 2) + 1 /\ k + 2 \in Nat
  BY <1>1
<1>4. repl.out = <<>> <=> Syms(repl.out) = <<>>
  BY <1>2, SubstitutingType, SymsType, AnySym
<1>5. OperatorsOrdered(Def) =>
        /\ Position(Def, k + 2)
        /\ StandsFor(Def, Called, k + 2, Syms(repl.out) \o Syms(Operand), FALSE)
  BY <1>1, <1>2, <1>4, OperandSubstituted
<1> QED
  BY <1>2, <1>3, <1>5, EmitSubstitutes

\* The symbols on the two sides of a ##.
LEMMA PairIs ==
  ASSUME Inv, Pasting
  PROVE  /\ repl.out \in Seq(AnyToken) /\ Operand \in Seq(AnyToken)
         /\ repl.out # <<>> /\ Operand # <<>> /\ ~repl.placemarker
         /\ Syms(repl.out) # <<>>
         /\ Pair = << Last(Syms(repl.out)), Head(Syms(Operand)) >>
         /\ Front(Syms(repl.out)) = Syms(Front(repl.out))
         /\ Tail(Syms(Operand)) = Syms(Tail(Operand))
<1>1. /\ repl.out \in Seq(AnyToken) /\ Operand \in Seq(AnyToken)
      /\ repl.out # <<>> /\ Operand # <<>> /\ ~repl.placemarker
  BY SubstitutingType, OperandType DEF Pasting
<1>2. /\ Last(Syms(repl.out)) = Last(repl.out).sym
      /\ Head(Syms(Operand)) = Head(Operand).sym
      /\ Front(Syms(repl.out)) = Syms(Front(repl.out))
      /\ Tail(Syms(Operand)) = Syms(Tail(Operand))
  BY <1>1, SymsEnds, AnySym
<1>3. Syms(repl.out) # <<>>
  BY <1>1, SymsType, AnySym
<1> QED
  BY <1>1, <1>2, <1>3 DEF Pair

LEMMA InvalidPasteSubstitutes ==
  ASSUME Inv, SubstitutionOK, InvalidPaste
  PROVE  SubstitutionOK'
<1>1. PICK k \in Nat : I = k + 1
  BY RoundIs DEF InvalidPaste, Pasting
<1>2. /\ Substituting /\ Operator /\ Pasting /\ Pair \notin DOMAIN Glue
      /\ Emit(Operand, FALSE, I + 2)
  BY DEF InvalidPaste, Pasting
<1>3. I + 2 = (k + 2) + 1 /\ k + 2 \in Nat
  BY <1>1
<1>4. /\ Operand \in Seq(AnyToken) /\ Operand # <<>> /\ ~repl.placemarker
      /\ Syms(repl.out) # <<>>
      /\ << Last(Syms(repl.out)), Head(Syms(Operand)) >> \notin DOMAIN Glue
  BY <1>2, PairIs
<1>5. OperatorsOrdered(Def) =>
        /\ Position(Def, k + 2)
        /\ StandsFor(Def, Called, k + 2, Syms(repl.out) \o Syms(Operand), FALSE)
  BY <1>1, <1>2, <1>4, OperandSubstituted
<1> QED
  BY <1>2, <1>3, <1>4, <1>5, EmitSubstitutes

LEMMA PasteSubstitutes ==
  ASSUME Inv, SubstitutionOK, paste
  PROVE  SubstitutionOK'
<1>1. PICK k \in Nat : I = k + 1
  BY RoundIs DEF paste, Pasting
<1> DEFINE front == Front(repl.out)
           tail == Tail(Operand)
           g == Glue[Pair]
<1>2. /\ Substituting /\ Operator /\ Pasting /\ Pair \in DOMAIN Glue
      /\ UNCHANGED <<macros, frames, done>>
      /\ \E id : repl' = [repl EXCEPT !.out = Append(front, Token(g, id)) \o tail,
                                      !.i = I + 2]
  BY DEF paste, Pasting
<1>3. PICK id : repl' = [repl EXCEPT !.out = Append(front, Token(g, id)) \o tail,
                                     !.i = I + 2]
  BY <1>2
<1>4. /\ repl.out \in Seq(AnyToken) /\ Operand \in Seq(AnyToken)
      /\ repl.out # <<>> /\ Operand # <<>> /\ ~repl.placemarker
      /\ Syms(repl.out) # <<>>
      /\ Pair = << Last(Syms(repl.out)), Head(Syms(Operand)) >>
      /\ Front(Syms(repl.out)) = Syms(front)
      /\ Tail(Syms(Operand)) = Syms(tail)
  BY <1>2, PairIs
<1> HIDE DEF front, tail
<1>5. front \in Seq(AnyToken) /\ tail \in Seq(AnyToken) /\ g \in Symbols
  BY <1>2, <1>4, SplitLast, HeadTailProperties, ExpansionAssumption DEF front, tail
<1> DEFINE C == AnyToken \cup {Token(g, id)}
<1>6. Syms(Append(front, Token(g, id)) \o tail) =
        Append(Syms(front), g) \o Syms(tail)
  <2>1. \A token \in C : token.sym \in Symbols
    BY <1>5, AnySym DEF Token
  <2>2. AnyToken \subseteq C /\ Token(g, id) \in C /\ Token(g, id).sym = g
    BY DEF Token
  <2> HIDE DEF C
  <2>3. front \in Seq(C) /\ tail \in Seq(C)
    BY <1>5, <2>2, SeqMonotonic
  <2>4. Append(front, Token(g, id)) \in Seq(C)
    BY <2>2, <2>3, AppendProperties
  <2>5. Syms(Append(front, Token(g, id))) = Append(Syms(front), g)
    BY <2>1, <2>2, <2>3, SymsAppend
  <2> QED
    BY <2>1, <2>3, <2>4, <2>5, SymsConcat
<1>7. /\ repl'.i = (k + 2) + 1 /\ k + 2 \in Nat
      /\ repl'.out = Append(front, Token(g, id)) \o tail
      /\ repl'.placemarker = FALSE
  <2>1. repl.placemarker = FALSE /\ I + 2 = (k + 2) + 1
    BY <1>1, <1>2, <1>4, SubstitutingType
  <2>2. repl \in [phase : {"substitute", "hide", "paint"}, i : Nat \ {0},
                   out : Seq(AnyToken), placemarker : BOOLEAN, id : Ids(table)]
    BY DEF Inv, ReplacementOK, AnyToken
  <2> QED
    BY <1>1, <1>3, <2>1, <2>2
<1>8. ASSUME OperatorsOrdered(Def)
      PROVE  /\ Position(Def, k + 2)
             /\ StandsFor(Def, Called, k + 2, Syms(repl'.out), repl'.placemarker)
  <2>1. StandsFor(Def, Called, k + 2, Append(Syms(front), g) \o Syms(tail), FALSE)
    BY <1>1, <1>2, <1>4, <1>8, OperandSubstituted
  <2>2. Position(Def, k + 2)
    BY <1>1, <1>2, <1>4, <1>8, OperandSubstituted
  <2> QED
    BY <1>6, <1>7, <2>1, <2>2
<1> QED
  BY <1>2, <1>7, <1>8, RoundStep

LEMMA SubstitutionStep ==
  Inv /\ SubstitutionOK /\ [Next]_vars => SubstitutionOK'
<1> SUFFICES ASSUME Inv, SubstitutionOK, [Next]_vars PROVE SubstitutionOK'
  OBVIOUS
<1>1. CASE UNCHANGED vars
  <2>1. UNCHANGED <<macros, frames, repl, done>>
    BY <1>1 DEF vars
  <2>2. F' = F /\ Def' = Def /\ I' = I
    BY <2>1 DEF F, Def, Here, Top, I
  <2>3. Called' = Called /\ ArgumentsReady' = ArgumentsReady
    BY <2>1, <2>2 DEF Called, ArgumentsReady, Calling
  <2> QED
    BY <2>1, <2>2, <2>3 DEF SubstitutionOK
<1>2. CASE \/ Copy \/ UnterminatedArgs \/ MacroArity \/ BeginCall \/ ExpandObject
           \/ ExpandArgument \/ ArgumentExpanded \/ Rescanned \/ Finish
  <2>1. repl' = repl
    BY <1>2 DEF Copy, UnterminatedArgs, MacroArity, BeginCall, ExpandObject,
         ExpandArgument, ArgumentExpanded, Rescanned, Finish, Refuse, Call
  <2>2. F.call = NoCall \/ AwaitsArgument(F)
    BY <1>2 DEF Copy, UnterminatedArgs, MacroArity, BeginCall, ExpandObject,
         ExpandArgument, ArgumentExpanded, Rescanned, Finish, Invocation,
         MacroName, Scanning, Exhausted, Calling, AwaitsArgument
  <2>3. ~ArgumentsReady
    <3>1. Len(F.call.expanded) \in Nat /\ Len(F.call.raw) \in Nat
      BY TopOK, FrameParts, LenProperties
    <3> QED
      BY <2>2, <3>1 DEF ArgumentsReady, Calling, AwaitsArgument
  <2>4. repl = NoReplacement \/ repl.phase # "substitute"
    BY <2>3 DEF SubstitutionOK
  <2> QED
    BY <2>1, <2>4 DEF SubstitutionOK
<1>3. CASE Stringize
  BY <1>3, StringizeSubstitutes
<1>4. CASE PasteNothing
  BY <1>4, PasteNothingSubstitutes
<1>5. CASE PasteOntoNothing
  BY <1>5, PasteOntoNothingSubstitutes
<1>6. CASE paste
  BY <1>6, PasteSubstitutes
<1>7. CASE InvalidPaste
  BY <1>7, InvalidPasteSubstitutes
<1>8. CASE SubstituteParam
  BY <1>8, ParamSubstitutes
<1>9. CASE SubstituteToken
  BY <1>9, TokenSubstitutes
<1>10. CASE HideCommon \/ HideName \/ Paint
  <2>1. /\ HideCommon => \E id : repl' = [repl EXCEPT !.phase = "hide", !.id = id]
        /\ HideName => \E id : repl' = [repl EXCEPT !.phase = "paint", !.id = id,
                                                    !.i = 1]
        /\ Paint => /\ \E id : repl' = [repl EXCEPT !.out[I].hides = id,
                                                    !.i = I + 1]
                    /\ repl.phase = "paint"
    BY Zenon DEF HideCommon, HideName, Hide, Paint, Painting
  <2>2. repl \in [phase : {"substitute", "hide", "paint"}, i : Nat \ {0},
                  out : Seq(AnyToken), placemarker : BOOLEAN, id : Ids(table)]
    BY DEF Inv, ReplacementOK, AnyToken
  <2>3. repl'.phase # "substitute"
    BY <1>10, <2>1, <2>2
  <2> QED
    BY <2>3 DEF SubstitutionOK
<1>11. CASE Rescan
  BY <1>11 DEF Rescan, SubstitutionOK, NoReplacement
<1> QED
  BY <1>1, <1>2, <1>3, <1>4, <1>5, <1>6, <1>7, <1>8, <1>9, <1>10, <1>11
     DEF Next, Expand, Returned

(***************************************************************************)
(* For every macro, every arguments and every paste function: the one pass *)
(* of substitute, with a single flag for the placemarker, makes the        *)
(* replacement that the standard's separate passes make.  Only ## next to  *)
(* another ## or to # is left out, where the standard gives no order.      *)
(***************************************************************************)
THEOREM ReplacementIsAlwaysStandard == Spec => []ReplacementIsStandard
<1>1. Init => SubstitutionOK
  BY DEF Init, SubstitutionOK
<1>2. Inv /\ SubstitutionOK => ReplacementIsStandard
  <2> SUFFICES ASSUME Inv, SubstitutionOK, Substituted, OperatorsOrdered(Def)
               PROVE  Syms(repl.out) = StandardReplacement(Def, Called)
    BY DEF ReplacementIsStandard
  <2>1. ArgumentsReady /\ repl.phase = "substitute" /\ I > Len(Def.body)
    BY DEF Substituted, Body
  <2>2. /\ Position(Def, I - 1) /\ I - 1 \in Nat
        /\ StandsFor(Def, Called, I - 1, Syms(repl.out), repl.placemarker)
    BY <2>1, Reached
  <2>3. I - 1 = Len(Def.body)
    <3>1. Len(Def.body) \in Nat /\ I \in Nat
      BY <2>1, CalledIs, BodyType DEF Inv, ReplacementOK, I
    <3> QED
      BY <2>1, <2>2, <3>1 DEF Position
  <2> QED
    BY <2>2, <2>3, Zenon DEF StandsFor, StandardReplacement
<1> QED
  BY <1>1, <1>2, SubstitutionStep, InvInit, InvStep, PTL DEF Spec
-----------------------------------------------------------------------------
(***************************************************************************)
(* The expansion of each name by nesting, for the macro table m: f says of *)
(* each set of names in D what a symbol within their replacements becomes. *)
(***************************************************************************)
NestsOver(f, m, D) ==
  f = [within \in D |->
         [sym \in Symbols |->
            IF sym \in Names \ within /\ m[sym] # NotMacro
            THEN FlattenSeq([i \in DOMAIN m[sym].body |->
                   f[within \cup {sym}][m[sym].body[i]]])
            ELSE << sym >>]]

Nested(m) == CHOOSE f : NestsOver(f, m, SUBSET Names)

\* What e makes of the first k tokens.
ExpandedTo(e, tokens, k) == FlattenSeq([i \in 1 .. k |-> e[tokens[i].sym]])

\* A frame within W whose first k tokens are expanded.
FrameNests(f, t, W, m, k) ==
  /\ f.kind # "argument"
  /\ k \in 0 .. Len(f.tokens)
  /\ \A i \in 1 .. Len(f.tokens) : t.sets[f.tokens[i].hides] = W
  /\ Syms(f.out) = ExpandedTo(Nested(m)[W], f.tokens, k)
  /\ f.kind = "replacement" =>
       m[f.name] # NotMacro /\ Syms(f.tokens) = m[f.name].body

\* A frame that waits for the rescan of the token it read last.
Waits(f, name) ==
  /\ f.call = NoCall
  /\ f.pos >= 2 /\ f.tokens[f.pos - 1].sym = name

CallNests(f, m) ==
  f.call # NoCall =>
    /\ f.call.close = f.pos /\ f.call.raw = <<>>
    /\ m[f.tokens[f.pos].sym] # NotMacro

\* The frame at d, below the top, is as far as the rescan above it.
BelowNests(fs, d, t, m) ==
  /\ FrameNests(fs[d], t, Within(fs, d), m, fs[d].pos - 2)
  /\ Waits(fs[d], fs[d + 1].name)

StackNests(fs, t, m) ==
  /\ \A d \in 1 .. Len(fs) - 1 : BelowNests(fs, d, t, m)
  /\ FrameNests(fs[Len(fs)], t, Within(fs, Len(fs)), m, fs[Len(fs)].pos - 1)
  /\ CallNests(fs[Len(fs)], m)

ReplacementNests ==
  LET W == Within(frames, Top)
      o == repl.out
  IN /\ repl.phase = "substitute" => Len(o) = I - 1 /\ Len(o) <= Len(Body)
     /\ repl.phase # "substitute" => Len(o) = Len(Body)
     /\ \A j \in 1 .. Len(o) :
          /\ o[j].sym = Body[j]
          /\ ~(repl.phase = "paint" /\ j < I) => o[j].hides = Empty
          /\ repl.phase = "paint" /\ j < I =>
               table.sets[o[j].hides] = W \cup {Here.sym}
     /\ repl.phase = "hide" => table.sets[repl.id] = W
     /\ repl.phase = "paint" => table.sets[repl.id] = W \cup {Here.sym}

NestingOK ==
  ObjectLikeOnly =>
    /\ StackNests(frames, table, macros)
    /\ F.call # NoCall => ReplacementNests
    /\ done =>
         /\ Top = 1 /\ out = F.out /\ F.call = NoCall
         /\ F.pos = Len(F.tokens) + 1

\* How many names there are outside w.
Others(w) == Cardinality(Names \ w)

LEMMA OthersFewer ==
  ASSUME IsFiniteSet(Names), NEW w \in SUBSET Names
  PROVE  /\ Others(w) \in Nat /\ Others(w) < Cardinality(Names) + 1
         /\ Cardinality(Names) + 1 \in Nat
<1>1. Names \ w \subseteq Names /\ IsFiniteSet(Names \ w)
  BY FS_Difference
<1>2. Cardinality(Names \ w) <= Cardinality(Names)
  BY <1>1, FS_Subset
<1>3. Cardinality(Names) \in Nat /\ Cardinality(Names \ w) \in Nat
  BY <1>1, FS_CardinalityType
<1> QED
  BY <1>2, <1>3 DEF Others

LEMMA OthersNext ==
  ASSUME IsFiniteSet(Names), NEW w \in SUBSET Names, NEW sym \in Names \ w
  PROVE  /\ w \cup {sym} \in SUBSET Names
         /\ Others(w \cup {sym}) \in Nat
         /\ Others(w \cup {sym}) = Others(w) - 1
<1>1. /\ w \cup {sym} \in SUBSET Names
      /\ Names \ (w \cup {sym}) = (Names \ w) \ {sym}
  OBVIOUS
<1>2. IsFiniteSet(Names \ w)
  BY FS_Difference
<1>3. Cardinality((Names \ w) \ {sym}) = Cardinality(Names \ w) - 1
  BY <1>2, FS_RemoveElement
<1> QED
  BY <1>1, <1>3, OthersFewer DEF Others

LEMMA NestingExists ==
  ASSUME IsFiniteSet(Names), NEW m
  PROVE  \E f : NestsOver(f, m, SUBSET Names)
<1> DEFINE Near(n) == {w \in SUBSET Names : Others(w) < n}
           Missing == {n \in Nat : ~\E f : NestsOver(f, m, Near(n))}
<1>1. \A w \in SUBSET Names : Others(w) \in Nat
  BY OthersFewer
<1>2. /\ \A n : Near(n) \subseteq SUBSET Names
      /\ \A w, n : w \in Near(n) <=>
           w \in SUBSET Names /\ Others(w) < n
  OBVIOUS
<1> HIDE DEF Near
<1>3. Missing = {}
  <2>1. SUFFICES ASSUME Missing # {} PROVE FALSE
    OBVIOUS
  <2>2. Missing \subseteq Nat
    OBVIOUS
  <2>3. PICK n \in Missing : \A k \in Missing : n <= k
    <3> HIDE DEF Missing
    <3> QED
      BY <2>1, <2>2, SetMinimum
  <2>4. n \in Nat
    BY <2>3
  <2>5. ~\E f : NestsOver(f, m, Near(n))
    BY <2>3
  <2> DEFINE Round(f, D) ==
               [within \in D |->
                  [sym \in Symbols |->
                     IF sym \in Names \ within /\ m[sym] # NotMacro
                     THEN FlattenSeq([i \in DOMAIN m[sym].body |->
                            f[within \cup {sym}][m[sym].body[i]]])
                     ELSE << sym >>]]
  <2>6. n # 0
    <3>1. Near(0) = {}
      <4>1. \A w \in SUBSET Names : ~(Others(w) < 0)
        BY <1>1
      <4> QED
        BY <1>2, <4>1
    <3> DEFINE f == [within \in {} |-> 0]
    <3>2. f = Round(f, {})
      OBVIOUS
    <3>3. NestsOver(f, m, {})
      BY <3>2 DEF NestsOver
    <3> QED
      BY <2>5, <3>1, <3>3
  <2>7. n - 1 \in Nat /\ ~(n <= n - 1)
    BY <2>4, <2>6
  <2>8. PICK f : NestsOver(f, m, Near(n - 1))
    <3>1. n - 1 \notin Missing
      BY <2>3, <2>7
    <3> QED
      BY <2>7, <3>1
  <2> DEFINE g == Round(f, Near(n))
  <2>9. Near(n - 1) \subseteq Near(n)
    <3>1. \A w \in SUBSET Names :
            Others(w) < n - 1 => Others(w) < n
      BY <1>1, <2>4
    <3> QED
      BY <1>2, <3>1
  <2>10. \A w \in Near(n - 1) : g[w] = f[w]
    <3>1. f = Round(f, Near(n - 1))
      BY <2>8 DEF NestsOver
    <3> QED
      BY <2>9, <3>1
  <2>11. ASSUME NEW w \in Near(n), NEW sym \in Names \ w
        PROVE  w \cup {sym} \in Near(n - 1)
    <3>1. w \in SUBSET Names /\ Others(w) < n /\ Others(w) \in Nat
      BY <1>1, <1>2
    <3>2. /\ w \cup {sym} \in SUBSET Names
          /\ Others(w \cup {sym}) = Others(w) - 1
      BY <3>1, OthersNext
    <3>3. Others(w) - 1 < n - 1
      BY <2>4, <3>1
    <3> QED
      BY <1>2, <3>2, <3>3
  <2>12. g = Round(g, Near(n))
    <3>1. ASSUME NEW w \in Near(n), NEW sym \in Names \ w
          PROVE  [i \in DOMAIN m[sym].body |-> f[w \cup {sym}][m[sym].body[i]]] =
                 [i \in DOMAIN m[sym].body |-> g[w \cup {sym}][m[sym].body[i]]]
      <4>1. f[w \cup {sym}] = g[w \cup {sym}]
        BY <2>10, <2>11
      <4> HIDE DEF g
      <4> QED
        BY <4>1
    <3>2. ASSUME NEW w \in Near(n) PROVE Round(f, Near(n))[w] = Round(g, Near(n))[w]
      <4>1. ASSUME NEW sym \in Symbols
            PROVE  Round(f, Near(n))[w][sym] = Round(g, Near(n))[w][sym]
        <5>1. CASE sym \in Names \ w /\ m[sym] # NotMacro
          <6>1. Round(f, Near(n))[w][sym] =
                  FlattenSeq([i \in DOMAIN m[sym].body |-> f[w \cup {sym}][m[sym].body[i]]])
            BY <5>1
          <6> HIDE DEF g
          <6>2. Round(g, Near(n))[w][sym] =
                  FlattenSeq([i \in DOMAIN m[sym].body |-> g[w \cup {sym}][m[sym].body[i]]])
            BY <5>1
          <6>3. [i \in DOMAIN m[sym].body |-> f[w \cup {sym}][m[sym].body[i]]] =
                 [i \in DOMAIN m[sym].body |-> g[w \cup {sym}][m[sym].body[i]]]
            BY <3>1, <5>1
          <6> HIDE DEF Round
          <6> QED
            BY <6>1, <6>2, <6>3
        <5>2. CASE ~(sym \in Names \ w /\ m[sym] # NotMacro)
          <6>1. Round(f, Near(n))[w][sym] = << sym >>
            BY <5>2
          <6> HIDE DEF g
          <6>2. Round(g, Near(n))[w][sym] = << sym >>
            BY <5>2
          <6> QED
            BY <6>1, <6>2
        <5> QED
          BY <5>1, <5>2
      <4>2. Round(f, Near(n))[w] = [sym \in Symbols |-> Round(f, Near(n))[w][sym]]
        OBVIOUS
      <4> HIDE DEF g
      <4>3. Round(g, Near(n))[w] = [sym \in Symbols |-> Round(g, Near(n))[w][sym]]
        OBVIOUS
      <4> HIDE DEF Round
      <4> QED
        BY <4>1, <4>2, <4>3
    <3>3. Round(f, Near(n)) = [w \in Near(n) |-> Round(f, Near(n))[w]]
      OBVIOUS
    <3> HIDE DEF g
    <3>4. Round(g, Near(n)) = [w \in Near(n) |-> Round(g, Near(n))[w]]
      OBVIOUS
    <3> HIDE DEF Round
    <3>5. Round(f, Near(n)) = Round(g, Near(n))
      BY <3>2, <3>3, <3>4
    <3>6. g = Round(f, Near(n))
      BY DEF g
    <3> QED
      BY <3>5, <3>6
  <2> HIDE DEF g
  <2>13. NestsOver(g, m, Near(n))
    BY <2>12 DEF NestsOver
  <2> QED
    BY <2>5, <2>13
<1>4. Cardinality(Names) + 1 \in Nat /\ Near(Cardinality(Names) + 1) = SUBSET Names
  BY <1>2, OthersFewer
<1> DEFINE all == Cardinality(Names) + 1
<1>5. \E f : NestsOver(f, m, Near(all))
  <2>1. all \in Nat /\ all \notin Missing
    BY <1>3, <1>4
  <2> HIDE DEF all
  <2> QED
    BY <2>1
<1> QED
  BY <1>4, <1>5

LEMMA NestedIs ==
  ASSUME IsFiniteSet(Names), NEW m, NEW W \in SUBSET Names, NEW sym \in Symbols
  PROVE  Nested(m)[W][sym] =
           IF sym \in Names \ W /\ m[sym] # NotMacro
           THEN FlattenSeq([i \in DOMAIN m[sym].body |->
                  Nested(m)[W \cup {sym}][m[sym].body[i]]])
           ELSE << sym >>
<1> DEFINE f == Nested(m)
<1>1. NestsOver(f, m, SUBSET Names)
  BY NestingExists DEF Nested
<1> HIDE DEF f
<1>2. f = [within \in SUBSET Names |->
             [s \in Symbols |->
                IF s \in Names \ within /\ m[s] # NotMacro
                THEN FlattenSeq([i \in DOMAIN m[s].body |->
                       f[within \cup {s}][m[s].body[i]]])
                ELSE << s >>]]
  BY <1>1 DEF NestsOver
<1>3. f[W] = [s \in Symbols |->
                IF s \in Names \ W /\ m[s] # NotMacro
                THEN FlattenSeq([i \in DOMAIN m[s].body |->
                       f[W \cup {s}][m[s].body[i]]])
                ELSE << s >>]
  BY <1>2, Zenon
<1>4. f[W][sym] = IF sym \in Names \ W /\ m[sym] # NotMacro
                  THEN FlattenSeq([i \in DOMAIN m[sym].body |->
                         f[W \cup {sym}][m[sym].body[i]]])
                  ELSE << sym >>
  BY <1>3, Zenon
<1> QED
  BY <1>4 DEF f

LEMMA NestedType ==
  ASSUME IsFiniteSet(Names), NEW m \in [Names -> Macro],
         NEW W \in SUBSET Names, NEW sym \in Symbols
  PROVE  Nested(m)[W][sym] \in Seq(Symbols)
<1> DEFINE f == Nested(m)
           Typed(w) == \A s \in Symbols : f[w][s] \in Seq(Symbols)
           Bad == {k \in Nat : \E w \in SUBSET Names : Others(w) = k /\ ~Typed(w)}
<1>1. Bad = {}
  <2>1. SUFFICES ASSUME Bad # {} PROVE FALSE
    OBVIOUS
  <2>2. Bad \subseteq Nat
    OBVIOUS
  <2>3. PICK k \in Bad : \A j \in Bad : k <= j
    <3> HIDE DEF Bad
    <3> QED
      BY <2>1, <2>2, SetMinimum
  <2>4. PICK w \in SUBSET Names : Others(w) = k /\ ~Typed(w)
    BY <2>3
  <2>5. PICK s \in Symbols : f[w][s] \notin Seq(Symbols)
    BY <2>4
  <2>6. f[w][s] = IF s \in Names \ w /\ m[s] # NotMacro
                  THEN FlattenSeq([i \in DOMAIN m[s].body |->
                         f[w \cup {s}][m[s].body[i]]])
                  ELSE << s >>
    BY <2>5, NestedIs
  <2>7. s \in Names \ w /\ m[s] # NotMacro
    BY <2>5, <2>6
  <2>8. /\ w \cup {s} \in SUBSET Names /\ Others(w \cup {s}) \in Nat
        /\ Others(w \cup {s}) = k - 1 /\ k \in Nat
    BY <2>3, <2>4, <2>7, OthersNext
  <2>9. Typed(w \cup {s})
    <3>1. k - 1 \in Nat /\ ~(k <= k - 1)
      BY <2>8
    <3>2. k - 1 \notin Bad
      BY <2>3, <3>1
    <3> HIDE DEF Typed
    <3> QED
      BY <2>8, <3>1, <3>2
  <2> DEFINE b == m[s].body
             g == f[w \cup {s}]
  <2>10. /\ Len(b) \in Nat /\ DOMAIN b = 1 .. Len(b)
         /\ \A i \in 1 .. Len(b) : b[i] \in Symbols
    <3>1. m[s] \in Macro
      BY <2>7
    <3> QED
      BY <3>1, BodyType
  <2>11. \A i \in 1 .. Len(b) : g[b[i]] \in Seq(Symbols)
    BY <2>9, <2>10
  <2>12. f[w][s] = FlattenSeq([i \in 1 .. Len(b) |-> g[b[i]]])
    BY <2>6, <2>7, <2>10
  <2> HIDE DEF b, g
  <2>13. [i \in 1 .. Len(b) |-> g[b[i]]] \in Seq(Seq(Symbols))
    BY <2>10, <2>11
  <2> QED
    BY <2>5, <2>12, <2>13, FlattenSeqType
<1>2. Typed(W)
  <2> DEFINE n == Others(W)
  <2>1. n \in Nat /\ n \notin Bad /\ n = Others(W)
    BY <1>1, OthersFewer
  <2> HIDE DEF Typed, n
  <2> QED
    BY <2>1
<1> QED
  BY <1>2

(***************************************************************************)
(* Expanding one more token.                                               *)
(***************************************************************************)
LEMMA ExpandedNone ==
  ASSUME NEW e, NEW tokens
  PROVE  ExpandedTo(e, tokens, 0) = <<>>
<1>1. [i \in 1 .. 0 |-> e[tokens[i].sym]] = <<>>
  OBVIOUS
<1> QED
  BY <1>1, FlattenSeqNone DEF ExpandedTo

LEMMA ExpandedNext ==
  ASSUME NEW e, \A s \in Symbols : e[s] \in Seq(Symbols),
         NEW k \in Nat, NEW tokens, \A i \in 1 .. k + 1 : tokens[i].sym \in Symbols
  PROVE  /\ ExpandedTo(e, tokens, k + 1) =
              ExpandedTo(e, tokens, k) \o e[tokens[k + 1].sym]
         /\ ExpandedTo(e, tokens, k) \in Seq(Symbols)
         /\ e[tokens[k + 1].sym] \in Seq(Symbols)
<1> DEFINE upto(n) == [i \in 1 .. n |-> e[tokens[i].sym]]
           next == e[tokens[k + 1].sym]
           long == Append(upto(k), next)
<1>1. \A i \in 1 .. k + 1 : e[tokens[i].sym] \in Seq(Symbols)
  OBVIOUS
<1>2. /\ upto(k) \in Seq(Seq(Symbols)) /\ Len(upto(k)) = k
      /\ upto(k + 1) \in Seq(Seq(Symbols)) /\ Len(upto(k + 1)) = k + 1
      /\ next \in Seq(Symbols)
  BY <1>1
<1>3. upto(k + 1) = long
  <2>1. \A i \in 1 .. k : upto(k)[i] = upto(k + 1)[i]
    OBVIOUS
  <2>2. upto(k + 1)[k + 1] = next
    OBVIOUS
  <2> HIDE DEF upto, next
  <2>3. /\ long \in Seq(Seq(Symbols)) /\ Len(long) = k + 1
        /\ \A i \in 1 .. k : long[i] = upto(k)[i]
        /\ long[k + 1] = next
    BY <1>2, AppendProperties
  <2> HIDE DEF long
  <2>4. \A i \in 1 .. k + 1 : long[i] = upto(k + 1)[i]
    <3>1. \A i \in 1 .. k + 1 : i \in 1 .. k \/ i = k + 1
      OBVIOUS
    <3> QED
      BY <2>1, <2>2, <2>3, <3>1
  <2> QED
    BY <1>2, <2>3, <2>4, SeqEqual
<1>4. \A n : ExpandedTo(e, tokens, n) = FlattenSeq(upto(n))
  BY DEF ExpandedTo
<1> HIDE DEF upto, next
<1>5. FlattenSeq(long) = FlattenSeq(upto(k)) \o next
  BY <1>2, FlattenSeqAppend
<1>6. FlattenSeq(upto(k)) \in Seq(Symbols)
  BY <1>2, FlattenSeqType
<1> QED
  BY <1>2, <1>3, <1>4, <1>5, <1>6 DEF next

LEMMA BelowSame ==
  ASSUME NEW fs, NEW gs, NEW n \in Nat \ {0}, NEW t, NEW m,
         \A d \in 1 .. n - 1 : BelowNests(fs, d, t, m),
         \A d \in 1 .. n - 1 : gs[d] = fs[d],
         gs[n].kind = fs[n].kind, gs[n].name = fs[n].name
  PROVE  /\ \A d \in 1 .. n - 1 : BelowNests(gs, d, t, m)
         /\ Within(gs, n) = Within(fs, n)
<1>1. \A e \in 1 .. n : gs[e].kind = fs[e].kind /\ gs[e].name = fs[e].name
  <2>1. \A e \in 1 .. n : e \in 1 .. n - 1 \/ e = n
    OBVIOUS
  <2> QED
    BY <2>1
<1>2. Within(gs, n) = Within(fs, n)
  BY <1>1, WithinSame
<1>3. ASSUME NEW d \in 1 .. n - 1 PROVE BelowNests(gs, d, t, m)
  <2>1. d \in Nat /\ d + 1 \in 1 .. n /\ \A e \in 1 .. d : e \in 1 .. n
    OBVIOUS
  <2>2. Within(gs, d) = Within(fs, d)
    BY <1>1, <2>1, WithinSame
  <2>3. gs[d] = fs[d] /\ gs[d + 1].name = fs[d + 1].name
    BY <1>1, <2>1
  <2>4. BelowNests(fs, d, t, m)
    OBVIOUS
  <2> QED
    BY <2>2, <2>3, <2>4 DEF BelowNests
<1> QED
  BY <1>2, <1>3

LEMMA NestsTop ==
  ASSUME NEW fs, NEW t, NEW m, StackOK(fs, t, m),
         \A d \in 1 .. Len(fs) - 1 : BelowNests(fs, d, t, m),
         NEW g, FrameOK(g, t, Within(fs, Len(fs)), m),
         g.kind = fs[Len(fs)].kind, g.name = fs[Len(fs)].name,
         FrameNests(g, t, Within(fs, Len(fs)), m, g.pos - 1), CallNests(g, m)
  PROVE  StackNests([fs EXCEPT ![Len(fs)] = g], t, m)
<1> DEFINE n == Len(fs)
           gs == [fs EXCEPT ![n] = g]
           A == FramesOver(Covering(t, {}))
<1>1. n \in Nat \ {0} /\ DOMAIN fs = 1 .. n /\ n \in 1 .. n
  BY StackShape
<1>2. g \in A /\ fs \in Seq(A)
  BY FrameIsAny DEF StackOK
<1> HIDE DEF A
<1>3. /\ Len(gs) = n
      /\ \A e \in 1 .. n : gs[e] = IF e = n THEN g ELSE fs[e]
  BY <1>1, <1>2, ExceptSeq
<1> HIDE DEF gs
<1>4. /\ gs[n] = g
      /\ \A d \in 1 .. n - 1 : gs[d] = fs[d]
  <2>1. n \in Nat \ {0}
    BY <1>1
  <2> HIDE DEF n
  <2>2. \A d \in 1 .. n - 1 : d \in 1 .. n /\ d # n
    BY <2>1
  <2> QED
    BY <1>1, <1>3, <2>2
<1>5. /\ \A d \in 1 .. n - 1 : BelowNests(gs, d, t, m)
      /\ Within(gs, n) = Within(fs, n)
  BY <1>1, <1>4, BelowSame
<1>6. StackNests(gs, t, m)
  BY <1>3, <1>4, <1>5 DEF StackNests
<1> QED
  BY <1>6 DEF gs

LEMMA NestsPush ==
  ASSUME NEW fs, NEW t, NEW m, StackOK(fs, t, m),
         \A d \in 1 .. Len(fs) - 1 : BelowNests(fs, d, t, m),
         FrameNests(fs[Len(fs)], t, Within(fs, Len(fs)), m, fs[Len(fs)].pos - 2),
         NEW g, FrameOK(g, t, Within(fs, Len(fs)) \cup {g.name}, m),
         g.kind = "replacement", g.pos = 1, g.call = NoCall,
         Waits(fs[Len(fs)], g.name),
         FrameNests(g, t, Within(fs, Len(fs)) \cup {g.name}, m, 0)
  PROVE  StackNests(Append(fs, g), t, m)
<1> DEFINE n == Len(fs)
           gs == Append(fs, g)
           A == FramesOver(Covering(t, {}))
<1>1. n \in Nat \ {0}
  BY StackShape
<1>2. g \in A /\ fs \in Seq(A)
  BY FrameIsAny DEF StackOK
<1> HIDE DEF A
<1>3. /\ Len(gs) = n + 1 /\ gs[n + 1] = g
      /\ \A e \in 1 .. n : gs[e] = fs[e]
  BY <1>1, <1>2, AppendProperties
<1> HIDE DEF gs
<1>4. n \in 1 .. n /\ \A d \in 1 .. n - 1 : d \in 1 .. n
  BY <1>1
<1>5. /\ \A d \in 1 .. n - 1 : BelowNests(gs, d, t, m)
      /\ Within(gs, n) = Within(fs, n)
  <2>1. \A d \in 1 .. n - 1 : BelowNests(fs, d, t, m)
    OBVIOUS
  <2>2. /\ \A d \in 1 .. n - 1 : gs[d] = fs[d]
        /\ gs[n].kind = fs[n].kind /\ gs[n].name = fs[n].name
    BY <1>3, <1>4
  <2> HIDE DEF n
  <2> QED
    BY <1>1, <2>1, <2>2, BelowSame
<1>6. BelowNests(gs, n, t, m)
  BY <1>3, <1>4, <1>5 DEF BelowNests
<1>7. Within(gs, n + 1) = Within(fs, n) \cup {g.name}
  <2>1. n + 1 \in Nat \ {0} /\ (n + 1) - 1 = n
    BY <1>1
  <2> QED
    BY <1>3, <1>5, <2>1, WithinNext
<1>8. \A d \in 1 .. (n + 1) - 1 : BelowNests(gs, d, t, m)
  <2>1. \A d \in 1 .. (n + 1) - 1 : d \in 1 .. n - 1 \/ d = n
    BY <1>1
  <2> QED
    BY <1>5, <1>6, <2>1
<1>9. FrameNests(gs[n + 1], t, Within(gs, n + 1), m, gs[n + 1].pos - 1)
  <2>1. gs[n + 1].pos - 1 = 0
    BY <1>3
  <2> QED
    BY <1>3, <1>7, <2>1
<1>10. CallNests(gs[n + 1], m)
  BY <1>3 DEF CallNests
<1>11. StackNests(gs, t, m)
  BY <1>3, <1>8, <1>9, <1>10 DEF StackNests
<1> QED
  BY <1>11 DEF gs

LEMMA NestsKept ==
  ASSUME NEW fs, NEW t, NEW u, NEW m, StackOK(fs, t, m), Extends(t, u),
         StackNests(fs, t, m)
  PROVE  StackNests(fs, u, m)
<1>1. /\ Len(fs) \in Nat \ {0}
      /\ \A d \in 1 .. Len(fs) : FrameOK(fs[d], t, Within(fs, d), m)
  BY StackShape
<1>2. ASSUME NEW d \in 1 .. Len(fs), NEW k,
             FrameNests(fs[d], t, Within(fs, d), m, k)
      PROVE  FrameNests(fs[d], u, Within(fs, d), m, k)
  <2> DEFINE f == fs[d]
             C == Covering(t, Within(fs, d))
  <2>1. f.tokens \in Seq(C)
    BY <1>1, FrameParts
  <2>2. \A token \in C : token.hides \in Ids(t)
    BY DEF Covering
  <2> HIDE DEF C
  <2>3. \A i \in 1 .. Len(f.tokens) : f.tokens[i].hides \in Ids(t)
    BY <2>1, <2>2, ElementOfSeq
  <2>4. \A i \in 1 .. Len(f.tokens) :
          u.sets[f.tokens[i].hides] = t.sets[f.tokens[i].hides]
    BY <2>3 DEF Extends
  <2> QED
    BY <1>2, <2>4 DEF FrameNests
<1>3. \A d \in 1 .. Len(fs) - 1 : d \in 1 .. Len(fs)
  BY <1>1
<1>4. \A d \in 1 .. Len(fs) - 1 : BelowNests(fs, d, u, m)
  BY <1>2, <1>3 DEF StackNests, BelowNests
<1>5. Len(fs) \in 1 .. Len(fs)
  BY <1>1
<1> QED
  BY <1>2, <1>4, <1>5 DEF StackNests

(***************************************************************************)
(* Frames that differ in what they have put out.                           *)
(***************************************************************************)
LEMMA WithinNames ==
  ASSUME NEW fs, NEW t, NEW m, StackOK(fs, t, m), NEW d \in 1 .. Len(fs)
  PROVE  Within(fs, d) \in SUBSET Names
<1>1. \A e \in 1 .. d : e \in 1 .. Len(fs)
  BY StackShape
<1>2. \A e \in 1 .. Len(fs) : fs[e].kind = "replacement" => fs[e].name \in Names
  BY DEF StackOK, FrameOK
<1> QED
  BY <1>1, <1>2 DEF Within

LEMMA FrameAdvances ==
  ASSUME IsFiniteSet(Names), NEW t, NEW S, NEW W \in SUBSET Names,
         NEW m \in [Names -> Macro], NEW f, NEW g, FrameOK(f, t, S, m),
         NEW k \in Nat, k < Len(f.tokens), FrameNests(f, t, W, m, k),
         g.kind = f.kind, g.name = f.name, g.tokens = f.tokens,
         Syms(g.out) = Syms(f.out) \o Nested(m)[W][f.tokens[k + 1].sym]
  PROVE  FrameNests(g, t, W, m, k + 1)
<1> DEFINE e == Nested(m)[W]
<1>1. Len(f.tokens) \in Nat /\ k + 1 \in 0 .. Len(f.tokens)
  BY FrameParts
<1>2. \A i \in 1 .. k + 1 : f.tokens[i].sym \in Symbols
  <2> DEFINE C == Covering(t, S)
  <2>1. f.tokens \in Seq(C)
    BY FrameParts
  <2>2. \A token \in C : token.sym \in Symbols
    BY DEF Covering
  <2> HIDE DEF C
  <2>3. \A i \in 1 .. k + 1 : i \in 1 .. Len(f.tokens)
    BY <1>1
  <2> QED
    BY <2>1, <2>2, <2>3, ElementOfSeq
<1>3. \A s \in Symbols : e[s] \in Seq(Symbols)
  BY NestedType
<1> HIDE DEF e
<1>4. ExpandedTo(e, f.tokens, k + 1) =
        ExpandedTo(e, f.tokens, k) \o e[f.tokens[k + 1].sym]
  BY <1>2, <1>3, ExpandedNext
<1>5. Syms(g.out) = ExpandedTo(e, g.tokens, k + 1)
  BY <1>4 DEF FrameNests, e
<1> QED
  BY <1>1, <1>5 DEF FrameNests, e

\* What the invariant says of the top frame.
LEMMA TopNests ==
  ASSUME Inv, NestingOK, ObjectLikeOnly
  PROVE  /\ macros \in [Names -> Macro] /\ StackOK(frames, table, macros)
         /\ Top \in Nat \ {0} /\ Len(frames) = Top
         /\ FrameOK(F, table, Within(frames, Top), macros)
         /\ Within(frames, Top) \in SUBSET Names
         /\ \A d \in 1 .. Top - 1 : BelowNests(frames, d, table, macros)
         /\ FrameNests(F, table, Within(frames, Top), macros, F.pos - 1)
         /\ CallNests(F, macros)
<1>1. StackNests(frames, table, macros)
  BY DEF NestingOK
<1>2. /\ Top \in Nat \ {0} /\ Len(frames) = Top
      /\ FrameOK(F, table, Within(frames, Top), macros)
      /\ Top \in 1 .. Len(frames)
  BY TopOK
<1>3. macros \in [Names -> Macro] /\ StackOK(frames, table, macros)
  BY DEF Inv
<1>4. Within(frames, Top) \in SUBSET Names
  BY <1>2, <1>3, WithinNames
<1> QED
  BY <1>1, <1>2, <1>3, <1>4 DEF StackNests, F, Top

\* A step that leaves macros alone and the table as it is, and only changes
\* the top frame.
LEMMA TopStep ==
  ASSUME Inv, NestingOK, ObjectLikeOnly, UNCHANGED <<table, macros>>,
         NEW g, FrameOK(g, table, Within(frames, Top), macros),
         g.kind = F.kind, g.name = F.name,
         FrameNests(g, table, Within(frames, Top), macros, g.pos - 1),
         CallNests(g, macros),
         frames' = [frames EXCEPT ![Len(frames)] = g]
  PROVE  /\ StackNests(frames', table', macros') /\ F' = g
         /\ Len(frames') = Top
<1>1. StackNests(frames', table, macros)
  BY TopNests, NestsTop DEF F, Top
<1>2. frames'[Len(frames)] = g /\ Len(frames') = Len(frames)
  BY TopNests, StackTop DEF F, Top
<1> QED
  BY <1>1, <1>2 DEF F, Top

LEMMA CopyNests ==
  ASSUME IsFiniteSet(Names), Inv, SubstitutionOK, NestingOK, ObjectLikeOnly, Copy
  PROVE  NestingOK'
<1> DEFINE g == [F EXCEPT !.out = Append(@, F.tokens[F.pos]), !.pos = @ + 1]
           W == Within(frames, Top)
<1>1. /\ F.call = NoCall /\ F.pos <= Len(F.tokens) /\ done = FALSE /\ done' = done
      /\ UNCHANGED <<table, macros, repl, done>>
      /\ ~MacroName
  BY DEF Copy, Scanning, MacroName, ObjectLikeOnly, Def, Inv
<1>2. /\ F.pos \in Nat \ {0} /\ Len(F.tokens) \in Nat
      /\ Here \in Inherited /\ Here.sym \in Symbols
      /\ F \in FramesOver(Covering(table, W))
      /\ F.out \in Seq(Inherited)
  <2>1. /\ F.pos \in Nat \ {0} /\ Len(F.tokens) \in Nat
        /\ Here \in Inherited /\ F.out \in Seq(Inherited)
    BY <1>1, TopOK, FrameParts DEF Here, Inherited
  <2>2. Here.sym \in Symbols
    BY <2>1, InheritedIsAny, AnySym
  <2>3. F \in FramesOver(Covering(table, W))
    BY TopOK DEF FrameOK
  <2> QED
    BY <2>1, <2>2, <2>3
<1>3. /\ FrameOK(g, table, W, macros)
      /\ g.kind = F.kind /\ g.name = F.name
  BY <1>1, TopOK, FrameCopied
<1>4. /\ g.tokens = F.tokens /\ g.pos = F.pos + 1 /\ g.call = NoCall
      /\ g.out = Append(F.out, Here)
  BY <1>1, <1>2 DEF FramesOver, Here
<1>5. frames' = [frames EXCEPT ![Len(frames)] = g]
  BY DEF Copy, SetTop, CopyHere, Here, Top
<1> HIDE DEF g
<1>6. Nested(macros)[W][Here.sym] = << Here.sym >>
  <2>1. Here.sym \in Names /\ macros[Here.sym] # NotMacro => Here.sym \in W
    <3>1. table.sets[Here.hides] = W
      <4>1. \A i \in 1 .. Len(F.tokens) : table.sets[F.tokens[i].hides] = W
        BY TopNests DEF FrameNests
      <4>2. F.pos \in 1 .. Len(F.tokens)
        BY <1>1, <1>2
      <4> QED
        BY <4>1, <4>2 DEF Here
    <3> QED
      BY <1>1, <3>1 DEF MacroName, Scanning, Hides, Def, Copy
  <2>2. W \in SUBSET Names
    BY TopNests
  <2> HIDE DEF W
  <2>3. ~(Here.sym \in Names \ W /\ macros[Here.sym] # NotMacro)
    BY <2>1
  <2> QED
    BY <1>2, <2>2, <2>3, NestedIs
<1>7. FrameNests(g, table, W, macros, g.pos - 1)
  <2> DEFINE k == F.pos - 1
  <2>1. k \in Nat /\ k < Len(F.tokens) /\ k + 1 = F.pos /\ g.pos - 1 = k + 1
    BY <1>1, <1>2, <1>4
  <2>2. FrameNests(F, table, W, macros, k)
    BY TopNests
  <2> HIDE DEF k
  <2>3. Syms(g.out) = Syms(F.out) \o << Here.sym >>
    <3>1. Syms(g.out) = Append(Syms(F.out), Here.sym)
      BY <1>2, <1>4, SymsAppend, InheritedIsAny, AnySym
    <3>2. Syms(F.out) \in Seq(Symbols)
      BY <1>2, SymsType, InheritedIsAny, AnySym
    <3> QED
      BY <1>2, <3>1, <3>2, AppendIsConcat
  <2>4. Syms(g.out) = Syms(F.out) \o Nested(macros)[W][F.tokens[k + 1].sym]
    BY <1>6, <2>1, <2>3 DEF Here
  <2>5. FrameNests(g, table, W, macros, k + 1)
    BY <1>3, <1>4, <2>1, <2>2, <2>4, TopNests, FrameAdvances
  <2> QED
    BY <2>1, <2>5
<1>8. StackNests(frames', table', macros') /\ F' = g
  BY <1>1, <1>3, <1>4, <1>5, <1>7, TopStep DEF CallNests
<1> QED
  BY <1>1, <1>4, <1>8 DEF NestingOK

LEMMA ObjectNests ==
  ASSUME IsFiniteSet(Names), Inv, SubstitutionOK, NestingOK, ObjectLikeOnly,
         ExpandObject
  PROVE  NestingOK'
<1> DEFINE c == [close |-> F.pos, raw |-> <<>>, expanded |-> <<>>]
           g == [F EXCEPT !.call = c]
           W == Within(frames, Top)
<1>1. /\ MacroName /\ ~done /\ F.call = NoCall /\ F.pos \in 1 .. Len(F.tokens)
      /\ Here.sym \in Names /\ Def # NotMacro /\ Def \in Macro
      /\ UNCHANGED <<table, macros, repl, done>>
      /\ frames' = [frames EXCEPT ![Len(frames)] = g]
  BY NamedType DEF ExpandObject, MacroName, Scanning, Call, SetTop, Top
<1>2. F \in FramesOver(Covering(table, W))
  BY TopOK DEF FrameOK
<1>3. /\ g.kind = F.kind /\ g.name = F.name /\ g.tokens = F.tokens
      /\ g.pos = F.pos /\ g.out = F.out /\ g.call = c
  BY <1>2 DEF FramesOver
<1>4. c \in CallsOver(Covering(table, W))
  BY <1>1, EmptySeq DEF CallsOver
<1>5. FrameOK(g, table, W, macros)
  <2>1. Inv'
    BY InvStep DEF Next, Expand
  <2>2. StackOK(frames', table, macros) /\ Len(frames) = Top /\ Top \in 1 .. Top
    BY <1>1, <2>1, TopOK DEF Inv
  <2>3. Here.sym \notin table.sets[Here.hides] /\ macros[Here.sym].params = <<>>
    BY <1>1, NamedType DEF Macro, ExpandObject, Def
  <2>4. CallOK(g, table, macros)
    <3>1. Len(c.raw) = 0 /\ Len(c.expanded) = 0 /\ c.close = F.pos
          /\ Len(macros[Here.sym].params) = 0
      BY <2>3, EmptySeq
    <3>2. F.pos \in F.pos .. Len(F.tokens)
      BY <1>1
    <3> HIDE DEF c, g
    <3> QED
      BY <1>1, <1>3, <2>3, <3>1, <3>2 DEF CallOK, Here
  <2> QED
    BY <1>4, <2>4, TopOK, FrameCalled
<1> HIDE DEF g
<1>6. FrameNests(g, table, W, macros, g.pos - 1)
  BY <1>3, TopNests DEF FrameNests
<1>7. CallNests(g, macros)
  BY <1>1, <1>3 DEF CallNests, Here, Def
<1>8. StackNests(frames', table', macros') /\ F' = g /\ Len(frames') = Top
  BY <1>1, <1>3, <1>5, <1>6, <1>7, TopStep
<1>9. ReplacementNests'
  <2>1. repl = NoReplacement
    <3>1. repl.phase = "substitute"
      BY <1>1, Idle
    <3>2. ~ArgumentsReady
      BY <1>1 DEF ArgumentsReady, Calling
    <3> QED
      BY <3>1, <3>2 DEF SubstitutionOK
  <2>2. /\ repl'.phase = "substitute" /\ repl'.out = <<>> /\ I' = 1
    BY <1>1, <2>1 DEF NoReplacement, I
  <2>3. Body' = Body
    BY <1>1, <1>3, <1>8 DEF Body, Def, Here
  <2>4. Len(Body) \in Nat
    BY <1>1, BodyType DEF Body
  <2>5. Len(repl'.out) = 0 /\ 1 .. Len(repl'.out) = {}
    BY <2>2, EmptySeq
  <2> QED
    BY <2>2, <2>3, <2>4, <2>5 DEF ReplacementNests
<1> QED
  BY <1>1, <1>8, <1>9 DEF NestingOK

(***************************************************************************)
(* A rescan that has come to its end stands for the name it replaces.      *)
(***************************************************************************)
RescanEnds(f, t, V, name, m) ==
  LET W == V \cup {name}
  IN /\ V \in SUBSET Names /\ name \in Names /\ name \notin V
     /\ FrameOK(f, t, W, m) /\ f.kind = "replacement" /\ f.name = name
     /\ FrameNests(f, t, W, m, Len(f.tokens))

LEMMA RescanStandsFor ==
  ASSUME IsFiniteSet(Names), NEW m, m \in [Names -> Macro],
         NEW f, NEW t, NEW V, NEW name, RescanEnds(f, t, V, name, m)
  PROVE  Syms(f.out) = Nested(m)[V][name]
<1> DEFINE W == V \cup {name}
<1>1. /\ V \in SUBSET Names /\ name \in Names /\ name \notin V
      /\ FrameOK(f, t, W, m) /\ f.kind = "replacement" /\ f.name = name
      /\ FrameNests(f, t, W, m, Len(f.tokens))
  BY DEF RescanEnds
<1> DEFINE e == Nested(m)[W]
           b == m[name].body
           n == Len(f.tokens)
<1>2. m[name] # NotMacro /\ Syms(f.tokens) = b
  BY <1>1 DEF FrameNests
<1>3. /\ n = Len(b) /\ DOMAIN b = 1 .. n
      /\ \A i \in 1 .. n : b[i] = f.tokens[i].sym
  <2> DEFINE C == Covering(t, W)
  <2>1. f.tokens \in Seq(C) /\ m[name] \in Macro
    BY <1>1, FrameParts
  <2>2. \A token \in C : token.sym \in Symbols
    BY DEF Covering
  <2> HIDE DEF C
  <2>3. /\ Len(Syms(f.tokens)) = Len(f.tokens)
        /\ \A i \in 1 .. Len(f.tokens) : Syms(f.tokens)[i] = f.tokens[i].sym
    BY <2>1, <2>2, SymsType
  <2> QED
    BY <1>2, <2>1, <2>3, BodyType
<1>4. Nested(m)[V][name] =
        FlattenSeq([i \in DOMAIN b |-> Nested(m)[V \cup {name}][b[i]]])
  BY <1>1, <1>2, NestedIs, ExpansionAssumption
<1>5. Syms(f.out) = FlattenSeq([i \in 1 .. n |-> e[f.tokens[i].sym]])
  BY <1>1 DEF FrameNests, ExpandedTo
<1>6. Nested(m)[V][name] = FlattenSeq([i \in DOMAIN b |-> e[b[i]]])
  BY <1>4
<1> HIDE DEF e, n, b
<1>7. [i \in DOMAIN b |-> e[b[i]]] = [i \in 1 .. n |-> e[f.tokens[i].sym]]
  BY <1>3
<1> QED
  BY <1>5, <1>6, <1>7

LEMMA RescannedNests ==
  ASSUME IsFiniteSet(Names), Inv, NestingOK, ObjectLikeOnly, Rescanned
  PROVE  NestingOK'
<1> DEFINE n == Top - 1
           fs == Front(frames)
           below == frames[n]
           o == F.out
           g == [below EXCEPT !.out = @ \o o]
           V == Within(frames, n)
<1>1. /\ F.kind = "replacement" /\ F.call = NoCall /\ ~done
      /\ F.pos > Len(F.tokens)
      /\ UNCHANGED <<table, macros, done>>
      /\ frames' = [fs EXCEPT ![n].out = @ \o o]
  BY DEF Rescanned, Exhausted
<1>2. /\ Len(frames) > 1 /\ Len(fs) = n
      /\ StackOK(fs, table, macros) /\ fs[n] = below
      /\ FrameOK(below, table, Within(fs, n), macros)
      /\ o \in Seq(Covering(table, Within(fs, n)))
  BY <1>1, ReturnStep
<1>3. Top \in Nat /\ n \in Nat \ {0} /\ Top \in 1 .. Top /\ n \in 1 .. Top - 1
  BY <1>2, TopNests
<1>4. /\ \A d \in 1 .. n - 1 : BelowNests(frames, d, table, macros)
      /\ FrameNests(below, table, V, macros, below.pos - 2)
      /\ Waits(below, F.name)
  <2>1. BelowNests(frames, n, table, macros)
    BY <1>3, TopNests
  <2>2. \A d \in 1 .. n - 1 : d \in 1 .. Top - 1
    BY <1>3
  <2>3. n + 1 = Top
    BY <1>3
  <2> QED
    BY <2>1, <2>2, <2>3, TopNests DEF BelowNests, F
<1>5. F.name \in Names /\ F.name \notin V /\ Within(frames, Top) = V \cup {F.name}
  <2>1. F.name \in Names
    BY <1>1, TopNests DEF FrameOK
  <2>2. F.name \notin V
    BY <1>1, <1>3, TopNests DEF StackOK, F
  <2>3. Within(frames, Top) = V \cup {F.name}
    BY <1>1, <1>3, WithinNext DEF F
  <2> QED
    BY <2>1, <2>2, <2>3
<1>6. /\ FrameNests(F, table, V \cup {F.name}, macros, Len(F.tokens))
      /\ FrameOK(F, table, V \cup {F.name}, macros)
  <2>1. F.pos - 1 = Len(F.tokens)
    <3>1. F.pos \in 1 .. Len(F.tokens) + 1 /\ Len(F.tokens) \in Nat
      BY TopNests, FrameParts DEF FrameOK
    <3> QED
      BY <1>1, <3>1
  <2> QED
    BY <1>5, <2>1, TopNests
<1>7. V \in SUBSET Names
  BY <1>3, TopNests, WithinNames
<1>8. Within(fs, n) = V
  BY <1>2, <1>3, StackPop, TopNests
<1> HIDE DEF V, n, fs, below, o
<1>9. Syms(o) = Nested(macros)[V][F.name]
  <2>1. RescanEnds(F, table, V, F.name, macros) /\ macros \in [Names -> Macro]
    BY <1>7, <1>1, <1>5, <1>6, TopNests DEF RescanEnds
  <2>2. Syms(F.out) = Nested(macros)[V][F.name]
    BY <2>1, RescanStandsFor
  <2> QED
    BY <2>2 DEF o
<1>10. /\ FrameOK(below, table, V, macros) /\ o \in Seq(Covering(table, V))
       /\ below.call = NoCall /\ below.pos >= 2
       /\ below.tokens[below.pos - 1].sym = F.name
  BY <1>2, <1>4, <1>8 DEF Waits
<1>11. FrameOK(g, table, V, macros) /\ g.kind = below.kind /\ g.name = below.name
  <2>1. FrameOK(below, table, V, macros) /\ o \in Seq(Covering(table, V))
    BY <1>10
  <2>2. FrameOK(g, table, V, macros)
    BY <2>1, FrameExtended
  <2>3. g.kind = below.kind
    BY <2>1, FrameExtended
  <2>4. g.name = below.name
    BY <2>1, FrameExtended
  <2> QED
    BY <2>2, <2>3, <2>4
<1>12. /\ g.tokens = below.tokens /\ g.pos = below.pos /\ g.call = NoCall
       /\ g.out = below.out \o o
  BY <1>10 DEF FrameOK, FramesOver
<1>13. Syms(g.out) = Syms(below.out) \o Nested(macros)[V][F.name]
  <2> DEFINE C == Covering(table, V)
  <2>1. below.out \in Seq(C) /\ o \in Seq(C)
    BY <1>10, FrameParts
  <2>2. \A token \in C : token.sym \in Symbols
    BY DEF Covering
  <2> HIDE DEF C
  <2>3. Syms(below.out \o o) = Syms(below.out) \o Syms(o)
    BY <2>1, <2>2, SymsConcat
  <2> QED
    BY <1>9, <1>12, <2>3
<1>14. frames' = [fs EXCEPT ![Len(fs)] = g]
  BY <1>1, <1>2
<1> HIDE DEF g
<1>15. FrameNests(g, table, V, macros, g.pos - 1)
  <2> DEFINE k == below.pos - 2
  <2>1. below.pos \in 1 .. Len(below.tokens) + 1 /\ Len(below.tokens) \in Nat
    BY <1>10, FrameParts DEF FrameOK
  <2>2. k \in Nat /\ k < Len(below.tokens) /\ k + 1 = below.pos - 1
        /\ FrameNests(below, table, V, macros, k)
    BY <1>4, <1>10, <2>1
  <2> HIDE DEF k
  <2>3. Syms(g.out) = Syms(below.out) \o Nested(macros)[V][below.tokens[k + 1].sym]
    BY <1>10, <1>13, <2>2
  <2>4. FrameNests(g, table, V, macros, k + 1)
    BY <1>7, <1>10, <1>11, <1>12, <2>2, <2>3, TopNests, FrameAdvances
  <2> QED
    BY <1>12, <2>2, <2>4
<1>16. \A d \in 1 .. n - 1 : BelowNests(fs, d, table, macros)
  <2>1. \A d \in 1 .. n - 1 : fs[d] = frames[d]
    <3>1. /\ Len(frames) = Top /\ Top - 1 = n
          /\ \A d \in 1 .. n - 1 : d \in 1 .. Top - 1 /\ 1 + d - 1 = d
      BY <1>3, TopNests DEF n
    <3>2. \A d \in 1 .. Top - 1 : fs[d] = frames[d]
      BY <3>1, TopNests DEF fs, Front
    <3> QED
      BY <3>1, <3>2
  <2>2. fs[n].kind = frames[n].kind /\ fs[n].name = frames[n].name
    BY <1>2 DEF below
  <2> QED
    BY <1>3, <1>4, <2>1, <2>2, BelowSame
<1>17. StackNests(frames', table, macros)
  <2>1. /\ FrameOK(g, table, Within(fs, Len(fs)), macros)
        /\ FrameNests(g, table, Within(fs, Len(fs)), macros, g.pos - 1)
        /\ g.kind = fs[Len(fs)].kind /\ g.name = fs[Len(fs)].name
        /\ \A d \in 1 .. Len(fs) - 1 : BelowNests(fs, d, table, macros)
    BY <1>2, <1>11, <1>15, <1>16, <1>8
  <2>2. CallNests(g, macros)
    BY <1>12 DEF CallNests
  <2> QED
    BY <1>2, <1>14, <2>1, <2>2, NestsTop
<1>18. F' = g
  <2>1. frames'[Len(fs)] = g /\ Len(frames') = Len(fs)
    BY <1>2, <1>11, <1>8, <1>14, StackTop
  <2> QED
    BY <2>1 DEF F, Top
<1> QED
  BY <1>1, <1>12, <1>17, <1>18 DEF NestingOK

LEMMA FinishNests ==
  ASSUME Inv, NestingOK, ObjectLikeOnly, Finish
  PROVE  NestingOK'
<1>1. /\ F.kind = "text" /\ F.call = NoCall /\ F.pos > Len(F.tokens)
      /\ out' = F.out
      /\ UNCHANGED <<table, macros, frames, repl>>
  BY DEF Finish, Exhausted
<1>2. F.pos = Len(F.tokens) + 1
  <2>1. F.pos \in 1 .. Len(F.tokens) + 1 /\ Len(F.tokens) \in Nat
    BY TopNests, FrameParts DEF FrameOK
  <2> QED
    BY <1>1, <2>1
<1>3. Top = 1
  BY <1>1, TopOK DEF Inv, StackOK, F
<1>4. F' = F /\ Top' = Top
  BY <1>1 DEF F, Top
<1>5. StackNests(frames', table', macros')
  BY <1>1 DEF NestingOK
<1> QED
  BY <1>1, <1>2, <1>3, <1>4, <1>5 DEF NestingOK

(***************************************************************************)
(* The replacement of an object-like macro: its body, painted.             *)
(***************************************************************************)
LEMMA ObjectBody ==
  ASSUME Inv, ObjectLikeOnly, ArgumentsReady
  PROVE  /\ Body \in Seq(Symbols) /\ Len(Body) \in Nat
         /\ ~Def.function_like
         /\ \A i : ParamIndex(Def, i) = 0
         /\ \A i \in 1 .. Len(Body) : Body[i] # "##"
<1>1. Here.sym \in Names /\ Def \in Macro
  BY CalledType DEF ArgumentsReady
<1>2. ~Def.function_like /\ "##" \notin Range(Body)
  BY <1>1 DEF ObjectLikeOnly, Def, Body
<1>3. Def.params = <<>>
  BY <1>1, <1>2 DEF Macro
<1>4. /\ Body \in Seq(Symbols) /\ Len(Body) \in Nat
      /\ DOMAIN Body = 1 .. Len(Body)
  BY <1>1, BodyType DEF Body
<1>5. Range(Def.params) = {}
  BY <1>3 DEF Range
<1>6. \A i : ParamIndex(Def, i) = 0
  BY <1>5 DEF ParamIndex
<1>7. \A i \in 1 .. Len(Body) : Body[i] # "##"
  BY <1>2, <1>4 DEF Range
<1> QED
  BY <1>2, <1>4, <1>6, <1>7

\* What the invariant says while an invocation is replaced.
LEMMA Replacing ==
  ASSUME Inv, NestingOK, ObjectLikeOnly, ArgumentsReady
  PROVE  /\ Calling /\ ~done /\ F.call # NoCall /\ ReplacementNests
         /\ F.call.close = F.pos /\ Def # NotMacro
         /\ table.sets[Here.hides] = Within(frames, Top)
         /\ F.pos \in 1 .. Len(F.tokens) /\ Here.sym \in Names
         /\ Here.sym \notin Within(frames, Top)
         /\ repl \in [phase : {"substitute", "hide", "paint"}, i : Nat \ {0},
                      out : Seq(AnyToken), placemarker : BOOLEAN,
                      id : Ids(table)]
         /\ I \in Nat \ {0} /\ Len(repl.out) \in Nat
         /\ \A j \in 1 .. Len(repl.out) : repl.out[j] \in AnyToken
<1>1. Calling /\ ~done /\ F.call # NoCall /\ ReplacementNests
  BY DEF ArgumentsReady, Calling, NestingOK
<1>2. F.call.close = F.pos /\ Def # NotMacro
  BY <1>1, TopNests DEF CallNests, Here, Def
<1>3. F.pos \in 1 .. Len(F.tokens)
  <2>1. F.call.close \in F.pos .. Len(F.tokens) /\ F.pos \in Nat \ {0}
        /\ Len(F.tokens) \in Nat
    BY <1>1, TopNests, FrameParts DEF FrameOK, CallOK
  <2> QED
    BY <1>2, <2>1
<1>4. table.sets[Here.hides] = Within(frames, Top)
  <2>1. \A i \in 1 .. Len(F.tokens) :
          table.sets[F.tokens[i].hides] = Within(frames, Top)
    BY TopNests DEF FrameNests
  <2> QED
    BY <1>3, <2>1 DEF Here
<1>5. /\ repl \in [phase : {"substitute", "hide", "paint"}, i : Nat \ {0},
                   out : Seq(AnyToken), placemarker : BOOLEAN, id : Ids(table)]
  BY DEF Inv, ReplacementOK, AnyToken
<1>6. /\ I \in Nat \ {0} /\ repl.out \in Seq(AnyToken)
  BY <1>5 DEF I
<1>7. Len(repl.out) \in Nat /\ \A j \in 1 .. Len(repl.out) : repl.out[j] \in AnyToken
  BY <1>6, LenProperties, ElementOfSeq
<1>8. Here.sym \in Names /\ Here.sym \notin table.sets[Here.hides]
  BY <1>1, CalledType
<1> QED
  BY <1>1, <1>2, <1>3, <1>4, <1>5, <1>6, <1>7, <1>8

LEMMA ReplacingStep ==
  ASSUME Inv, NestingOK, ObjectLikeOnly, ArgumentsReady,
         Extends(table, table'), UNCHANGED <<macros, frames, done>>,
         /\ (repl.phase = "substitute")' =>
              Len(repl'.out) = I' - 1 /\ Len(repl'.out) <= Len(Body)
         /\ (repl.phase # "substitute")' => Len(repl'.out) = Len(Body)
         /\ \A j \in 1 .. Len(repl'.out) :
              /\ repl'.out[j].sym = Body[j]
              /\ ~(repl'.phase = "paint" /\ j < I') => repl'.out[j].hides = Empty
              /\ repl'.phase = "paint" /\ j < I' =>
                   table'.sets[repl'.out[j].hides] =
                     Within(frames, Top) \cup {Here.sym}
         /\ repl'.phase = "hide" => table'.sets[repl'.id] = Within(frames, Top)
         /\ repl'.phase = "paint" =>
              table'.sets[repl'.id] = Within(frames, Top) \cup {Here.sym}
  PROVE  NestingOK'
<1>1. /\ Top' = Top /\ F' = F /\ Here' = Here /\ Body' = Body
      /\ Within(frames, Top)' = Within(frames, Top)
  BY DEF F, Top, Here, Body, Def
<1>2. ReplacementNests'
  BY <1>1 DEF ReplacementNests
<1>3. StackNests(frames', table', macros')
  BY TopNests, NestsKept DEF NestingOK
<1>4. ~done'
  BY Replacing
<1> QED
  BY <1>2, <1>3, <1>4 DEF NestingOK

LEMMA TokenNests ==
  ASSUME Inv, NestingOK, ObjectLikeOnly, SubstituteToken
  PROVE  NestingOK'
<1> DEFINE x == Token(Body[I], Empty)
           o == Append(repl.out, x)
<1>1. /\ ArgumentsReady /\ repl.phase = "substitute" /\ I \in 1 .. Len(Body)
      /\ Len(Body) \in Nat /\ Body[I] \in Symbols /\ I \in Nat \ {0}
      /\ repl.out \in Seq(AnyToken)
      /\ Emit(<< x >>, FALSE, I + 1)
  <2>1. Substituting /\ Emit(<< x >>, FALSE, I + 1)
    BY DEF SubstituteToken
  <2>2. repl.phase = "substitute" /\ I \in 1 .. Len(Body) /\ ArgumentsReady
        /\ Len(Body) \in Nat /\ Body[I] \in Symbols /\ repl.out \in Seq(AnyToken)
    BY <2>1, SubstitutingType
  <2>3. I \in Nat \ {0}
    BY <2>2
  <2> QED
    BY <2>1, <2>2, <2>3
<1>2. x \in AnyToken /\ x.sym = Body[I] /\ x.hides = Empty
  BY <1>1, BodyToken DEF Token
<1> HIDE DEF x
<1>3. /\ Len(o) = Len(repl.out) + 1 /\ o[Len(repl.out) + 1] = x
      /\ \A j \in 1 .. Len(repl.out) : o[j] = repl.out[j]
      /\ repl.out \o << x >> = o
  BY <1>1, <1>2, AppendProperties, AppendIsConcat
<1> HIDE DEF o
<1>4. /\ repl'.phase = "substitute" /\ repl'.out = o /\ I' = I + 1
      /\ UNCHANGED <<table, macros, frames, done>>
  BY <1>1, <1>3, Replacing DEF Emit, I
<1>5. /\ Len(repl.out) = I - 1
      /\ \A j \in 1 .. Len(repl.out) :
           repl.out[j].sym = Body[j] /\ repl.out[j].hides = Empty
  BY <1>1, Replacing DEF ReplacementNests
<1>6. Len(o) = I' - 1 /\ Len(o) <= Len(Body)
  BY <1>1, <1>3, <1>4, <1>5
<1>7. ASSUME NEW j \in 1 .. Len(o) PROVE o[j].sym = Body[j] /\ o[j].hides = Empty
  <2>1. j \in 1 .. Len(repl.out) \/ (j = Len(repl.out) + 1 /\ j = I)
    BY <1>1, <1>3, <1>5
  <2> QED
    BY <1>2, <1>3, <1>5, <2>1
<1>8. Extends(table, table')
  BY <1>4 DEF Extends
<1> QED
  BY <1>1, <1>4, <1>6, <1>7, <1>8, ReplacingStep

LEMMA HideNests ==
  ASSUME Inv, NestingOK, ObjectLikeOnly, HideCommon \/ HideName
  PROVE  NestingOK'
<1> DEFINE W == Within(frames, Top)
<1>1. ArgumentsReady
  BY DEF HideCommon, Substituted, HideName, Hiding
<1>2. /\ Here.sym \in Names /\ table.sets[Here.hides] = W
      /\ repl.id \in Ids(table) /\ ReplacementNests
      /\ I \in Nat \ {0} /\ Len(repl.out) \in Nat /\ Len(Body) \in Nat
  BY <1>1, Replacing, ObjectBody
<1> HIDE DEF W
<1>3. CASE HideCommon
  <2> DEFINE both == IF Def.function_like
                     THEN Intersect(table, Here.hides, F.tokens[F.call.close].hides)
                     ELSE Answer(table, Here.hides)
  <2>6. /\ repl.phase = "substitute" /\ I > Len(Body) /\ table' = both.table
        /\ repl' = [repl EXCEPT !.phase = "hide", !.id = both.id]
        /\ UNCHANGED <<macros, frames, done>>
    BY <1>3 DEF HideCommon, Substituted
  <2>7. ~Def.function_like
    BY <1>1, ObjectBody
  <2>8. both.table = table /\ both.id = Here.hides
    BY <2>7 DEF Answer
  <2> HIDE DEF both
  <2>1. /\ repl.phase = "substitute" /\ I > Len(Body)
        /\ table' = table /\ UNCHANGED <<macros, frames, done>>
        /\ repl' = [repl EXCEPT !.phase = "hide", !.id = Here.hides]
    BY <2>6, <2>8
  <2>2. /\ repl'.phase = "hide" /\ repl'.id = Here.hides /\ repl'.out = repl.out
    BY <1>1, <2>1, Replacing
  <2>3. /\ Len(repl.out) = Len(Body)
        /\ \A j \in 1 .. Len(repl.out) :
             repl.out[j].sym = Body[j] /\ repl.out[j].hides = Empty
    BY <1>2, <2>1 DEF ReplacementNests
  <2>4. Extends(table, table')
    BY <2>1 DEF Extends
  <2> QED
    BY <1>1, <1>2, <2>1, <2>2, <2>3, <2>4, ReplacingStep DEF W
<1>4. CASE HideName
  <2> DEFINE hs == Add(table, repl.id, Here.sym)
  <2>1. /\ repl.phase = "hide" /\ table' = hs.table
        /\ repl' = [repl EXCEPT !.phase = "paint", !.id = hs.id, !.i = 1]
        /\ UNCHANGED <<macros, frames, done>>
    BY <1>4 DEF HideName, Hiding, Hide
  <2>2. /\ Extends(table, hs.table)
        /\ hs.table.sets[hs.id] = table.sets[repl.id] \cup {Here.sym}
    <3>1. Interned(table)
      BY DEF Inv, TableInterned
    <3> QED
      BY <1>2, <3>1, AddCorrect
  <2> HIDE DEF hs
  <2>3. /\ repl'.phase = "paint" /\ repl'.id = hs.id /\ repl'.out = repl.out
        /\ I' = 1
    BY <1>1, <2>1, Replacing DEF I
  <2>4. /\ Len(repl.out) = Len(Body) /\ table.sets[repl.id] = W
        /\ \A j \in 1 .. Len(repl.out) :
             repl.out[j].sym = Body[j] /\ repl.out[j].hides = Empty
    BY <1>2, <2>1 DEF ReplacementNests, W
  <2>5. \A j \in 1 .. Len(repl.out) : ~(j < 1)
    BY <1>2
  <2> QED
    BY <1>1, <2>1, <2>2, <2>3, <2>4, <2>5, ReplacingStep DEF W
<1> QED
  BY <1>3, <1>4

LEMMA PaintNests ==
  ASSUME Inv, NestingOK, ObjectLikeOnly, Paint
  PROVE  NestingOK'
<1> DEFINE W == Within(frames, Top) \cup {Here.sym}
           x == [repl.out[I] EXCEPT !.hides = repl.id]
           o == [repl.out EXCEPT ![I] = x]
<1>1. ArgumentsReady /\ repl.phase = "paint" /\ I <= Len(repl.out)
  BY DEF Paint, Painting
<1>2. /\ I \in Nat \ {0} /\ Len(repl.out) \in Nat /\ I \in 1 .. Len(repl.out)
      /\ repl.out \in Seq(AnyToken) /\ repl.out[I] \in AnyToken
      /\ repl.id \in Ids(table)
  BY <1>1, Replacing
<1>3. /\ Len(repl.out) = Len(Body) /\ table.sets[repl.id] = W
      /\ \A j \in 1 .. Len(repl.out) :
           /\ repl.out[j].sym = Body[j]
           /\ ~(j < I) => repl.out[j].hides = Empty
           /\ j < I => table.sets[repl.out[j].hides] = W
  BY <1>1, Replacing DEF ReplacementNests
<1>4. repl.out[I].hides = Empty
  BY <1>2, <1>3
<1>5. /\ table' = table /\ UNCHANGED <<macros, frames, done>>
      /\ repl' = [repl EXCEPT !.out[I].hides = repl.id, !.i = I + 1]
  <2> DEFINE both == Merge(table, repl.out[I].hides, repl.id)
  <2>1. /\ table' = both.table /\ UNCHANGED <<macros, frames, done>>
        /\ repl' = [repl EXCEPT !.out[I].hides = both.id, !.i = I + 1]
    BY DEF Paint
  <2>2. both.table = table /\ both.id = repl.id
    BY <1>4 DEF Merge, Answer
  <2> HIDE DEF both
  <2> QED
    BY <2>1, <2>2
<1>6. x \in AnyToken /\ x.sym = repl.out[I].sym /\ x.hides = repl.id
  BY <1>2 DEF AnyToken, Covering
<1>7. repl' = [repl EXCEPT !.out = o, !.i = I + 1]
  BY <1>1, <1>5, Replacing
<1> HIDE DEF x
<1>8. /\ Len(o) = Len(repl.out)
      /\ \A j \in 1 .. Len(repl.out) : o[j] = IF j = I THEN x ELSE repl.out[j]
  BY <1>2, <1>6, ExceptSeq
<1> HIDE DEF o, W
<1>9. /\ repl'.phase = "paint" /\ repl'.out = o /\ I' = I + 1
      /\ repl'.id = repl.id
  BY <1>1, <1>7, Replacing DEF I
<1>10. ASSUME NEW j \in 1 .. Len(o)
       PROVE  /\ o[j].sym = Body[j]
              /\ ~(j < I + 1) => o[j].hides = Empty
              /\ j < I + 1 => table.sets[o[j].hides] = W
  <2>1. CASE j = I
    BY <1>2, <1>3, <1>6, <1>8, <2>1
  <2>2. CASE j # I
    BY <1>2, <1>3, <1>8, <2>2
  <2> QED
    BY <2>1, <2>2
<1>11. Extends(table, table')
  BY <1>5 DEF Extends
<1> QED
  BY <1>1, <1>3, <1>5, <1>8, <1>9, <1>10, <1>11, ReplacingStep DEF W

LEMMA RescanNests ==
  ASSUME IsFiniteSet(Names), Inv, NestingOK, ObjectLikeOnly, Rescan
  PROVE  NestingOK'
<1> DEFINE n == Here.sym
           W == Within(frames, Top)
           g == [F EXCEPT !.call = NoCall, !.pos = F.call.close + 1]
           fs == [frames EXCEPT ![Len(frames)] = g]
           r == Frame("replacement", n, repl.out)
<1>1. /\ ArgumentsReady /\ repl.phase = "paint" /\ I > Len(repl.out)
      /\ frames' = Append([frames EXCEPT ![Top].call = NoCall,
                                         ![Top].pos = F.call.close + 1], r)
      /\ UNCHANGED <<table, macros, done>>
  BY DEF Rescan, Painting
<1>2. frames' = Append(fs, r)
  <2>1. Len(frames) \in DOMAIN frames
    BY TopOK, StackShape DEF Inv
  <2> QED
    BY <1>1, <2>1 DEF F, Top
<1>3. /\ F.call # NoCall /\ ~done /\ ReplacementNests /\ F.call.close = F.pos
      /\ Def # NotMacro /\ F.pos \in 1 .. Len(F.tokens) /\ n \in Names /\ n \notin W
      /\ I \in Nat \ {0} /\ Len(repl.out) \in Nat
      /\ \A j \in 1 .. Len(repl.out) : repl.out[j] \in AnyToken
      /\ repl.out \in Seq(AnyToken)
  BY <1>1, Replacing
<1>4. FrameOK(F, table, W, macros) /\ Len(frames) = Top /\ Top \in Nat \ {0}
  BY TopOK
<1>5. /\ g.kind = F.kind /\ g.name = F.name /\ g.tokens = F.tokens
      /\ g.out = F.out /\ g.call = NoCall /\ g.pos = F.pos + 1
  <2>1. F \in FramesOver(Covering(table, W))
    BY <1>4 DEF FrameOK
  <2> QED
    BY <1>3, <2>1 DEF FramesOver
<1>6. FrameOK(g, table, W, macros)
  BY <1>3, <1>4, FrameResumed
<1>7. FrameNests(g, table, W, macros, g.pos - 2) /\ Waits(g, n)
  <2>1. F.pos - 1 = g.pos - 2 /\ g.pos - 1 = F.pos /\ g.pos >= 2
    BY <1>3, <1>5
  <2>2. FrameNests(F, table, W, macros, g.pos - 2)
    BY <2>1, TopNests
  <2> HIDE DEF g
  <2>3. FrameNests(g, table, W, macros, g.pos - 2)
    BY <1>5, <2>2 DEF FrameNests
  <2>4. Waits(g, n)
    BY <1>5, <2>1 DEF Waits, Here
  <2> QED
    BY <2>3, <2>4
<1> HIDE DEF g
<1>8. /\ StackOK(fs, table, macros) /\ Len(fs) = Top /\ fs[Top] = g
      /\ Within(fs, Top) = W
  BY <1>4, <1>5, <1>6, StackTop DEF Inv, F, Top
<1>9. \A d \in 1 .. Top - 1 : BelowNests(fs, d, table, macros)
  <2>1. \A d \in 1 .. Top - 1 : fs[d] = frames[d]
    <3>1. DOMAIN frames = 1 .. Top
      BY TopNests, StackShape
    <3> QED
      BY <1>4, <3>1 DEF fs
  <2>2. fs[Top].kind = frames[Top].kind /\ fs[Top].name = frames[Top].name
    BY <1>5, <1>8 DEF F
  <2> HIDE DEF fs
  <2> QED
    BY <1>4, <2>1, <2>2, TopNests, BelowSame
<1>10. /\ r.kind = "replacement" /\ r.name = n /\ r.tokens = repl.out
       /\ r.pos = 1 /\ r.out = <<>> /\ r.call = NoCall
  BY DEF Frame
<1>11. /\ Len(repl.out) = Len(Body)
       /\ \A j \in 1 .. Len(repl.out) :
            /\ repl.out[j].sym = Body[j]
            /\ table.sets[repl.out[j].hides] = W \cup {n}
  <2>1. \A j \in 1 .. Len(repl.out) : j < I
    BY <1>1, <1>3
  <2> QED
    BY <1>1, <1>3, <2>1 DEF ReplacementNests
<1>12. Syms(repl.out) = Body
  <2>1. DOMAIN repl.out = 1 .. Len(repl.out)
    BY <1>3, LenProperties
  <2>2. Body = [j \in 1 .. Len(Body) |-> Body[j]]
    BY <1>1, ObjectBody, LenProperties
  <2> QED
    BY <1>11, <2>1, <2>2 DEF Syms
<1>13. FrameNests(r, table, W \cup {n}, macros, 0)
  <2>1. Syms(r.out) = <<>>
    BY <1>10 DEF Syms
  <2>2. ExpandedTo(Nested(macros)[W \cup {n}], r.tokens, 0) = <<>>
    BY ExpandedNone
  <2>3. macros[n] # NotMacro /\ macros[n].body = Body
    BY <1>3 DEF Def, Body
  <2>4. 0 \in 0 .. Len(r.tokens)
    BY <1>3, <1>10
  <2>5. \A j \in 1 .. Len(r.tokens) : table.sets[r.tokens[j].hides] = W \cup {n}
    BY <1>10, <1>11
  <2>6. Syms(r.tokens) = Body
    BY <1>10, <1>12
  <2> HIDE DEF r, n, W
  <2> QED
    BY <1>10, <2>1, <2>2, <2>3, <2>4, <2>5, <2>6 DEF FrameNests
<1>14. FrameOK(r, table, W \cup {n}, macros)
  <2>1. repl.out \in Seq(Covering(table, W \cup {n}))
    <3> DEFINE C == Covering(table, W \cup {n})
    <3>1. \A j \in 1 .. Len(repl.out) : repl.out[j] \in C
      BY <1>3, <1>11 DEF AnyToken, Covering
    <3>2. repl.out \in [1 .. Len(repl.out) -> AnyToken]
      BY <1>3, LenProperties
    <3> HIDE DEF C
    <3>3. repl.out \in [1 .. Len(repl.out) -> C]
      BY <3>1, <3>2
    <3>4. repl.out \in Seq(C)
      BY <1>3, <3>3, SeqDef
    <3> QED
      BY <3>4 DEF C
  <2> QED
    BY <1>3, <2>1, FrameNew
<1> HIDE DEF r, fs, W, n
<1>15. StackNests(frames', table, macros)
  BY <1>2, <1>7, <1>8, <1>9, <1>10, <1>13, <1>14, NestsPush
<1>16. F' = r
  <2>1. fs \in Seq(FramesOver(Covering(table, {}))) /\ r \in FramesOver(Covering(table, {}))
    BY <1>8, <1>14, FrameIsAny DEF StackOK
  <2>2. Len(frames') = Top + 1 /\ frames'[Top + 1] = r
    BY <1>2, <1>8, <2>1, AppendProperties
  <2> QED
    BY <2>2 DEF F, Top
<1> QED
  BY <1>1, <1>3, <1>10, <1>15, <1>16 DEF NestingOK

LEMMA NestingInit == IsFiniteSet(Names) /\ Init => NestingOK
<1> SUFFICES ASSUME IsFiniteSet(Names), Init PROVE NestingOK
  OBVIOUS
<1>1. PICK input \in Inputs :
        /\ macros = input.macros
        /\ frames = << Frame("text", NoName, Plain(input.source)) >>
  BY DEF Init
<1> DEFINE s == Plain(input.source)
           f == Frame("text", NoName, s)
<1>2. /\ Len(s) \in Nat
      /\ \A i \in 1 .. Len(s) : s[i].hides = Empty
  <2>1. input.source \in Seq(Symbols)
    BY ExpansionAssumption
  <2>2. /\ Len(input.source) \in Nat
        /\ DOMAIN input.source = 1 .. Len(input.source)
    BY <2>1, LenProperties
  <2>3. s = [i \in 1 .. Len(input.source) |-> Token(input.source[i], Empty)]
    BY <2>2 DEF Plain
  <2>4. Len(s) = Len(input.source)
    BY <2>2, <2>3
  <2> QED
    BY <2>2, <2>3, <2>4 DEF Token
<1> HIDE DEF s
<1>3. /\ f.kind = "text" /\ f.name = NoName /\ f.tokens = s /\ f.pos = 1
      /\ f.out = <<>> /\ f.call = NoCall
  BY DEF Frame
<1>4. Len(frames) = 1 /\ frames[1] = f /\ Top = 1 /\ F = f /\ ~done
  BY <1>1 DEF s, Top, F, Init
<1> HIDE DEF f
<1>5. Within(frames, 1) = {}
  BY <1>3, <1>4 DEF Within
<1>6. table.sets[Empty] = {}
  BY InvInit DEF Inv, TableInterned, Interned
<1>7. FrameNests(f, table, {}, macros, 0)
  <2>1. Syms(f.out) = <<>>
    BY <1>3 DEF Syms
  <2>2. ExpandedTo(Nested(macros)[{}], f.tokens, 0) = <<>>
    BY ExpandedNone
  <2>3. 0 \in 0 .. Len(f.tokens)
    BY <1>2, <1>3
  <2>4. \A i \in 1 .. Len(f.tokens) : table.sets[f.tokens[i].hides] = {}
    BY <1>2, <1>3, <1>6
  <2> QED
    BY <1>3, <2>1, <2>2, <2>3, <2>4 DEF FrameNests
<1>8. StackNests(frames, table, macros)
  <2>1. 1 .. Len(frames) - 1 = {} /\ f.pos - 1 = 0
    BY <1>3, <1>4
  <2>2. CallNests(f, macros)
    BY <1>3 DEF CallNests
  <2> QED
    BY <1>4, <1>5, <1>7, <2>1, <2>2 DEF StackNests
<1> QED
  BY <1>3, <1>4, <1>8 DEF NestingOK

\* With object-like macros only, and no ##, the other steps are never taken.
LEMMA ObjectSteps ==
  ASSUME Inv, NestingOK, ObjectLikeOnly
  PROVE  /\ ~UnterminatedArgs /\ ~MacroArity /\ ~BeginCall
         /\ ~ExpandArgument /\ ~ArgumentExpanded
         /\ ~Stringize /\ ~PasteNothing /\ ~PasteOntoNothing /\ ~paste
         /\ ~InvalidPaste /\ ~SubstituteParam
<1>1. ~Invocation
  <2> SUFFICES ASSUME Invocation PROVE FALSE
    OBVIOUS
  <2>1. Here.sym \in Names /\ Def.function_like
    BY DEF Invocation, MacroName
  <2> QED
    BY <2>1 DEF ObjectLikeOnly, Def
<1>2. ~ExpandArgument
  <2> SUFFICES ASSUME ExpandArgument PROVE FALSE
    OBVIOUS
  <2>1. F.call # NoCall /\ Len(F.call.expanded) < Len(F.call.raw)
    BY DEF ExpandArgument, Calling
  <2>2. F.call.raw = <<>>
    BY <2>1, TopNests DEF CallNests
  <2>3. Len(F.call.expanded) \in Nat
    BY <2>1, TopNests, FrameParts, LenProperties
  <2> QED
    BY <2>1, <2>2, <2>3
<1>3. ~ArgumentExpanded
  BY TopNests DEF ArgumentExpanded, Exhausted, FrameNests
<1>4. Substituting => ~Stringized /\ ~Operator /\ ParamIndex(Def, I) = 0
  <2> SUFFICES ASSUME Substituting
               PROVE  ~Stringized /\ ~Operator /\ ParamIndex(Def, I) = 0
    OBVIOUS
  <2>1. ArgumentsReady /\ I \in 1 .. Len(Body)
    BY SubstitutingType
  <2> QED
    BY <2>1, ObjectBody DEF Stringized, Operator
<1> QED
  BY <1>1, <1>2, <1>3, <1>4 DEF UnterminatedArgs, MacroArity, BeginCall,
     Stringize, PasteNothing, PasteOntoNothing, paste, InvalidPaste, Pasting,
     SubstituteParam

LEMMA NestingStep ==
  ASSUME IsFiniteSet(Names)
  PROVE  Inv /\ SubstitutionOK /\ NestingOK /\ [Next]_vars => NestingOK'
<1> SUFFICES ASSUME Inv, SubstitutionOK, NestingOK, [Next]_vars
             PROVE  NestingOK'
  OBVIOUS
<1>1. macros' = macros
  BY Zenon DEF Next, Expand, Returned, vars, Copy, UnterminatedArgs, MacroArity,
     BeginCall, ExpandObject, ExpandArgument, ArgumentExpanded, Stringize,
     PasteNothing, PasteOntoNothing, paste, InvalidPaste, SubstituteParam,
     SubstituteToken, HideCommon, HideName, Paint, Rescan, Rescanned, Finish,
     Refuse, Call, Emit, Hide
<1>2. CASE ~ObjectLikeOnly
  BY <1>1, <1>2 DEF NestingOK, ObjectLikeOnly
<1>3. CASE ObjectLikeOnly
  <2>1. CASE UNCHANGED vars
    <3>1. UNCHANGED <<table, macros, frames, repl, out, done>>
      BY <2>1 DEF vars
    <3> QED
      BY <1>3, <3>1 DEF NestingOK, ReplacementNests, F, Here, Body, Def, I, Top
  <2>2. CASE Copy
    BY <1>3, <2>2, CopyNests
  <2>3. CASE ExpandObject
    BY <1>3, <2>3, ObjectNests
  <2>4. CASE SubstituteToken
    BY <1>3, <2>4, TokenNests
  <2>5. CASE HideCommon \/ HideName
    BY <1>3, <2>5, HideNests
  <2>6. CASE Paint
    BY <1>3, <2>6, PaintNests
  <2>7. CASE Rescan
    BY <1>3, <2>7, RescanNests
  <2>8. CASE Rescanned
    BY <1>3, <2>8, RescannedNests
  <2>9. CASE Finish
    BY <1>3, <2>9, FinishNests
  <2> QED
    BY <1>3, <2>1, <2>2, <2>3, <2>4, <2>5, <2>6, <2>7, <2>8, <2>9, ObjectSteps
       DEF Next, Expand, Returned
<1> QED
  BY <1>2, <1>3

(***************************************************************************)
(* For every table of object-like macros without ##, and every text: the   *)
(* expansion is what nesting alone makes of it, each name replaced unless  *)
(* it stands within its own replacement.  The hide sets that travel with   *)
(* the tokens, and the rescan of each replacement, hide no name too many   *)
(* and none too few.                                                       *)
(***************************************************************************)
THEOREM ObjectsAlwaysExpandByNesting ==
  ASSUME IsFiniteSet(Names)
  PROVE  Spec => []ObjectsExpandByNesting
<1>1. Inv /\ NestingOK => ObjectsExpandByNesting
  <2> SUFFICES ASSUME Inv, NestingOK, done, ObjectLikeOnly
               PROVE  ObjectsExpandByNesting
    BY DEF ObjectsExpandByNesting
  <2> DEFINE source == frames[1].tokens
  <2>1. Top = 1 /\ out = F.out /\ F.pos = Len(F.tokens) + 1 /\ F = frames[1]
    BY DEF NestingOK, F
  <2>2. Within(frames, Top) = {}
    <3>1. frames[1].kind = "text"
      BY <2>1 DEF Inv, StackOK, Top
    <3> QED
      BY <2>1, <3>1 DEF Within
  <2>3. Len(source) \in Nat /\ DOMAIN source = 1 .. Len(source)
    BY <2>1, TopNests, FrameParts, LenProperties
  <2>4. F.pos - 1 = Len(source)
    BY <2>1, <2>3
  <2>5. Syms(out) = ExpandedTo(Nested(macros)[{}], source, Len(source))
    BY <2>1, <2>2, <2>4, TopNests DEF FrameNests
  <2>6. NestedExpansion = Nested(macros)
    BY DEF NestedExpansion, Nested, NestsOver
  <2> QED
    BY <2>3, <2>5, <2>6 DEF ObjectsExpandByNesting, ExpandedTo
<1>2. Init => SubstitutionOK
  BY DEF Init, SubstitutionOK
<1> QED
  BY <1>1, <1>2, NestingInit, NestingStep, SubstitutionStep, InvInit, InvStep,
     PTL DEF Spec
=============================================================================
