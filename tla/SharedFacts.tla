---------------------------- MODULE SharedFacts ----------------------------
(***************************************************************************)
(* Facts about sets of positions and about sequences that the proofs       *)
(* share.  The least element stands in for induction: the first place      *)
(* where a claim fails is a least element, and the claim holds of the      *)
(* place before.                                                           *)
(***************************************************************************)
EXTENDS Integers, SequencesExt, FiniteSetsExt, FiniteSetTheorems,
        SequenceTheorems, WellFoundedInduction, TLAPS

\* A non-empty set of numbers has a least one.
LEMMA SetMinimum ==
  ASSUME NEW S, S \subseteq Nat, S # {}
  PROVE  \E m \in S : \A n \in S : m <= n
<1> DEFINE R == OpToRel(<, Nat)
<1>1. IsWellFoundedOn(R, Nat)
  BY NatLessThanWellFounded
<1>2. \A x, y \in Nat : y < x => <<y, x>> \in R
  BY DEF OpToRel
<1> HIDE DEF R
<1>3. PICK m \in S : \A n \in S : ~(<<n, m>> \in R)
  BY <1>1, WFMin
<1>4. \A n \in S : ~(n < m)
  BY <1>2, <1>3, Zenon
<1>5. \A n \in S : n \in Nat
  OBVIOUS
<1> QED
  BY <1>4, <1>5

(***************************************************************************)
(* A finite set of numbers has an enumeration in ascending order.  Of the  *)
(* sets without one take a smallest, and put its least element in front of *)
(* the enumeration of the others.                                          *)
(***************************************************************************)
IsAscending(c) == \A a, b \in DOMAIN c : a < b => c[a] < c[b]

LEMMA AscendingExists ==
  ASSUME NEW S, S \subseteq Nat, IsFiniteSet(S)
  PROVE  \E c \in [1 .. Cardinality(S) -> S] : IsAscending(c)
<1> DEFINE Enumerable(T) ==
             \E c \in [1 .. Cardinality(T) -> T] : IsAscending(c)
           Sizes == {n \in Nat : \E T \in SUBSET Nat :
                       IsFiniteSet(T) /\ Cardinality(T) = n /\ ~Enumerable(T)}
<1>1. SUFFICES ASSUME Sizes # {} PROVE FALSE
  BY FS_CardinalityType
<1>2. PICK n \in Sizes : \A k \in Sizes : n <= k
  BY <1>1, SetMinimum
<1>3. PICK T \in SUBSET Nat :
        IsFiniteSet(T) /\ Cardinality(T) = n /\ ~Enumerable(T)
  BY <1>2
<1>4. n \in Nat
  BY <1>2
<1>5. CASE T = {}
  <2> DEFINE c == [i \in 1 .. 0 |-> 0]
  <2>1. c \in [1 .. 0 -> T] /\ DOMAIN c = {}
    OBVIOUS
  <2>2. Cardinality(T) = 0
    BY <1>5, FS_EmptySet
  <2> HIDE DEF c
  <2>3. IsAscending(c)
    BY <2>1 DEF IsAscending
  <2> QED
    BY <1>3, <2>1, <2>2, <2>3
<1>6. CASE T # {}
  <2>1. PICK m \in T : \A k \in T : m <= k
    BY <1>6, SetMinimum
  <2> DEFINE U == T \ {m}
  <2>2. IsFiniteSet(U) /\ Cardinality(U) = n - 1
    BY <1>3, FS_RemoveElement
  <2>3. Cardinality(U) \in Nat /\ n >= 1
    BY <1>4, <2>2, FS_CardinalityType
  <2>4. Enumerable(U)
    <3>1. n - 1 \notin Sizes
      BY <1>2, <1>4, <2>3
    <3> HIDE DEF Enumerable
    <3> QED
      BY <2>2, <2>3, <3>1
  <2>5. PICK e \in [1 .. n - 1 -> U] : IsAscending(e)
    BY <2>2, <2>4
  <2> DEFINE c == [i \in 1 .. n |-> IF i = 1 THEN m ELSE e[i - 1]]
  <2>6. \A i \in 1 .. n : i # 1 => i - 1 \in 1 .. n - 1
    BY <1>4
  <2>7. c \in [1 .. n -> T]
    BY <2>5, <2>6
  <2>8. ASSUME NEW a \in 1 .. n, NEW b \in 1 .. n, a < b
        PROVE  c[a] < c[b]
    <3>1. b # 1 /\ b - 1 \in 1 .. n - 1 /\ c[b] = e[b - 1]
      BY <2>6, <2>8
    <3>2. e[b - 1] \in T /\ e[b - 1] # m
      BY <2>5, <3>1
    <3>3. CASE a = 1
      <4>1. c[a] = m
        BY <3>3
      <4>2. m <= e[b - 1] /\ m \in Nat /\ e[b - 1] \in Nat
        BY <2>1, <3>2
      <4> HIDE DEF c
      <4> QED
        BY <3>1, <3>2, <4>1, <4>2
    <3>4. CASE a # 1
      <4>1. a - 1 \in 1 .. n - 1 /\ c[a] = e[a - 1] /\ a - 1 < b - 1
        BY <2>6, <2>8, <3>4
      <4>2. DOMAIN e = 1 .. n - 1
        BY <2>5
      <4> HIDE DEF c
      <4>3. e[a - 1] < e[b - 1]
        BY <2>5, <3>1, <4>1, <4>2 DEF IsAscending
      <4> QED
        BY <3>1, <4>1, <4>3
    <3> QED
      BY <3>3, <3>4
  <2>9. DOMAIN c = 1 .. n
    OBVIOUS
  <2> HIDE DEF c
  <2>10. IsAscending(c)
    BY <2>8, <2>9 DEF IsAscending
  <2> QED
    BY <1>3, <2>7, <2>10
<1> QED
  BY <1>5, <1>6
-----------------------------------------------------------------------------
(***************************************************************************)
(* The greatest element of a set of numbers that is bounded.               *)
(***************************************************************************)
LEMMA MaxOf ==
  ASSUME NEW S, S \subseteq Nat, S # {}, NEW n \in Nat, \A s \in S : s <= n
  PROVE  Max(S) \in S /\ \A s \in S : s <= Max(S)
<1> DEFINE below == {n - s : s \in S}
<1>1. below \subseteq Nat /\ below # {}
  <2>1. \A s \in S : s \in Nat /\ n - s \in Nat
    OBVIOUS
  <2> QED
    BY <2>1
<1>2. PICK b \in below : \A c \in below : b <= c
  BY <1>1, SetMinimum
<1>3. PICK x \in S : b = n - x
  BY <1>2
<1>4. \A s \in S : n - x <= n - s
  BY <1>2, <1>3
<1>5. \A s \in S : x >= s
  BY <1>4
<1> QED
  BY <1>5 DEF Max

LEMMA MaxIs ==
  ASSUME NEW S, S \subseteq Nat, NEW x \in S, \A s \in S : s <= x
  PROVE  Max(S) = x
<1>1. \A y \in S : (\A s \in S : y >= s) => y = x
  OBVIOUS
<1>2. \A s \in S : x >= s
  OBVIOUS
<1> QED
  BY <1>1, <1>2 DEF Max

LEMMA MaxOfInterval ==
  ASSUME NEW n \in Nat \ {0}
  PROVE  Max(1 .. n) = n /\ (1 .. n) \ {n} = 1 .. n - 1
<1>1. n \in 1 .. n /\ \A y \in 1 .. n : n >= y
  OBVIOUS
<1>2. \A x \in 1 .. n : (\A y \in 1 .. n : x >= y) => x = n
  OBVIOUS
<1> QED
  BY <1>1, <1>2 DEF Max
-----------------------------------------------------------------------------
(***************************************************************************)
(* Sequences.  A set that has the empty one, and with a sequence the one   *)
(* longer by an element, has all of them: what is claimed of every         *)
(* sequence is proved of such a set.                                       *)
(***************************************************************************)
LEMMA SequencesBuildUp ==
  ASSUME NEW C, NEW P \in SUBSET Seq(C), <<>> \in P,
         \A u \in P, x \in C : Append(u, x) \in P
  PROVE  P = Seq(C)
<1> DEFINE Lengths == {n \in Nat : \E w \in Seq(C) : Len(w) = n /\ w \notin P}
<1>1. SUFFICES ASSUME Lengths # {} PROVE FALSE
  <2>1. ASSUME NEW w \in Seq(C) PROVE w \in P
    BY <1>1, LenProperties
  <2> QED
    BY <2>1
<1>2. PICK n \in Lengths : \A k \in Lengths : n <= k
  BY <1>1, SetMinimum
<1>3. PICK w \in Seq(C) : Len(w) = n /\ w \notin P
  BY <1>2
<1>4. PICK u \in Seq(C), x \in C : w = Append(u, x)
  BY <1>3, SequenceEmptyOrAppend
<1>5. Len(u) \in Nat /\ n = Len(u) + 1
  BY <1>3, <1>4, AppendProperties, LenProperties
<1>6. Len(u) \notin Lengths
  <2>1. n \in Nat /\ ~(n <= Len(u))
    BY <1>2, <1>5
  <2> HIDE DEF Lengths
  <2> QED
    BY <1>2, <2>1
<1>7. u \in P
  BY <1>5, <1>6
<1> QED
  BY <1>3, <1>4, <1>7

(***************************************************************************)
(* A sequence taken apart at its end and at its beginning.                 *)
(***************************************************************************)
LEMMA FrontAndLast ==
  ASSUME NEW C, NEW u \in Seq(C), NEW x \in C
  PROVE  Front(Append(u, x)) = u /\ Last(Append(u, x)) = x
<1>1. /\ Append(u, x) \in Seq(C) /\ Len(Append(u, x)) = Len(u) + 1
      /\ \A i \in 1 .. Len(u) : Append(u, x)[i] = u[i]
      /\ Append(u, x)[Len(u) + 1] = x /\ Len(u) \in Nat
  BY AppendProperties, LenProperties
<1> DEFINE s == Append(u, x)
<1>2. Len(u) = Len(s) - 1 /\ \A i \in 1 .. Len(u) : s[i] \in C
  BY <1>1, ElementOfSeq
<1> HIDE DEF s
<1>3. /\ SubSeq(s, 1, Len(u)) \in Seq(C) /\ Len(SubSeq(s, 1, Len(u))) = Len(u)
      /\ \A i \in 1 .. Len(u) : SubSeq(s, 1, Len(u))[i] = s[1 + i - 1]
  BY <1>1, <1>2, SubSeqProperties
<1>4. \A i \in 1 .. Len(u) : SubSeq(s, 1, Len(u))[i] = u[i]
  BY <1>1, <1>3 DEF s
<1>5. SubSeq(s, 1, Len(u)) = u
  BY <1>3, <1>4, SeqEqual
<1> QED
  BY <1>1, <1>2, <1>5 DEF Front, Last, s

LEMMA SplitLast ==
  ASSUME NEW C, NEW s \in Seq(C), s # <<>>
  PROVE  Front(s) \in Seq(C) /\ Last(s) \in C /\ s = Append(Front(s), Last(s))
<1>1. PICK u \in Seq(C), x \in C : s = Append(u, x)
  BY SequenceEmptyOrAppend
<1>2. Front(s) = u /\ Last(s) = x
  BY <1>1, FrontAndLast
<1> QED
  BY <1>1, <1>2

LEMMA SplitFirst ==
  ASSUME NEW C, NEW s \in Seq(C), s # <<>>, NEW t \in Seq(C)
  PROVE  t \o s = Append(t, Head(s)) \o Tail(s)
<1>1. Head(s) \in C /\ Tail(s) \in Seq(C)
  BY HeadTailProperties
<1>2. s = << Head(s) >> \o Tail(s)
  <2>1. << Head(s) >> \in Seq(C) /\ Len(s) \in Nat \ {0}
    BY <1>1, EmptySeq
  <2>2. /\ Len(Tail(s)) = Len(s) - 1
        /\ \A i \in 1 .. Len(Tail(s)) : Tail(s)[i] = s[i + 1]
    BY HeadTailProperties
  <2> DEFINE v == << Head(s) >> \o Tail(s)
  <2>3. /\ v \in Seq(C) /\ Len(v) = Len(<< Head(s) >>) + Len(Tail(s))
        /\ \A i \in 1 .. Len(<< Head(s) >>) + Len(Tail(s)) :
             v[i] = IF i <= Len(<< Head(s) >>) THEN << Head(s) >>[i]
                    ELSE Tail(s)[i - Len(<< Head(s) >>)]
    BY <1>1, <2>1, ConcatProperties
  <2>4. Len(<< Head(s) >>) = 1 /\ << Head(s) >>[1] = s[1]
    BY <2>1
  <2> HIDE DEF v
  <2>5. Len(v) = Len(s)
    BY <2>1, <2>2, <2>3, <2>4
  <2>6. ASSUME NEW i \in 1 .. Len(s) PROVE s[i] = v[i]
    <3>1. v[i] = IF i <= 1 THEN << Head(s) >>[i] ELSE Tail(s)[i - 1]
      BY <2>1, <2>2, <2>3, <2>4
    <3>2. CASE i = 1
      BY <2>4, <3>1, <3>2
    <3>3. CASE i # 1
      <4>1. i - 1 \in 1 .. Len(Tail(s)) /\ (i - 1) + 1 = i /\ ~(i <= 1)
        BY <2>1, <2>2, <3>3
      <4>2. Tail(s)[i - 1] = s[(i - 1) + 1]
        BY <2>2, <4>1
      <4> QED
        BY <3>1, <4>1, <4>2
    <3> QED
      BY <3>2, <3>3
  <2>7. s = v
    BY <2>3, <2>5, <2>6, SeqEqual
  <2> QED
    BY <2>7 DEF v
<1>3. t \o (<< Head(s) >> \o Tail(s)) = (t \o << Head(s) >>) \o Tail(s)
  <2>1. << Head(s) >> \in Seq(C)
    BY <1>1
  <2> QED
    BY <1>1, <2>1, ConcatAssociative
<1> QED
  BY <1>1, <1>2, <1>3, AppendIsConcat

LEMMA HeadAndTail ==
  ASSUME NEW C, NEW x \in C, NEW s \in Seq(C)
  PROVE  Head(<< x >> \o s) = x /\ Tail(<< x >> \o s) = s
<1> DEFINE v == << x >> \o s
<1>1. /\ << x >> \in Seq(C) /\ Len(<< x >>) = 1 /\ << x >>[1] = x
      /\ Len(s) \in Nat
  BY LenProperties
<1>2. /\ v \in Seq(C) /\ Len(v) = Len(<< x >>) + Len(s)
      /\ \A i \in 1 .. Len(<< x >>) + Len(s) :
           v[i] = IF i <= Len(<< x >>) THEN << x >>[i]
                  ELSE s[i - Len(<< x >>)]
  BY <1>1, ConcatProperties
<1> HIDE DEF v
<1>3. Len(v) = 1 + Len(s) /\ v[1] = x /\ Len(v) - 1 = Len(s) /\ v # <<>>
  BY <1>1, <1>2, EmptySeq
<1>4. ASSUME NEW i \in 1 .. Len(s) PROVE v[i + 1] = s[i]
  <2>1. i + 1 \in 1 .. 1 + Len(s) /\ ~(i + 1 <= 1) /\ (i + 1) - 1 = i
    BY <1>1
  <2> QED
    BY <1>1, <1>2, <2>1
<1>5. /\ Head(v) = v[1] /\ Tail(v) \in Seq(C) /\ Len(Tail(v)) = Len(v) - 1
      /\ \A i \in 1 .. Len(Tail(v)) : Tail(v)[i] = v[i + 1]
  BY <1>2, <1>3, HeadTailProperties
<1>6. Tail(v) = s
  BY <1>3, <1>4, <1>5, SeqEqual
<1> QED
  BY <1>3, <1>5, <1>6 DEF v

LEMMA ConcatAppend ==
  ASSUME NEW C, NEW s \in Seq(C), NEW u \in Seq(C), NEW x \in C
  PROVE  s \o Append(u, x) = Append(s \o u, x)
<1>1. << x >> \in Seq(C) /\ s \o u \in Seq(C)
  BY ConcatProperties
<1>2. Append(u, x) = u \o << x >> /\ Append(s \o u, x) = (s \o u) \o << x >>
  BY <1>1, AppendIsConcat
<1> QED
  BY <1>1, <1>2, ConcatAssociative

LEMMA LastOfRun ==
  ASSUME NEW C, NEW s \in Seq(C), NEW t \in Seq(C), t # <<>>
  PROVE  s \o t # <<>> /\ Last(s \o t) = Last(t) /\ Last(t) \in C
<1>1. /\ Len(s) \in Nat /\ Len(t) \in Nat \ {0}
      /\ Len(s \o t) = Len(s) + Len(t)
      /\ \A i \in 1 .. Len(s) + Len(t) :
           (s \o t)[i] = IF i <= Len(s) THEN s[i] ELSE t[i - Len(s)]
  BY ConcatProperties, LenProperties, EmptySeq
<1>2. s \o t # <<>>
  <2>1. Len(s \o t) # 0
    BY <1>1
  <2> QED
    BY <2>1, EmptySeq
<1>3. (s \o t)[Len(s) + Len(t)] = t[Len(t)]
  BY <1>1
<1> QED
  BY <1>1, <1>2, <1>3, SplitLast DEF Last
-----------------------------------------------------------------------------
(***************************************************************************)
(* FlattenSeq, whose value the library defines by a recursive function     *)
(* over the positions: the function exists, does not depend on what is     *)
(* behind a position, and so one more part is appended to the value.       *)
(***************************************************************************)
FlattensUpTo(f, ss, n) ==
  f = [i \in 1 .. n |-> IF i = 1 THEN ss[i] ELSE f[i - 1] \o ss[i]]

LEMMA FlatteningExists ==
  ASSUME NEW ss, NEW n \in Nat
  PROVE  \E f : FlattensUpTo(f, ss, n)
<1> DEFINE Missing == {m \in Nat : ~\E f : FlattensUpTo(f, ss, m)}
<1>1. SUFFICES ASSUME Missing # {} PROVE FALSE
  OBVIOUS
<1>2. PICK m \in Missing : \A k \in Missing : m <= k
  BY <1>1, SetMinimum
<1>3. m \in Nat /\ ~\E f : FlattensUpTo(f, ss, m)
  BY <1>2
<1>4. m # 0
  <2> DEFINE f == [i \in 1 .. 0 |-> <<>>]
  <2>1. FlattensUpTo(f, ss, 0)
    BY DEF FlattensUpTo
  <2> QED
    BY <1>3, <2>1
<1>5. m - 1 \in Nat /\ ~(m <= m - 1)
  BY <1>3, <1>4
<1>6. PICK f : FlattensUpTo(f, ss, m - 1)
  BY <1>2, <1>5
<1> DEFINE g == [i \in 1 .. m |->
                   IF i = 1 THEN ss[i] ELSE f[i - 1] \o ss[i]]
<1>7. \A i \in 1 .. m : i # 1 => i - 1 \in 1 .. m - 1
  BY <1>3
<1>8. ASSUME NEW i \in 1 .. m - 1 PROVE g[i] = f[i]
  <2>1. i \in 1 .. m
    BY <1>3
  <2>2. f[i] = IF i = 1 THEN ss[i] ELSE f[i - 1] \o ss[i]
    BY <1>6 DEF FlattensUpTo
  <2> QED
    BY <2>1, <2>2
<1>9. ASSUME NEW i \in 1 .. m
      PROVE  g[i] = IF i = 1 THEN ss[i] ELSE g[i - 1] \o ss[i]
  <2>1. i # 1 => g[i - 1] = f[i - 1]
    BY <1>7, <1>8
  <2>2. g[i] = IF i = 1 THEN ss[i] ELSE f[i - 1] \o ss[i]
    OBVIOUS
  <2> QED
    BY <2>1, <2>2
<1>10. g = [i \in 1 .. m |-> g[i]]
  OBVIOUS
<1> HIDE DEF g
<1>11. FlattensUpTo(g, ss, m)
  BY <1>9, <1>10 DEF FlattensUpTo
<1> QED
  BY <1>3, <1>11

LEMMA FlattenSeqValue ==
  ASSUME NEW ss, Len(ss) \in Nat \ {0}
  PROVE  \E f : FlattensUpTo(f, ss, Len(ss)) /\ FlattenSeq(ss) = f[Len(ss)]
<1> DEFINE f == CHOOSE f : FlattensUpTo(f, ss, Len(ss))
<1>1. FlattensUpTo(f, ss, Len(ss))
  BY FlatteningExists
<1>2. FlattenSeq(ss) = f[Len(ss)]
  BY DEF FlattenSeq, FlattensUpTo
<1> QED
  BY <1>1, <1>2

LEMMA FlattenSeqNone == FlattenSeq(<<>>) = <<>>
BY DEF FlattenSeq

LEMMA FlatteningsAgree ==
  ASSUME NEW ss, NEW ts, NEW m \in Nat, NEW n \in Nat, m <= n,
         \A i \in 1 .. m : ss[i] = ts[i],
         NEW f, FlattensUpTo(f, ss, m), NEW g, FlattensUpTo(g, ts, n)
  PROVE  \A i \in 1 .. m : f[i] = g[i]
<1> DEFINE Bad == {i \in 1 .. m : f[i] # g[i]}
<1>1. SUFFICES ASSUME Bad # {} PROVE FALSE
  OBVIOUS
<1>a. Bad \subseteq Nat
  OBVIOUS
<1>2. PICK i \in Bad : \A k \in Bad : i <= k
  <2> HIDE DEF Bad
  <2> QED
    BY <1>1, <1>a, SetMinimum
<1>3. i \in 1 .. m /\ i \in 1 .. n /\ f[i] # g[i]
  BY <1>2
<1>4. /\ f[i] = IF i = 1 THEN ss[i] ELSE f[i - 1] \o ss[i]
      /\ g[i] = IF i = 1 THEN ts[i] ELSE g[i - 1] \o ts[i]
  BY <1>3 DEF FlattensUpTo
<1>5. i # 1
  BY <1>3, <1>4
<1>6. i - 1 \in 1 .. m /\ ~(i <= i - 1)
  BY <1>3, <1>5
<1>7. f[i - 1] = g[i - 1]
  BY <1>2, <1>6
<1> QED
  BY <1>3, <1>4, <1>5, <1>7

LEMMA FlattenSeqAppend ==
  ASSUME NEW C, NEW ss \in Seq(Seq(C)), NEW s \in Seq(C)
  PROVE  FlattenSeq(Append(ss, s)) = FlattenSeq(ss) \o s
<1> DEFINE ts == Append(ss, s)
           n == Len(ss)
<1>1. /\ n \in Nat /\ Len(ts) = n + 1 /\ ts[n + 1] = s
      /\ \A i \in 1 .. n : ss[i] = ts[i]
  BY AppendProperties, LenProperties
<1>a. n + 1 \in 1 .. n + 1 /\ n + 1 - 1 = n
  BY <1>1
<1> HIDE DEF ts, n
<1>2. PICK g : FlattensUpTo(g, ts, n + 1) /\ FlattenSeq(ts) = g[n + 1]
  BY <1>1, FlattenSeqValue
<1>3. g[n + 1] = IF n + 1 = 1 THEN ts[n + 1] ELSE g[n] \o ts[n + 1]
  <2>1. \A i \in 1 .. n + 1 :
          g[i] = IF i = 1 THEN ts[i] ELSE g[i - 1] \o ts[i]
    BY <1>2 DEF FlattensUpTo
  <2>2. g[n + 1] = IF n + 1 = 1 THEN ts[n + 1] ELSE g[(n + 1) - 1] \o ts[n + 1]
    BY <1>a, <2>1, Zenon
  <2>3. g[(n + 1) - 1] = g[n]
    <3>1. (n + 1) - 1 = n
      BY <1>1
    <3> QED
      BY <3>1, Zenon
  <2> QED
    BY <2>2, <2>3
<1>4. CASE n = 0
  <2>1. ss = <<>>
    BY <1>4, EmptySeq DEF n
  <2>2. <<>> \o s = s
    BY ConcatEmptySeq
  <2> QED
    BY <1>1, <1>2, <1>3, <1>4, <2>1, <2>2, FlattenSeqNone DEF ts
<1>5. CASE n # 0
  <2>1. PICK f : FlattensUpTo(f, ss, n) /\ FlattenSeq(ss) = f[n]
    BY <1>1, <1>5, FlattenSeqValue DEF n
  <2>2. n \in 1 .. n /\ n <= n + 1 /\ n + 1 \in Nat /\ n + 1 - 1 = n
    BY <1>1, <1>5
  <2>3. f[n] = g[n]
    BY <1>1, <1>2, <2>1, <2>2, FlatteningsAgree
  <2> QED
    BY <1>1, <1>2, <1>3, <1>5, <2>1, <2>2, <2>3 DEF ts
<1> QED
  BY <1>4, <1>5

LEMMA FlattenSeqType ==
  ASSUME NEW C, NEW ss \in Seq(Seq(C))
  PROVE  FlattenSeq(ss) \in Seq(C)
<1>1. CASE Len(ss) = 0
  <2>1. ss = <<>>
    BY <1>1, EmptySeq
  <2> QED
    BY <2>1, FlattenSeqNone, EmptySeq
<1>2. CASE Len(ss) # 0
  <2>1. Len(ss) \in Nat \ {0} /\ \A i \in 1 .. Len(ss) : ss[i] \in Seq(C)
    BY <1>2, LenProperties, ElementOfSeq
  <2>2. PICK f : FlattensUpTo(f, ss, Len(ss)) /\ FlattenSeq(ss) = f[Len(ss)]
    BY <2>1, FlattenSeqValue
  <2> DEFINE Bad == {i \in 1 .. Len(ss) : f[i] \notin Seq(C)}
  <2>3. Bad \subseteq Nat
    OBVIOUS
  <2>4. SUFFICES ASSUME Bad # {} PROVE FALSE
    BY <2>1, <2>2
  <2>5. PICK i \in Bad : \A j \in Bad : i <= j
    <3> HIDE DEF Bad
    <3> QED
      BY <2>3, <2>4, SetMinimum
  <2>6. i \in 1 .. Len(ss) /\ f[i] \notin Seq(C)
    BY <2>5
  <2>7. f[i] = IF i = 1 THEN ss[i] ELSE f[i - 1] \o ss[i]
    BY <2>2, <2>6 DEF FlattensUpTo
  <2>8. i # 1
    BY <2>1, <2>6, <2>7
  <2>9. i - 1 \in 1 .. Len(ss) /\ ~(i <= i - 1)
    BY <2>1, <2>6, <2>8
  <2>10. f[i - 1] \in Seq(C)
    BY <2>5, <2>9
  <2>11. f[i - 1] \o ss[i] \in Seq(C)
    BY <2>1, <2>6, <2>10, ConcatProperties
  <2> QED
    BY <2>6, <2>7, <2>8, <2>11
<1> QED
  BY <1>1, <1>2
=============================================================================
