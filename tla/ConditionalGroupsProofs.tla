----------------------- MODULE ConditionalGroupsProofs -----------------------
(***************************************************************************)
(* Groups and a stack of levels.  A preprocessor goes over the lines once  *)
(* and keeps a stack; the groups of ConditionalGroups are said by the      *)
(* structure of the whole text.  Lemmas about what one more line does to   *)
(* both, for any text and any conditions.                                  *)
(***************************************************************************)
EXTENDS ConditionalGroups, SharedFacts, SequenceTheorems

(***************************************************************************)
(* How many groups of lines j .. k are open, line by line.                 *)
(***************************************************************************)
Among(lines, j, k, op) == {i \in j .. k : lines[i].op = op}

LEMMA OpenedIs ==
  ASSUME NEW lines, NEW j \in Int, NEW k \in Int
  PROVE  /\ Opened(lines, j, k) = Cardinality(Among(lines, j, k, "if"))
                                    - Cardinality(Among(lines, j, k, "endif"))
         /\ \A op : /\ IsFiniteSet(Among(lines, j, k, op))
                    /\ Cardinality(Among(lines, j, k, op)) \in Nat
         /\ Opened(lines, j, k) \in Int
<1>1. Opened(lines, j, k) = Cardinality(Among(lines, j, k, "if"))
                              - Cardinality(Among(lines, j, k, "endif"))
  BY DEF Opened, Quantify, Among
<1>2. ASSUME NEW op
      PROVE  /\ IsFiniteSet(Among(lines, j, k, op))
             /\ Cardinality(Among(lines, j, k, op)) \in Nat
  <2>1. IsFiniteSet(j .. k)
    BY FS_Interval
  <2>2. Among(lines, j, k, op) \in SUBSET (j .. k)
    BY DEF Among
  <2>3. IsFiniteSet(Among(lines, j, k, op))
    BY <2>1, <2>2, FS_Subset
  <2> QED
    BY <2>3, FS_CardinalityType
<1> QED
  BY <1>1, <1>2

LEMMA OpenedNone ==
  ASSUME NEW lines, NEW j \in Int, NEW k \in Int, k < j
  PROVE  Opened(lines, j, k) = 0
<1>1. Among(lines, j, k, "if") = {} /\ Among(lines, j, k, "endif") = {}
  BY DEF Among
<1> QED
  BY <1>1, OpenedIs, FS_EmptySet

LEMMA OpenedNext ==
  ASSUME NEW lines, NEW j \in Int, NEW k \in Int, j <= k
  PROVE  Opened(lines, j, k) =
           Opened(lines, j, k - 1) + (CASE lines[k].op = "if"    -> 1
                                        [] lines[k].op = "endif" -> -1
                                        [] OTHER                 -> 0)
<1>1. ASSUME NEW op
      PROVE  Cardinality(Among(lines, j, k, op)) =
               Cardinality(Among(lines, j, k - 1, op))
                 + (IF lines[k].op = op THEN 1 ELSE 0)
  <2>1. /\ IsFiniteSet(Among(lines, j, k - 1, op))
        /\ Cardinality(Among(lines, j, k - 1, op)) \in Nat
    <3>1. k - 1 \in Int
      OBVIOUS
    <3> QED
      BY <3>1, OpenedIs
  <2>2. CASE lines[k].op = op
    <3>1. Among(lines, j, k, op) = Among(lines, j, k - 1, op) \cup {k}
      BY <2>2 DEF Among
    <3>2. k \notin Among(lines, j, k - 1, op)
      BY DEF Among
    <3> QED
      BY <2>1, <2>2, <3>1, <3>2, FS_AddElement
  <2>3. CASE lines[k].op # op
    <3>1. Among(lines, j, k, op) = Among(lines, j, k - 1, op)
      BY <2>3 DEF Among
    <3> QED
      BY <2>1, <2>3, <3>1
  <2> QED
    BY <2>2, <2>3
<1>2. /\ Opened(lines, j, k) = Cardinality(Among(lines, j, k, "if"))
                                 - Cardinality(Among(lines, j, k, "endif"))
      /\ Opened(lines, j, k - 1) = Cardinality(Among(lines, j, k - 1, "if"))
                                     - Cardinality(Among(lines, j, k - 1, "endif"))
      /\ Cardinality(Among(lines, j, k - 1, "if")) \in Nat
      /\ Cardinality(Among(lines, j, k - 1, "endif")) \in Nat
  BY OpenedIs
<1>3. /\ Cardinality(Among(lines, j, k, "if")) =
           Cardinality(Among(lines, j, k - 1, "if"))
             + (IF lines[k].op = "if" THEN 1 ELSE 0)
      /\ Cardinality(Among(lines, j, k, "endif")) =
           Cardinality(Among(lines, j, k - 1, "endif"))
             + (IF lines[k].op = "endif" THEN 1 ELSE 0)
  BY <1>1
<1> QED
  BY <1>2, <1>3

\* Lines that neither open nor close a group change nothing.
LEMMA OpenedRun ==
  ASSUME NEW lines, NEW j \in Int, NEW m \in Int, NEW k \in Int,
         j <= m, m - 1 <= k,
         \A i \in m .. k : lines[i].op \notin {"if", "endif"}
  PROVE  Opened(lines, j, k) = Opened(lines, j, m - 1)
<1>1. /\ Among(lines, j, k, "if") = Among(lines, j, m - 1, "if")
      /\ Among(lines, j, k, "endif") = Among(lines, j, m - 1, "endif")
  BY DEF Among
<1> QED
  BY <1>1, OpenedIs

\* Only what the lines j .. k are counts.
LEMMA OpenedSame ==
  ASSUME NEW lines, NEW other, NEW j \in Int, NEW k \in Int,
         \A i \in j .. k : other[i].op = lines[i].op
  PROVE  Opened(other, j, k) = Opened(lines, j, k)
<1>1. /\ Among(other, j, k, "if") = Among(lines, j, k, "if")
      /\ Among(other, j, k, "endif") = Among(lines, j, k, "endif")
  BY DEF Among
<1> QED
  BY <1>1, OpenedIs

LEMMA EnclosesNext ==
  ASSUME NEW lines, NEW j \in Int, NEW m \in Int, j <= m
  PROVE  Encloses(lines, j, m + 1) <=>
           /\ Encloses(lines, j, m)
           /\ lines[j].op = "if"
           /\ Opened(lines, j, m) >= 1
<1>1. j .. (m + 1) - 1 = (j .. m - 1) \cup {m}
  OBVIOUS
<1> QED
  BY <1>1 DEF Encloses
-----------------------------------------------------------------------------
(***************************************************************************)
(* The stack P holds the groups that are open in front of line m, the      *)
(* innermost one last.                                                     *)
(***************************************************************************)
AreOpen(lines, m, P) ==
  /\ \A d \in DOMAIN P : /\ P[d] \in 1 .. m - 1
                         /\ Encloses(lines, P[d], m)
                         /\ Opened(lines, P[d], m - 1) = Len(P) - d + 1
  /\ \A d, e \in DOMAIN P : d < e => P[d] < P[e]
  /\ \A j \in Enclosing(lines, m) : \E d \in DOMAIN P : P[d] = j

LEMMA EnclosingIs ==
  ASSUME NEW lines, NEW m \in Nat, NEW P \in Seq(Nat), AreOpen(lines, m, P)
  PROVE  /\ Enclosing(lines, m) = Range(P)
         /\ P # <<>> => Max(Enclosing(lines, m)) = P[Len(P)]
<1>1. Enclosing(lines, m) = Range(P)
  BY DEF AreOpen, Enclosing, Range
<1>2. ASSUME P # <<>>
      PROVE  Max(Enclosing(lines, m)) = P[Len(P)]
  <2>1. Len(P) \in DOMAIN P /\ \A d \in DOMAIN P : d \in Nat /\ d <= Len(P)
    BY <1>2
  <2>2. \A d \in DOMAIN P : P[d] <= P[Len(P)]
    <3>1. \A d, e \in DOMAIN P : d < e => P[d] < P[e]
      BY DEF AreOpen
    <3>2. \A d \in DOMAIN P : P[d] \in Nat
      OBVIOUS
    <3>3. \A d \in DOMAIN P : d < Len(P) \/ d = Len(P)
      BY <2>1
    <3> QED
      BY <2>1, <3>1, <3>2, <3>3
  <2>3. Range(P) \subseteq Nat /\ P[Len(P)] \in Range(P)
    BY <2>1 DEF Range
  <2>4. \A s \in Range(P) : s <= P[Len(P)]
    BY <2>2 DEF Range
  <2> QED
    BY <1>1, <2>3, <2>4, MaxIs
<1> QED
  BY <1>1, <1>2

LEMMA EnclosesStarts ==
  ASSUME NEW lines, NEW m \in Nat, lines[m].op = "if"
  PROVE  Encloses(lines, m, m + 1) /\ Opened(lines, m, m) = 1
<1>1. Opened(lines, m, m - 1) = 0
  BY OpenedNone
<1>2. Opened(lines, m, m) = 1
  BY <1>1, OpenedNext
<1>3. m .. (m + 1) - 1 = {m}
  OBVIOUS
<1> QED
  BY <1>2, <1>3 DEF Encloses

\* A line that opens a group.
LEMMA OpenPush ==
  ASSUME NEW lines, NEW m \in Nat \ {0}, NEW P \in Seq(Nat),
         AreOpen(lines, m, P), lines[m].op = "if"
  PROVE  AreOpen(lines, m + 1, Append(P, m))
<1> DEFINE Q == Append(P, m)
<1>1. /\ Q \in Seq(Nat) /\ Len(Q) = Len(P) + 1 /\ DOMAIN Q = 1 .. Len(P) + 1
      /\ \A d \in DOMAIN P : Q[d] = P[d]
      /\ Q[Len(P) + 1] = m /\ DOMAIN P = 1 .. Len(P) /\ Len(P) \in Nat
  OBVIOUS
<1> HIDE DEF Q
<1>2. ASSUME NEW d \in DOMAIN P
      PROVE  /\ P[d] \in 1 .. m /\ P[d] < m /\ Encloses(lines, P[d], m + 1)
             /\ Opened(lines, P[d], m) = Len(P) - d + 2
  <2>1. /\ P[d] \in 1 .. m - 1 /\ Encloses(lines, P[d], m)
        /\ Opened(lines, P[d], m - 1) = Len(P) - d + 1
    BY DEF AreOpen
  <2>2. P[d] \in Int /\ P[d] <= m /\ d \in Int /\ d <= Len(P)
    BY <1>1, <2>1
  <2>3. Opened(lines, P[d], m) = Opened(lines, P[d], m - 1) + 1
    BY <2>2, OpenedNext
  <2>4. Opened(lines, P[d], m) = Len(P) - d + 2
    BY <1>1, <2>1, <2>2, <2>3
  <2>5. lines[P[d]].op = "if" /\ Opened(lines, P[d], m) >= 1
    BY <1>1, <2>1, <2>2, <2>4 DEF Encloses
  <2>6. Encloses(lines, P[d], m + 1)
    BY <2>1, <2>2, <2>5, EnclosesNext
  <2> QED
    BY <2>1, <2>4, <2>6
<1>3. Encloses(lines, m, m + 1) /\ Opened(lines, m, m) = 1
  BY EnclosesStarts
<1>4. ASSUME NEW j \in Enclosing(lines, m + 1)
      PROVE  \E d \in DOMAIN Q : Q[d] = j
  <2>1. j \in 1 .. m /\ Encloses(lines, j, m + 1)
    BY DEF Enclosing
  <2>2. CASE j = m
    BY <1>1, <2>2
  <2>3. CASE j # m
    <3>1. j \in Enclosing(lines, m)
      BY <2>1, <2>3, EnclosesNext DEF Enclosing
    <3> QED
      BY <1>1, <3>1 DEF AreOpen
  <2> QED
    BY <2>2, <2>3
<1>5. ASSUME NEW d \in DOMAIN Q
      PROVE  /\ Q[d] \in 1 .. (m + 1) - 1 /\ Encloses(lines, Q[d], m + 1)
             /\ Opened(lines, Q[d], (m + 1) - 1) = Len(Q) - d + 1
  <2>1. (m + 1) - 1 = m
    OBVIOUS
  <2>2. CASE d \in DOMAIN P
    BY <1>1, <1>2, <2>1, <2>2
  <2>3. CASE d = Len(P) + 1
    BY <1>1, <1>3, <2>1, <2>3
  <2> QED
    BY <1>1, <2>2, <2>3
<1>6. \A d, e \in DOMAIN Q : d < e => Q[d] < Q[e]
  <2>1. \A d, e \in DOMAIN P : d < e => P[d] < P[e]
    BY DEF AreOpen
  <2> SUFFICES ASSUME NEW d \in DOMAIN Q, NEW e \in DOMAIN Q, d < e
               PROVE  Q[d] < Q[e]
    OBVIOUS
  <2>2. d \in DOMAIN P
    BY <1>1
  <2>3. CASE e \in DOMAIN P
    BY <1>1, <2>1, <2>2, <2>3
  <2>4. CASE e = Len(P) + 1
    BY <1>1, <1>2, <2>2, <2>4
  <2> QED
    BY <1>1, <2>3, <2>4
<1> QED
  BY <1>4, <1>5, <1>6 DEF AreOpen, Q

LEMMA FrontIs ==
  ASSUME NEW S, NEW s \in Seq(S), s # <<>>
  PROVE  /\ Front(s) \in Seq(S) /\ Len(Front(s)) = Len(s) - 1
         /\ DOMAIN Front(s) = 1 .. Len(s) - 1
         /\ \A d \in DOMAIN Front(s) : /\ Front(s)[d] = s[d]
                                       /\ d \in DOMAIN s /\ d < Len(s)
         /\ DOMAIN s = 1 .. Len(s) /\ Len(s) \in Nat \ {0}
<1>1. Len(s) \in Nat \ {0} /\ DOMAIN s = 1 .. Len(s)
  OBVIOUS
<1>2. Front(s) = SubSeq(s, 1, Len(s) - 1)
  BY DEF Front
<1> QED
  BY <1>1, <1>2

\* A line that closes the innermost one.
LEMMA OpenPop ==
  ASSUME NEW lines, NEW m \in Nat \ {0}, NEW P \in Seq(Nat),
         AreOpen(lines, m, P), lines[m].op = "endif", P # <<>>
  PROVE  AreOpen(lines, m + 1, Front(P))
<1> DEFINE Q == Front(P)
<1>1. /\ Q \in Seq(Nat) /\ Len(Q) = Len(P) - 1 /\ DOMAIN Q = 1 .. Len(P) - 1
      /\ \A d \in DOMAIN Q : Q[d] = P[d] /\ d \in DOMAIN P /\ d < Len(P)
      /\ DOMAIN P = 1 .. Len(P) /\ Len(P) \in Nat \ {0}
  BY FrontIs
<1> HIDE DEF Q
<1>2. ASSUME NEW d \in DOMAIN P
      PROVE  /\ P[d] \in 1 .. m - 1 /\ Encloses(lines, P[d], m)
             /\ Opened(lines, P[d], m) = Len(P) - d
             /\ d < Len(P) <=> Encloses(lines, P[d], m + 1)
  <2>1. /\ P[d] \in 1 .. m - 1 /\ Encloses(lines, P[d], m)
        /\ Opened(lines, P[d], m - 1) = Len(P) - d + 1
    BY DEF AreOpen
  <2>2. P[d] \in Int /\ P[d] <= m /\ d \in Int /\ d <= Len(P)
    BY <1>1, <2>1
  <2>3. Opened(lines, P[d], m) = Opened(lines, P[d], m - 1) - 1
    <3>1. Opened(lines, P[d], m - 1) \in Int
      BY <1>1, <2>1, <2>2
    <3>2. Opened(lines, P[d], m) = Opened(lines, P[d], m - 1) + (-1)
      BY <2>2, OpenedNext
    <3> QED
      BY <3>1, <3>2
  <2>4. Opened(lines, P[d], m) = Len(P) - d
    BY <1>1, <2>1, <2>2, <2>3
  <2>5. lines[P[d]].op = "if" /\ (d < Len(P) <=> Opened(lines, P[d], m) >= 1)
    BY <1>1, <2>1, <2>2, <2>4 DEF Encloses
  <2>6. d < Len(P) <=> Encloses(lines, P[d], m + 1)
    BY <2>1, <2>2, <2>5, EnclosesNext
  <2> QED
    BY <2>1, <2>4, <2>6
<1>3. ASSUME NEW j \in Enclosing(lines, m + 1)
      PROVE  \E d \in DOMAIN Q : Q[d] = j
  <2>1. j \in 1 .. m /\ Encloses(lines, j, m + 1)
    BY DEF Enclosing
  <2>2. j # m
    BY <2>1 DEF Encloses
  <2>3. j \in Enclosing(lines, m)
    BY <2>1, <2>2, EnclosesNext DEF Enclosing
  <2>4. PICK d \in DOMAIN P : P[d] = j
    BY <2>3 DEF AreOpen
  <2>5. d < Len(P)
    BY <1>2, <2>1, <2>4
  <2>6. d \in DOMAIN Q /\ Q[d] = P[d]
    BY <1>1, <2>5
  <2> QED
    BY <2>4, <2>6
<1>4. \A d, e \in DOMAIN Q : d < e => Q[d] < Q[e]
  <2>1. \A d, e \in DOMAIN P : d < e => P[d] < P[e]
    BY DEF AreOpen
  <2> QED
    BY <1>1, <2>1
<1>5. ASSUME NEW d \in DOMAIN Q
      PROVE  /\ Q[d] \in 1 .. (m + 1) - 1 /\ Encloses(lines, Q[d], m + 1)
             /\ Opened(lines, Q[d], (m + 1) - 1) = Len(Q) - d + 1
  <2>1. (m + 1) - 1 = m
    OBVIOUS
  <2>2. d \in DOMAIN P /\ d < Len(P) /\ Q[d] = P[d]
    BY <1>1
  <2>3. Opened(lines, P[d], m) = Len(P) - d /\ P[d] \in 1 .. m
        /\ Encloses(lines, P[d], m + 1)
    BY <1>2, <2>2
  <2> QED
    BY <1>1, <2>1, <2>2, <2>3
<1> QED
  BY <1>3, <1>4, <1>5 DEF AreOpen, Q

\* Lines that neither open a group nor close one that is open.
LEMMA OpenRun ==
  ASSUME NEW lines, NEW m \in Nat \ {0}, NEW n \in Nat, m <= n,
         NEW P \in Seq(Nat), AreOpen(lines, m, P),
         \/ \A i \in m .. n - 1 : lines[i].op \notin {"if", "endif"}
         \/ n = m + 1 /\ lines[m].op # "if" /\ P = <<>>
  PROVE  AreOpen(lines, n, P)
<1>1. \A i \in m .. n - 1 : lines[i].op # "if"
  OBVIOUS
<1>2. ASSUME NEW j \in Enclosing(lines, n)
      PROVE  j \in Enclosing(lines, m)
  <2>1. j \in 1 .. n - 1 /\ Encloses(lines, j, n)
    BY DEF Enclosing
  <2>2. j \notin m .. n - 1
    BY <1>1, <2>1 DEF Encloses
  <2>3. \A k \in j .. m - 1 : k \in j .. n - 1
    OBVIOUS
  <2> QED
    BY <2>1, <2>2, <2>3 DEF Encloses, Enclosing
<1>3. ASSUME NEW d \in DOMAIN P
      PROVE  /\ P[d] \in 1 .. n - 1 /\ Encloses(lines, P[d], n)
             /\ Opened(lines, P[d], n - 1) = Len(P) - d + 1
  <2>1. /\ P[d] \in 1 .. m - 1 /\ Encloses(lines, P[d], m)
        /\ Opened(lines, P[d], m - 1) = Len(P) - d + 1
    BY DEF AreOpen
  <2>2. \A i \in m .. n - 1 : lines[i].op \notin {"if", "endif"}
    OBVIOUS
  <2>3. ASSUME NEW k \in m - 1 .. n - 1
        PROVE  Opened(lines, P[d], k) = Len(P) - d + 1
    <3>1. \A i \in m .. k : i \in m .. n - 1
      OBVIOUS
    <3> QED
      BY <2>1, <2>2, <3>1, OpenedRun
  <2>4. \A k \in P[d] .. n - 1 : Opened(lines, P[d], k) >= 1
    <3>1. ASSUME NEW k \in P[d] .. n - 1
          PROVE  Opened(lines, P[d], k) >= 1
      <4>1. CASE k \in P[d] .. m - 1
        BY <2>1, <4>1 DEF Encloses
      <4>2. CASE k \notin P[d] .. m - 1
        <5>1. k \in m - 1 .. n - 1 /\ d <= Len(P) /\ d \in Nat
          BY <2>1, <4>2
        <5> QED
          BY <2>3, <5>1
      <4> QED
        BY <4>1, <4>2
    <3> QED
      BY <3>1
  <2>5. n - 1 \in m - 1 .. n - 1
    OBVIOUS
  <2> QED
    BY <2>1, <2>3, <2>4, <2>5 DEF Encloses
<1>4. /\ \A d, e \in DOMAIN P : d < e => P[d] < P[e]
      /\ \A j \in Enclosing(lines, m) : \E d \in DOMAIN P : P[d] = j
  BY DEF AreOpen
<1> QED
  BY <1>2, <1>3, <1>4 DEF AreOpen
-----------------------------------------------------------------------------
(***************************************************************************)
(* The branch heads of an open group, line by line.                        *)
(***************************************************************************)
Branches == {"elif", "else"}

LEMMA HeadsType ==
  ASSUME NEW lines, NEW j \in Nat, NEW i \in Nat, j < i
  PROVE  Heads(lines, j, i) \subseteq j .. i - 1 /\ j \in Heads(lines, j, i)
BY DEF Heads

LEMMA HeadsRun ==
  ASSUME NEW lines, NEW m \in Nat, NEW n \in Nat, m <= n, NEW j \in 1 .. m - 1,
         \A i \in m .. n - 1 : lines[i].op \notin Branches
  PROVE  Heads(lines, j, n) = Heads(lines, j, m)
BY DEF Heads, Branches

LEMMA HeadsNext ==
  ASSUME NEW lines, NEW m \in Nat, NEW P \in Seq(Nat), AreOpen(lines, m, P),
         NEW d \in DOMAIN P, lines[m].op \in Branches
  PROVE  Heads(lines, P[d], m + 1) =
           Heads(lines, P[d], m) \cup (IF d = Len(P) THEN {m} ELSE {})
<1>1. P[d] \in 1 .. m - 1
  BY DEF AreOpen
<1>2. P # <<>> /\ Len(P) \in DOMAIN P /\ d \in Nat /\ Len(P) \in Nat /\ d <= Len(P)
  OBVIOUS
<1>3. Max(Enclosing(lines, m)) = P[Len(P)]
  BY <1>2, EnclosingIs
<1>4. P[d] = P[Len(P)] <=> d = Len(P)
  <2>1. d < Len(P) => P[d] < P[Len(P)]
    BY <1>2 DEF AreOpen
  <2>2. P[d] \in Nat /\ P[Len(P)] \in Nat
    BY <1>2
  <2> QED
    BY <1>2, <2>1, <2>2
<1>5. P[d] + 1 .. (m + 1) - 1 = (P[d] + 1 .. m - 1) \cup {m}
  BY <1>1
<1>6. CASE d = Len(P)
  <2>1. lines[m].op \in {"elif", "else"} /\ Max(Enclosing(lines, m)) = P[d]
    BY <1>3, <1>6 DEF Branches
  <2> QED
    BY <1>5, <1>6, <2>1 DEF Heads
<1>7. CASE d # Len(P)
  <2>1. Max(Enclosing(lines, m)) # P[d]
    BY <1>3, <1>4, <1>7
  <2> QED
    BY <1>5, <1>7, <2>1 DEF Heads
<1> QED
  BY <1>6, <1>7

LEMMA KeepsAtStart ==
  ASSUME NEW lines, NEW holding, NEW m \in Nat, lines[m].op = "if"
  PROVE  /\ Heads(lines, m, m + 1) = {m}
         /\ Keeps(lines, holding, m, m + 1) <=> m \in holding
<1>1. Heads(lines, m, m + 1) = {m}
  BY DEF Heads
<1>2. Max({m}) = m
  BY MaxIs
<1> QED
  BY <1>1, <1>2 DEF Keeps, Admits

LEMMA KeepsNext ==
  ASSUME NEW lines, NEW holding, NEW m \in Nat, NEW j \in 1 .. m - 1,
         Heads(lines, j, m + 1) = Heads(lines, j, m) \cup {m}
  PROVE  Keeps(lines, holding, j, m + 1) <=>
           /\ Admits(lines, holding, m)
           /\ \A b \in Heads(lines, j, m) : ~Admits(lines, holding, b)
<1>1. Heads(lines, j, m) \subseteq 1 .. m - 1
  BY HeadsType
<1>2. Max(Heads(lines, j, m + 1)) = m
  <2>1. Heads(lines, j, m + 1) \subseteq Nat /\ m \in Heads(lines, j, m + 1)
    BY <1>1
  <2>2. \A b \in Heads(lines, j, m + 1) : b <= m
    BY <1>1
  <2> QED
    BY <2>1, <2>2, MaxIs
<1>3. Heads(lines, j, m + 1) \ {m} = Heads(lines, j, m)
  BY <1>1
<1> QED
  BY <1>2, <1>3 DEF Keeps
-----------------------------------------------------------------------------
(***************************************************************************)
(* The levels of the stack: d is in A when level d is active, in T when it *)
(* counts as taken.  As long as the levels below it are active, a level is *)
(* active when its group keeps the branch the scan is in, and taken when   *)
(* a branch so far may be kept.  Above a level that is not active, a level *)
(* is not active and counts as taken.                                      *)
(***************************************************************************)
LevelFits(lines, holding, m, P, A, T, d) ==
  IF \A e \in 1 .. d - 1 : e \in A
  THEN /\ d \in A <=> Keeps(lines, holding, P[d], m)
       /\ d \in T <=> \E b \in Heads(lines, P[d], m) : Admits(lines, holding, b)
  ELSE d \notin A /\ d \in T

Stacked(lines, holding, m, P, A, T) ==
  /\ AreOpen(lines, m, P)
  /\ \A d \in DOMAIN P : LevelFits(lines, holding, m, P, A, T, d)

\* What skipping() asks of the innermost level decides for all of them.
TopIsLive(P, A) == P = <<>> \/ Len(P) \in A

LEMMA LiveIsTop ==
  ASSUME NEW lines, NEW holding, NEW m \in Nat, NEW P \in Seq(Nat), NEW A, NEW T,
         Stacked(lines, holding, m, P, A, T)
  PROVE  /\ IsLive(lines, holding, m) <=> TopIsLive(P, A)
         /\ TopIsLive(P, A) => \A d \in DOMAIN P : d \in A
<1>1. IsLive(lines, holding, m) <=> \A d \in DOMAIN P : Keeps(lines, holding, P[d], m)
  BY EnclosingIs DEF IsLive, Range, Stacked
<1>2. DOMAIN P = 1 .. Len(P) /\ Len(P) \in Nat
  OBVIOUS
<1> DEFINE dead == {d \in DOMAIN P : d \notin A}
<1>3. CASE dead = {}
  <2>1. \A d \in DOMAIN P : d \in A
    BY <1>3
  <2>2. \A d \in DOMAIN P : Keeps(lines, holding, P[d], m)
    <3>1. ASSUME NEW d \in DOMAIN P
          PROVE  Keeps(lines, holding, P[d], m)
      <4>1. \A e \in 1 .. d - 1 : e \in A
        BY <1>2, <2>1
      <4> QED
        BY <2>1, <4>1 DEF Stacked, LevelFits
    <3> QED
      BY <3>1
  <2>3. P = <<>> \/ Len(P) \in DOMAIN P
    BY <1>2
  <2> QED
    BY <1>1, <2>1, <2>2, <2>3 DEF TopIsLive
<1>4. CASE dead # {}
  <2>1. PICK d \in dead : \A e \in dead : d <= e
    <3>1. dead \subseteq Nat
      BY <1>2
    <3> QED
      BY <1>4, <3>1, SetMinimum
  <2>2. d \in DOMAIN P /\ d \notin A /\ d \in 1 .. Len(P)
    BY <1>2
  <2>3. \A e \in 1 .. d - 1 : e \in A
    BY <1>2, <2>1, <2>2
  <2>4. ~Keeps(lines, holding, P[d], m)
    BY <2>2, <2>3 DEF Stacked, LevelFits
  <2>5. P # <<>> /\ Len(P) \in DOMAIN P
    BY <1>2, <2>2
  <2>6. Len(P) \notin A
    <3>1. CASE d = Len(P)
      BY <2>2, <3>1
    <3>2. CASE d # Len(P)
      <4>1. d \in 1 .. Len(P) - 1
        BY <2>2, <3>2
      <4> QED
        BY <2>2, <2>5, <4>1 DEF Stacked, LevelFits
    <3> QED
      BY <3>1, <3>2
  <2> QED
    BY <1>1, <2>2, <2>4, <2>5, <2>6 DEF TopIsLive
<1> QED
  BY <1>3, <1>4

Directives == {"if", "endif"} \cup Branches

\* Lines that are none of the four change nothing.
LEMMA StackRun ==
  ASSUME NEW lines, NEW holding, NEW m \in Nat \ {0}, NEW n \in Nat, m <= n,
         NEW P \in Seq(Nat), NEW A, NEW T,
         Stacked(lines, holding, m, P, A, T),
         \A i \in m .. n - 1 : lines[i].op \notin Directives
  PROVE  Stacked(lines, holding, n, P, A, T)
<1>1. AreOpen(lines, n, P)
  BY OpenRun DEF Stacked, Directives
<1>2. ASSUME NEW d \in DOMAIN P
      PROVE  LevelFits(lines, holding, n, P, A, T, d)
  <2>1. P[d] \in 1 .. m - 1
    BY DEF Stacked, AreOpen
  <2>2. Heads(lines, P[d], n) = Heads(lines, P[d], m)
    BY <2>1, HeadsRun DEF Directives
  <2>3. LevelFits(lines, holding, m, P, A, T, d)
    BY DEF Stacked
  <2> QED
    BY <2>2, <2>3 DEF LevelFits, Keeps
<1> QED
  BY <1>1, <1>2 DEF Stacked

\* Neither does an #elif, #else or #endif when no group is open.
LEMMA StackUnmatched ==
  ASSUME NEW lines, NEW holding, NEW m \in Nat \ {0}, NEW A, NEW T,
         Stacked(lines, holding, m, <<>>, A, T), lines[m].op # "if"
  PROVE  Stacked(lines, holding, m + 1, <<>>, A, T)
<1>1. <<>> \in Seq(Nat) /\ DOMAIN <<>> = {}
  OBVIOUS
<1>2. AreOpen(lines, m + 1, <<>>)
  <2>1. m + 1 \in Nat /\ m <= m + 1 /\ AreOpen(lines, m, <<>>)
    BY DEF Stacked
  <2> QED
    BY <1>1, <2>1, OpenRun
<1> QED
  BY <1>1, <1>2 DEF Stacked

\* An #if in live text counts by its condition, in dead text as taken.
LEMMA StackPush ==
  ASSUME NEW lines, NEW holding, NEW m \in Nat \ {0},
         NEW P \in Seq(Nat), NEW A, NEW T, NEW B, NEW U,
         Stacked(lines, holding, m, P, A, T), lines[m].op = "if",
         \A d \in DOMAIN P : (d \in B <=> d \in A) /\ (d \in U <=> d \in T),
         IF TopIsLive(P, A)
         THEN /\ Len(P) + 1 \in B <=> m \in holding
              /\ Len(P) + 1 \in U <=> m \in holding
         ELSE Len(P) + 1 \notin B /\ Len(P) + 1 \in U
  PROVE  Stacked(lines, holding, m + 1, Append(P, m), B, U)
<1> DEFINE Q == Append(P, m)
<1>1. /\ DOMAIN Q = 1 .. Len(P) + 1 /\ \A d \in DOMAIN P : Q[d] = P[d]
      /\ Q[Len(P) + 1] = m /\ DOMAIN P = 1 .. Len(P) /\ Len(P) \in Nat
  OBVIOUS
<1>2. AreOpen(lines, m + 1, Q)
  BY OpenPush DEF Stacked
<1> HIDE DEF Q
<1>3. ASSUME NEW d \in DOMAIN P
      PROVE  LevelFits(lines, holding, m + 1, Q, B, U, d)
  <2>1. P[d] \in 1 .. m - 1
    BY DEF Stacked, AreOpen
  <2>2. Heads(lines, P[d], m + 1) = Heads(lines, P[d], m)
    <3>1. \A i \in m .. (m + 1) - 1 : lines[i].op \notin Branches
      BY DEF Branches
    <3> QED
      BY <2>1, <3>1, HeadsRun
  <2>3. LevelFits(lines, holding, m, P, A, T, d)
    BY DEF Stacked
  <2>4. /\ (\A e \in 1 .. d - 1 : e \in A) <=> (\A e \in 1 .. d - 1 : e \in B)
        /\ Q[d] = P[d]
    BY <1>1
  <2> QED
    BY <2>2, <2>3, <2>4 DEF LevelFits, Keeps
<1>4. LevelFits(lines, holding, m + 1, Q, B, U, Len(P) + 1)
  <2>1. /\ Keeps(lines, holding, m, m + 1) <=> m \in holding
        /\ (\E b \in Heads(lines, m, m + 1) : Admits(lines, holding, b))
              <=> m \in holding
    <3>1. /\ Heads(lines, m, m + 1) = {m}
          /\ Keeps(lines, holding, m, m + 1) <=> m \in holding
      BY KeepsAtStart
    <3>2. Admits(lines, holding, m) <=> m \in holding
      BY DEF Admits
    <3> QED
      BY <3>1, <3>2
  <2>2. (\A e \in 1 .. (Len(P) + 1) - 1 : e \in B) <=> TopIsLive(P, A)
    <3>1. 1 .. (Len(P) + 1) - 1 = DOMAIN P
      BY <1>1
    <3>2. TopIsLive(P, A) => \A e \in DOMAIN P : e \in A
      BY LiveIsTop
    <3>3. P = <<>> \/ Len(P) \in DOMAIN P
      BY <1>1
    <3> QED
      BY <3>1, <3>2, <3>3 DEF TopIsLive
  <2> QED
    BY <1>1, <2>1, <2>2 DEF LevelFits
<1>5. \A d \in DOMAIN Q : d \in DOMAIN P \/ d = Len(P) + 1
  BY <1>1
<1> QED
  BY <1>2, <1>3, <1>4, <1>5 DEF Stacked, Q

\* An #endif drops the innermost level.
LEMMA StackPop ==
  ASSUME NEW lines, NEW holding, NEW m \in Nat \ {0},
         NEW P \in Seq(Nat), NEW A, NEW T, NEW B, NEW U, P # <<>>,
         Stacked(lines, holding, m, P, A, T), lines[m].op = "endif",
         \A d \in DOMAIN P : d < Len(P) => (d \in B <=> d \in A) /\ (d \in U <=> d \in T)
  PROVE  Stacked(lines, holding, m + 1, Front(P), B, U)
<1> DEFINE Q == Front(P)
<1>1. /\ \A d \in DOMAIN Q : Q[d] = P[d] /\ d \in DOMAIN P /\ d < Len(P)
      /\ DOMAIN P = 1 .. Len(P)
  BY FrontIs
<1>2. AreOpen(lines, m + 1, Q)
  BY OpenPop DEF Stacked
<1> HIDE DEF Q
<1>3. ASSUME NEW d \in DOMAIN Q
      PROVE  LevelFits(lines, holding, m + 1, Q, B, U, d)
  <2>1. d \in DOMAIN P /\ Q[d] = P[d] /\ d < Len(P) /\ P[d] \in 1 .. m - 1
    BY <1>1 DEF Stacked, AreOpen
  <2>2. Heads(lines, P[d], m + 1) = Heads(lines, P[d], m)
    <3>1. \A i \in m .. (m + 1) - 1 : lines[i].op \notin Branches
      BY DEF Branches
    <3>2. m + 1 \in Nat /\ m <= m + 1 /\ P[d] \in 1 .. m - 1
      BY <2>1
    <3> QED
      BY <3>1, <3>2, HeadsRun
  <2>3. LevelFits(lines, holding, m, P, A, T, d)
    BY <2>1 DEF Stacked
  <2>4. (\A e \in 1 .. d - 1 : e \in A) <=> (\A e \in 1 .. d - 1 : e \in B)
    BY <1>1, <2>1
  <2> QED
    BY <2>1, <2>2, <2>3, <2>4 DEF LevelFits, Keeps
<1> QED
  BY <1>2, <1>3 DEF Stacked, Q

\* A further branch of the innermost group.
LEMMA StackBranch ==
  ASSUME NEW lines, NEW holding, NEW m \in Nat \ {0},
         NEW P \in Seq(Nat), NEW A, NEW T, NEW B, NEW U, P # <<>>,
         Stacked(lines, holding, m, P, A, T), lines[m].op \in Branches,
         \A d \in DOMAIN P : d < Len(P) => (d \in B <=> d \in A) /\ (d \in U <=> d \in T),
         Len(P) \in B <=> Len(P) \notin T /\ Admits(lines, holding, m),
         Len(P) \in U <=> Len(P) \in T \/ Admits(lines, holding, m)
  PROVE  Stacked(lines, holding, m + 1, P, B, U)
<1>1. DOMAIN P = 1 .. Len(P) /\ Len(P) \in Nat \ {0}
  OBVIOUS
<1>2. AreOpen(lines, m + 1, P)
  <2>1. \A i \in m .. (m + 1) - 1 : lines[i].op \notin {"if", "endif"}
    BY DEF Branches
  <2> QED
    BY <2>1, OpenRun DEF Stacked
<1>3. ASSUME NEW d \in DOMAIN P
      PROVE  LevelFits(lines, holding, m + 1, P, B, U, d)
  <2>1. P[d] \in 1 .. m - 1
    BY DEF Stacked, AreOpen
  <2>2. Heads(lines, P[d], m + 1) =
          Heads(lines, P[d], m) \cup (IF d = Len(P) THEN {m} ELSE {})
    BY HeadsNext DEF Stacked
  <2>3. LevelFits(lines, holding, m, P, A, T, d)
    BY DEF Stacked
  <2>4. (\A e \in 1 .. d - 1 : e \in A) <=> (\A e \in 1 .. d - 1 : e \in B)
    <3>1. \A e \in 1 .. d - 1 : e \in DOMAIN P /\ e < Len(P)
      BY <1>1
    <3> QED
      BY <3>1
  <2>5. CASE d < Len(P)
    <3>0. d # Len(P)
      BY <1>1, <2>5
    <3>1. Heads(lines, P[d], m + 1) = Heads(lines, P[d], m)
      BY <2>2, <3>0
    <3> QED
      BY <2>3, <2>4, <2>5, <3>1 DEF LevelFits, Keeps
  <2>6. CASE d = Len(P)
    <3>1. Heads(lines, P[d], m + 1) = Heads(lines, P[d], m) \cup {m}
      BY <2>2, <2>6
    <3>2. Keeps(lines, holding, P[d], m + 1) <=>
            /\ Admits(lines, holding, m)
            /\ \A b \in Heads(lines, P[d], m) : ~Admits(lines, holding, b)
      BY <2>1, <3>1, KeepsNext
    <3> QED
      BY <2>3, <2>4, <2>6, <3>1, <3>2 DEF LevelFits
  <2> QED
    BY <1>1, <2>5, <2>6
<1> QED
  BY <1>2, <1>3 DEF Stacked
-----------------------------------------------------------------------------
(***************************************************************************)
(* What is said of the lines in front of m is the same of any text that    *)
(* has the same directives and conditions there.                           *)
(***************************************************************************)
SameUpTo(lines, holding, other, holds, m) ==
  \A k \in 1 .. m - 1 : /\ other[k].op = lines[k].op
                        /\ k \in holds <=> k \in holding

LEMMA EnclosingSame ==
  ASSUME NEW lines, NEW holding, NEW other, NEW holds, NEW m \in Nat,
         SameUpTo(lines, holding, other, holds, m), NEW i \in Nat, i <= m
  PROVE  Enclosing(other, i) = Enclosing(lines, i)
<1>1. ASSUME NEW j \in 1 .. i - 1
      PROVE  Encloses(other, j, i) <=> Encloses(lines, j, i)
  <2>1. ASSUME NEW k \in j .. i - 1
        PROVE  Opened(other, j, k) = Opened(lines, j, k)
    <3>1. \A x \in j .. k : other[x].op = lines[x].op
      BY DEF SameUpTo
    <3> QED
      BY <3>1, OpenedSame
  <2>2. other[j].op = lines[j].op
    BY DEF SameUpTo
  <2> QED
    BY <2>1, <2>2 DEF Encloses
<1> QED
  BY <1>1 DEF Enclosing

LEMMA KeepsSame ==
  ASSUME NEW lines, NEW holding, NEW other, NEW holds, NEW m \in Nat,
         SameUpTo(lines, holding, other, holds, m), NEW i \in Nat, i <= m
  PROVE  /\ \A j \in 1 .. i - 1 :
              /\ Heads(other, j, i) = Heads(lines, j, i)
              /\ Keeps(other, holds, j, i) <=> Keeps(lines, holding, j, i)
         /\ \A b \in 1 .. i - 1 :
              Admits(other, holds, b) <=> Admits(lines, holding, b)
         /\ IsLive(other, holds, i) <=> IsLive(lines, holding, i)
<1>1. ASSUME NEW j \in 1 .. i - 1
      PROVE  Heads(other, j, i) = Heads(lines, j, i)
  <2>1. ASSUME NEW b \in j + 1 .. i - 1
        PROVE  /\ other[b].op = lines[b].op
               /\ Enclosing(other, b) = Enclosing(lines, b)
    <3>1. b \in 1 .. m - 1 /\ b \in Nat /\ b <= m
      OBVIOUS
    <3>2. other[b].op = lines[b].op
      BY <3>1 DEF SameUpTo
    <3>3. Enclosing(other, b) = Enclosing(lines, b)
      BY <3>1, EnclosingSame
    <3> QED
      BY <3>2, <3>3
  <2> QED
    BY <2>1 DEF Heads
<1>2. ASSUME NEW b \in 1 .. i - 1
      PROVE  Admits(other, holds, b) <=> Admits(lines, holding, b)
  BY DEF SameUpTo, Admits
<1>3. ASSUME NEW j \in 1 .. i - 1
      PROVE  Keeps(other, holds, j, i) <=> Keeps(lines, holding, j, i)
  <2>1. Heads(lines, j, i) \subseteq 1 .. i - 1 /\ Heads(lines, j, i) \subseteq Nat
        /\ Heads(lines, j, i) # {} /\ \A b \in Heads(lines, j, i) : b <= i
    BY HeadsType
  <2>2. Max(Heads(lines, j, i)) \in Heads(lines, j, i)
    BY <2>1, MaxOf
  <2>3. \A b \in Heads(lines, j, i) :
          Admits(other, holds, b) <=> Admits(lines, holding, b)
    BY <1>2, <2>1
  <2> QED
    BY <1>1, <2>2, <2>3 DEF Keeps
<1>4. IsLive(other, holds, i) <=> IsLive(lines, holding, i)
  <2>1. Enclosing(other, i) = Enclosing(lines, i)
    BY EnclosingSame
  <2>2. Enclosing(lines, i) \subseteq 1 .. i - 1
    BY DEF Enclosing
  <2> QED
    BY <1>3, <2>1, <2>2 DEF IsLive
<1> QED
  BY <1>1, <1>2, <1>3, <1>4

LEMMA StackSame ==
  ASSUME NEW lines, NEW holding, NEW other, NEW holds, NEW m \in Nat,
         SameUpTo(lines, holding, other, holds, m),
         NEW P \in Seq(Nat), NEW A, NEW T,
         Stacked(lines, holding, m, P, A, T)
  PROVE  Stacked(other, holds, m, P, A, T)
<1>1. \A d \in DOMAIN P : P[d] \in 1 .. m - 1
  BY DEF Stacked, AreOpen
<1>2. Enclosing(other, m) = Enclosing(lines, m)
  BY EnclosingSame
<1>3. AreOpen(other, m, P)
  <2>1. ASSUME NEW d \in DOMAIN P
        PROVE  /\ Encloses(other, P[d], m)
               /\ Opened(other, P[d], m - 1) = Len(P) - d + 1
    <3>1. Encloses(lines, P[d], m) /\ Opened(lines, P[d], m - 1) = Len(P) - d + 1
      BY DEF Stacked, AreOpen
    <3>2. P[d] \in Enclosing(lines, m)
      BY <1>1, <3>1 DEF Enclosing
    <3>3. Encloses(other, P[d], m)
      BY <1>2, <3>2 DEF Enclosing
    <3>4. \A x \in P[d] .. m - 1 : other[x].op = lines[x].op
      BY <1>1 DEF SameUpTo
    <3>5. Opened(other, P[d], m - 1) = Opened(lines, P[d], m - 1)
      BY <1>1, <3>4, OpenedSame
    <3> QED
      BY <3>1, <3>3, <3>5
  <2> QED
    BY <1>1, <1>2, <2>1 DEF AreOpen, Stacked
<1>4. ASSUME NEW d \in DOMAIN P
      PROVE  LevelFits(other, holds, m, P, A, T, d)
  <2>1. LevelFits(lines, holding, m, P, A, T, d)
    BY DEF Stacked
  <2>2. /\ Heads(other, P[d], m) = Heads(lines, P[d], m)
        /\ Keeps(other, holds, P[d], m) <=> Keeps(lines, holding, P[d], m)
        /\ \A b \in 1 .. m - 1 :
              Admits(other, holds, b) <=> Admits(lines, holding, b)
    BY <1>1, KeepsSame
  <2>3. Heads(lines, P[d], m) \subseteq 1 .. m - 1
    BY <1>1, HeadsType
  <2> QED
    BY <2>1, <2>2, <2>3 DEF LevelFits
<1> QED
  BY <1>3, <1>4 DEF Stacked
-----------------------------------------------------------------------------
(***************************************************************************)
(* The place of the innermost group.  What encloses its #if are the other  *)
(* open groups, and each keeps there the branch it keeps at line m.        *)
(***************************************************************************)
LEMMA OpenedSplit ==
  ASSUME NEW lines, NEW j \in Int, NEW p \in Int, NEW k \in Int,
         j <= p, p <= k + 1
  PROVE  Opened(lines, j, k) = Opened(lines, j, p - 1) + Opened(lines, p, k)
<1>1. ASSUME NEW op
      PROVE  /\ Cardinality(Among(lines, j, k, op)) =
                  Cardinality(Among(lines, j, p - 1, op))
                    + Cardinality(Among(lines, p, k, op))
             /\ Cardinality(Among(lines, j, p - 1, op)) \in Nat
             /\ Cardinality(Among(lines, p, k, op)) \in Nat
  <2>1. p - 1 \in Int
    OBVIOUS
  <2>2. /\ IsFiniteSet(Among(lines, j, p - 1, op))
        /\ Cardinality(Among(lines, j, p - 1, op)) \in Nat
        /\ IsFiniteSet(Among(lines, p, k, op))
        /\ Cardinality(Among(lines, p, k, op)) \in Nat
    BY <2>1, OpenedIs
  <2>3. /\ Among(lines, j, k, op) =
             Among(lines, j, p - 1, op) \cup Among(lines, p, k, op)
        /\ Among(lines, j, p - 1, op) \cap Among(lines, p, k, op) = {}
    BY DEF Among
  <2>4. Cardinality(Among(lines, j, k, op)) =
          Cardinality(Among(lines, j, p - 1, op))
            + Cardinality(Among(lines, p, k, op)) - Cardinality({})
    BY <2>2, <2>3, FS_Union
  <2> QED
    BY <2>2, <2>4, FS_EmptySet
<1>2. p - 1 \in Int
  OBVIOUS
<1>3. /\ Opened(lines, j, k) = Cardinality(Among(lines, j, k, "if"))
                                 - Cardinality(Among(lines, j, k, "endif"))
      /\ Opened(lines, j, p - 1) = Cardinality(Among(lines, j, p - 1, "if"))
                                     - Cardinality(Among(lines, j, p - 1, "endif"))
      /\ Opened(lines, p, k) = Cardinality(Among(lines, p, k, "if"))
                                 - Cardinality(Among(lines, p, k, "endif"))
  BY <1>2, OpenedIs
<1> QED
  BY <1>1, <1>3

LEMMA PlaceEnclosed ==
  ASSUME NEW lines, NEW m \in Nat, NEW P \in Seq(Nat), AreOpen(lines, m, P),
         P # <<>>
  PROVE  Enclosing(lines, P[Len(P)]) = {P[d] : d \in 1 .. Len(P) - 1}
<1>1. /\ DOMAIN P = 1 .. Len(P) /\ Len(P) \in Nat \ {0} /\ Len(P) \in DOMAIN P
      /\ \A d \in DOMAIN P : P[d] \in 1 .. m - 1 /\ Encloses(lines, P[d], m)
      /\ \A d, e \in DOMAIN P : d < e => P[d] < P[e]
  BY DEF AreOpen
<1>2. PICK p \in 1 .. m - 1 : p = P[Len(P)]
  BY <1>1
<1>3. ASSUME NEW d \in 1 .. Len(P) - 1
      PROVE  P[d] \in Enclosing(lines, p)
  <2>1. d \in DOMAIN P /\ d < Len(P)
    BY <1>1
  <2>2. P[d] \in 1 .. p - 1 /\ Encloses(lines, P[d], m)
    BY <1>1, <1>2, <2>1
  <2>3. \A k \in P[d] .. p - 1 : k \in P[d] .. m - 1
    BY <1>2
  <2> QED
    BY <2>2, <2>3 DEF Enclosing, Encloses
<1>4. ASSUME NEW j \in Enclosing(lines, p)
      PROVE  \E d \in 1 .. Len(P) - 1 : P[d] = j
  <2>1. j \in 1 .. p - 1 /\ Encloses(lines, j, p) /\ Encloses(lines, p, m)
    BY <1>1, <1>2 DEF Enclosing
  <2>2. ASSUME NEW k \in j .. m - 1
        PROVE  Opened(lines, j, k) >= 1
    <3>1. CASE k < p
      BY <2>1, <3>1 DEF Encloses
    <3>2. CASE k >= p
      <4>1. Opened(lines, j, p - 1) >= 1 /\ Opened(lines, p, k) >= 1
        BY <2>1, <3>2 DEF Encloses
      <4>2. Opened(lines, j, k) = Opened(lines, j, p - 1) + Opened(lines, p, k)
        BY <2>1, <3>2, OpenedSplit
      <4>3. Opened(lines, j, p - 1) \in Int /\ Opened(lines, p, k) \in Int
        <5>1. j \in Int /\ p - 1 \in Int /\ p \in Int /\ k \in Int
          BY <2>1
        <5> QED
          BY <5>1, OpenedIs
      <4> QED
        BY <4>1, <4>2, <4>3
    <3> QED
      BY <2>1, <3>1, <3>2
  <2>3. j \in Enclosing(lines, m)
    BY <1>2, <2>1, <2>2 DEF Enclosing, Encloses
  <2>4. PICK d \in DOMAIN P : P[d] = j
    BY <2>3 DEF AreOpen
  <2>5. d # Len(P)
    BY <1>2, <2>1, <2>4
  <2> QED
    BY <1>1, <2>4, <2>5
<1>5. \A j \in Enclosing(lines, p) : j \in {P[d] : d \in 1 .. Len(P) - 1}
  BY <1>4
<1> QED
  BY <1>2, <1>3, <1>5

LEMMA PlaceHeads ==
  ASSUME NEW lines, NEW m \in Nat, NEW P \in Seq(Nat), AreOpen(lines, m, P),
         P # <<>>, NEW d \in 1 .. Len(P) - 1
  PROVE  Heads(lines, P[d], m) = Heads(lines, P[d], P[Len(P)])
<1>1. /\ DOMAIN P = 1 .. Len(P) /\ Len(P) \in Nat \ {0} /\ Len(P) \in DOMAIN P
      /\ \A e \in DOMAIN P : P[e] \in 1 .. m - 1 /\ Encloses(lines, P[e], m)
      /\ d \in DOMAIN P /\ d < Len(P) /\ P[d] < P[Len(P)]
  <2>1. /\ DOMAIN P = 1 .. Len(P) /\ Len(P) \in Nat \ {0}
        /\ d \in DOMAIN P /\ Len(P) \in DOMAIN P /\ d < Len(P)
    OBVIOUS
  <2>2. \A e \in DOMAIN P : P[e] \in 1 .. m - 1 /\ Encloses(lines, P[e], m)
    BY DEF AreOpen
  <2>3. \A e, f \in DOMAIN P : e < f => P[e] < P[f]
    BY DEF AreOpen
  <2>4. P[d] < P[Len(P)]
    BY <2>1, <2>3
  <2> QED
    BY <2>1, <2>2, <2>4
<1>2. PICK p \in 1 .. m - 1 : p = P[Len(P)]
  BY <1>1
<1>3. PICK j \in 1 .. p - 1 : j = P[d]
  BY <1>1, <1>2
<1>4. ASSUME NEW b \in p .. m - 1, lines[b].op \in {"elif", "else"}
      PROVE  Max(Enclosing(lines, b)) # j
  <2>1. Encloses(lines, p, m) /\ lines[p].op = "if"
    BY <1>1, <1>2 DEF Encloses
  <2>2. b # p
    BY <1>4, <2>1
  <2>3. b \in Nat /\ p \in 1 .. b - 1
    BY <2>2
  <2>4. \A k \in p .. b - 1 : k \in p .. m - 1
    OBVIOUS
  <2>5. p \in Enclosing(lines, b)
    BY <2>1, <2>3, <2>4 DEF Enclosing, Encloses
  <2>6. /\ Enclosing(lines, b) \subseteq Nat /\ Enclosing(lines, b) # {}
        /\ \A s \in Enclosing(lines, b) : s <= b
    BY <2>5 DEF Enclosing
  <2>7. /\ Max(Enclosing(lines, b)) \in Enclosing(lines, b)
        /\ \A s \in Enclosing(lines, b) : s <= Max(Enclosing(lines, b))
    BY <2>3, <2>6, MaxOf
  <2>8. p <= Max(Enclosing(lines, b))
    BY <2>5, <2>7
  <2> QED
    BY <2>8
<1>5. \A b \in j + 1 .. m - 1 : b \in j + 1 .. p - 1 \/ b \in p .. m - 1
  OBVIOUS
<1>6. \A b \in j + 1 .. p - 1 : b \in j + 1 .. m - 1
  OBVIOUS
<1>7. Heads(lines, j, m) = Heads(lines, j, p)
  BY <1>4, <1>5, <1>6 DEF Heads
<1> QED
  BY <1>2, <1>3, <1>7

\* The innermost level is not taken where a condition has to be looked at.
LEMMA StackEvaluates ==
  ASSUME NEW lines, NEW holding, NEW m \in Nat, NEW P \in Seq(Nat), NEW A, NEW T,
         Stacked(lines, holding, m, P, A, T), P # <<>>
  PROVE  LET j == Max(Enclosing(lines, m))
         IN Len(P) \notin T <=>
              /\ IsLive(lines, holding, j)
              /\ \A b \in Heads(lines, j, m) : ~Admits(lines, holding, b)
<1>1. /\ DOMAIN P = 1 .. Len(P) /\ Len(P) \in Nat \ {0} /\ Len(P) \in DOMAIN P
      /\ AreOpen(lines, m, P)
  BY DEF Stacked
<1>2. PICK p : p = P[Len(P)]
  OBVIOUS
<1>3. Max(Enclosing(lines, m)) = p
  BY <1>1, <1>2, EnclosingIs
<1>4. ASSUME NEW d \in 1 .. Len(P) - 1
      PROVE  Keeps(lines, holding, P[d], p) <=> Keeps(lines, holding, P[d], m)
  <2>1. Heads(lines, P[d], m) = Heads(lines, P[d], p)
    BY <1>1, <1>2, PlaceHeads
  <2> QED
    BY <2>1 DEF Keeps
<1>5. IsLive(lines, holding, p) <=>
        \A d \in 1 .. Len(P) - 1 : Keeps(lines, holding, P[d], m)
  <2>1. Enclosing(lines, p) = {P[d] : d \in 1 .. Len(P) - 1}
    BY <1>1, <1>2, PlaceEnclosed
  <2> QED
    BY <1>4, <2>1 DEF IsLive
<1>6. (\A d \in 1 .. Len(P) - 1 : Keeps(lines, holding, P[d], m)) <=>
        \A d \in 1 .. Len(P) - 1 : d \in A
  <2> DEFINE dead == {d \in 1 .. Len(P) - 1 : d \notin A}
  <2>1. CASE dead = {}
    <3>1. ASSUME NEW d \in 1 .. Len(P) - 1
          PROVE  Keeps(lines, holding, P[d], m) /\ d \in A
      <4>1. d \in DOMAIN P /\ \A e \in 1 .. d - 1 : e \in 1 .. Len(P) - 1
        BY <1>1
      <4>2. d \in A /\ \A e \in 1 .. d - 1 : e \in A
        BY <2>1, <4>1
      <4>3. LevelFits(lines, holding, m, P, A, T, d)
        BY <4>1 DEF Stacked
      <4> QED
        BY <4>2, <4>3 DEF LevelFits
    <3> QED
      BY <3>1
  <2>2. CASE dead # {}
    <3>1. PICK d \in dead : \A e \in dead : d <= e
      <4>1. dead \subseteq Nat
        OBVIOUS
      <4> QED
        BY <2>2, <4>1, SetMinimum
    <3>2. d \in 1 .. Len(P) - 1 /\ d \notin A /\ d \in DOMAIN P
      BY <1>1
    <3>3. \A e \in 1 .. d - 1 : e \in A
      BY <1>1, <3>1, <3>2
    <3>4. ~Keeps(lines, holding, P[d], m)
      BY <3>2, <3>3 DEF Stacked, LevelFits
    <3> QED
      BY <3>2, <3>4
  <2> QED
    BY <2>1, <2>2
<1>7. LevelFits(lines, holding, m, P, A, T, Len(P))
  BY <1>1 DEF Stacked
<1>8. Len(P) \notin T <=>
        /\ \A d \in 1 .. Len(P) - 1 : d \in A
        /\ \A b \in Heads(lines, p, m) : ~Admits(lines, holding, b)
  BY <1>2, <1>7 DEF LevelFits
<1> QED
  BY <1>3, <1>5, <1>6, <1>8
=============================================================================
