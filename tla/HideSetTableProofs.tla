------------------------- MODULE HideSetTableProofs -------------------------
(***************************************************************************)
(* HideSetTable's operations compute what their names promise, in any      *)
(* order, over any set of names.                                           *)
(***************************************************************************)
EXTENDS HideSetTable, TLAPS

(***************************************************************************)
(* intern() answers with the id of the set it was given and disturbs none. *)
(***************************************************************************)
LEMMA InternCorrect ==
  ASSUME NEW t, Interned(t), NEW s \in SUBSET Names
  PROVE  LET r == Intern(t, s)
         IN /\ Interned(r.table) /\ Extends(t, r.table)
            /\ r.id \in Ids(r.table) /\ r.table.sets[r.id] = s
<1>1. CASE s \in DOMAIN t.index
  BY <1>1 DEF Intern, Answer, Interned, Extends, Ids
<1>2. CASE s \notin DOMAIN t.index
  <2> DEFINE id == Len(t.sets) + 1
             u == Intern(t, s).table
  <2>1. /\ Intern(t, s).id = id
        /\ u.sets = Append(t.sets, s)
        /\ u.index = [r \in DOMAIN t.index \cup {s} |->
                        IF r = s THEN id ELSE t.index[r]]
    BY <1>2 DEF Intern, Answer
  <2> HIDE DEF u
  <2>2. /\ u.sets \in Seq(SUBSET Names)
        /\ Ids(u) = Ids(t) \cup {id} /\ id \notin Ids(t)
        /\ u.sets[id] = s
        /\ \A i \in Ids(t) : u.sets[i] = t.sets[i]
    BY <2>1 DEF Interned, Ids
  <2>3. Len(u.sets) >= 1 /\ u.sets[Empty] = {}
    BY <2>1, <2>2 DEF Interned, Ids, Empty
  <2>4. ASSUME NEW i \in Ids(u)
        PROVE  u.sets[i] \in DOMAIN u.index /\ u.index[u.sets[i]] = i
    <3>1. CASE i = id
      BY <2>1, <2>2, <3>1
    <3>2. CASE i \in Ids(t)
      <4>1. t.sets[i] \in DOMAIN t.index /\ t.index[t.sets[i]] = i
        BY <3>2 DEF Interned
      <4> QED
        BY <1>2, <2>1, <2>2, <3>2, <4>1
    <3> QED
      BY <2>2, <3>1, <3>2
  <2>5. ASSUME NEW r \in DOMAIN u.index
        PROVE  u.index[r] \in Ids(u) /\ u.sets[u.index[r]] = r
    <3>1. CASE r = s
      BY <2>1, <2>2, <3>1
    <3>2. CASE r # s
      <4>1. /\ r \in DOMAIN t.index /\ u.index[r] = t.index[r]
            /\ t.index[r] \in Ids(t) /\ t.sets[t.index[r]] = r
        BY <2>1, <3>2 DEF Interned
      <4> QED
        BY <2>2, <4>1
    <3> QED
      BY <3>1, <3>2
  <2>6. Interned(u)
    BY <2>2, <2>3, <2>4, <2>5 DEF Interned
  <2> QED
    BY <2>1, <2>2, <2>6 DEF Extends, u
<1> QED
  BY <1>1, <1>2

(***************************************************************************)
(* add(): the set with one more name.                                      *)
(***************************************************************************)
THEOREM AddCorrect ==
  ASSUME NEW t, Interned(t), NEW i \in Ids(t), NEW n \in Names
  PROVE  LET r == Add(t, i, n)
         IN /\ Interned(r.table) /\ Extends(t, r.table)
            /\ r.id \in Ids(r.table)
            /\ r.table.sets[r.id] = t.sets[i] \cup {n}
<1>1. t.sets[i] \cup {n} \in SUBSET Names
  BY DEF Interned, Ids
<1>2. CASE n \in t.sets[i]
  BY <1>2 DEF Add, Hides, Answer, Extends
<1>3. CASE n \notin t.sets[i]
  BY <1>1, <1>3, InternCorrect DEF Add, Hides
<1> QED
  BY <1>2, <1>3

(***************************************************************************)
(* merge(): the union, its shortcuts included.                             *)
(***************************************************************************)
THEOREM MergeCorrect ==
  ASSUME NEW t, Interned(t), NEW i \in Ids(t), NEW j \in Ids(t)
  PROVE  LET r == Merge(t, i, j)
         IN /\ Interned(r.table) /\ Extends(t, r.table)
            /\ r.id \in Ids(r.table)
            /\ r.table.sets[r.id] = t.sets[i] \cup t.sets[j]
<1>1. t.sets[i] \cup t.sets[j] \in SUBSET Names /\ t.sets[Empty] = {}
  BY DEF Interned, Ids
<1>2. CASE i = Empty \/ j = Empty \/ i = j
  BY <1>1, <1>2 DEF Merge, Answer, Extends
<1>3. CASE ~(i = Empty \/ j = Empty \/ i = j)
  BY <1>1, <1>3, InternCorrect DEF Merge
<1> QED
  BY <1>2, <1>3

(***************************************************************************)
(* intersect(): the intersection, its shortcuts included.                  *)
(***************************************************************************)
THEOREM IntersectCorrect ==
  ASSUME NEW t, Interned(t), NEW i \in Ids(t), NEW j \in Ids(t)
  PROVE  LET r == Intersect(t, i, j)
         IN /\ Interned(r.table) /\ Extends(t, r.table)
            /\ r.id \in Ids(r.table)
            /\ r.table.sets[r.id] = t.sets[i] \cap t.sets[j]
<1>1. /\ t.sets[i] \cap t.sets[j] \in SUBSET Names
      /\ t.sets[Empty] = {} /\ Empty \in Ids(t)
  BY DEF Interned, Ids, Empty
<1>2. CASE i = Empty \/ j = Empty
  <2>1. Intersect(t, i, j) = Answer(t, Empty)
    BY <1>2 DEF Intersect
  <2>2. t.sets[i] \cap t.sets[j] = {}
    BY <1>1, <1>2
  <2> QED
    BY <1>1, <2>1, <2>2 DEF Answer, Extends
<1>3. CASE i # Empty /\ j # Empty /\ i = j
  <2>1. Intersect(t, i, j) = Answer(t, i)
    BY <1>3 DEF Intersect
  <2>2. t.sets[i] \cap t.sets[j] = t.sets[i]
    BY <1>3
  <2> QED
    BY <2>1, <2>2 DEF Answer, Extends
<1>4. CASE ~(i = Empty \/ j = Empty \/ i = j)
  BY <1>1, <1>4, InternCorrect DEF Intersect
<1> QED
  BY <1>2, <1>3, <1>4

LEMMA TableStep ==
  ASSUME TableInterned, [TableNext]_table
  PROVE  TableInterned' /\ Extends(table, table')
<1> USE DEF TableInterned
<1>1. ASSUME NEW i \in Ids(table), NEW n \in Names,
             table' = Add(table, i, n).table
      PROVE  Interned(table') /\ Extends(table, table')
  BY <1>1, AddCorrect
<1>2. ASSUME NEW i \in Ids(table), NEW j \in Ids(table),
             \/ table' = Merge(table, i, j).table
             \/ table' = Intersect(table, i, j).table
      PROVE  Interned(table') /\ Extends(table, table')
  BY <1>2, MergeCorrect, IntersectCorrect
<1>3. CASE UNCHANGED table
  BY <1>3 DEF Extends
<1> QED
  BY <1>1, <1>2, <1>3 DEF TableNext

LEMMA NewTableInterned == TableInit => TableInterned
<1>1. /\ NewTable.sets = << {} >> /\ Ids(NewTable) = {1}
      /\ DOMAIN NewTable.index = {{}} /\ NewTable.index[{}] = Empty
  BY DEF NewTable, Ids
<1>2. NewTable.sets \in Seq(SUBSET Names) /\ NewTable.sets[1] = {}
  BY <1>1
<1>3. Len(NewTable.sets) >= 1
  BY <1>1
<1>4. \A i \in Ids(NewTable) :
        /\ NewTable.sets[i] \in DOMAIN NewTable.index
        /\ NewTable.index[NewTable.sets[i]] = i
  BY <1>1, <1>2 DEF Empty
<1>5. \A s \in DOMAIN NewTable.index :
        /\ NewTable.index[s] \in Ids(NewTable)
        /\ NewTable.sets[NewTable.index[s]] = s
  BY <1>1, <1>2 DEF Empty
<1>6. Interned(NewTable)
  BY <1>2, <1>3, <1>4, <1>5 DEF Interned, Empty
<1> QED
  BY <1>6 DEF TableInit, TableInterned

(***************************************************************************)
(* Whatever the preprocessor does with the table, sets and ids stay one to *)
(* one.                                                                    *)
(***************************************************************************)
THEOREM AlwaysInterned == TableSpec => []TableInterned
BY NewTableInterned, TableStep, PTL DEF TableSpec

(***************************************************************************)
(* And no id ever changes its set.                                         *)
(***************************************************************************)
THEOREM IdsAreStable == TableSpec => IdsKeepTheirMeaning
<1>1. TableInterned /\ [TableNext]_table => [Extends(table, table')]_table
  BY TableStep
<1> QED
  BY <1>1, AlwaysInterned, PTL DEF TableSpec, IdsKeepTheirMeaning
=============================================================================
