---------------------------- MODULE HideSetTable ----------------------------
(***************************************************************************)
(* Pp::HideSetTable: interned sets of macro names.  A token carries the id *)
(* of its hide set, so an id must mean the same set for ever, equal sets   *)
(* must have equal ids, and every operation must answer with the id of the *)
(* set its name promises, whether it takes a shortcut, finds the set or    *)
(* adds it.  Ids count from 1 here and from 0 in the code.                 *)
(*                                                                         *)
(* The operations are functions from a table to a table and an id, so that *)
(* MacroExpand can apply several of them in one step.                      *)
(***************************************************************************)
EXTENDS Integers, Sequences

CONSTANT Names        \* the names of macros

VARIABLE table        \* _sets and _index

Empty == 1

NewTable == [sets |-> << {} >>, index |-> [s \in {{}} |-> Empty]]

Ids(t) == DOMAIN t.sets

Hides(t, id, name) == name \in t.sets[id]

Answer(t, id) == [table |-> t, id |-> id]

InternForgetful(t, s) ==
  IF s \in DOMAIN t.index THEN Answer(t, t.index[s])
  ELSE Answer([t EXCEPT !.sets = Append(@, s)], Len(t.sets) + 1)

Intern(t, s) ==
  IF s \in DOMAIN t.index THEN Answer(t, t.index[s])
  ELSE LET id == Len(t.sets) + 1
       IN Answer([sets  |-> Append(t.sets, s),
                  index |-> [r \in DOMAIN t.index \cup {s} |->
                               IF r = s THEN id ELSE t.index[r]]],
                 id)

AddInPlace(t, id, name) ==
  Answer([t EXCEPT !.sets[id] = @ \cup {name}], id)

Add(t, id, name) ==
  IF Hides(t, id, name) THEN Answer(t, id)
  ELSE Intern(t, t.sets[id] \cup {name})

Merge(t, a, b) ==
  IF a = Empty THEN Answer(t, b)
  ELSE IF b = Empty \/ a = b THEN Answer(t, a)
  ELSE Intern(t, t.sets[a] \cup t.sets[b])

Intersect(t, a, b) ==
  IF a = Empty \/ b = Empty THEN Answer(t, Empty)
  ELSE IF a = b THEN Answer(t, a)
  ELSE Intern(t, t.sets[a] \cap t.sets[b])
-----------------------------------------------------------------------------
(***************************************************************************)
(* The table and its index say the same: every id has its set and every    *)
(* set its one id, which is what lets tokens compare and share sets.       *)
(***************************************************************************)
Interned(t) ==
  /\ t.sets \in Seq(SUBSET Names)
  /\ Len(t.sets) >= 1 /\ t.sets[Empty] = {}
  /\ \A i \in Ids(t) : t.sets[i] \in DOMAIN t.index /\ t.index[t.sets[i]] = i
  /\ \A s \in DOMAIN t.index : t.index[s] \in Ids(t) /\ t.sets[t.index[s]] = s

TableInterned == Interned(table)

(***************************************************************************)
(* An id handed out keeps its meaning: tokens copied into macro bodies,    *)
(* arguments and the include cache hold ids for as long as the run lasts.  *)
(***************************************************************************)
Extends(t, u) ==
  /\ Ids(t) \subseteq Ids(u)
  /\ \A i \in Ids(t) : u.sets[i] = t.sets[i]

IdsKeepTheirMeaning == [][Extends(table, table')]_table
-----------------------------------------------------------------------------
(***************************************************************************)
(* The table on its own: any sequence of operations on ids it handed out.  *)
(***************************************************************************)
TableInit == table = NewTable

TableNext ==
  \/ \E i \in Ids(table), n \in Names : table' = Add(table, i, n).table
  \/ \E i, j \in Ids(table) : table' = Merge(table, i, j).table
  \/ \E i, j \in Ids(table) : table' = Intersect(table, i, j).table

TableSpec == TableInit /\ [][TableNext]_table
=============================================================================
