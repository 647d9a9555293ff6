-------------------------------- MODULE Tables --------------------------------
(***************************************************************************)
(* What the two database adapters are made of.  A Postgres table is a set  *)
(* of rows: without ORDER BY a query may return them in any order, so with *)
(* a LIMIT any of the sets of that size.  The in-memory adapter keeps Maps *)
(* and arrays: a sequence of rows, oldest entry first.                     *)
(***************************************************************************)
EXTENDS Integers, Sequences, FiniteSets, SequencesExt, FiniteSetsExt

NoRow == [missing |-> TRUE]
Unset == "unset"    \* a filter that is absent

AtMost(n, m) == IF n < m THEN n ELSE m

-----------------------------------------------------------------------------
(* Postgres.                                                                *)

Select(table, P(_)) == {r \in table : P(r)}

\* UPDATE ... SET F WHERE P.
Update(table, P(_), F(_)) == {IF P(r) THEN F(r) ELSE r : r \in table}

\* SELECT ... LIMIT 1 on a condition that at most one row meets.
One(rows) == IF rows = {} THEN NoRow ELSE CHOOSE r \in rows : TRUE

\* The members of a set in the strict order that a set of pairs is.
Arranged(set, order) ==
  [n \in 1..Cardinality(set) |-> CHOOSE r \in set : Cardinality({e \in set : <<e, r>> \in order}) = n - 1]

\* ORDER BY a strict order that leaves no two rows tied.
InOrder(rows, Before(_, _)) == Arranged(rows, {p \in rows \X rows : Before(p[1], p[2])})

\* ORDER BY, LIMIT, OFFSET.
Ordered(rows, Before(_, _), offset, limit) ==
  LET all == InOrder(rows, Before)
  IN  SubSeq(all, offset + 1, AtMost(offset + limit, Len(all)))

\* The sets LIMIT may choose when nothing orders the rows.
Unordered(rows, limit) == kSubset(AtMost(limit, Cardinality(rows)), rows)

-----------------------------------------------------------------------------
(* In memory.                                                               *)

\* The entries at some of the places, oldest first.
EntriesAt(store, places) ==
  LET place == Arranged(places, {p \in places \X places : p[1] < p[2]})
  IN  [n \in DOMAIN place |-> store[place[n]]]

\* Array.filter.
Scan(store, P(_)) == EntriesAt(store, {i \in DOMAIN store : P(store[i])})

\* Map.set under the value of a field: a known key keeps its place.
Put(store, key, row) ==
  IF \E i \in DOMAIN store : store[i][key] = row[key]
  THEN [i \in DOMAIN store |-> IF store[i][key] = row[key] THEN row ELSE store[i]]
  ELSE Append(store, row)

Rewrite(store, P(_), F(_)) == [i \in DOMAIN store |-> IF P(store[i]) THEN F(store[i]) ELSE store[i]]

FirstOf(store) == IF store = <<>> THEN NoRow ELSE store[1]

\* Array.slice.
Slice(seq, offset, limit) == SubSeq(seq, offset + 1, AtMost(offset + limit, Len(seq)))

\* Array.sort, which is stable: elements the comparator calls equal stay in order.
StableSort(seq, Before(_, _)) ==
  LET order == {p \in (DOMAIN seq) \X (DOMAIN seq) :
                  \/ Before(seq[p[1]], seq[p[2]])
                  \/ ~Before(seq[p[2]], seq[p[1]]) /\ p[1] < p[2]}
  IN  [n \in DOMAIN seq |-> seq[Arranged(DOMAIN seq, order)[n]]]

\* How often a value occurs, for answers whose order means nothing.
Occurrences(seq, x) == Cardinality({i \in DOMAIN seq : seq[i] = x})
=============================================================================
