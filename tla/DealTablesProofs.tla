----------------------------- MODULE DealTablesProofs -----------------------------
(***************************************************************************)
(* Proofs about the two adapters of the deal tables (DealTables), for any  *)
(* rows, cap and bounds: a sequence of legal writes leaves both with the   *)
(* same rows, each once; the look-ups, lists, counters and pages of the    *)
(* double are answers of Postgres; and the cap of the published fetch      *)
(* costs a page nothing unless a tie on the primary key straddles it.      *)
(*                                                                         *)
(* What an ORDER BY and an Array.sort return is described by the place of  *)
(* each row, the number of rows before it; what a loop adds up, by         *)
(* induction along the array and along the members of the set of rows.     *)
(***************************************************************************)
EXTENDS DealTables, FunctionTheorems, FiniteSetTheorems, SequenceTheorems, WellFoundedInduction, TLAPS

-----------------------------------------------------------------------------
(* Order.                                                                   *)

\* A set of pairs that orders a set strictly and leaves no two of it tied.
Orders(R, S) ==
  /\ \A a \in S : <<a, a>> \notin R
  /\ \A a, b \in S : a # b => <<a, b>> \in R \/ <<b, a>> \in R
  /\ \A a, b, c \in S : <<a, b>> \in R /\ <<b, c>> \in R => <<a, c>> \in R

Before(S, R, x) == {e \in S : <<e, x>> \in R}

\* Who comes later has more before him.
LEMMA RankGrows ==
  ASSUME NEW S, IsFiniteSet(S), NEW R, Orders(R, S), NEW a \in S, NEW b \in S, <<a, b>> \in R
  PROVE  Cardinality(Before(S, R, a)) < Cardinality(Before(S, R, b))
<1>1. IsFiniteSet(Before(S, R, a)) /\ a \notin Before(S, R, a)
  <2>1. Before(S, R, a) \in SUBSET S /\ a \notin Before(S, R, a)
    BY DEF Before, Orders
  <2> QED BY <2>1, FS_Subset
<1>2. Cardinality(Before(S, R, a) \cup {a}) = Cardinality(Before(S, R, a)) + 1
  BY <1>1, FS_AddElement
<1>3. Before(S, R, a) \cup {a} \in SUBSET Before(S, R, b)
  BY DEF Before, Orders
<1>4. IsFiniteSet(Before(S, R, b))
  <2>1. Before(S, R, b) \in SUBSET S
    BY DEF Before
  <2> QED BY <2>1, FS_Subset
<1>5. Cardinality(Before(S, R, a) \cup {a}) <= Cardinality(Before(S, R, b))
  BY <1>3, <1>4, FS_Subset
<1>6. Cardinality(Before(S, R, a)) \in Nat /\ Cardinality(Before(S, R, b)) \in Nat
  BY <1>1, <1>4, FS_CardinalityType
<1> QED BY <1>2, <1>5, <1>6

\* Nobody has everybody before him.
LEMMA RankBounded ==
  ASSUME NEW S, IsFiniteSet(S), NEW R, Orders(R, S), NEW a \in S
  PROVE  Cardinality(Before(S, R, a)) + 1 \in 1..Cardinality(S)
<1>1. Before(S, R, a) \in SUBSET (S \ {a})
  BY DEF Before, Orders
<1>2. IsFiniteSet(S \ {a}) /\ Cardinality(S \ {a}) = Cardinality(S) - 1
  BY FS_RemoveElement
<1>3. IsFiniteSet(Before(S, R, a)) /\ Cardinality(Before(S, R, a)) <= Cardinality(S \ {a})
  BY <1>1, <1>2, FS_Subset
<1>4. Cardinality(Before(S, R, a)) \in Nat /\ Cardinality(S) \in Nat
  BY <1>3, FS_CardinalityType
<1> QED BY <1>2, <1>3, <1>4

\* Every place is somebody's.
LEMMA RankTaken ==
  ASSUME NEW S, IsFiniteSet(S), NEW R, Orders(R, S), NEW n \in 1..Cardinality(S)
  PROVE  \E x \in S : Cardinality(Before(S, R, x)) = n - 1
<1> DEFINE rank == [x \in S |-> Cardinality(Before(S, R, x)) + 1]
<1>1. rank \in [S -> 1..Cardinality(S)]
  BY RankBounded
<1>2. ASSUME NEW a \in S, NEW b \in S, rank[a] = rank[b] PROVE a = b
  <2> SUFFICES ASSUME a # b PROVE FALSE
    OBVIOUS
  <2>1. Cardinality(Before(S, R, a)) + 1 \in 1..Cardinality(S) /\ Cardinality(Before(S, R, b)) + 1 \in 1..Cardinality(S)
    BY RankBounded
  <2>2. Cardinality(Before(S, R, a)) \in Int /\ Cardinality(Before(S, R, b)) \in Int
    <3>1. Before(S, R, a) \in SUBSET S /\ Before(S, R, b) \in SUBSET S
      BY DEF Before
    <3>2. IsFiniteSet(Before(S, R, a)) /\ IsFiniteSet(Before(S, R, b))
      BY <3>1, FS_Subset
    <3> QED BY <3>2, FS_CardinalityType
  <2>3. Cardinality(Before(S, R, a)) + 1 = Cardinality(Before(S, R, b)) + 1
    BY <1>2
  <2>4. CASE <<a, b>> \in R
    <3>1. Cardinality(Before(S, R, a)) < Cardinality(Before(S, R, b))
      BY <2>4, RankGrows
    <3> HIDE DEF rank
    <3> QED BY <2>2, <2>3, <3>1
  <2>5. CASE <<b, a>> \in R
    <3>1. Cardinality(Before(S, R, b)) < Cardinality(Before(S, R, a))
      BY <2>5, RankGrows
    <3> HIDE DEF rank
    <3> QED BY <2>2, <2>3, <3>1
  <2> QED BY <2>4, <2>5 DEF Orders
<1>3. rank \in Injection(S, 1..Cardinality(S))
  <2> HIDE DEF rank
  <2> QED BY <1>1, <1>2 DEF Injection, IsInjective
<1>4. Cardinality(S) \in Nat /\ IsFiniteSet(1..Cardinality(S)) /\ Cardinality(1..Cardinality(S)) = Cardinality(S)
  <2>1. Cardinality(S) \in Nat
    BY FS_CardinalityType
  <2> QED BY <2>1, FS_Interval
<1>5. rank \in Surjection(S, 1..Cardinality(S))
  <2> HIDE DEF rank
  <2> QED BY <1>3, <1>4, FS_Injection
<1>6. PICK x \in S : rank[x] = n
  <2> HIDE DEF rank
  <2> QED BY <1>5 DEF Surjection
<1>7. Cardinality(Before(S, R, x)) + 1 = n
  BY <1>6
<1>8. Cardinality(Before(S, R, x)) \in Int
  <2>1. Before(S, R, x) \in SUBSET S
    BY DEF Before
  <2>2. IsFiniteSet(Before(S, R, x))
    BY <2>1, FS_Subset
  <2> QED BY <2>2, FS_CardinalityType
<1> QED BY <1>7, <1>8

\* A sequence that has everybody at the place of those before him.
InPlace(f, S, R) ==
  /\ f \in [1..Cardinality(S) -> S]
  /\ \A n \in 1..Cardinality(S) : Cardinality(Before(S, R, f[n])) = n - 1

\* Arranged is such a sequence.
LEMMA ArrangedInPlace ==
  ASSUME NEW S, IsFiniteSet(S), NEW R, Orders(R, S)
  PROVE  InPlace(Arranged(S, R), S, R)
<1>1. ASSUME NEW n \in 1..Cardinality(S)
      PROVE  Arranged(S, R)[n] \in S /\ Cardinality(Before(S, R, Arranged(S, R)[n])) = n - 1
  <2>1. Arranged(S, R)[n] = CHOOSE r \in S : Cardinality(Before(S, R, r)) = n - 1
    BY DEF Arranged, Before
  <2> QED BY <2>1, RankTaken
<1>2. Arranged(S, R) \in [1..Cardinality(S) -> S]
  <2>1. \A n \in 1..Cardinality(S) : (CHOOSE r \in S : Cardinality({e \in S : <<e, r>> \in R}) = n - 1) \in S
    <3> SUFFICES ASSUME NEW n \in 1..Cardinality(S)
                 PROVE  \E r \in S : Cardinality({e \in S : <<e, r>> \in R}) = n - 1
      OBVIOUS
    <3> QED BY RankTaken DEF Before
  <2> QED BY <2>1 DEF Arranged
<1> QED BY <1>1, <1>2 DEF InPlace

\* It holds everybody once, in order.
LEMMA InPlaceFacts ==
  ASSUME NEW S, IsFiniteSet(S), NEW R, Orders(R, S), NEW f, InPlace(f, S, R)
  PROVE  /\ Cardinality(S) \in Nat /\ f \in Seq(S) /\ Len(f) = Cardinality(S)
         /\ \A m, n \in 1..Cardinality(S) : m < n <=> <<f[m], f[n]>> \in R
         /\ \A m, n \in 1..Cardinality(S) : f[m] = f[n] => m = n
         /\ \A x \in S : \E n \in 1..Cardinality(S) : f[n] = x
<1>1. Cardinality(S) \in Nat
  BY FS_CardinalityType
<1>2. f \in Seq(S) /\ Len(f) = Cardinality(S)
  BY <1>1 DEF InPlace
<1>3. ASSUME NEW m \in 1..Cardinality(S), NEW n \in 1..Cardinality(S), <<f[m], f[n]>> \in R PROVE m < n
  <2>1. Cardinality(Before(S, R, f[m])) < Cardinality(Before(S, R, f[n]))
    BY <1>3, RankGrows DEF InPlace
  <2>2. Cardinality(Before(S, R, f[m])) = m - 1 /\ Cardinality(Before(S, R, f[n])) = n - 1
    BY DEF InPlace
  <2> QED BY <1>1, <2>1, <2>2
<1>4. ASSUME NEW m \in 1..Cardinality(S), NEW n \in 1..Cardinality(S), f[m] = f[n] PROVE m = n
  <2>1. Cardinality(Before(S, R, f[m])) = m - 1 /\ Cardinality(Before(S, R, f[n])) = n - 1
    BY DEF InPlace
  <2> QED BY <1>1, <1>4, <2>1
<1>5. ASSUME NEW m \in 1..Cardinality(S), NEW n \in 1..Cardinality(S), m < n PROVE <<f[m], f[n]>> \in R
  <2>1. f[m] \in S /\ f[n] \in S /\ f[m] # f[n]
    BY <1>4, <1>5 DEF InPlace
  <2>2. CASE <<f[n], f[m]>> \in R
    BY <1>1, <1>3, <1>5, <2>2
  <2> QED BY <2>1, <2>2 DEF Orders
<1>6. ASSUME NEW x \in S PROVE \E n \in 1..Cardinality(S) : f[n] = x
  <2>1. PICK n \in 1..Cardinality(S) : n = Cardinality(Before(S, R, x)) + 1
    BY RankBounded
  <2>2. f[n] \in S /\ Cardinality(Before(S, R, f[n])) = n - 1
    BY DEF InPlace
  <2>3. IsFiniteSet(Before(S, R, x))
    <3>1. Before(S, R, x) \in SUBSET S
      BY DEF Before
    <3> QED BY <3>1, FS_Subset
  <2>4. Cardinality(Before(S, R, x)) \in Nat
    BY <2>3, FS_CardinalityType
  <2>5. Cardinality(Before(S, R, f[n])) = Cardinality(Before(S, R, x))
    BY <2>1, <2>2, <2>4
  <2>6. CASE <<f[n], x>> \in R
    <3>1. Cardinality(Before(S, R, f[n])) < Cardinality(Before(S, R, x))
      BY <2>2, <2>6, RankGrows
    <3> QED BY <2>4, <2>5, <3>1
  <2>7. CASE <<x, f[n]>> \in R
    <3>1. Cardinality(Before(S, R, x)) < Cardinality(Before(S, R, f[n]))
      BY <2>2, <2>7, RankGrows
    <3> QED BY <2>4, <2>5, <3>1
  <2> QED BY <2>2, <2>6, <2>7 DEF Orders
<1> QED BY <1>1, <1>2, <1>3, <1>4, <1>5, <1>6

\* There is only one such sequence.
LEMMA InPlaceOnce ==
  ASSUME NEW S, IsFiniteSet(S), NEW R, Orders(R, S), NEW f, InPlace(f, S, R), NEW g, InPlace(g, S, R)
  PROVE  f = g
<1>1. ASSUME NEW n \in 1..Cardinality(S) PROVE f[n] = g[n]
  <2>1. f[n] \in S /\ g[n] \in S /\ Cardinality(Before(S, R, f[n])) = n - 1 /\ Cardinality(Before(S, R, g[n])) = n - 1
    BY DEF InPlace
  <2>2. PICK m \in 1..Cardinality(S) : g[m] = f[n]
    <3>1. \A x \in S : \E m \in 1..Cardinality(S) : g[m] = x
      BY InPlaceFacts
    <3> QED BY <2>1, <3>1
  <2>3. Cardinality(Before(S, R, g[m])) = m - 1
    BY DEF InPlace
  <2>4. Cardinality(S) \in Nat
    BY FS_CardinalityType
  <2>5. m = n
    BY <2>1, <2>2, <2>3, <2>4
  <2> QED BY <2>2, <2>5
<1>2. f = [n \in 1..Cardinality(S) |-> f[n]] /\ g = [n \in 1..Cardinality(S) |-> g[n]]
  BY DEF InPlace
<1> QED BY <1>1, <1>2

\* What comes before all others is arranged the same without them.
LEMMA ArrangedHead ==
  ASSUME NEW S, IsFiniteSet(S), NEW R, Orders(R, S), NEW K \in SUBSET S,
         \A k \in K, c \in S \ K : <<k, c>> \in R
  PROVE  /\ Orders(R, K) /\ IsFiniteSet(K) /\ Cardinality(K) <= Cardinality(S)
         /\ \A n \in 1..Cardinality(K) : Arranged(K, R)[n] = Arranged(S, R)[n]
<1>1. Orders(R, K) /\ IsFiniteSet(K) /\ Cardinality(K) <= Cardinality(S)
  BY FS_Subset DEF Orders
<1>2. ASSUME NEW k \in K PROVE Before(S, R, k) = Before(K, R, k)
  <2>1. ASSUME NEW c \in S \ K PROVE <<c, k>> \notin R
    <3>1. <<k, c>> \in R /\ <<k, k>> \notin R /\ k \in S /\ c \in S
      BY DEF Orders
    <3> QED BY <3>1 DEF Orders
  <2> QED BY <2>1 DEF Before
<1>3. ASSUME NEW n \in 1..Cardinality(K) PROVE Arranged(K, R)[n] = Arranged(S, R)[n]
  <2> DEFINE f == Arranged(K, R)  g == Arranged(S, R)
  <2>1. InPlace(f, K, R) /\ InPlace(g, S, R)
    BY <1>1, ArrangedInPlace
  <2> HIDE DEF f, g
  <2>2. f[n] \in K /\ Cardinality(Before(S, R, f[n])) = n - 1
    BY <1>2, <2>1 DEF InPlace
  <2>3. PICK m \in 1..Cardinality(S) : g[m] = f[n]
    BY <2>1, <2>2, InPlaceFacts
  <2>4. Cardinality(Before(S, R, g[m])) = m - 1
    BY <2>1 DEF InPlace
  <2>5. Cardinality(K) \in Nat /\ Cardinality(S) \in Nat
    BY <1>1, FS_CardinalityType
  <2>6. m = n
    BY <2>2, <2>3, <2>4, <2>5
  <2>7. f[n] = g[n]
    BY <2>3, <2>6
  <2> QED BY <2>7 DEF f, g
<1> QED BY <1>1, <1>3

-----------------------------------------------------------------------------
(* Stores and what is read from them.                                       *)

\* As many numbers as there are.
LEMMA UpTo ==
  ASSUME NEW n \in Nat
  PROVE  IsFiniteSet(1..n) /\ Cardinality(1..n) = n
BY FS_Interval

\* A table of n places is a sequence.
LEMMA OfPlaces ==
  ASSUME NEW X, NEW n \in Nat, NEW f \in [1..n -> X]
  PROVE  f \in Seq(X) /\ Len(f) = n /\ DOMAIN f = 1..n
OBVIOUS

\* No row twice.
Distinct(s) == \A i, j \in DOMAIN s : s[i] = s[j] => i = j

\* The rows of a store.
LEMMA StoreFacts ==
  ASSUME NEW X, NEW s \in Seq(X)
  PROVE  /\ ToSet(s) \in SUBSET X /\ IsFiniteSet(ToSet(s)) /\ DOMAIN s = 1..Len(s) /\ Len(s) \in Nat
         /\ \A i \in 1..Len(s) : s[i] \in ToSet(s)
         /\ \A x \in ToSet(s) : \E i \in 1..Len(s) : s[i] = x
         /\ Distinct(s) => Cardinality(ToSet(s)) = Len(s)
<1>1. DOMAIN s = 1..Len(s) /\ Len(s) \in Nat /\ s \in [1..Len(s) -> X]
  OBVIOUS
<1>2. /\ ToSet(s) \in SUBSET X
      /\ \A i \in 1..Len(s) : s[i] \in ToSet(s)
      /\ \A x \in ToSet(s) : \E i \in 1..Len(s) : s[i] = x
  BY <1>1 DEF ToSet
<1>3. IsFiniteSet(1..Len(s)) /\ Cardinality(1..Len(s)) = Len(s)
  BY <1>1, UpTo
<1>4. s \in Surjection(1..Len(s), ToSet(s))
  BY <1>1, <1>2 DEF Surjection
<1>5. IsFiniteSet(ToSet(s))
  BY <1>3, <1>4, FS_Surjection
<1>6. ASSUME Distinct(s) PROVE Cardinality(ToSet(s)) = Len(s)
  <2>1. s \in Injection(1..Len(s), ToSet(s))
    BY <1>1, <1>4, <1>6 DEF Distinct, Injection, IsInjective, Surjection
  <2> QED BY <1>3, <1>4, <2>1, FS_Surjection
<1> QED BY <1>1, <1>2, <1>5, <1>6

Rising(places) == {p \in places \X places : p[1] < p[2]}

\* The order of places is one.
LEMMA RisingOrders ==
  ASSUME NEW places \in SUBSET Int
  PROVE  Orders(Rising(places), places)
BY DEF Orders, Rising

\* A scan keeps what it finds, oldest first.
LEMMA EntriesFacts ==
  ASSUME NEW X, NEW s \in Seq(X), NEW places \in SUBSET DOMAIN s
  PROVE  LET e == EntriesAt(s, places) IN
         /\ e \in Seq(X) /\ Len(e) = Cardinality(places) /\ Len(e) <= Len(s)
         /\ ToSet(e) = {s[i] : i \in places}
         /\ Distinct(s) => Distinct(e)
         /\ \A i \in places : (\A j \in places : i <= j) => Len(e) > 0 /\ e[1] = s[i]
<1> DEFINE e == EntriesAt(s, places)  place == Arranged(places, Rising(places))
<1>1. DOMAIN s = 1..Len(s) /\ Len(s) \in Nat /\ places \in SUBSET Int /\ IsFiniteSet(places) /\ Cardinality(places) <= Len(s)
  <2>1. DOMAIN s = 1..Len(s) /\ Len(s) \in Nat
    OBVIOUS
  <2>2. IsFiniteSet(1..Len(s)) /\ Cardinality(1..Len(s)) = Len(s)
    BY <2>1, UpTo
  <2>3. IsFiniteSet(places) /\ Cardinality(places) <= Cardinality(1..Len(s))
    BY <2>1, <2>2, FS_Subset
  <2> QED BY <2>1, <2>2, <2>3
<1>2. Orders(Rising(places), places) /\ InPlace(place, places, Rising(places))
  BY <1>1, RisingOrders, ArrangedInPlace
<1>3. e = [n \in DOMAIN place |-> s[place[n]]]
  BY DEF EntriesAt, Rising
<1> HIDE DEF e, place
<1>4. /\ Cardinality(places) \in Nat /\ place \in Seq(places) /\ Len(place) = Cardinality(places)
      /\ \A m, n \in 1..Cardinality(places) : m < n <=> <<place[m], place[n]>> \in Rising(places)
      /\ \A m, n \in 1..Cardinality(places) : place[m] = place[n] => m = n
      /\ \A x \in places : \E n \in 1..Cardinality(places) : place[n] = x
  BY <1>1, <1>2, InPlaceFacts
<1>5. DOMAIN place = 1..Cardinality(places) /\ \A n \in 1..Cardinality(places) : place[n] \in places
  BY <1>4
<1>6. e \in [1..Cardinality(places) -> X] /\ \A n \in 1..Cardinality(places) : e[n] = s[place[n]]
  <2>1. \A i \in places : s[i] \in X
    BY <1>1
  <2> QED BY <1>3, <1>5, <2>1
<1>7. e \in Seq(X) /\ Len(e) = Cardinality(places) /\ DOMAIN e = 1..Cardinality(places)
  <2>1. PICK n \in Nat : n = Cardinality(places)
    BY <1>4
  <2>2. e \in [1..n -> X]
    BY <1>6, <2>1
  <2>3. e \in Seq(X) /\ Len(e) = n /\ DOMAIN e = 1..n
    BY <2>2, OfPlaces
  <2> QED BY <2>1, <2>3
<1>8. ToSet(e) = {s[i] : i \in places}
  <2>1. ASSUME NEW x \in ToSet(e) PROVE x \in {s[i] : i \in places}
    <3>1. PICK n \in 1..Cardinality(places) : e[n] = x
      BY <1>7 DEF ToSet
    <3>2. place[n] \in places /\ x = s[place[n]]
      BY <1>5, <1>6, <3>1
    <3> QED BY <3>2
  <2>2. ASSUME NEW i \in places PROVE s[i] \in ToSet(e)
    <3>1. PICK n \in 1..Cardinality(places) : place[n] = i
      BY <1>4
    <3>2. e[n] = s[i]
      BY <1>6, <3>1
    <3> QED BY <1>7, <3>2 DEF ToSet
  <2> QED BY <2>1, <2>2
<1>9. ASSUME Distinct(s) PROVE Distinct(e)
  <2> SUFFICES ASSUME NEW m \in 1..Cardinality(places), NEW n \in 1..Cardinality(places), e[m] = e[n] PROVE m = n
    BY <1>7 DEF Distinct
  <2>1. place[m] \in DOMAIN s /\ place[n] \in DOMAIN s /\ s[place[m]] = s[place[n]]
    BY <1>5, <1>6
  <2>2. place[m] = place[n]
    BY <1>9, <2>1 DEF Distinct
  <2> QED BY <1>4, <2>2
<1>10. ASSUME NEW i \in places, \A j \in places : i <= j PROVE Len(e) > 0 /\ e[1] = s[i]
  <2>1. PICK n \in 1..Cardinality(places) : place[n] = i
    BY <1>4
  <2>2. 1 \in 1..Cardinality(places)
    BY <1>4, <2>1
  <2>3. n = 1
    <3>1. CASE 1 < n
      <4>1. <<place[1], place[n]>> \in Rising(places)
        BY <1>4, <2>2, <3>1
      <4>2. place[1] < i /\ place[1] \in places
        BY <1>5, <2>1, <2>2, <4>1 DEF Rising
      <4>3. i <= place[1] /\ place[1] \in Int /\ i \in Int
        BY <1>1, <1>10, <4>2
      <4> QED BY <4>2, <4>3
    <3> QED BY <2>1, <3>1
  <2> QED BY <1>6, <1>7, <2>1, <2>2, <2>3
<1> QED BY <1>1, <1>7, <1>8, <1>9, <1>10 DEF e

\* Sorting a store of rows that are pairwise ordered is arranging them.
LEMMA SortIsArranged ==
  ASSUME NEW X, NEW s \in Seq(X), Distinct(s), NEW R, Orders(R, ToSet(s)),
         NEW Q, \A i, j \in DOMAIN s : <<i, j>> \in Q <=> <<s[i], s[j]>> \in R
  PROVE  [n \in DOMAIN s |-> s[Arranged(DOMAIN s, Q)[n]]] = Arranged(ToSet(s), R)
<1> DEFINE S == ToSet(s)  D == DOMAIN s  place == Arranged(D, Q)  f == [n \in D |-> s[place[n]]]
<1>1. /\ IsFiniteSet(S) /\ D = 1..Len(s) /\ Len(s) \in Nat /\ Cardinality(S) = Len(s)
      /\ \A i \in D : s[i] \in S
      /\ \A x \in S : \E i \in D : s[i] = x
  BY StoreFacts
<1>2. IsFiniteSet(D) /\ Cardinality(D) = Len(s)
  <2>1. IsFiniteSet(1..Len(s)) /\ Cardinality(1..Len(s)) = Len(s)
    BY <1>1, UpTo
  <2> HIDE DEF D
  <2> QED BY <1>1, <2>1
<1>3. Orders(Q, D)
  <2>1. \A i, j \in D : i # j => s[i] # s[j]
    BY DEF Distinct
  <2> QED BY <1>1, <2>1 DEF Orders
<1>4. InPlace(place, D, Q)
  BY <1>2, <1>3, ArrangedInPlace
<1> HIDE DEF place
<1>5. ASSUME NEW i \in D PROVE Cardinality(Before(S, R, s[i])) = Cardinality(Before(D, Q, i))
  <2> DEFINE g == [j \in Before(D, Q, i) |-> s[j]]
  <2>1. \A j \in Before(D, Q, i) : j \in D /\ s[j] \in Before(S, R, s[i])
    BY <1>1 DEF Before
  <2>2. ASSUME NEW x \in Before(S, R, s[i]) PROVE \E j \in Before(D, Q, i) : s[j] = x
    <3>1. x \in S /\ <<x, s[i]>> \in R
      BY DEF Before
    <3>2. PICK j \in D : s[j] = x
      BY <1>1, <3>1
    <3> QED BY <3>1, <3>2 DEF Before
  <2>3. g \in Surjection(Before(D, Q, i), Before(S, R, s[i]))
    BY <2>1, <2>2 DEF Surjection
  <2>4. g \in Injection(Before(D, Q, i), Before(S, R, s[i]))
    BY <2>1 DEF Injection, IsInjective, Distinct
  <2>5. IsFiniteSet(Before(D, Q, i))
    <3>1. Before(D, Q, i) \in SUBSET D
      BY DEF Before
    <3> QED BY <1>2, <3>1, FS_Subset
  <2> HIDE DEF g
  <2> QED BY <2>3, <2>4, <2>5, FS_Surjection
<1>6. ASSUME NEW n \in D PROVE f[n] \in S /\ Cardinality(Before(S, R, f[n])) = n - 1
  <2>1. place[n] \in D /\ Cardinality(Before(D, Q, place[n])) = n - 1
    BY <1>1, <1>2, <1>4 DEF InPlace
  <2>2. f[n] = s[place[n]]
    OBVIOUS
  <2> QED BY <1>1, <1>5, <2>1, <2>2
<1>7. InPlace(f, S, R)
  <2>1. f \in [1..Cardinality(S) -> S]
    BY <1>1, <1>6
  <2>2. 1..Cardinality(S) = D
    BY <1>1
  <2> HIDE DEF f, S, D
  <2> QED BY <1>6, <2>1, <2>2 DEF InPlace
<1>8. InPlace(Arranged(S, R), S, R)
  BY <1>1, ArrangedInPlace
<1>9. f = Arranged(S, R)
  <2> HIDE DEF f, S, D
  <2>1. IsFiniteSet(S) /\ Orders(R, S)
    BY <1>1 DEF S
  <2> QED BY <1>7, <1>8, <2>1, InPlaceOnce
<1> QED BY <1>9 DEF f, S, D, place

-----------------------------------------------------------------------------
(* Writes.                                                                  *)

\* One row for each value of a field.
Keyed(s, key) == \A i, j \in DOMAIN s : s[i][key] = s[j][key] => i = j

\* One row for each key is no row twice.
LEMMA KeyedIsDistinct ==
  ASSUME NEW s, NEW key, Keyed(s, key)
  PROVE  Distinct(s)
BY DEF Keyed, Distinct

\* A put leaves one row under the key, the new one, and the others where they were.
LEMMA PutFacts ==
  ASSUME NEW X, NEW s \in Seq(X), NEW r \in X, NEW key, Keyed(s, key)
  PROVE  LET t == Put(s, key, r) IN
         /\ t \in Seq(X) /\ Keyed(t, key)
         /\ ToSet(t) = {x \in ToSet(s) : x[key] # r[key]} \cup {r}
         /\ Len(t) = IF \E x \in ToSet(s) : x[key] = r[key] THEN Len(s) ELSE Len(s) + 1
         /\ \A other : Keyed(s, other) /\ (\A x \in ToSet(s) : x[other] = r[other] => x[key] = r[key]) => Keyed(t, other)
<1> DEFINE t == Put(s, key, r)
<1>0. DOMAIN s = 1..Len(s) /\ Len(s) \in Nat /\ \A i \in DOMAIN s : s[i] \in X
  OBVIOUS
<1>1. CASE \E k \in DOMAIN s : s[k][key] = r[key]
  <2>1. PICK k \in DOMAIN s : s[k][key] = r[key]
    BY <1>1
  <2>2. t = [i \in DOMAIN s |-> IF s[i][key] = r[key] THEN r ELSE s[i]]
    BY <1>1 DEF Put
  <2> HIDE DEF t
  <2>3. \A i \in DOMAIN s : s[i][key] = r[key] => i = k
    BY <2>1 DEF Keyed
  <2>4. t = [s EXCEPT ![k] = r]
    BY <1>0, <2>1, <2>2, <2>3
  <2>5. t \in Seq(X) /\ Len(t) = Len(s) /\ DOMAIN t = DOMAIN s
    BY <1>0, <2>1, <2>4
  <2>6. t[k] = r /\ \A i \in DOMAIN s : i # k => t[i] = s[i] /\ s[i][key] # r[key]
    BY <1>0, <2>1, <2>3, <2>4
  <2>7. ToSet(t) = {x \in ToSet(s) : x[key] # r[key]} \cup {r}
    <3>1. ASSUME NEW x \in ToSet(t) PROVE x \in {y \in ToSet(s) : y[key] # r[key]} \cup {r}
      <4>1. PICK i \in DOMAIN s : t[i] = x
        BY <2>5 DEF ToSet
      <4> QED BY <2>6, <4>1 DEF ToSet
    <3>2. ASSUME NEW x \in {y \in ToSet(s) : y[key] # r[key]} \cup {r} PROVE x \in ToSet(t)
      <4>1. CASE x = r
        BY <2>1, <2>5, <2>6, <4>1 DEF ToSet
      <4>2. CASE x \in ToSet(s) /\ x[key] # r[key]
        <5>1. PICK i \in DOMAIN s : s[i] = x
          BY <4>2 DEF ToSet
        <5>2. i # k
          BY <2>1, <4>2, <5>1
        <5> QED BY <2>5, <2>6, <5>1, <5>2 DEF ToSet
      <4> QED BY <4>1, <4>2
    <3> QED BY <3>1, <3>2
  <2>8. Keyed(t, key)
    BY <2>1, <2>5, <2>6 DEF Keyed
  <2>9. \E x \in ToSet(s) : x[key] = r[key]
    BY <2>1 DEF ToSet
  <2>10. ASSUME NEW other, Keyed(s, other), \A x \in ToSet(s) : x[other] = r[other] => x[key] = r[key]
         PROVE  Keyed(t, other)
    <3>1. \A i \in DOMAIN s : i # k => s[i][other] # r[other]
      BY <2>6, <2>10 DEF ToSet
    <3> QED BY <2>5, <2>6, <2>10, <3>1 DEF Keyed
  <2> QED BY <2>5, <2>7, <2>8, <2>9, <2>10 DEF t
<1>2. CASE ~\E k \in DOMAIN s : s[k][key] = r[key]
  <2>1. t = Append(s, r)
    BY <1>2 DEF Put
  <2> HIDE DEF t
  <2>2. t \in Seq(X) /\ Len(t) = Len(s) + 1 /\ DOMAIN t = 1..(Len(s) + 1) /\ t[Len(s) + 1] = r
        /\ \A i \in 1..Len(s) : t[i] = s[i]
    BY <1>0, <2>1
  <2>3. \A x \in ToSet(s) : x[key] # r[key]
    BY <1>2 DEF ToSet
  <2>4. ToSet(t) = ToSet(s) \cup {r}
    <3>1. ASSUME NEW x \in ToSet(t) PROVE x \in ToSet(s) \cup {r}
      <4>1. PICK i \in 1..(Len(s) + 1) : t[i] = x
        BY <2>2 DEF ToSet
      <4> QED BY <1>0, <2>2, <4>1 DEF ToSet
    <3>2. ASSUME NEW x \in ToSet(s) \cup {r} PROVE x \in ToSet(t)
      <4>1. CASE x = r
        BY <1>0, <2>2, <4>1 DEF ToSet
      <4>2. CASE x \in ToSet(s)
        <5>1. PICK i \in 1..Len(s) : s[i] = x
          BY <1>0, <4>2 DEF ToSet
        <5>2. i \in DOMAIN t /\ t[i] = x
          BY <1>0, <2>2, <5>1
        <5> QED BY <5>2 DEF ToSet
      <4> QED BY <4>1, <4>2
    <3> QED BY <3>1, <3>2
  <2>5. ASSUME NEW other, Keyed(s, other), \A x \in ToSet(s) : x[other] = r[other] => x[key] = r[key]
        PROVE  Keyed(t, other)
    <3>1. \A i \in 1..Len(s) : s[i][other] # r[other]
      BY <1>0, <2>3, <2>5 DEF ToSet
    <3> SUFFICES ASSUME NEW i \in 1..(Len(s) + 1), NEW j \in 1..(Len(s) + 1), t[i][other] = t[j][other] PROVE i = j
      BY <2>2 DEF Keyed
    <3>2. CASE i = Len(s) + 1 \/ j = Len(s) + 1
      BY <1>0, <2>2, <3>1, <3>2
    <3>3. CASE i \in 1..Len(s) /\ j \in 1..Len(s)
      BY <1>0, <2>2, <2>5, <3>3 DEF Keyed
    <3> QED BY <1>0, <3>2, <3>3
  <2>6. Keyed(t, key)
    BY <2>5
  <2> QED BY <2>2, <2>3, <2>4, <2>5, <2>6 DEF t
<1> QED BY <1>1, <1>2

\* A rewrite of rows that leaves a field alone.
LEMMA RewriteFacts ==
  ASSUME NEW X, NEW s \in Seq(X), NEW G \in [X -> X], NEW t, t = [i \in DOMAIN s |-> G[s[i]]]
  PROVE  /\ t \in Seq(X) /\ Len(t) = Len(s)
         /\ ToSet(t) = {G[x] : x \in ToSet(s)}
         /\ \A key : Keyed(s, key) /\ (\A x \in X : G[x][key] = x[key]) => Keyed(t, key)
<1>1. DOMAIN s = 1..Len(s) /\ Len(s) \in Nat /\ \A i \in DOMAIN s : s[i] \in X
  OBVIOUS
<1>2. t \in [1..Len(s) -> X] /\ DOMAIN t = DOMAIN s /\ \A i \in DOMAIN s : t[i] = G[s[i]]
  BY <1>1
<1>3. t \in Seq(X) /\ Len(t) = Len(s)
  BY <1>1, <1>2
<1>4. ToSet(t) = {G[x] : x \in ToSet(s)}
  BY <1>2 DEF ToSet
<1>5. ASSUME NEW key, Keyed(s, key), \A x \in X : G[x][key] = x[key] PROVE Keyed(t, key)
  <2>1. \A i \in DOMAIN s : t[i][key] = s[i][key]
    BY <1>1, <1>2, <1>5
  <2> QED BY <1>2, <1>5, <2>1 DEF Keyed
<1> QED BY <1>3, <1>4, <1>5

-----------------------------------------------------------------------------
(* What both adapters hold.                                                 *)

DealsTyped == /\ pgDeals \in SUBSET DealRow /\ IsFiniteSet(pgDeals) /\ Cardinality(pgDeals) <= MaxDeals
              /\ memDeals \in Seq(DealRow) /\ Len(memDeals) <= MaxDeals + 1
              /\ memSources \in Seq(SourceRow) /\ memEvidence \in Seq(EvidenceRow)
              /\ dealAnswer \in (0..MaxDeals) \X (0..MaxDeals)
              /\ dealRefused \in BOOLEAN
RowsKeyed == /\ Keyed(memDeals, "id") /\ Keyed(memEvidence, "id")
             /\ Keyed(memSources, "id") /\ Keyed(memSources, "url")
TablesSame == /\ ~dealRefused => pgDeals = ToSet(memDeals)
              /\ pgSources = ToSet(memSources) /\ pgEvidence = ToSet(memEvidence)
              /\ dealAnswer[1] = dealAnswer[2]

DealsInv == DealsTyped /\ RowsKeyed /\ TablesSame

\* Nothing is stored at first.
LEMMA DealsStart == DealTablesInit => DealsInv
<1> SUFFICES ASSUME DealTablesInit PROVE DealsInv
  OBVIOUS
<1>1. \A X : <<>> \in Seq(X) /\ ToSet(<<>>) = {} /\ Len(<<>>) = 0 /\ \A key : Keyed(<<>>, key)
  BY DEF ToSet, Keyed
<1>2. IsFiniteSet({}) /\ Cardinality({}) = 0
  BY FS_EmptySet
<1>3. DealsTyped
  <2>1. MaxDeals \in Nat /\ 0 <= MaxDeals /\ 0 <= MaxDeals + 1 /\ 0 \in 0..MaxDeals
    BY DealTablesAssumption
  <2>2. pgDeals = {} /\ memDeals = <<>> /\ memSources = <<>> /\ memEvidence = <<>> /\ dealAnswer = <<0, 0>> /\ dealRefused = FALSE
    BY DEF DealTablesInit
  <2> QED BY <1>1, <1>2, <2>1, <2>2 DEF DealsTyped
<1>4. RowsKeyed
  BY <1>1 DEF DealTablesInit, RowsKeyed
<1>5. TablesSame
  BY <1>1 DEF DealTablesInit, TablesSame
<1> QED BY <1>3, <1>4, <1>5 DEF DealsInv

\* A deal is put under its id.
LEMMA PutDeal ==
  ASSUME NEW s \in Seq(DealRow), Keyed(s, "id"), NEW d \in DealRow
  PROVE  LET t == Put(s, "id", d) IN
         /\ t \in Seq(DealRow) /\ Keyed(t, "id")
         /\ ToSet(t) = {x \in ToSet(s) : x.id # d.id} \cup {d}
         /\ Len(t) = IF \E x \in ToSet(s) : x.id = d.id THEN Len(s) ELSE Len(s) + 1
<1> DEFINE t == Put(s, "id", d)
<1>1. /\ t \in Seq(DealRow) /\ Keyed(t, "id")
      /\ ToSet(t) = {x \in ToSet(s) : x["id"] # d["id"]} \cup {d}
      /\ Len(t) = IF \E x \in ToSet(s) : x["id"] = d["id"] THEN Len(s) ELSE Len(s) + 1
  BY PutFacts
<1>2. \A x \in ToSet(s) : x["id"] = x.id
  BY StoreFacts
<1> HIDE DEF t
<1>3. d["id"] = d.id
  OBVIOUS
<1> QED BY <1>1, <1>2, <1>3 DEF t

\* The writes, one lemma each.
LEMMA InsertDealKeeps ==
  ASSUME DealsInv, ~dealRefused, NEW d \in DealRows, InsertDeal(d)
  PROVE  DealsInv'
<1>1. d \in DealRow /\ MaxDeals \in Nat
  BY DealTablesAssumption
<1>2. /\ memDeals \in Seq(DealRow) /\ Keyed(memDeals, "id") /\ pgDeals = ToSet(memDeals) /\ pgDeals \in SUBSET DealRow /\ IsFiniteSet(pgDeals)
      /\ Cardinality(pgDeals) < MaxDeals
      /\ memDeals' = Put(memDeals, "id", d)
      /\ \A e \in pgDeals : e.id # d.id
  BY DEF DealsInv, DealsTyped, RowsKeyed, TablesSame, InsertDeal, MemInsertDeal
<1>3. /\ memDeals' \in Seq(DealRow) /\ Keyed(memDeals', "id")
      /\ ToSet(memDeals') = {x \in ToSet(memDeals) : x.id # d.id} \cup {d}
      /\ Len(memDeals') = IF \E x \in ToSet(memDeals) : x.id = d.id THEN Len(memDeals) ELSE Len(memDeals) + 1
  BY <1>1, <1>2, PutDeal
<1>4. ToSet(memDeals') = pgDeals \cup {d}
  BY <1>1, <1>2, <1>3
<1>5. pgDeals' = IF Conflicts(d, pgDeals) THEN pgDeals ELSE pgDeals \cup {d}
  BY DEF InsertDeal, PgInsertDeal
<1>6. dealRefused' = Conflicts(d, pgDeals) /\ dealRefused' \in BOOLEAN
  BY DEF InsertDeal, Conflicts
<1>7. IsFiniteSet(pgDeals \cup {d}) /\ Cardinality(pgDeals \cup {d}) <= Cardinality(pgDeals) + 1 /\ Cardinality(pgDeals) \in Nat
  <2>1. Cardinality(pgDeals) \in Nat
    BY <1>2, FS_CardinalityType
  <2>2. IsFiniteSet(pgDeals \cup {d})
        /\ Cardinality(pgDeals \cup {d}) = IF d \in pgDeals THEN Cardinality(pgDeals) ELSE Cardinality(pgDeals) + 1
    BY <1>2, FS_AddElement
  <2> QED BY <2>1, <2>2
<1>8. IsFiniteSet(pgDeals') /\ Cardinality(pgDeals') <= MaxDeals /\ pgDeals' \in SUBSET DealRow
  <2>1. CASE pgDeals' = pgDeals
    BY <1>1, <1>2, <1>7, <2>1
  <2>2. CASE pgDeals' = pgDeals \cup {d}
    <3>1. Cardinality(pgDeals \cup {d}) \in Nat
      BY <1>7, FS_CardinalityType
    <3> QED BY <1>1, <1>2, <1>7, <2>2, <3>1
  <2> QED BY <1>5, <2>1, <2>2
<1>9. Len(memDeals') <= MaxDeals + 1
  <2>1. Len(memDeals) = Cardinality(pgDeals)
    BY <1>2, KeyedIsDistinct, StoreFacts
  <2> QED BY <1>1, <1>2, <1>3, <1>7, <2>1
<1> QED BY <1>1, <1>3, <1>4, <1>5, <1>6, <1>8, <1>9 DEF InsertDeal, DealsInv, DealsTyped, RowsKeyed, TablesSame

LEMMA UpdateDealKeeps ==
  ASSUME DealsInv, ~dealRefused, NEW d \in DealRows, UpdateDeal(d)
  PROVE  DealsInv'
<1>1. d \in DealRow /\ MaxDeals \in Nat
  BY DealTablesAssumption
<1>2. /\ memDeals \in Seq(DealRow) /\ Keyed(memDeals, "id") /\ pgDeals = ToSet(memDeals) /\ pgDeals \in SUBSET DealRow /\ IsFiniteSet(pgDeals)
      /\ Cardinality(pgDeals) <= MaxDeals
      /\ memDeals' = Put(memDeals, "id", d)
      /\ \E e \in pgDeals : e.id = d.id
  BY DEF DealsInv, DealsTyped, RowsKeyed, TablesSame, UpdateDeal, MemUpdateDeal
<1>3. /\ memDeals' \in Seq(DealRow) /\ Keyed(memDeals', "id")
      /\ ToSet(memDeals') = {x \in ToSet(memDeals) : x.id # d.id} \cup {d}
      /\ Len(memDeals') = IF \E x \in ToSet(memDeals) : x.id = d.id THEN Len(memDeals) ELSE Len(memDeals) + 1
  BY <1>1, <1>2, PutDeal
<1>4. ToSet(memDeals') = {IF e.id = d.id THEN d ELSE e : e \in pgDeals}
  <2>1. ToSet(memDeals') = {x \in pgDeals : x.id # d.id} \cup {d}
    BY <1>1, <1>2, <1>3
  <2> QED BY <1>2, <2>1
<1>5. dealRefused' \in BOOLEAN /\ (dealRefused' => pgDeals' = pgDeals)
      /\ (~dealRefused' => pgDeals' = {IF e.id = d.id THEN d ELSE e : e \in pgDeals})
  BY DEF UpdateDeal, PgUpdateDeal, Update, Conflicts
<1>6. Len(memDeals) = Cardinality(pgDeals) /\ Len(memDeals') = Len(memDeals)
  <2>1. Len(memDeals) = Cardinality(pgDeals)
    BY <1>2, KeyedIsDistinct, StoreFacts
  <2> QED BY <1>1, <1>2, <1>3, <2>1
<1>7. Cardinality(ToSet(memDeals')) = Len(memDeals') /\ IsFiniteSet(ToSet(memDeals')) /\ ToSet(memDeals') \in SUBSET DealRow
  BY <1>3, KeyedIsDistinct, StoreFacts
<1>8. IsFiniteSet(pgDeals') /\ Cardinality(pgDeals') <= MaxDeals /\ pgDeals' \in SUBSET DealRow
  BY <1>2, <1>4, <1>5, <1>6, <1>7
<1>9. Len(memDeals') <= MaxDeals + 1
  <2>1. Cardinality(pgDeals) \in Nat
    BY <1>2, FS_CardinalityType
  <2> QED BY <1>1, <1>2, <1>6, <2>1
<1> QED BY <1>1, <1>3, <1>4, <1>5, <1>8, <1>9 DEF UpdateDeal, DealsInv, DealsTyped, RowsKeyed, TablesSame

\* Rows with the same key are the same row.
LEMMA KeyedRows ==
  ASSUME NEW s, NEW key, Keyed(s, key), NEW x \in ToSet(s), NEW y \in ToSet(s), x[key] = y[key]
  PROVE  x = y
BY DEF Keyed, ToSet

\* What a scan for the rows of T finds.
LEMMA DealScan ==
  ASSUME NEW s \in Seq(DealRow), Keyed(s, "id"), NEW T
  PROVE  \E places \in SUBSET DOMAIN s :
           /\ places = {i \in DOMAIN s : s[i] \in T}
           /\ EntriesAt(s, places) \in Seq(DealRow) /\ Keyed(EntriesAt(s, places), "id")
           /\ ToSet(EntriesAt(s, places)) = ToSet(s) \cap T /\ IsFiniteSet(ToSet(s) \cap T)
           /\ Len(EntriesAt(s, places)) = Cardinality(ToSet(s) \cap T) /\ Len(EntriesAt(s, places)) <= Len(s)
<1>1. PICK places \in SUBSET DOMAIN s : places = {i \in DOMAIN s : s[i] \in T}
  OBVIOUS
<1>2. PICK e : e = EntriesAt(s, places)
  OBVIOUS
<1>3. e \in Seq(DealRow) /\ Distinct(e) /\ Len(e) <= Len(s) /\ ToSet(e) = {s[i] : i \in places}
  BY <1>2, KeyedIsDistinct, EntriesFacts
<1>4. ToSet(e) = ToSet(s) \cap T
  BY <1>1, <1>3 DEF ToSet
<1>5. IsFiniteSet(ToSet(e)) /\ Cardinality(ToSet(e)) = Len(e)
  BY <1>3, StoreFacts
<1>6. Keyed(e, "id")
  <2>2. ToSet(e) \in SUBSET ToSet(s)
    BY <1>4
  <2>3. \A i \in DOMAIN e : e[i] \in ToSet(s)
    BY <1>3, <2>2, StoreFacts
  <2>4. \A i, j \in DOMAIN e : e[i]["id"] = e[j]["id"] => e[i] = e[j]
    BY <2>3, KeyedRows
  <2> QED BY <1>3, <2>4 DEF Keyed, Distinct
<1> QED BY <1>1, <1>2, <1>3, <1>4, <1>5, <1>6

LEMMA UpdateStatusKeeps ==
  ASSUME DealsInv, ~dealRefused, NEW id, NEW status \in Statuses, NEW at \in Nat, UpdateStatus(id, status, at)
  PROVE  DealsInv'
<1> DEFINE G == [x \in DealRow |-> IF x.id = id THEN [x EXCEPT !.status = status, !.verified_at = at] ELSE x]
<1>1. G \in [DealRow -> DealRow] /\ \A x \in DealRow : G[x].id = x.id
  BY DEF DealRow
<1>2. memDeals \in Seq(DealRow) /\ Keyed(memDeals, "id") /\ pgDeals = ToSet(memDeals) /\ pgDeals \in SUBSET DealRow
  BY DEF DealsInv, DealsTyped, RowsKeyed, TablesSame
<1>3. \A i \in DOMAIN memDeals : memDeals[i] \in DealRow
  BY <1>2
<1>4. memDeals' = [i \in DOMAIN memDeals |-> G[memDeals[i]]]
  BY <1>3 DEF UpdateStatus, MemUpdateStatus, Rewrite
<1>5. pgDeals' = {G[x] : x \in pgDeals}
  BY <1>2 DEF UpdateStatus, PgUpdateStatus, Update
<1> HIDE DEF G
<1>6. memDeals' \in Seq(DealRow) /\ Len(memDeals') = Len(memDeals) /\ ToSet(memDeals') = {G[x] : x \in ToSet(memDeals)}
  BY <1>1, <1>2, <1>4, RewriteFacts
<1>7. Keyed(memDeals', "id")
  <2>1. \A x \in DealRow : G[x]["id"] = x["id"]
    BY <1>1
  <2> QED BY <1>1, <1>2, <1>4, <2>1, RewriteFacts
<1>8. Len(memDeals) = Cardinality(pgDeals)
  BY <1>2, KeyedIsDistinct, StoreFacts
<1>9. pgDeals' = ToSet(memDeals') /\ Cardinality(pgDeals') = Len(memDeals') /\ IsFiniteSet(pgDeals') /\ pgDeals' \in SUBSET DealRow
  BY <1>2, <1>5, <1>6, <1>7, KeyedIsDistinct, StoreFacts
<1>10. Cardinality(pgDeals') <= MaxDeals /\ Len(memDeals') <= MaxDeals + 1
  BY <1>6, <1>8, <1>9 DEF DealsInv, DealsTyped
<1>11. dealAnswer' = <<0, 0>> /\ <<0, 0>> \in (0..MaxDeals) \X (0..MaxDeals)
  BY DealTablesAssumption DEF UpdateStatus
<1>12. UNCHANGED <<pgSources, pgEvidence, memSources, memEvidence, dealRefused>>
  BY DEF UpdateStatus
<1> QED BY <1>6, <1>7, <1>9, <1>10, <1>11, <1>12 DEF DealsInv, DealsTyped, RowsKeyed, TablesSame

LEMMA ExpireKeeps ==
  ASSUME DealsInv, ~dealRefused, NEW url, NEW at \in Nat, ExpirePublished(url, at)
  PROVE  DealsInv'
<1> DEFINE T == {x \in DealRow : x.url = url /\ x.status = "published"}
           G == [x \in DealRow |-> IF x \in T THEN Expired(x, at) ELSE x]
           places == {i \in DOMAIN memDeals : memDeals[i] \in T}
<1>1. G \in [DealRow -> DealRow] /\ \A x \in DealRow : G[x].id = x.id
  BY DEF DealRow, Expired, Statuses
<1>2. memDeals \in Seq(DealRow) /\ Keyed(memDeals, "id") /\ pgDeals = ToSet(memDeals) /\ pgDeals \in SUBSET DealRow
  BY DEF DealsInv, DealsTyped, RowsKeyed, TablesSame
<1>3. \A i \in DOMAIN memDeals : memDeals[i] \in DealRow
  BY <1>2
<1>4. memDeals' = [i \in DOMAIN memDeals |-> G[memDeals[i]]]
  BY <1>3 DEF ExpirePublished, MemExpirePublished, Rewrite
<1>5. pgDeals' = {G[x] : x \in pgDeals}
  BY <1>2 DEF ExpirePublished, PgExpirePublished, Update
<1>6. Select(pgDeals, LAMBDA e : e.url = url /\ e.status = "published") = pgDeals \cap T
  BY <1>2 DEF Select
<1>7. Scan(memDeals, LAMBDA e : e.url = url /\ e.status = "published") = EntriesAt(memDeals, places)
  <2>1. {i \in DOMAIN memDeals : memDeals[i].url = url /\ memDeals[i].status = "published"} = places
    BY <1>3
  <2> HIDE DEF places
  <2> QED BY <2>1 DEF Scan
<1>8. dealAnswer' = <<Cardinality(pgDeals \cap T), Len(EntriesAt(memDeals, places))>>
  <2> HIDE DEF T, places
  <2> QED BY <1>6, <1>7 DEF ExpirePublished, PgExpirePublished, MemExpirePublished
<1> HIDE DEF G
<1>9. Distinct(memDeals)
  BY <1>2, KeyedIsDistinct
<1>10. IsFiniteSet(pgDeals \cap T) /\ Len(EntriesAt(memDeals, places)) = Cardinality(pgDeals \cap T)
       /\ Len(EntriesAt(memDeals, places)) <= Len(memDeals)
  <2>1. places = {i \in DOMAIN memDeals : memDeals[i] \in T}
    OBVIOUS
  <2> HIDE DEF T, places
  <2>2. memDeals \in Seq(DealRow) /\ Keyed(memDeals, "id") /\ pgDeals = ToSet(memDeals)
    BY <1>2
  <2>3. PICK found : /\ found = {i \in DOMAIN memDeals : memDeals[i] \in T}
                     /\ IsFiniteSet(ToSet(memDeals) \cap T)
                     /\ Len(EntriesAt(memDeals, found)) = Cardinality(ToSet(memDeals) \cap T)
                     /\ Len(EntriesAt(memDeals, found)) <= Len(memDeals)
    BY <2>2, DealScan
  <2>4. found = places
    BY <2>1, <2>3
  <2> QED BY <2>2, <2>3, <2>4
<1> HIDE DEF T, places
<1>11. memDeals' \in Seq(DealRow) /\ Len(memDeals') = Len(memDeals) /\ ToSet(memDeals') = {G[x] : x \in ToSet(memDeals)}
  BY <1>1, <1>2, <1>4, RewriteFacts
<1>12. Keyed(memDeals', "id")
  <2>1. \A x \in DealRow : G[x]["id"] = x["id"]
    BY <1>1
  <2> QED BY <1>1, <1>2, <1>4, <2>1, RewriteFacts
<1>13. Len(memDeals) = Cardinality(pgDeals)
  BY <1>2, <1>9, StoreFacts
<1>14. pgDeals' = ToSet(memDeals') /\ Cardinality(pgDeals') = Len(memDeals') /\ IsFiniteSet(pgDeals') /\ pgDeals' \in SUBSET DealRow
  BY <1>2, <1>5, <1>11, <1>12, KeyedIsDistinct, StoreFacts
<1>15. Cardinality(pgDeals') <= MaxDeals /\ Len(memDeals') <= MaxDeals + 1
  BY <1>11, <1>13, <1>14 DEF DealsInv, DealsTyped
<1>16. dealAnswer' \in (0..MaxDeals) \X (0..MaxDeals) /\ dealAnswer'[1] = dealAnswer'[2]
  <2>1. PICK n : n = Cardinality(pgDeals \cap T) /\ dealAnswer' = <<n, n>>
    BY <1>8, <1>10
  <2>2. n \in Nat /\ n <= MaxDeals /\ MaxDeals \in Nat
    <3>1. n \in Nat
      BY <1>10, <2>1, FS_CardinalityType
    <3>2. n <= Cardinality(pgDeals) /\ Cardinality(pgDeals) <= MaxDeals
      BY <1>10, <1>13, <2>1 DEF DealsInv, DealsTyped
    <3>3. Cardinality(pgDeals) \in Nat
      BY FS_CardinalityType DEF DealsInv, DealsTyped
    <3> QED BY <3>1, <3>2, <3>3, DealTablesAssumption
  <2> QED BY <2>1, <2>2
<1>17. UNCHANGED <<pgSources, pgEvidence, memSources, memEvidence, dealRefused>>
  BY DEF ExpirePublished
<1> QED BY <1>11, <1>12, <1>14, <1>15, <1>16, <1>17 DEF DealsInv, DealsTyped, RowsKeyed, TablesSame

\* What a look-up in a store finds, if anything.
LEMMA FirstFacts ==
  ASSUME NEW X, NEW s \in Seq(X), NEW T, NEW places, places = {i \in DOMAIN s : s[i] \in T}
  PROVE  IF ToSet(s) \cap T = {} THEN FirstOf(EntriesAt(s, places)) = NoRow
         ELSE FirstOf(EntriesAt(s, places)) \in ToSet(s) \cap T
<1>1. places \in SUBSET DOMAIN s
  OBVIOUS
<1>2. PICK e : e = EntriesAt(s, places)
  OBVIOUS
<1>3. e \in Seq(X) /\ ToSet(e) = {s[i] : i \in places}
  BY <1>1, <1>2, EntriesFacts
<1>4. {s[i] : i \in places} = ToSet(s) \cap T
  BY DEF ToSet
<1>5. CASE e = <<>>
  <2>1. ToSet(e) = {}
    BY <1>5 DEF ToSet
  <2> QED BY <1>2, <1>3, <1>4, <1>5, <2>1 DEF FirstOf
<1>6. CASE e # <<>>
  <2>1. 1 \in DOMAIN e /\ FirstOf(e) = e[1]
    BY <1>3, <1>6 DEF FirstOf
  <2>2. FirstOf(e) \in ToSet(e)
    BY <2>1 DEF ToSet
  <2> QED BY <1>2, <1>3, <1>4, <2>2
<1> QED BY <1>5, <1>6

\* A source is put under its url, and may not take the id of another one.
LEMMA PutSource ==
  ASSUME NEW s \in Seq(SourceRow), Keyed(s, "url"), Keyed(s, "id"), NEW r \in SourceRow,
         \A x \in ToSet(s) : x.id = r.id => x.url = r.url
  PROVE  LET t == Put(s, "url", r) IN
         /\ t \in Seq(SourceRow) /\ Keyed(t, "url") /\ Keyed(t, "id")
         /\ ToSet(t) = {x \in ToSet(s) : x.url # r.url} \cup {r}
<1> DEFINE t == Put(s, "url", r)
<1>1. /\ t \in Seq(SourceRow) /\ Keyed(t, "url")
      /\ ToSet(t) = {x \in ToSet(s) : x["url"] # r["url"]} \cup {r}
      /\ \A other : Keyed(s, other) /\ (\A x \in ToSet(s) : x[other] = r[other] => x["url"] = r["url"]) => Keyed(t, other)
  BY PutFacts
<1>2. \A x \in ToSet(s) : x["url"] = x.url /\ x["id"] = x.id
  BY StoreFacts
<1> HIDE DEF t
<1>3. r["url"] = r.url /\ r["id"] = r.id
  OBVIOUS
<1>4. Keyed(t, "id")
  BY <1>1, <1>2, <1>3
<1> QED BY <1>1, <1>2, <1>3, <1>4 DEF t

LEMMA UpsertSourceKeeps ==
  ASSUME DealsInv, ~dealRefused, NEW s \in SourceRows, UpsertSource(s)
  PROVE  DealsInv'
<1>1. /\ s \in SourceRow /\ memSources \in Seq(SourceRow) /\ Keyed(memSources, "url") /\ Keyed(memSources, "id")
      /\ pgSources = ToSet(memSources) /\ pgSources \in SUBSET SourceRow
      /\ \A t \in pgSources : t.url # s.url => t.id # s.id
  <2>1. s \in SourceRow /\ memSources \in Seq(SourceRow) /\ Keyed(memSources, "url") /\ Keyed(memSources, "id") /\ pgSources = ToSet(memSources)
    BY DealTablesAssumption DEF DealsInv, DealsTyped, RowsKeyed, TablesSame
  <2> QED BY <2>1, StoreFacts DEF UpsertSource
<1> DEFINE T == {x \in SourceRow : x.url = s.url}
           places == {i \in DOMAIN memSources : memSources[i] \in T}
           known == FirstOf(EntriesAt(memSources, places))
           r == IF known = NoRow THEN s ELSE [s EXCEPT !.id = known.id]
<1>2. Scan(memSources, LAMBDA t : t.url = s.url) = EntriesAt(memSources, places)
  <2>1. {i \in DOMAIN memSources : memSources[i].url = s.url} = places
    BY <1>1
  <2> HIDE DEF places
  <2> QED BY <2>1 DEF Scan
<1>3. memSources' = Put(memSources, "url", r)
  <2> HIDE DEF places
  <2> QED BY <1>2 DEF UpsertSource, MemUpsertSource
<1>4. IF pgSources \cap T = {} THEN known = NoRow ELSE known \in pgSources \cap T
  <2>1. places = {i \in DOMAIN memSources : memSources[i] \in T}
    OBVIOUS
  <2> HIDE DEF T, places
  <2> QED BY <1>1, <2>1, FirstFacts
<1> HIDE DEF known
<1>5. \A x \in SourceRow : x # NoRow
  BY DEF SourceRow, NoRow
<1>6. /\ r \in SourceRow /\ r.url = s.url
      /\ \A x \in pgSources : x.id = r.id => x.url = r.url
      /\ pgSources' = {x \in pgSources : x.url # r.url} \cup {r}
  <2>1. CASE pgSources \cap T = {}
    <3>1. r = s /\ \A t \in pgSources : t.url # s.url
      BY <1>1, <1>4, <2>1
    <3>2. pgSources' = pgSources \cup {s}
      BY <3>1 DEF UpsertSource, PgUpsertSource
    <3> HIDE DEF r
    <3> QED BY <1>1, <3>1, <3>2
  <2>2. CASE pgSources \cap T # {}
    <3>1. known \in pgSources /\ known.url = s.url /\ known # NoRow /\ known \in SourceRow
      BY <1>1, <1>4, <1>5, <2>2
    <3>2. r = [s EXCEPT !.id = known.id] /\ r \in SourceRow /\ r.url = s.url /\ r.id = known.id
      BY <1>1, <3>1 DEF SourceRow
    <3> HIDE DEF r
    <3>3. \A x \in pgSources : x["id"] = known["id"] => x = known
      BY <1>1, <3>1, KeyedRows
    <3>4. \A x \in pgSources : x["url"] = known["url"] => x = known
      BY <1>1, <3>1, KeyedRows
    <3>5. \A x \in pgSources : /\ x["id"] = known["id"] <=> x.id = known.id
                               /\ x["url"] = known["url"] <=> x.url = known.url
      BY <1>1, <3>1
    <3>6. pgSources' = {IF t.url = s.url THEN [s EXCEPT !.id = t.id] ELSE t : t \in pgSources}
      BY <3>1 DEF UpsertSource, PgUpsertSource, Update
    <3>7. \A x \in pgSources : (x.id = r.id => x = known) /\ (x.url = s.url => x = known)
      BY <3>1, <3>2, <3>3, <3>4, <3>5
    <3>8. pgSources' = {x \in pgSources : x.url # r.url} \cup {r}
      BY <3>1, <3>2, <3>6, <3>7
    <3> QED BY <3>1, <3>2, <3>7, <3>8
  <2> QED BY <2>1, <2>2
<1> HIDE DEF r, T, places
<1>7. /\ memSources' \in Seq(SourceRow) /\ Keyed(memSources', "url") /\ Keyed(memSources', "id")
      /\ ToSet(memSources') = {x \in ToSet(memSources) : x.url # r.url} \cup {r}
  BY <1>1, <1>3, <1>6, PutSource
<1>8. dealAnswer' = <<0, 0>> /\ <<0, 0>> \in (0..MaxDeals) \X (0..MaxDeals)
  BY DealTablesAssumption DEF UpsertSource
<1>9. UNCHANGED <<pgDeals, pgEvidence, memDeals, memEvidence, dealRefused>>
  BY DEF UpsertSource
<1> QED BY <1>1, <1>6, <1>7, <1>8, <1>9 DEF DealsInv, DealsTyped, RowsKeyed, TablesSame

LEMMA UpdateSourceKeeps ==
  ASSUME DealsInv, ~dealRefused, NEW s \in SourceRows, UpdateSource(s)
  PROVE  DealsInv'
<1>1. /\ s \in SourceRow /\ memSources \in Seq(SourceRow) /\ Keyed(memSources, "url") /\ Keyed(memSources, "id")
      /\ pgSources = ToSet(memSources) /\ pgSources \in SUBSET SourceRow
  <2>1. s \in SourceRow /\ memSources \in Seq(SourceRow) /\ Keyed(memSources, "url") /\ Keyed(memSources, "id") /\ pgSources = ToSet(memSources)
    BY DealTablesAssumption DEF DealsInv, DealsTyped, RowsKeyed, TablesSame
  <2> QED BY <2>1, StoreFacts
<1>2. PICK t \in pgSources : t.id = s.id /\ t.url = s.url
  BY DEF UpdateSource
<1>3. \A x \in pgSources : (x["id"] = t["id"] => x = t) /\ (x["url"] = t["url"] => x = t)
  BY <1>1, KeyedRows
<1>4. \A x \in pgSources : (x.id = s.id => x = t) /\ (x.url = s.url => x = t)
  BY <1>1, <1>2, <1>3
<1>5. /\ memSources' \in Seq(SourceRow) /\ Keyed(memSources', "url") /\ Keyed(memSources', "id")
      /\ ToSet(memSources') = {x \in ToSet(memSources) : x.url # s.url} \cup {s}
  <2>1. memSources' = Put(memSources, "url", s)
    BY DEF UpdateSource, MemUpdateSource
  <2> QED BY <1>1, <1>2, <1>4, <2>1, PutSource
<1>6. pgSources' = {x \in pgSources : x.url # s.url} \cup {s}
  BY <1>2, <1>4 DEF UpdateSource, PgUpdateSource, Update
<1>7. dealAnswer' = <<0, 0>> /\ <<0, 0>> \in (0..MaxDeals) \X (0..MaxDeals)
  BY DealTablesAssumption DEF UpdateSource
<1>8. UNCHANGED <<pgDeals, pgEvidence, memDeals, memEvidence, dealRefused>>
  BY DEF UpdateSource
<1> QED BY <1>1, <1>5, <1>6, <1>7, <1>8 DEF DealsInv, DealsTyped, RowsKeyed, TablesSame

LEMMA InsertEvidenceKeeps ==
  ASSUME DealsInv, ~dealRefused, NEW e \in EvidenceRows, InsertEvidence(e)
  PROVE  DealsInv'
<1>1. e \in EvidenceRow /\ memEvidence \in Seq(EvidenceRow) /\ Keyed(memEvidence, "id") /\ pgEvidence = ToSet(memEvidence)
  BY DealTablesAssumption DEF DealsInv, DealsTyped, RowsKeyed, TablesSame
<1>2. pgEvidence \in SUBSET EvidenceRow /\ \A x \in pgEvidence : x.id # e.id
  BY <1>1, StoreFacts DEF InsertEvidence
<1>3. memEvidence' = Put(memEvidence, "id", e)
  BY DEF InsertEvidence
<1>4. /\ memEvidence' \in Seq(EvidenceRow) /\ Keyed(memEvidence', "id")
      /\ ToSet(memEvidence') = {x \in ToSet(memEvidence) : x["id"] # e["id"]} \cup {e}
  <2>1. PICK key : key = "id"
    OBVIOUS
  <2>2. /\ Put(memEvidence, key, e) \in Seq(EvidenceRow) /\ Keyed(Put(memEvidence, key, e), key)
        /\ ToSet(Put(memEvidence, key, e)) = {x \in ToSet(memEvidence) : x[key] # e[key]} \cup {e}
    BY <1>1, <2>1, PutFacts
  <2> QED BY <1>3, <2>1, <2>2
<1>5. \A x \in pgEvidence : x["id"] # e["id"]
  BY <1>1, <1>2
<1>6. ToSet(memEvidence') = pgEvidence \cup {e}
  BY <1>1, <1>4, <1>5
<1>7. dealAnswer' = <<0, 0>> /\ <<0, 0>> \in (0..MaxDeals) \X (0..MaxDeals)
  BY DealTablesAssumption DEF InsertEvidence
<1>8. UNCHANGED <<pgDeals, pgSources, memDeals, memSources, dealRefused>> /\ pgEvidence' = pgEvidence \cup {e}
  BY DEF InsertEvidence
<1> QED BY <1>1, <1>4, <1>6, <1>7, <1>8 DEF DealsInv, DealsTyped, RowsKeyed, TablesSame

\* So the lockstep lasts.
LEMMA DealsStep == DealsInv /\ [DealTablesNext]_dealTableVars => DealsInv'
<1>1. ASSUME DealsInv, UNCHANGED dealTableVars PROVE DealsInv'
  BY <1>1 DEF dealTableVars, DealsInv, DealsTyped, RowsKeyed, TablesSame
<1>2. ASSUME DealsInv, DealTablesNext PROVE DealsInv'
  <2>1. ~dealRefused /\ Latest \in Nat /\ "rejected" \in Statuses
    BY <1>2, DealTablesAssumption DEF DealTablesNext, Statuses
  <2>2. ASSUME NEW d \in DealRows, InsertDeal(d) PROVE DealsInv'
    BY <1>2, <2>1, <2>2, InsertDealKeeps
  <2>3. ASSUME NEW d \in DealRows, UpdateDeal(d) PROVE DealsInv'
    BY <1>2, <2>1, <2>3, UpdateDealKeeps
  <2>4. ASSUME NEW d \in DealRows, UpdateStatus(d.id, "rejected", Latest) PROVE DealsInv'
    BY <1>2, <2>1, <2>4, UpdateStatusKeeps
  <2>5. ASSUME NEW d \in DealRows, ExpirePublished(d.url, Latest) PROVE DealsInv'
    BY <1>2, <2>1, <2>5, ExpireKeeps
  <2>6. ASSUME NEW s \in SourceRows, UpsertSource(s) PROVE DealsInv'
    BY <1>2, <2>1, <2>6, UpsertSourceKeeps
  <2>7. ASSUME NEW s \in SourceRows, UpdateSource(s) PROVE DealsInv'
    BY <1>2, <2>1, <2>7, UpdateSourceKeeps
  <2>8. ASSUME NEW e \in EvidenceRows, InsertEvidence(e) PROVE DealsInv'
    BY <1>2, <2>1, <2>8, InsertEvidenceKeeps
  <2> QED BY <1>2, <2>2, <2>3, <2>4, <2>5, <2>6, <2>7, <2>8 DEF DealTablesNext
<1> QED BY <1>1, <1>2

\* The in-memory maps and the Postgres tables go through the same writes and hold
\* the same rows: of deals until the unique index has refused a row, of sources
\* and captures always; each Map has one entry per id (and, for sources, per
\* url), and a write returns the same number from both (postgres-db.ts,
\* in-memory-db.ts).
THEOREM DealsInvariant == DealTablesSpec => []DealsInv
BY DealsStart, DealsStep, PTL DEF DealTablesSpec

-----------------------------------------------------------------------------
(* The cap.                                                                 *)

\* A domain without a pinned source is neutral, any other has the best of its scores.
LEMMA ReliabilityIsScore ==
  ASSUME NEW sources \in SUBSET SourceRow, NEW dom
  PROVE  Reliability(dom, ReliabilityIndex(sources)) \in 0..2
<1> DEFINE pinned == {s \in sources : s.domain # NoDomain}
           scores == {s.reliability : s \in {t \in pinned : t.domain = dom}}
           index == ReliabilityIndex(sources)
<1>1. index = [d \in {s.domain : s \in pinned} |-> Max({s.reliability : s \in {t \in pinned : t.domain = d}})]
  BY DEF ReliabilityIndex
<1>2. CASE dom \in {s.domain : s \in pinned}
  <2>1. Reliability(dom, index) = Max(scores)
    <3> HIDE DEF index, pinned
    <3> QED BY <1>1, <1>2 DEF Reliability
  <2>2. scores \in SUBSET (0..2) /\ scores # {}
    BY <1>2 DEF SourceRow
  <2> HIDE DEF scores
  <2>3. \E x \in scores : \A y \in scores : x >= y
    <3>1. PICK z \in scores : TRUE
      BY <2>2
    <3>2. \A y \in scores : y = 0 \/ y = 1 \/ y = 2
      BY <2>2
    <3>3. CASE 2 \in scores
      BY <3>2, <3>3
    <3>4. CASE 2 \notin scores /\ 1 \in scores
      <4>1. \A y \in scores : 1 >= y
        BY <3>2, <3>4
      <4> QED BY <3>4, <4>1
    <3>5. CASE 2 \notin scores /\ 1 \notin scores
      <4>1. z = 0 /\ \A y \in scores : z >= y
        BY <3>1, <3>2, <3>5
      <4> QED BY <3>1, <4>1
    <3> QED BY <3>3, <3>4, <3>5
  <2>4. Max(scores) \in scores
    BY <2>3 DEF Max
  <2> QED BY <2>1, <2>2, <2>4
<1>3. CASE dom \notin {s.domain : s \in pinned}
  <2>1. Reliability(dom, index) = Neutral
    <3> HIDE DEF index, pinned
    <3> QED BY <1>1, <1>3 DEF Reliability
  <2> QED BY <2>1 DEF Neutral
<1> QED BY <1>2, <1>3

\* The two orders of the feed: the one of the fetch and the one of the page.
ByPrimary(sort) == {p \in DealRow \X DealRow : ComparePublishedPrimary(sort, p[1], p[2])}
ByRank(sort, index) == {p \in DealRow \X DealRow : ComparePublished(sort, index, p[1], p[2])}

\* Both are strict and leave no two deals tied, since the last criterion is the id.
LEMMA ByPrimaryOrders ==
  ASSUME NEW S \in SUBSET DealRow, \A a, b \in S : a.id = b.id => a = b, NEW sort
  PROVE  Orders(ByPrimary(sort), S)
<1>1. \A a \in S : a.cost \in Nat /\ a.verified_at \in Nat /\ a.id \in Nat
  BY DEF DealRow
<1>2. \A a, b \in S : <<a, b>> \in ByPrimary(sort) <=> ComparePublishedPrimary(sort, a, b)
  BY DEF ByPrimary
<1>3. \A a \in S : ~ComparePublishedPrimary(sort, a, a)
  BY <1>1 DEF ComparePublishedPrimary, PrimaryBefore, PrimaryTie
<1>4. \A a, b \in S : a # b => ComparePublishedPrimary(sort, a, b) \/ ComparePublishedPrimary(sort, b, a)
  BY <1>1 DEF ComparePublishedPrimary, PrimaryBefore, PrimaryTie
<1>5. \A a, b, c \in S : ComparePublishedPrimary(sort, a, b) /\ ComparePublishedPrimary(sort, b, c)
                         => ComparePublishedPrimary(sort, a, c)
  BY <1>1 DEF ComparePublishedPrimary, PrimaryBefore, PrimaryTie
<1> QED BY <1>2, <1>3, <1>4, <1>5 DEF Orders

\* The ranking leaves no two deals tied.
LEMMA ByRankOrders ==
  ASSUME NEW S \in SUBSET DealRow, \A a, b \in S : a.id = b.id => a = b, NEW sort,
         NEW index, \A dom : Reliability(dom, index) \in 0..2
  PROVE  Orders(ByRank(sort, index), S)
<1>1. \A a \in S : a.cost \in Nat /\ a.verified_at \in Nat /\ a.id \in Nat /\ Reliability(a.domain, index) \in Nat
  BY DEF DealRow
<1>2. \A a, b \in S : <<a, b>> \in ByRank(sort, index) <=> ComparePublished(sort, index, a, b)
  BY DEF ByRank
<1>3. \A a \in S : ~ComparePublished(sort, index, a, a)
  BY <1>1 DEF ComparePublished, PrimaryBefore, PrimaryTie
<1>4. \A a, b \in S : a # b => ComparePublished(sort, index, a, b) \/ ComparePublished(sort, index, b, a)
  BY <1>1 DEF ComparePublished, PrimaryBefore, PrimaryTie
<1>5. \A a, b, c \in S : ComparePublished(sort, index, a, b) /\ ComparePublished(sort, index, b, c)
                         => ComparePublished(sort, index, a, c)
  BY <1>1 DEF ComparePublished, PrimaryBefore, PrimaryTie
<1> QED BY <1>2, <1>3, <1>4, <1>5 DEF Orders

\* Sorting by either is arranging the rows by their place.
PrimarySort(s, sort) == StableSort(s, LAMBDA a, b : ComparePublishedPrimary(sort, a, b))
RankSort(s, sort, index) == StableSort(s, LAMBDA a, b : ComparePublished(sort, index, a, b))

\* The sort by the primary key and the sort of the ranking depend on the rows alone,
LEMMA PrimarySorted ==
  ASSUME NEW s \in Seq(DealRow), \A i, j \in DOMAIN s : s[i].id = s[j].id => i = j, NEW sort
  PROVE  PrimarySort(s, sort) = Arranged(ToSet(s), ByPrimary(sort))
<1> DEFINE R == ByPrimary(sort)
           Q == {p \in (DOMAIN s) \X (DOMAIN s) :
                   \/ ComparePublishedPrimary(sort, s[p[1]], s[p[2]])
                   \/ ~ComparePublishedPrimary(sort, s[p[2]], s[p[1]]) /\ p[1] < p[2]}
<1>1. \A i \in DOMAIN s : s[i] \in DealRow /\ i \in Int
  OBVIOUS
<1>2. Distinct(s)
  BY DEF Distinct
<1>3. Orders(R, ToSet(s))
  <2>1. \A a, b \in ToSet(s) : a.id = b.id => a = b
    BY DEF ToSet
  <2> QED BY <2>1, StoreFacts, ByPrimaryOrders
<1>4. \A i, j \in DOMAIN s : <<i, j>> \in Q <=> <<s[i], s[j]>> \in R
  <2> SUFFICES ASSUME NEW i \in DOMAIN s, NEW j \in DOMAIN s PROVE <<i, j>> \in Q <=> <<s[i], s[j]>> \in R
    OBVIOUS
  <2>1. /\ <<s[i], s[j]>> \in R <=> ComparePublishedPrimary(sort, s[i], s[j])
        /\ <<s[j], s[i]>> \in R <=> ComparePublishedPrimary(sort, s[j], s[i])
    BY <1>1 DEF ByPrimary
  <2>2. <<i, j>> \in Q <=> (<<s[i], s[j]>> \in R \/ (<<s[j], s[i]>> \notin R /\ i < j))
    BY <2>1
  <2> HIDE DEF Q, R
  <2>3. s[i] \in ToSet(s) /\ s[j] \in ToSet(s)
    BY DEF ToSet
  <2>4. i # j => s[i] # s[j]
    BY <1>2 DEF Distinct
  <2> QED BY <1>1, <1>3, <2>2, <2>3, <2>4 DEF Orders
<1>5. PrimarySort(s, sort) = [n \in DOMAIN s |-> s[Arranged(DOMAIN s, Q)[n]]]
  BY DEF PrimarySort, StableSort
<1> HIDE DEF Q, R
<1>6. [n \in DOMAIN s |-> s[Arranged(DOMAIN s, Q)[n]]] = Arranged(ToSet(s), R)
  BY <1>2, <1>3, <1>4, SortIsArranged
<1> QED BY <1>5, <1>6 DEF R

\* not on where they came from.
LEMMA RankSorted ==
  ASSUME NEW s \in Seq(DealRow), \A i, j \in DOMAIN s : s[i].id = s[j].id => i = j, NEW sort,
         NEW index, \A dom : Reliability(dom, index) \in 0..2
  PROVE  RankSort(s, sort, index) = Arranged(ToSet(s), ByRank(sort, index))
<1> DEFINE R == ByRank(sort, index)
           Q == {p \in (DOMAIN s) \X (DOMAIN s) :
                   \/ ComparePublished(sort, index, s[p[1]], s[p[2]])
                   \/ ~ComparePublished(sort, index, s[p[2]], s[p[1]]) /\ p[1] < p[2]}
<1>1. \A i \in DOMAIN s : s[i] \in DealRow /\ i \in Int
  OBVIOUS
<1>2. Distinct(s)
  BY DEF Distinct
<1>3. Orders(R, ToSet(s))
  <2>1. \A a, b \in ToSet(s) : a.id = b.id => a = b
    BY DEF ToSet
  <2> QED BY <2>1, StoreFacts, ByRankOrders
<1>4. \A i, j \in DOMAIN s : <<i, j>> \in Q <=> <<s[i], s[j]>> \in R
  <2> SUFFICES ASSUME NEW i \in DOMAIN s, NEW j \in DOMAIN s PROVE <<i, j>> \in Q <=> <<s[i], s[j]>> \in R
    OBVIOUS
  <2>1. /\ <<s[i], s[j]>> \in R <=> ComparePublished(sort, index, s[i], s[j])
        /\ <<s[j], s[i]>> \in R <=> ComparePublished(sort, index, s[j], s[i])
    BY <1>1 DEF ByRank
  <2>2. <<i, j>> \in Q <=> (<<s[i], s[j]>> \in R \/ (<<s[j], s[i]>> \notin R /\ i < j))
    BY <2>1
  <2> HIDE DEF Q, R
  <2>3. s[i] \in ToSet(s) /\ s[j] \in ToSet(s)
    BY DEF ToSet
  <2>4. i # j => s[i] # s[j]
    BY <1>2 DEF Distinct
  <2> QED BY <1>1, <1>3, <2>2, <2>3, <2>4 DEF Orders
<1>5. RankSort(s, sort, index) = [n \in DOMAIN s |-> s[Arranged(DOMAIN s, Q)[n]]]
  BY DEF RankSort, StableSort
<1> HIDE DEF Q, R
<1>6. [n \in DOMAIN s |-> s[Arranged(DOMAIN s, Q)[n]]] = Arranged(ToSet(s), R)
  BY <1>2, <1>3, <1>4, SortIsArranged
<1> QED BY <1>5, <1>6 DEF R

\* The key of the Map of deals is a field of the row.
LEMMA KeyedById ==
  ASSUME NEW s \in Seq(DealRow), Keyed(s, "id")
  PROVE  /\ \A i, j \in DOMAIN s : s[i].id = s[j].id => i = j
         /\ \A a, b \in ToSet(s) : a.id = b.id => a = b
<1>1. \A i \in DOMAIN s : s[i] \in DealRow /\ s[i]["id"] = s[i].id
  OBVIOUS
<1>2. \A i, j \in DOMAIN s : s[i].id = s[j].id => i = j
  BY <1>1 DEF Keyed
<1> QED BY <1>2 DEF ToSet

\* The beginning of a sequence.
LEMMA HeadFacts ==
  ASSUME NEW X, NEW s \in Seq(X), NEW m \in 0..Len(s)
  PROVE  LET t == SubSeq(s, 1, m) IN
         t \in Seq(X) /\ Len(t) = m /\ DOMAIN t = 1..m /\ \A n \in 1..m : t[n] = s[n] /\ n \in 1..Len(s)
<1>1. Len(s) \in Nat /\ DOMAIN s = 1..Len(s) /\ \A n \in 1..Len(s) : s[n] \in X
  OBVIOUS
<1>2. m \in Nat /\ m <= Len(s)
  BY <1>1
<1>3. SubSeq(s, 1, m) = [n \in 1..m |-> s[n]]
  BY <1>1, <1>2
<1>4. \A n \in 1..m : n \in 1..Len(s)
  BY <1>1, <1>2
<1> QED BY <1>1, <1>2, <1>3, <1>4

\* The first m of the rows in order.
HeadOf(head, S, R, m) == m \in 0..Cardinality(S) /\ head = SubSeq(Arranged(S, R), 1, m)

\* The first of the rows in order are before the rest of them.
LEMMA HeadIsFirst ==
  ASSUME NEW S, IsFiniteSet(S), NEW R, Orders(R, S), NEW m, NEW head, HeadOf(head, S, R, m)
  PROVE  /\ head \in Seq(S) /\ Len(head) = m /\ Distinct(head) /\ ToSet(head) \in SUBSET S
         /\ \A k \in ToSet(head), c \in S \ ToSet(head) : <<k, c>> \in R
<1>1. PICK f : f = Arranged(S, R)
  OBVIOUS
<1>2. /\ Cardinality(S) \in Nat /\ f \in Seq(S) /\ Len(f) = Cardinality(S)
      /\ \A i, j \in 1..Cardinality(S) : i < j <=> <<f[i], f[j]>> \in R
      /\ \A i, j \in 1..Cardinality(S) : f[i] = f[j] => i = j
      /\ \A x \in S : \E n \in 1..Cardinality(S) : f[n] = x
  BY <1>1, ArrangedInPlace, InPlaceFacts
<1>3. /\ head \in Seq(S) /\ Len(head) = m /\ DOMAIN head = 1..m
      /\ \A n \in 1..m : head[n] = f[n] /\ n \in 1..Cardinality(S)
  BY <1>1, <1>2, HeadFacts DEF HeadOf
<1>4. Distinct(head)
  BY <1>2, <1>3 DEF Distinct
<1>5. ASSUME NEW k \in ToSet(head), NEW c \in S \ ToSet(head) PROVE <<k, c>> \in R
  <2>1. PICK i \in 1..m : head[i] = k
    BY <1>3 DEF ToSet
  <2>2. PICK j \in 1..Cardinality(S) : f[j] = c
    BY <1>2
  <2>3. j \notin 1..m
    <3>1. SUFFICES ASSUME j \in 1..m PROVE FALSE
      OBVIOUS
    <3>2. head[j] = c
      BY <1>3, <2>2, <3>1
    <3> QED BY <1>3, <3>1, <3>2 DEF ToSet
  <2>4. i \in 1..Cardinality(S) /\ f[i] = k
    BY <1>3, <2>1
  <2>5. i < j
    BY <1>2, <1>3, <2>2, <2>3 DEF HeadOf
  <2> QED BY <1>2, <2>2, <2>4, <2>5
<1>6. ToSet(head) \in SUBSET S
  BY <1>3, StoreFacts
<1> QED BY <1>3, <1>4, <1>5, <1>6

\* Without a tie across the cap, whatever is kept ranks before whatever is cut,
\* so ranking what is kept gives the beginning of the whole ranking.
LEMMA CapKeeps ==
  ASSUME NEW rows \in Seq(DealRow), Keyed(rows, "id"), NEW sort,
         NEW index, \A dom : Reliability(dom, index) \in 0..2,
         NEW query, NEW offset \in 0..FetchCap - 1,
         query.sort = sort, query.offset = offset, query.limit = FetchCap - offset,
         \A d \in ToSet(CapByPrimary(rows, sort)), e \in ToSet(rows) \ ToSet(CapByPrimary(rows, sort)) : ~PrimaryTie(sort, d, e)
  PROVE  RankPublished(CapByPrimary(rows, sort), index, query) = RankPublished(rows, index, query)
<1> DEFINE S == ToSet(rows)  kept == CapByPrimary(rows, sort)  K == ToSet(kept)  R == ByRank(sort, index)
           m == AtMost(FetchCap, Len(rows))  all == Arranged(S, R)  some == Arranged(K, R)
<1>1. /\ S \in SUBSET DealRow /\ IsFiniteSet(S) /\ Cardinality(S) = Len(rows) /\ Len(rows) \in Nat
      /\ \A i, j \in DOMAIN rows : rows[i].id = rows[j].id => i = j
      /\ \A a, b \in S : a.id = b.id => a = b
  BY KeyedById, KeyedIsDistinct, StoreFacts
<1>2. FetchCap \in Nat /\ m \in 0..Len(rows) /\ m \in Nat
  BY <1>1, DealTablesAssumption DEF AtMost
<1>3. Orders(ByPrimary(sort), S) /\ Orders(R, S)
  BY <1>1, ByPrimaryOrders, ByRankOrders
<1>4. kept = SubSeq(Arranged(S, ByPrimary(sort)), 1, m)
  <2>1. PrimarySort(rows, sort) = Arranged(S, ByPrimary(sort))
    BY <1>1, PrimarySorted
  <2>2. Len(Arranged(S, ByPrimary(sort))) = Len(rows)
    <3>1. InPlace(Arranged(S, ByPrimary(sort)), S, ByPrimary(sort))
      BY <1>1, <1>3, ArrangedInPlace
    <3> HIDE DEF S
    <3> QED BY <1>1, <1>3, <3>1, InPlaceFacts
  <2>3. kept = Slice(Arranged(S, ByPrimary(sort)), 0, FetchCap)
    BY <2>1 DEF CapByPrimary, PrimarySort, StableSort
  <2> HIDE DEF S, kept
  <2>4. 0 + 1 = 1 /\ 0 + FetchCap = FetchCap
    BY <1>2
  <2> QED BY <2>2, <2>3, <2>4 DEF Slice
<1> HIDE DEF kept
<1>5. /\ kept \in Seq(S) /\ Len(kept) = m /\ Distinct(kept) /\ K \in SUBSET S
      /\ \A k \in K, c \in S \ K : <<k, c>> \in ByPrimary(sort)
  <2>1. m \in 0..Cardinality(S)
    BY <1>1, <1>2
  <2>2. K = ToSet(kept)
    OBVIOUS
  <2>3. IsFiniteSet(S)
    BY <1>1
  <2>4. PICK P : P = ByPrimary(sort)
    OBVIOUS
  <2> HIDE DEF S, m, K
  <2>5. Orders(P, S) /\ HeadOf(kept, S, P, m)
    BY <1>3, <1>4, <2>1, <2>4 DEF HeadOf
  <2>6. /\ kept \in Seq(S) /\ Len(kept) = m /\ Distinct(kept) /\ ToSet(kept) \in SUBSET S
        /\ \A k \in ToSet(kept), c \in S \ ToSet(kept) : <<k, c>> \in P
    BY <2>3, <2>5, HeadIsFirst
  <2> QED BY <2>2, <2>4, <2>6
<1>6. \A k \in K, c \in S \ K : <<k, c>> \in R
  <2> SUFFICES ASSUME NEW k \in K, NEW c \in S \ K PROVE <<k, c>> \in R
    OBVIOUS
  <2>1. k \in DealRow /\ c \in DealRow /\ ComparePublishedPrimary(sort, k, c)
    BY <1>1, <1>5 DEF ByPrimary
  <2>2. ~PrimaryTie(sort, k, c)
    BY DEF kept
  <2>3. ComparePublished(sort, index, k, c)
    BY <2>1, <2>2 DEF ComparePublishedPrimary, ComparePublished
  <2> QED BY <2>1, <2>3 DEF ByRank
<1>7. kept \in Seq(DealRow) /\ Cardinality(K) = m /\ \A i, j \in DOMAIN kept : kept[i].id = kept[j].id => i = j
  <2>1. Cardinality(K) = m /\ \A i \in DOMAIN kept : kept[i] \in S
    BY <1>5, StoreFacts
  <2>2. kept \in Seq(DealRow)
    BY <1>1, <1>5
  <2> QED BY <1>1, <1>5, <2>1, <2>2 DEF Distinct
<1>8. /\ RankSort(rows, sort, index) = all
      /\ RankSort(kept, sort, index) = some
  <2>1. RankSort(rows, sort, index) = all
    BY <1>1, RankSorted
  <2>2. RankSort(kept, sort, index) = some
    BY <1>7, RankSorted
  <2> QED BY <2>1, <2>2
<1>9. RankPublished(rows, index, query) = Slice(all, offset, FetchCap - offset)
      /\ RankPublished(kept, index, query) = Slice(some, offset, FetchCap - offset)
  <2> HIDE DEF all, some
  <2> QED BY <1>8 DEF RankPublished, RankSort, StableSort
<1> HIDE DEF S, K, R, m
<1>10. /\ all \in Seq(S) /\ Len(all) = Len(rows) /\ some \in Seq(K) /\ Len(some) = m
       /\ \A n \in 1..m : some[n] = all[n]
  <2>1. Orders(R, K) /\ IsFiniteSet(K) /\ \A n \in 1..Cardinality(K) : some[n] = all[n]
    BY <1>1, <1>3, <1>5, <1>6, ArrangedHead
  <2>2. InPlace(all, S, R) /\ InPlace(some, K, R)
    BY <1>1, <1>3, <2>1, ArrangedInPlace
  <2> HIDE DEF all, some
  <2>3. all \in Seq(S) /\ Len(all) = Cardinality(S)
    BY <1>1, <1>3, <2>2, InPlaceFacts
  <2>4. some \in Seq(K) /\ Len(some) = Cardinality(K)
    BY <2>1, <2>2, InPlaceFacts
  <2> QED BY <1>1, <1>7, <2>1, <2>3, <2>4
<1> HIDE DEF all, some
<1>11. Slice(all, offset, FetchCap - offset) = SubSeq(all, offset + 1, m) /\ Slice(some, offset, FetchCap - offset) = SubSeq(some, offset + 1, m)
  <2>1. offset \in Nat /\ offset + (FetchCap - offset) = FetchCap
    BY <1>2
  <2>2. AtMost(FetchCap, Len(all)) = m /\ AtMost(FetchCap, Len(some)) = m
    BY <1>1, <1>2, <1>10 DEF AtMost, m
  <2> QED BY <2>1, <2>2 DEF Slice
<1>12. SubSeq(all, offset + 1, m) = SubSeq(some, offset + 1, m)
  <2>1. \A n \in (offset + 1)..m : n \in 1..m
    BY <1>2
  <2>2. SubSeq(all, offset + 1, m) = [n \in 1..(m - (offset + 1) + 1) |-> all[n + (offset + 1) - 1]]
        /\ SubSeq(some, offset + 1, m) = [n \in 1..(m - (offset + 1) + 1) |-> some[n + (offset + 1) - 1]]
    BY <1>1, <1>2, <1>10
  <2>3. \A n \in 1..(m - (offset + 1) + 1) : n + (offset + 1) - 1 \in 1..m
    BY <1>2
  <2> QED BY <1>10, <2>2, <2>3
<1> QED BY <1>9, <1>11, <1>12 DEF kept

\* The unfiltered feed scans the published rows; the rest is CapKeeps.
LEMMA CapFollows == DealsInv => CapIsHarmless
<1> SUFFICES ASSUME DealsInv, NEW sort \in {"cost_asc", "verified_desc"}, NEW offset \in 0..FetchCap - 1
             PROVE  LET query == [filters |-> NoFilter, sort |-> sort, offset |-> offset, limit |-> FetchCap - offset]
                        rows == Scan(memDeals, LAMBDA d : d.status = "published")
                        kept == CapByPrimary(rows, sort)
                        cut == ToSet(rows) \ ToSet(kept)
                    IN  \/ MemListPublished(query) = RankPublished(rows, ReliabilityIndex(ToSet(MemSourcesByStatus("active"))), query)
                        \/ \E d \in ToSet(kept), e \in cut : PrimaryTie(sort, d, e)
  BY DEF CapIsHarmless
<1> DEFINE query == [filters |-> NoFilter, sort |-> sort, offset |-> offset, limit |-> FetchCap - offset]
           T == {x \in DealRow : x.status = "published"}
           index == ReliabilityIndex(ToSet(MemSourcesByStatus("active")))
<1>1. memDeals \in Seq(DealRow) /\ Keyed(memDeals, "id") /\ \A i \in DOMAIN memDeals : memDeals[i] \in DealRow
  BY DEF DealsInv, DealsTyped, RowsKeyed
<1>2. PICK places : /\ places = {i \in DOMAIN memDeals : memDeals[i] \in T}
                    /\ EntriesAt(memDeals, places) \in Seq(DealRow) /\ Keyed(EntriesAt(memDeals, places), "id")
  <2> HIDE DEF T
  <2> QED BY <1>1, DealScan
<1>3. PICK rows : rows = EntriesAt(memDeals, places)
  OBVIOUS
<1>4. Scan(memDeals, LAMBDA d : d.status = "published") = rows
  <2>1. {i \in DOMAIN memDeals : memDeals[i].status = "published"} = places
    BY <1>1, <1>2
  <2> QED BY <1>3, <2>1 DEF Scan
<1>5. Scan(memDeals, LAMBDA d : d.status = "published" /\ MatchesFilters(d, query.filters)) = rows
  <2>1. \A d : MatchesFilters(d, query.filters)
    BY DEF MatchesFilters, NoFilter
  <2>2. {i \in DOMAIN memDeals : memDeals[i].status = "published" /\ MatchesFilters(memDeals[i], query.filters)} = places
    BY <1>1, <1>2, <2>1
  <2> HIDE DEF query
  <2> QED BY <1>3, <2>2 DEF Scan
<1>6. \A dom : Reliability(dom, index) \in 0..2
  <2>1. ToSet(MemSourcesByStatus("active")) \in SUBSET SourceRow
    <3>1. PICK live : live = {i \in DOMAIN memSources : memSources[i].status = "active"}
      OBVIOUS
    <3>2. MemSourcesByStatus("active") = EntriesAt(memSources, live)
      BY <3>1 DEF MemSourcesByStatus, Scan
    <3>3. memSources \in Seq(SourceRow) /\ live \in SUBSET DOMAIN memSources
      BY <3>1 DEF DealsInv, DealsTyped
    <3>4. EntriesAt(memSources, live) \in Seq(SourceRow)
      BY <3>3, EntriesFacts
    <3> QED BY <3>2, <3>4, StoreFacts
  <2> QED BY <2>1, ReliabilityIsScore
<1>7. MemListPublished(query) = RankPublished(CapByPrimary(rows, sort), index, query)
  <2>1. query.sort = sort
    OBVIOUS
  <2> HIDE DEF query, index
  <2> QED BY <1>5, <2>1 DEF MemListPublished, index
<1>8. ASSUME \A d \in ToSet(CapByPrimary(rows, sort)), e \in ToSet(rows) \ ToSet(CapByPrimary(rows, sort)) : ~PrimaryTie(sort, d, e)
      PROVE  RankPublished(CapByPrimary(rows, sort), index, query) = RankPublished(rows, index, query)
  <2>1. query.sort = sort /\ query.offset = offset /\ query.limit = FetchCap - offset
    OBVIOUS
  <2>2. rows \in Seq(DealRow) /\ Keyed(rows, "id")
    BY <1>2, <1>3
  <2> HIDE DEF query, index
  <2> QED BY <1>6, <1>8, <2>1, <2>2, CapKeeps
<1> HIDE DEF index
<1> QED BY <1>4, <1>7, <1>8 DEF index

\* Whatever was written before, PUBLISHED_FETCH_CAP is harmless: a page that ends
\* above it is the page of the whole ranking, unless deals that tie on price (or on
\* the time of verification) lie on both sides of it (rank-published.ts).
THEOREM CapHolds == DealTablesSpec => []CapIsHarmless
BY DealsInvariant, CapFollows, PTL

-----------------------------------------------------------------------------
(* Answers.                                                                 *)

\* What a scan for the rows of T finds.
Found(s, T) == EntriesAt(s, {i \in DOMAIN s : s[i] \in T})

\* A scan finds each row of the set once.
LEMMA FoundFacts ==
  ASSUME NEW X, NEW s \in Seq(X), Distinct(s), NEW T
  PROVE  /\ Found(s, T) \in Seq(X) /\ Distinct(Found(s, T)) /\ Len(Found(s, T)) <= Len(s)
         /\ ToSet(Found(s, T)) = ToSet(s) \cap T /\ IsFiniteSet(ToSet(s) \cap T)
         /\ Len(Found(s, T)) = Cardinality(ToSet(s) \cap T)
         /\ \A key : Keyed(s, key) => Keyed(Found(s, T), key)
<1>1. PICK places \in SUBSET DOMAIN s : places = {i \in DOMAIN s : s[i] \in T}
  OBVIOUS
<1>2. PICK e : e = Found(s, T) /\ e = EntriesAt(s, places)
  BY <1>1 DEF Found
<1>3. e \in Seq(X) /\ Distinct(e) /\ Len(e) <= Len(s) /\ ToSet(e) = {s[i] : i \in places}
  BY <1>2, EntriesFacts
<1>4. ToSet(e) = ToSet(s) \cap T
  BY <1>1, <1>3 DEF ToSet
<1>5. IsFiniteSet(ToSet(e)) /\ Cardinality(ToSet(e)) = Len(e)
  BY <1>3, StoreFacts
<1>6. ASSUME NEW key, Keyed(s, key) PROVE Keyed(e, key)
  <2>1. \A i \in DOMAIN e : e[i] \in ToSet(s)
    BY <1>3, <1>4, StoreFacts
  <2>2. \A i, j \in DOMAIN e : e[i][key] = e[j][key] => e[i] = e[j]
    BY <1>6, <2>1, KeyedRows
  <2> QED BY <1>3, <2>2 DEF Keyed, Distinct
<1> QED BY <1>2, <1>3, <1>4, <1>5, <1>6

\* Of rows no two of which can be found, both adapters return the same one.
LEMMA FoundOne ==
  ASSUME NEW X, NEW s \in Seq(X), NEW T, \A x, y \in ToSet(s) \cap T : x = y
  PROVE  /\ One(ToSet(s) \cap T) = FirstOf(Found(s, T))
         /\ IF ToSet(s) \cap T = {} THEN One(ToSet(s) \cap T) = NoRow ELSE One(ToSet(s) \cap T) \in ToSet(s) \cap T
<1>1. PICK places : places = {i \in DOMAIN s : s[i] \in T}
  OBVIOUS
<1>2. IF ToSet(s) \cap T = {} THEN FirstOf(Found(s, T)) = NoRow ELSE FirstOf(Found(s, T)) \in ToSet(s) \cap T
  BY <1>1, FirstFacts DEF Found
<1>3. CASE ToSet(s) \cap T = {}
  BY <1>2, <1>3 DEF One
<1>4. CASE ToSet(s) \cap T # {}
  <2>1. One(ToSet(s) \cap T) \in ToSet(s) \cap T
    BY <1>4 DEF One
  <2> QED BY <1>2, <1>4, <2>1
<1> QED BY <1>3, <1>4

\* The first of a store are a choice LIMIT may make of its rows.
LEMMA HeadMayBe ==
  ASSUME NEW X, NEW e \in Seq(X), Distinct(e), NEW limit \in Nat
  PROVE  ToSet(Slice(e, 0, limit)) \in Unordered(ToSet(e), limit)
<1>1. PICK m : m = AtMost(limit, Len(e))
  OBVIOUS
<1>2. m \in 0..Len(e) /\ Len(e) \in Nat
  BY <1>1 DEF AtMost
<1>3. PICK t : t = SubSeq(e, 1, m)
  OBVIOUS
<1>4. t \in Seq(X) /\ Len(t) = m /\ DOMAIN t = 1..m /\ \A n \in 1..m : t[n] = e[n] /\ n \in 1..Len(e)
  BY <1>2, <1>3, HeadFacts
<1>5. Slice(e, 0, limit) = t
  <2>1. 0 + 1 = 1 /\ 0 + limit = limit
    OBVIOUS
  <2> QED BY <1>1, <1>3, <2>1 DEF Slice
<1>6. Distinct(t) /\ ToSet(t) \in SUBSET ToSet(e)
  BY <1>4 DEF Distinct, ToSet
<1>7. Cardinality(ToSet(t)) = m /\ Cardinality(ToSet(e)) = Len(e)
  BY <1>4, <1>6, StoreFacts
<1> QED BY <1>1, <1>5, <1>6, <1>7 DEF Unordered, kSubset

\* The places of a store in the order of its rows.
Places(s, R) ==
  {p \in (DOMAIN s) \X (DOMAIN s) : <<s[p[1]], s[p[2]]>> \in R \/ (<<s[p[2]], s[p[1]]>> \notin R /\ p[1] < p[2])}
Sorted(s, R) == [n \in DOMAIN s |-> s[Arranged(DOMAIN s, Places(s, R))[n]]]

\* Sorted, rows depend on the set alone.
LEMMA SortedFacts ==
  ASSUME NEW X, NEW s \in Seq(X), Distinct(s), NEW R, Orders(R, ToSet(s))
  PROVE  Sorted(s, R) = Arranged(ToSet(s), R)
<1>1. \A i \in DOMAIN s : i \in Int /\ s[i] \in ToSet(s)
  BY DEF ToSet
<1>2. PICK Q : Q = Places(s, R)
  OBVIOUS
<1>3. \A i, j \in DOMAIN s : <<i, j>> \in Q <=> <<s[i], s[j]>> \in R
  <2> SUFFICES ASSUME NEW i \in DOMAIN s, NEW j \in DOMAIN s PROVE <<i, j>> \in Q <=> <<s[i], s[j]>> \in R
    OBVIOUS
  <2>1. <<i, j>> \in Q <=> (<<s[i], s[j]>> \in R \/ (<<s[j], s[i]>> \notin R /\ i < j))
    BY <1>2 DEF Places
  <2>2. i # j => s[i] # s[j]
    BY DEF Distinct
  <2> QED BY <1>1, <2>1, <2>2 DEF Orders
<1>4. [n \in DOMAIN s |-> s[Arranged(DOMAIN s, Q)[n]]] = Arranged(ToSet(s), R)
  BY <1>3, SortIsArranged
<1> QED BY <1>2, <1>4 DEF Sorted

\* While the unique index has refused nothing, both adapters hold the same rows.
DealsAlike == /\ memDeals \in Seq(DealRow) /\ memSources \in Seq(SourceRow) /\ memEvidence \in Seq(EvidenceRow)
              /\ Distinct(memDeals) /\ Distinct(memSources) /\ Distinct(memEvidence)
              /\ pgDeals = ToSet(memDeals) /\ pgSources = ToSet(memSources) /\ pgEvidence = ToSet(memEvidence)
              /\ \A a, b \in pgDeals : a.id = b.id => a = b
              /\ \A a, b \in pgSources : (a.id = b.id \/ a.url = b.url) => a = b
              /\ \A a, b \in pgEvidence : a.id = b.id => a = b
              /\ Cardinality(pgDeals) <= MaxDeals /\ Len(memDeals) <= MaxDeals

\* In the form the queries are compared in.
LEMMA DealsAreAlike ==
  ASSUME DealsInv, ~dealRefused
  PROVE  DealsAlike
<1>1. /\ memDeals \in Seq(DealRow) /\ memSources \in Seq(SourceRow) /\ memEvidence \in Seq(EvidenceRow)
      /\ Keyed(memDeals, "id") /\ Keyed(memEvidence, "id") /\ Keyed(memSources, "id") /\ Keyed(memSources, "url")
      /\ pgDeals = ToSet(memDeals) /\ pgSources = ToSet(memSources) /\ pgEvidence = ToSet(memEvidence)
      /\ Cardinality(pgDeals) <= MaxDeals
  BY DEF DealsInv, DealsTyped, RowsKeyed, TablesSame
<1>2. Distinct(memDeals) /\ Distinct(memSources) /\ Distinct(memEvidence)
  BY <1>1, KeyedIsDistinct
<1>3. Len(memDeals) <= MaxDeals
  BY <1>1, <1>2, StoreFacts
<1>4. /\ \A a, b \in pgDeals : a["id"] = b["id"] => a = b
      /\ \A a, b \in pgSources : a["id"] = b["id"] => a = b
      /\ \A a, b \in pgSources : a["url"] = b["url"] => a = b
      /\ \A a, b \in pgEvidence : a["id"] = b["id"] => a = b
  BY <1>1, KeyedRows
<1>5. /\ \A a \in pgDeals : a["id"] = a.id
      /\ \A a \in pgSources : a["id"] = a.id /\ a["url"] = a.url
      /\ \A a \in pgEvidence : a["id"] = a.id
  OBVIOUS
<1> QED BY <1>1, <1>2, <1>3, <1>4, <1>5 DEF DealsAlike

\* The rows by id or by url.
LEMMA SameRows ==
  ASSUME DealsAlike
  PROVE  /\ \A id : PgGetDeal(id) = MemGetDeal(id)
         /\ \A id : PgGetSource(id) = MemGetSource(id)
         /\ \A url : PgGetSourceByUrl(url) = MemGetSourceByUrl(url)
         /\ \A id : /\ PgGetEvidence(id) = MemGetEvidence(id)
                    /\ IF \E e \in pgEvidence : e.id = id THEN PgGetEvidence(id) \in pgEvidence /\ PgGetEvidence(id).id = id
                       ELSE PgGetEvidence(id) = NoRow
<1>1. ASSUME NEW id PROVE PgGetDeal(id) = MemGetDeal(id)
  <2>1. PICK T : T = {d \in DealRow : d.id = id}
    OBVIOUS
  <2>2. memDeals \in Seq(DealRow) /\ ToSet(memDeals) \in SUBSET DealRow /\ pgDeals = ToSet(memDeals) /\ \A i \in DOMAIN memDeals : memDeals[i] \in DealRow
    BY StoreFacts DEF DealsAlike
  <2>3. Select(pgDeals, LAMBDA d : d.id = id) = ToSet(memDeals) \cap T
    BY <2>1, <2>2 DEF Select
  <2>4. {i \in DOMAIN memDeals : memDeals[i].id = id} = {i \in DOMAIN memDeals : memDeals[i] \in T}
    BY <2>1, <2>2
  <2>5. Scan(memDeals, LAMBDA d : d.id = id) = Found(memDeals, T)
    BY <2>4 DEF Scan, Found
  <2>6. \A x, y \in ToSet(memDeals) \cap T : x = y
    BY <2>1, <2>2 DEF DealsAlike
  <2>7. One(ToSet(memDeals) \cap T) = FirstOf(Found(memDeals, T))
    BY <2>2, <2>6, FoundOne
  <2> QED BY <2>3, <2>5, <2>7 DEF PgGetDeal, MemGetDeal
<1>2. ASSUME NEW id PROVE PgGetSource(id) = MemGetSource(id)
  <2>1. PICK T : T = {d \in SourceRow : d.id = id}
    OBVIOUS
  <2>2. memSources \in Seq(SourceRow) /\ ToSet(memSources) \in SUBSET SourceRow /\ pgSources = ToSet(memSources) /\ \A i \in DOMAIN memSources : memSources[i] \in SourceRow
    BY StoreFacts DEF DealsAlike
  <2>3. Select(pgSources, LAMBDA d : d.id = id) = ToSet(memSources) \cap T
    BY <2>1, <2>2 DEF Select
  <2>4. {i \in DOMAIN memSources : memSources[i].id = id} = {i \in DOMAIN memSources : memSources[i] \in T}
    BY <2>1, <2>2
  <2>5. Scan(memSources, LAMBDA d : d.id = id) = Found(memSources, T)
    BY <2>4 DEF Scan, Found
  <2>6. \A x, y \in ToSet(memSources) \cap T : x = y
    BY <2>1, <2>2 DEF DealsAlike
  <2>7. One(ToSet(memSources) \cap T) = FirstOf(Found(memSources, T))
    BY <2>2, <2>6, FoundOne
  <2> QED BY <2>3, <2>5, <2>7 DEF PgGetSource, MemGetSource
<1>3. ASSUME NEW url PROVE PgGetSourceByUrl(url) = MemGetSourceByUrl(url)
  <2>1. PICK T : T = {d \in SourceRow : d.url = url}
    OBVIOUS
  <2>2. memSources \in Seq(SourceRow) /\ ToSet(memSources) \in SUBSET SourceRow /\ pgSources = ToSet(memSources) /\ \A i \in DOMAIN memSources : memSources[i] \in SourceRow
    BY StoreFacts DEF DealsAlike
  <2>3. Select(pgSources, LAMBDA d : d.url = url) = ToSet(memSources) \cap T
    BY <2>1, <2>2 DEF Select
  <2>4. {i \in DOMAIN memSources : memSources[i].url = url} = {i \in DOMAIN memSources : memSources[i] \in T}
    BY <2>1, <2>2
  <2>5. Scan(memSources, LAMBDA d : d.url = url) = Found(memSources, T)
    BY <2>4 DEF Scan, Found
  <2>6. \A x, y \in ToSet(memSources) \cap T : x = y
    BY <2>1, <2>2 DEF DealsAlike
  <2>7. One(ToSet(memSources) \cap T) = FirstOf(Found(memSources, T))
    BY <2>2, <2>6, FoundOne
  <2> QED BY <2>3, <2>5, <2>7 DEF PgGetSourceByUrl, MemGetSourceByUrl
<1>4. ASSUME NEW id
      PROVE  /\ PgGetEvidence(id) = MemGetEvidence(id)
             /\ IF \E e \in pgEvidence : e.id = id THEN PgGetEvidence(id) \in pgEvidence /\ PgGetEvidence(id).id = id
                ELSE PgGetEvidence(id) = NoRow
  <2>1. PICK T : T = {d \in EvidenceRow : d.id = id}
    OBVIOUS
  <2>2. memEvidence \in Seq(EvidenceRow) /\ ToSet(memEvidence) \in SUBSET EvidenceRow /\ pgEvidence = ToSet(memEvidence) /\ \A i \in DOMAIN memEvidence : memEvidence[i] \in EvidenceRow
    BY StoreFacts DEF DealsAlike
  <2>3. Select(pgEvidence, LAMBDA d : d.id = id) = ToSet(memEvidence) \cap T
    BY <2>1, <2>2 DEF Select
  <2>4. {i \in DOMAIN memEvidence : memEvidence[i].id = id} = {i \in DOMAIN memEvidence : memEvidence[i] \in T}
    BY <2>1, <2>2
  <2>5. Scan(memEvidence, LAMBDA d : d.id = id) = Found(memEvidence, T)
    BY <2>4 DEF Scan, Found
  <2>6. \A x, y \in ToSet(memEvidence) \cap T : x = y
    BY <2>1, <2>2 DEF DealsAlike
  <2>7. /\ One(ToSet(memEvidence) \cap T) = FirstOf(Found(memEvidence, T))
        /\ IF ToSet(memEvidence) \cap T = {} THEN One(ToSet(memEvidence) \cap T) = NoRow
           ELSE One(ToSet(memEvidence) \cap T) \in ToSet(memEvidence) \cap T
    BY <2>2, <2>6, FoundOne
  <2>8. PgGetEvidence(id) = One(ToSet(memEvidence) \cap T) /\ MemGetEvidence(id) = FirstOf(Found(memEvidence, T))
    BY <2>3, <2>5 DEF PgGetEvidence, MemGetEvidence
  <2> QED BY <2>1, <2>2, <2>7, <2>8
<1> QED BY <1>1, <1>2, <1>3, <1>4

\* A page that is long enough is the whole list.
LEMMA WholeSlice ==
  ASSUME NEW X, NEW e \in Seq(X), NEW limit \in Nat, Len(e) <= limit
  PROVE  Slice(e, 0, limit) = e
<1>1. 0 + 1 = 1 /\ 0 + limit = limit /\ Len(e) \in Nat
  OBVIOUS
<1>2. AtMost(limit, Len(e)) = Len(e)
  BY <1>1 DEF AtMost
<1>3. SubSeq(e, 1, Len(e)) = e
  OBVIOUS
<1> QED BY <1>1, <1>2, <1>3 DEF Slice

\* One store after another that shares no row with it.
LEMMA JoinedFacts ==
  ASSUME NEW X, NEW a \in Seq(X), NEW b \in Seq(X), Distinct(a), Distinct(b), ToSet(a) \cap ToSet(b) = {}
  PROVE  a \o b \in Seq(X) /\ Distinct(a \o b) /\ ToSet(a \o b) = ToSet(a) \cup ToSet(b)
<1>1. PICK c : c = a \o b
  OBVIOUS
<1>2. /\ c \in Seq(X) /\ Len(c) = Len(a) + Len(b) /\ DOMAIN c = 1..(Len(a) + Len(b)) /\ Len(a) \in Nat /\ Len(b) \in Nat
      /\ DOMAIN a = 1..Len(a) /\ DOMAIN b = 1..Len(b)
      /\ \A i \in DOMAIN c : c[i] = IF i <= Len(a) THEN a[i] ELSE b[i - Len(a)]
  BY <1>1
<1>3. ASSUME NEW i \in DOMAIN c
      PROVE  \/ i \in DOMAIN a /\ c[i] = a[i] /\ a[i] \in ToSet(a)
             \/ i - Len(a) \in DOMAIN b /\ c[i] = b[i - Len(a)] /\ b[i - Len(a)] \in ToSet(b)
  <2>1. CASE i <= Len(a)
    <3>1. i \in DOMAIN a
      BY <1>2, <2>1
    <3> QED BY <1>2, <2>1, <3>1 DEF ToSet
  <2>2. CASE ~(i <= Len(a))
    <3>1. i - Len(a) \in DOMAIN b
      BY <1>2, <2>2
    <3> QED BY <1>2, <2>2, <3>1 DEF ToSet
  <2> QED BY <2>1, <2>2
<1>4. \A x \in ToSet(c) : x \in ToSet(a) \cup ToSet(b)
  BY <1>3 DEF ToSet
<1>5. \A i \in DOMAIN a : i \in DOMAIN c /\ c[i] = a[i]
  BY <1>2
<1>6. \A i \in DOMAIN b : i + Len(a) \in DOMAIN c /\ c[i + Len(a)] = b[i]
  BY <1>2
<1>7. \A x \in ToSet(a) \cup ToSet(b) : x \in ToSet(c)
  BY <1>5, <1>6 DEF ToSet
<1>8. Distinct(c)
  <2> SUFFICES ASSUME NEW i \in DOMAIN c, NEW j \in DOMAIN c, c[i] = c[j] PROVE i = j
    BY DEF Distinct
  <2>1. CASE i \in DOMAIN a /\ c[i] = a[i] /\ a[i] \in ToSet(a)
    <3>1. j \in DOMAIN a /\ c[j] = a[j]
      BY <1>3, <2>1
    <3> QED BY <2>1, <3>1 DEF Distinct
  <2>2. CASE i - Len(a) \in DOMAIN b /\ c[i] = b[i - Len(a)] /\ b[i - Len(a)] \in ToSet(b)
    <3>1. j - Len(a) \in DOMAIN b /\ c[j] = b[j - Len(a)]
      BY <1>3, <2>2
    <3>2. i - Len(a) = j - Len(a)
      BY <2>2, <3>1 DEF Distinct
    <3> QED BY <1>2, <3>2
  <2> QED BY <1>3, <2>1, <2>2
<1> QED BY <1>1, <1>2, <1>4, <1>7, <1>8

\* A list that Postgres does not order.
LEMMA SameUnordered ==
  ASSUME NEW X, NEW s \in Seq(X), Distinct(s), NEW T, NEW limit \in Nat
  PROVE  ToSet(Slice(Found(s, T), 0, limit)) \in Unordered(ToSet(s) \cap T, limit)
<1>1. PICK e : e = Found(s, T)
  OBVIOUS
<1>2. e \in Seq(X) /\ Distinct(e) /\ ToSet(e) = ToSet(s) \cap T
  BY <1>1, FoundFacts
<1> QED BY <1>1, <1>2, HeadMayBe

\* The deals of a status.
OfStatus(status) == {d \in DealRow : d.status = status}

\* Both adapters select the deals of a status,
LEMMA StatusFound ==
  ASSUME DealsAlike, NEW status, NEW limit
  PROVE  /\ MemListByStatus(status, limit) = Slice(Found(memDeals, OfStatus(status)), 0, limit)
         /\ PgListByStatus(status, limit) = Unordered(ToSet(memDeals) \cap OfStatus(status), limit)
<1>1. PICK T : T = OfStatus(status)
  OBVIOUS
<1>2. ToSet(memDeals) \in SUBSET DealRow /\ pgDeals = ToSet(memDeals) /\ \A i \in DOMAIN memDeals : memDeals[i] \in DealRow
  BY StoreFacts DEF DealsAlike
<1>3. Select(pgDeals, LAMBDA d : d.status = status) = ToSet(memDeals) \cap T
  BY <1>1, <1>2 DEF Select, OfStatus
<1>4. {i \in DOMAIN memDeals : memDeals[i].status = status} = {i \in DOMAIN memDeals : memDeals[i] \in T}
  BY <1>1, <1>2 DEF OfStatus
<1>5. Scan(memDeals, LAMBDA d : d.status = status) = Found(memDeals, T)
  BY <1>4 DEF Scan, Found
<1> QED BY <1>1, <1>3, <1>5 DEF MemListByStatus, PgListByStatus

\* and the double's page of them is one Postgres may give.
LEMMA StatusListsAgree ==
  ASSUME DealsAlike, NEW status, NEW limit \in Nat
  PROVE  ToSet(MemListByStatus(status, limit)) \in PgListByStatus(status, limit)
<1>1. ToSet(Slice(Found(memDeals, OfStatus(status)), 0, limit)) \in Unordered(ToSet(memDeals) \cap OfStatus(status), limit)
  BY SameUnordered DEF DealsAlike
<1> QED BY <1>1, StatusFound

\* One status is scanned after the other, then the text is looked for.
LEMMA SearchAgrees ==
  ASSUME DealsAlike, NEW q, NEW resource \in {"candidates", "published"}, NEW limit \in Nat
  PROVE  ToSet(MemSearch(q, resource, limit)) \in PgSearch(q, resource, limit)
<1> DEFINE statuses == IF resource = "candidates" THEN Reviewable ELSE {"published"}
<1>1. PICK all : all = IF resource = "candidates"
                       THEN MemListByStatus("candidate", MaxDeals) \o MemListByStatus("in_review", MaxDeals)
                       ELSE MemListByStatus("published", MaxDeals)
  OBVIOUS
<1>2. ToSet(memDeals) \in SUBSET DealRow /\ pgDeals = ToSet(memDeals) /\ memDeals \in Seq(DealRow) /\ Distinct(memDeals)
  BY StoreFacts DEF DealsAlike
<1>3. ASSUME NEW status
      PROVE  /\ MemListByStatus(status, MaxDeals) \in Seq(DealRow) /\ Distinct(MemListByStatus(status, MaxDeals))
             /\ ToSet(MemListByStatus(status, MaxDeals)) = {d \in pgDeals : d.status = status}
  <2>1. PICK e : e = Found(memDeals, OfStatus(status))
    OBVIOUS
  <2>2. e \in Seq(DealRow) /\ Distinct(e) /\ ToSet(e) = ToSet(memDeals) \cap OfStatus(status) /\ Len(e) <= Len(memDeals)
    BY <1>2, <2>1, FoundFacts
  <2>3. MaxDeals \in Nat /\ Len(e) <= MaxDeals
    <3>1. MaxDeals \in Nat /\ Len(memDeals) <= MaxDeals /\ Len(memDeals) \in Nat /\ Len(e) \in Nat
      BY <1>2, <2>2, DealTablesAssumption DEF DealsAlike
    <3> QED BY <2>2, <3>1
  <2>4. Slice(e, 0, MaxDeals) = e
    BY <2>2, <2>3, WholeSlice
  <2>5. MemListByStatus(status, MaxDeals) = e
    BY <2>1, <2>4, StatusFound
  <2> QED BY <1>2, <2>2, <2>5 DEF OfStatus
<1>4. all \in Seq(DealRow) /\ Distinct(all) /\ ToSet(all) = {d \in pgDeals : d.status \in statuses}
  <2>1. CASE resource = "candidates"
    <3>1. PICK a, b : a = MemListByStatus("candidate", MaxDeals) /\ b = MemListByStatus("in_review", MaxDeals)
      OBVIOUS
    <3>2. /\ a \in Seq(DealRow) /\ b \in Seq(DealRow) /\ Distinct(a) /\ Distinct(b)
          /\ ToSet(a) = {d \in pgDeals : d.status = "candidate"} /\ ToSet(b) = {d \in pgDeals : d.status = "in_review"}
      BY <1>3, <3>1
    <3>3. ToSet(a) \cap ToSet(b) = {}
      BY <3>2
    <3>4. a \o b \in Seq(DealRow) /\ Distinct(a \o b) /\ ToSet(a \o b) = ToSet(a) \cup ToSet(b)
      BY <3>2, <3>3, JoinedFacts
    <3>5. all = a \o b
      BY <1>1, <2>1, <3>1
    <3>6. statuses = {"candidate", "in_review"}
      BY <2>1 DEF Reviewable
    <3> HIDE DEF statuses
    <3> QED BY <3>2, <3>4, <3>5, <3>6
  <2>2. CASE resource # "candidates"
    <3>1. all = MemListByStatus("published", MaxDeals) /\ statuses = {"published"}
      BY <1>1, <2>2
    <3> HIDE DEF statuses
    <3>2. {d \in pgDeals : d.status \in statuses} = {d \in pgDeals : d.status = "published"}
      BY <3>1
    <3> QED BY <1>3, <3>1, <3>2
  <2> QED BY <2>1, <2>2
<1>5. PICK T : T = {d \in DealRow : d.service = q}
  OBVIOUS
<1>6. Scan(all, LAMBDA d : d.service = q) = Found(all, T)
  <2>1. \A i \in DOMAIN all : all[i] \in DealRow
    BY <1>4
  <2>2. {i \in DOMAIN all : all[i].service = q} = {i \in DOMAIN all : all[i] \in T}
    BY <1>5, <2>1
  <2> QED BY <2>2 DEF Scan, Found
<1>7. Select(pgDeals, LAMBDA d : d.service = q /\ d.status \in statuses) = ToSet(all) \cap T
  <2> HIDE DEF statuses
  <2> QED BY <1>2, <1>4, <1>5 DEF Select
<1>8. MemSearch(q, resource, limit) = Slice(Found(all, T), 0, limit)
  BY <1>1, <1>6 DEF MemSearch
<1>9. PgSearch(q, resource, limit) = Unordered(ToSet(all) \cap T, limit)
  BY <1>7 DEF PgSearch
<1>10. ToSet(Slice(Found(all, T), 0, limit)) \in Unordered(ToSet(all) \cap T, limit)
  BY <1>4, SameUnordered
<1> QED BY <1>8, <1>9, <1>10

\* So is its page of the sources that are due,
LEMMA DueListsAgree ==
  ASSUME DealsAlike, NEW now, NEW limit \in Nat
  PROVE  ToSet(MemListDue(now, limit)) \in PgListDue(now, limit)
<1>1. PICK T : T = {s \in SourceRow : s.status = "active" /\ (s.next_due = NoTime \/ s.next_due <= now)}
  OBVIOUS
<1>2. ToSet(memSources) \in SUBSET SourceRow /\ pgSources = ToSet(memSources) /\ \A i \in DOMAIN memSources : memSources[i] \in SourceRow
  BY StoreFacts DEF DealsAlike
<1>3. Select(pgSources, LAMBDA s : s.status = "active" /\ (s.next_due = NoTime \/ s.next_due <= now)) = ToSet(memSources) \cap T
  BY <1>1, <1>2 DEF Select
<1>4. {i \in DOMAIN memSources : memSources[i].status = "active" /\ (memSources[i].next_due = NoTime \/ memSources[i].next_due <= now)}
        = {i \in DOMAIN memSources : memSources[i] \in T}
  BY <1>1, <1>2
<1>5. Scan(memSources, LAMBDA s : s.status = "active" /\ (s.next_due = NoTime \/ s.next_due <= now)) = Found(memSources, T)
  BY <1>4 DEF Scan, Found
<1>6. ToSet(Slice(Found(memSources, T), 0, limit)) \in Unordered(ToSet(memSources) \cap T, limit)
  BY SameUnordered DEF DealsAlike
<1> QED BY <1>3, <1>5, <1>6 DEF MemListDue, PgListDue

\* and the deals of a url are the same.
LEMMA UrlListsAgree ==
  ASSUME DealsAlike, NEW url, NEW statuses
  PROVE  ToSet(MemListByUrl(url, statuses)) = PgListByUrl(url, statuses)
<1>1. PICK T : T = {d \in DealRow : d.url = url /\ d.status \in statuses}
  OBVIOUS
<1>2. ToSet(memDeals) \in SUBSET DealRow /\ pgDeals = ToSet(memDeals) /\ \A i \in DOMAIN memDeals : memDeals[i] \in DealRow
  BY StoreFacts DEF DealsAlike
<1>3. Select(pgDeals, LAMBDA d : d.url = url /\ d.status \in statuses) = ToSet(memDeals) \cap T
  BY <1>1, <1>2 DEF Select
<1>4. {i \in DOMAIN memDeals : memDeals[i].url = url /\ memDeals[i].status \in statuses} = {i \in DOMAIN memDeals : memDeals[i] \in T}
  BY <1>1, <1>2
<1>5. Scan(memDeals, LAMBDA d : d.url = url /\ d.status \in statuses) = Found(memDeals, T)
  BY <1>4 DEF Scan, Found
<1>6. ToSet(Found(memDeals, T)) = ToSet(memDeals) \cap T
  BY FoundFacts DEF DealsAlike
<1> QED BY <1>3, <1>5, <1>6 DEF MemListByUrl, PgListByUrl

\* The active duplicate of an offer on an unchanged page.
LEMMA ActiveMayBe ==
  ASSUME DealsAlike, NEW key, NEW hash
  PROVE  MemFindActive(key, hash) \in PgFindActive(key, hash)
<1>1. PICK T : T = {d \in DealRow : /\ d.status \in Reviewable
                                    /\ Key(d) = key
                                    /\ MemGetEvidence(d.evidence) # NoRow
                                    /\ MemGetEvidence(d.evidence).hash = hash}
  OBVIOUS
<1>2. ToSet(memDeals) \in SUBSET DealRow /\ pgDeals = ToSet(memDeals) /\ \A i \in DOMAIN memDeals : memDeals[i] \in DealRow
  BY StoreFacts DEF DealsAlike
<1>3. {i \in DOMAIN memDeals : /\ memDeals[i].status \in Reviewable
                               /\ Key(memDeals[i]) = key
                               /\ MemGetEvidence(memDeals[i].evidence) # NoRow
                               /\ MemGetEvidence(memDeals[i].evidence).hash = hash}
        = {i \in DOMAIN memDeals : memDeals[i] \in T}
  BY <1>1, <1>2
<1>4. MemFindActive(key, hash) = FirstOf(Found(memDeals, T))
  BY <1>3 DEF MemFindActive, Scan, Found
<1>5. ASSUME NEW id
      PROVE  (MemGetEvidence(id) # NoRow /\ MemGetEvidence(id).hash = hash) <=> \E e \in pgEvidence : e.id = id /\ e.hash = hash
  <2>1. PICK v : v = MemGetEvidence(id)
    OBVIOUS
  <2>2. IF \E e \in pgEvidence : e.id = id THEN v \in pgEvidence /\ v.id = id ELSE v = NoRow
    BY <2>1, SameRows
  <2>3. \A e \in pgEvidence : e # NoRow /\ (e.id = v.id /\ v \in pgEvidence => e = v)
    <3>1. pgEvidence \in SUBSET EvidenceRow /\ \A a, b \in pgEvidence : a.id = b.id => a = b
      BY StoreFacts DEF DealsAlike
    <3>2. \A e \in EvidenceRow : e # NoRow
      BY DEF EvidenceRow, NoRow
    <3> QED BY <3>1, <3>2
  <2> QED BY <2>1, <2>2, <2>3
<1>6. {d \in pgDeals : /\ Key(d) = key /\ d.status \in Reviewable
                       /\ \E e \in pgEvidence : e.id = d.evidence /\ e.hash = hash} = ToSet(memDeals) \cap T
  BY <1>1, <1>2, <1>5
<1>7. IF ToSet(memDeals) \cap T = {} THEN FirstOf(Found(memDeals, T)) = NoRow ELSE FirstOf(Found(memDeals, T)) \in ToSet(memDeals) \cap T
  BY FirstFacts DEF Found, DealsAlike
<1> QED BY <1>4, <1>6, <1>7 DEF PgFindActive

-----------------------------------------------------------------------------
(* Induction.                                                               *)

\* Induction over the natural numbers: a nonempty set of them has a least element.
LEMMA LeastOf ==
  ASSUME NEW T \in SUBSET Nat, T # {}
  PROVE  \E m \in T : \A n \in T : m <= n
<1> DEFINE R == OpToRel(<, Nat)
<1>1. IsWellFoundedOn(R, Nat)
  BY NatLessThanWellFounded
<1>2. \A x, y \in Nat : x < y => <<x, y>> \in R
  BY DEF OpToRel
<1> HIDE DEF R
<1>3. PICK x \in T : \A y \in T : ~(<<y, x>> \in R)
  BY <1>1, WFMin
<1>4. \A y \in T : x <= y
  <2> TAKE y \in T
  <2>1. x \in Nat /\ y \in Nat /\ ~(y < x)
    BY <1>2, <1>3
  <2> QED BY <2>1
<1> QED BY <1>4

\* What holds of 0 and of the next number holds of all.
LEMMA Induct ==
  ASSUME NEW S \in SUBSET Nat, 0 \in S, \A n \in S : n + 1 \in S
  PROVE  S = Nat
<1> SUFFICES ASSUME S # Nat PROVE FALSE
  OBVIOUS
<1>1. PICK m \in Nat \ S : \A n \in Nat \ S : m <= n
  BY LeastOf
<1>2. m - 1 \in Nat /\ m - 1 \in S
  BY <1>1
<1> QED BY <1>1, <1>2

\* The largest element of a set of positions.
LEMMA LastOf ==
  ASSUME NEW n \in Nat, NEW T \in SUBSET (1..n), T # {}
  PROVE  \E m \in T : \A k \in T : k <= m
<1> DEFINE U == {i \in Nat : n - i \in T}
<1>1. U \in SUBSET Nat /\ U # {}
  <2>1. PICK t \in T : TRUE
    OBVIOUS
  <2>2. n - t \in Nat /\ n - (n - t) = t
    BY <2>1
  <2> QED BY <2>1, <2>2
<1>2. PICK m \in U : \A k \in U : m <= k
  BY <1>1, LeastOf
<1>3. n - m \in T /\ \A k \in T : k <= n - m
  <2> SUFFICES ASSUME NEW k \in T PROVE k <= n - m
    BY <1>2
  <2>1. n - k \in Nat /\ n - (n - k) = k
    OBVIOUS
  <2>2. n - k \in U
    BY <2>1
  <2> QED BY <1>2, <2>1, <2>2
<1> QED BY <1>3

\* Positions up to n, taken from the last one down.
LEMMA LastPosition ==
  ASSUME NEW n \in Nat
  PROVE  /\ Max(1..(n + 1)) = n + 1 /\ (1..(n + 1)) \ {n + 1} = 1..n
         /\ \A s \in SUBSET (1..(n + 1)) : n + 1 \in s => Max(s) = n + 1 /\ s \ {n + 1} \in SUBSET (1..n)
         /\ \A s \in SUBSET (1..(n + 1)) : n + 1 \notin s => s \in SUBSET (1..n)
         /\ \A s \in SUBSET (1..n) : s # {} => Max(s) \in s
<1>1. \A s \in SUBSET (1..(n + 1)) : n + 1 \in s => Max(s) = n + 1 /\ s \ {n + 1} \in SUBSET (1..n)
  <2> SUFFICES ASSUME NEW s \in SUBSET (1..(n + 1)), n + 1 \in s PROVE Max(s) = n + 1 /\ s \ {n + 1} \in SUBSET (1..n)
    OBVIOUS
  <2>1. \A y \in s : n + 1 >= y
    OBVIOUS
  <2>2. Max(s) \in s /\ \A y \in s : Max(s) >= y
    BY <2>1 DEF Max
  <2>3. Max(s) \in 1..(n + 1) /\ Max(s) >= n + 1
    BY <2>2
  <2> QED BY <2>3
<1>2. \A s \in SUBSET (1..n) : s # {} => Max(s) \in s
  BY LastOf DEF Max
<1> QED BY <1>1, <1>2

\* One position more.
LEMMA NextPosition ==
  ASSUME NEW n \in Nat, NEW m \in 0..(n - 1)
  PROVE  /\ 1..(m + 1) \in SUBSET (1..n) /\ 1..(m + 1) # {} /\ m + 1 \in 1..n
         /\ Max(1..(m + 1)) = m + 1 /\ (1..(m + 1)) \ {m + 1} = 1..m
<1>1. m \in Nat /\ 1..(m + 1) \in SUBSET (1..n) /\ 1..(m + 1) # {} /\ m + 1 \in 1..n
  OBVIOUS
<1> QED BY <1>1, LastPosition

\* A loop from the first position to the last, as a function of the positions it
\* has seen: it starts at base and takes a step at each.
IsLoop(base, step, n, iter) ==
  \A s \in SUBSET (1..n) : iter[s] = IF s = {} THEN base ELSE step[Max(s)][iter[s \ {Max(s)}]]

\* A loop over n positions has a table of its values,
LEMMA LoopExists ==
  ASSUME NEW V, NEW base \in V, NEW step \in [Nat -> [V -> V]], NEW n \in Nat
  PROVE  \E iter \in [SUBSET (1..n) -> V] : IsLoop(base, step, n, iter)
<1> DEFINE S == {m \in Nat : \E iter \in [SUBSET (1..m) -> V] : IsLoop(base, step, m, iter)}
<1>0. S \in SUBSET Nat
  OBVIOUS
<1>1. 0 \in S
  <2> DEFINE g == [s \in SUBSET (1..0) |-> base]
  <2>1. g \in [SUBSET (1..0) -> V]
    OBVIOUS
  <2>2. \A s \in SUBSET (1..0) : s = {} /\ g[s] = base
    OBVIOUS
  <2>3. IsLoop(base, step, 0, g)
    BY <2>2 DEF IsLoop
  <2> QED BY <2>1, <2>3
<1>2. ASSUME NEW m \in S PROVE m + 1 \in S
  <2>0. m \in Nat /\ m + 1 \in Nat
    <3> HIDE DEF S
    <3> QED BY <1>0
  <2>1. PICK g \in [SUBSET (1..m) -> V] : IsLoop(base, step, m, g)
    OBVIOUS
  <2> DEFINE h == [s \in SUBSET (1..(m + 1)) |-> IF m + 1 \in s THEN step[m + 1][g[s \ {m + 1}]] ELSE g[s]]
  <2>2. ASSUME NEW s \in SUBSET (1..(m + 1))
        PROVE  h[s] \in V /\ h[s] = IF s = {} THEN base ELSE step[Max(s)][h[s \ {Max(s)}]]
    <3>1. CASE m + 1 \in s
      <4>1. Max(s) = m + 1 /\ s \ {m + 1} \in SUBSET (1..m) /\ s \ {m + 1} \in SUBSET (1..(m + 1))
        BY <2>0, <3>1, LastPosition
      <4>2. h[s \ {m + 1}] = g[s \ {m + 1}] /\ g[s \ {m + 1}] \in V
        BY <4>1
      <4>3. h[s] = step[m + 1][g[s \ {m + 1}]]
        BY <3>1
      <4>4. step[m + 1][g[s \ {m + 1}]] \in V
        BY <4>2, <2>0
      <4>5. h[s] \in V
        <5> HIDE DEF h
        <5> QED BY <4>3, <4>4
      <4>6. s # {} /\ h[s \ {Max(s)}] = g[s \ {m + 1}]
        BY <3>1, <4>1, <4>2
      <4> HIDE DEF h
      <4> QED BY <4>1, <4>3, <4>5, <4>6
    <3>2. CASE m + 1 \notin s
      <4>1. /\ s \in SUBSET (1..m)
            /\ s # {} => s \ {Max(s)} \in SUBSET (1..m) /\ s \ {Max(s)} \in SUBSET (1..(m + 1)) /\ m + 1 \notin s \ {Max(s)}
        BY <2>0, <3>2, LastPosition
      <4>2. g[s] = IF s = {} THEN base ELSE step[Max(s)][g[s \ {Max(s)}]]
        BY <2>1, <4>1 DEF IsLoop
      <4>3. h[s] = g[s] /\ g[s] \in V /\ (s # {} => h[s \ {Max(s)}] = g[s \ {Max(s)}])
        BY <3>2, <4>1
      <4> HIDE DEF h
      <4> QED BY <4>2, <4>3
    <3> QED BY <3>1, <3>2
  <2>3. h \in [SUBSET (1..(m + 1)) -> V]
    <3>1. \A s \in SUBSET (1..(m + 1)) : h[s] \in V
      BY <2>2
    <3> QED BY <3>1
  <2>4. IsLoop(base, step, m + 1, h)
    <3> HIDE DEF h
    <3> QED BY <2>2 DEF IsLoop
  <2> HIDE DEF h
  <2> QED BY <2>0, <2>3, <2>4
<1>3. S = Nat
  <2> HIDE DEF S
  <2> QED BY <1>0, <1>1, <1>2, Induct
<1> QED BY <1>3

\* What a loop that steps so on values of V does.
Follows(V, base, step, n, c) ==
  /\ c[{}] = base
  /\ \A s \in SUBSET (1..n) : s # {} /\ c[s \ {Max(s)}] \in V => c[s] = step[Max(s)][c[s \ {Max(s)}]]

\* What has been computed after each position.
Computes(base, step, n, c, run) ==
  run[0] = base /\ run[n] = c[1..n] /\ \A m \in 0..(n - 1) : run[m + 1] = step[m + 1][run[m]]

\* and a table that follows the loop gives its value position by position.
LEMMA LoopRuns ==
  ASSUME NEW V, NEW base \in V, NEW step \in [Nat -> [V -> V]], NEW n \in Nat, NEW c, Follows(V, base, step, n, c)
  PROVE  \E run \in [0..n -> V] : Computes(base, step, n, c, run)
<1>1. c[1..0] = base
  <2>1. 1..0 = {}
    OBVIOUS
  <2> QED BY <2>1 DEF Follows
<1>2. ASSUME NEW m \in 0..(n - 1), c[1..m] \in V PROVE c[1..(m + 1)] = step[m + 1][c[1..m]] /\ c[1..(m + 1)] \in V
  <2>1. PICK s \in SUBSET (1..n) : s = 1..(m + 1) /\ s # {} /\ Max(s) = m + 1 /\ s \ {m + 1} = 1..m
    BY NextPosition
  <2>2. c[s] = step[m + 1][c[1..m]]
    BY <1>2, <2>1 DEF Follows
  <2>3. step[m + 1][c[1..m]] \in V
    BY <1>2
  <2> QED BY <2>1, <2>2, <2>3
<1> DEFINE S == {m \in Nat : m <= n => c[1..m] \in V}
<1>3. S \in SUBSET Nat /\ 0 \in S
  BY <1>1
<1>4. ASSUME NEW m \in S PROVE m + 1 \in S
  <2>1. CASE m + 1 <= n
    <3>1. m \in 0..(n - 1) /\ c[1..m] \in V
      BY <2>1
    <3>2. c[1..(m + 1)] \in V
      BY <1>2, <3>1
    <3> QED BY <3>1, <3>2
  <2>2. CASE ~(m + 1 <= n)
    BY <2>2
  <2> QED BY <2>1, <2>2
<1>5. S = Nat
  <2> HIDE DEF S
  <2> QED BY <1>3, <1>4, Induct
<1>6. \A m \in 0..n : c[1..m] \in V
  BY <1>5
<1> DEFINE run == [m \in 0..n |-> c[1..m]]
<1>7. run \in [0..n -> V] /\ run[0] = base /\ run[n] = c[1..n]
  BY <1>1, <1>6
<1>8. ASSUME NEW m \in 0..(n - 1) PROVE run[m + 1] = step[m + 1][run[m]]
  <2>1. m \in 0..n /\ m + 1 \in 0..n
    OBVIOUS
  <2> QED BY <1>2, <1>6, <2>1
<1> HIDE DEF run
<1> QED BY <1>7, <1>8 DEF Computes
\* What holds at first and is kept by each step holds at the end.
LEMMA Steps ==
  ASSUME NEW n \in Nat, NEW S \in SUBSET (0..n), 0 \in S, \A m \in 0..(n - 1) : m \in S => m + 1 \in S
  PROVE  n \in S
<1> DEFINE T == {m \in Nat : m <= n => m \in S}
<1>1. T \in SUBSET Nat /\ 0 \in T
  OBVIOUS
<1>2. \A m \in T : m + 1 \in T
  OBVIOUS
<1>3. T = Nat
  <2> HIDE DEF T
  <2> QED BY <1>1, <1>2, Induct
<1> QED BY <1>3

\* A fold from the left, as the function of positions that its definition chooses.
FoldsTo(c, V, base, g, s) ==
  /\ c[{}] = base
  /\ \A t \in SUBSET (DOMAIN s) : t # {} /\ c[t \ {Max(t)}] \in V => c[t] = g[<<c[t \ {Max(t)}], s[Max(t)]>>]

\* A step on values of V for each element of X, and where to start.
Folding(X, s, V, base, g) == s \in Seq(X) /\ base \in V /\ g \in [V \X X -> V]

\* A function that computes so.
FoldOf(h, V, base, g, s) ==
  /\ h \in [SUBSET (DOMAIN s) -> V]
  /\ \A t \in SUBSET (DOMAIN s) : h[t] = IF t = {} THEN base ELSE g[<<h[t \ {Max(t)}], s[Max(t)]>>]

\* The same for a fold over an array: it has a table,
LEMMA FoldExists ==
  ASSUME NEW X, NEW s, NEW V, NEW base, NEW g, Folding(X, s, V, base, g)
  PROVE  /\ \E h : FoldOf(h, V, base, g, s)
         /\ \A t \in SUBSET (DOMAIN s) : t # {} => Max(t) \in DOMAIN s /\ s[Max(t)] \in X /\ t \ {Max(t)} \in SUBSET (DOMAIN s)
<1>0. s \in Seq(X) /\ base \in V /\ g \in [V \X X -> V]
  BY DEF Folding
<1>1. PICK n \in Nat : n = Len(s) /\ DOMAIN s = 1..n /\ \A i \in 1..n : s[i] \in X
  BY <1>0
<1> DEFINE step == [i \in Nat |-> [v \in V |-> IF i \in 1..n THEN g[<<v, s[i]>>] ELSE v]]
<1>2. step \in [Nat -> [V -> V]]
  BY <1>0, <1>1
<1>3. \A v \in V, i \in 1..n : step[i][v] = g[<<v, s[i]>>]
  OBVIOUS
<1> HIDE DEF step
<1>4. PICK h \in [SUBSET (1..n) -> V] : IsLoop(base, step, n, h)
  BY <1>0, <1>2, LoopExists
<1>5. \A t \in SUBSET (1..n) : t # {} => Max(t) \in 1..n
  BY LastPosition
<1>6. ASSUME NEW t \in SUBSET (1..n) PROVE h[t] = IF t = {} THEN base ELSE g[<<h[t \ {Max(t)}], s[Max(t)]>>]
  <2>1. h[t] = IF t = {} THEN base ELSE step[Max(t)][h[t \ {Max(t)}]]
    BY <1>4 DEF IsLoop
  <2>2. h[t \ {Max(t)}] \in V
    BY <1>4
  <2> QED BY <1>3, <1>5, <2>1, <2>2
<1>7. FoldOf(h, V, base, g, s)
  BY <1>1, <1>6 DEF FoldOf
<1> QED BY <1>1, <1>5, <1>7

\* What a fold has made of each beginning of the sequence.
RunOf(run, V, base, g, s) ==
  /\ run \in [0..Len(s) -> V] /\ run[0] = base
  /\ \A m \in 0..(Len(s) - 1) : run[m + 1] = g[<<run[m], s[m + 1]>>]

\* and its value can be followed row by row.
LEMMA FoldRuns ==
  ASSUME NEW X, NEW s, NEW V, NEW base, NEW g, Folding(X, s, V, base, g), NEW c, FoldsTo(c, V, base, g, s)
  PROVE  \E run : RunOf(run, V, base, g, s) /\ run[Len(s)] = c[DOMAIN s]
<1>0. s \in Seq(X) /\ base \in V /\ g \in [V \X X -> V]
  BY DEF Folding
<1>1. PICK n \in Nat : n = Len(s) /\ DOMAIN s = 1..n /\ \A i \in 1..n : s[i] \in X
  BY <1>0
<1> DEFINE step == [i \in Nat |-> [v \in V |-> IF i \in 1..n THEN g[<<v, s[i]>>] ELSE v]]
<1>2. step \in [Nat -> [V -> V]]
  BY <1>0, <1>1
<1>3. \A v \in V, i \in 1..n : step[i][v] = g[<<v, s[i]>>]
  OBVIOUS
<1> HIDE DEF step
<1>4. \A t \in SUBSET (1..n) : t # {} => Max(t) \in 1..n
  BY LastPosition
<1>5. Follows(V, base, step, n, c)
  BY <1>1, <1>3, <1>4 DEF Follows, FoldsTo
<1>6. PICK run \in [0..n -> V] : Computes(base, step, n, c, run)
  BY <1>0, <1>2, <1>5, LoopRuns
<1>7. \A m \in 0..(n - 1) : run[m + 1] = g[<<run[m], s[m + 1]>>]
  BY <1>3, <1>6 DEF Computes
<1>8. RunOf(run, V, base, g, s) /\ run[Len(s)] = c[DOMAIN s]
  BY <1>1, <1>6, <1>7 DEF Computes, RunOf
<1> QED BY <1>8

\* The rows among the first m.
Upto(s, m) == {s[j] : j \in 1..m}

\* The first m rows grow by one row at a time.
LEMMA UptoFacts ==
  ASSUME NEW X, NEW s \in Seq(X), Distinct(s)
  PROVE  /\ Upto(s, 0) = {} /\ Upto(s, Len(s)) = ToSet(s)
         /\ \A m \in 0..Len(s) : IsFiniteSet(Upto(s, m)) /\ Upto(s, m) \in SUBSET ToSet(s)
         /\ \A m \in 0..(Len(s) - 1) : Upto(s, m + 1) = Upto(s, m) \cup {s[m + 1]} /\ s[m + 1] \notin Upto(s, m) /\ s[m + 1] \in X
<1>1. DOMAIN s = 1..Len(s) /\ Len(s) \in Nat /\ \A i \in DOMAIN s : s[i] \in X
  OBVIOUS
<1>2. Upto(s, 0) = {} /\ Upto(s, Len(s)) = ToSet(s)
  BY <1>1 DEF Upto, ToSet
<1>3. ASSUME NEW m \in 0..Len(s) PROVE IsFiniteSet(Upto(s, m)) /\ Upto(s, m) \in SUBSET ToSet(s)
  <2>1. Upto(s, m) \in SUBSET ToSet(s)
    BY <1>1 DEF Upto, ToSet
  <2>2. IsFiniteSet(ToSet(s))
    BY StoreFacts
  <2> QED BY <2>1, <2>2, FS_Subset
<1>4. ASSUME NEW m \in 0..(Len(s) - 1)
      PROVE  Upto(s, m + 1) = Upto(s, m) \cup {s[m + 1]} /\ s[m + 1] \notin Upto(s, m) /\ s[m + 1] \in X
  <2>1. m \in Nat /\ m + 1 \in DOMAIN s /\ 1..(m + 1) = (1..m) \cup {m + 1} /\ \A j \in 1..m : j \in DOMAIN s /\ j # m + 1
    BY <1>1
  <2>2. s[m + 1] \notin Upto(s, m)
    BY <2>1 DEF Upto, Distinct
  <2>3. Upto(s, m + 1) = Upto(s, m) \cup {s[m + 1]}
    BY <2>1 DEF Upto
  <2> QED BY <1>1, <2>1, <2>2, <2>3
<1> QED BY <1>2, <1>3, <1>4

\* One row more counts if it is one of T.
LEMMA CountGrows ==
  ASSUME NEW X, NEW s \in Seq(X), Distinct(s), NEW T, NEW m \in 0..(Len(s) - 1)
  PROVE  /\ Cardinality(Upto(s, m) \cap T) \in Nat
         /\ Cardinality(Upto(s, m + 1) \cap T) = Cardinality(Upto(s, m) \cap T) + (IF s[m + 1] \in T THEN 1 ELSE 0)
<1>1. Len(s) \in Nat /\ m \in 0..Len(s)
  OBVIOUS
<1>2. IsFiniteSet(Upto(s, m)) /\ Upto(s, m + 1) = Upto(s, m) \cup {s[m + 1]} /\ s[m + 1] \notin Upto(s, m)
  BY <1>1, UptoFacts
<1>3. PICK A : A = Upto(s, m) \cap T
  OBVIOUS
<1>4. IsFiniteSet(A) /\ Cardinality(A) \in Nat
  BY <1>2, <1>3, FS_Subset, FS_CardinalityType
<1>5. CASE s[m + 1] \in T
  <2>1. Upto(s, m + 1) \cap T = A \cup {s[m + 1]} /\ s[m + 1] \notin A
    BY <1>2, <1>3, <1>5
  <2>2. Cardinality(A \cup {s[m + 1]}) = Cardinality(A) + 1
    BY <1>4, <2>1, FS_AddElement
  <2> QED BY <1>3, <1>4, <1>5, <2>1, <2>2
<1>6. CASE s[m + 1] \notin T
  <2>1. Upto(s, m + 1) \cap T = A
    BY <1>2, <1>3, <1>6
  <2>2. Cardinality(A) + 0 = Cardinality(A)
    BY <1>4
  <2> QED BY <1>3, <1>4, <1>6, <2>1, <2>2
<1> QED BY <1>5, <1>6

-----------------------------------------------------------------------------
\* The canonical deal of a key.
Better(key, best, d) == IF d.status = "rejected" \/ Key(d) # key THEN best
                        ELSE IF best = NoRow THEN d
                        ELSE IF d.confidence > best.confidence THEN d ELSE best

\* The double's search for the canonical row is a fold, the choice of its table,
LEMMA FindFold ==
  ASSUME NEW key
  PROVE  MemFindByKey(key) =
           LET c == CHOOSE c : c = [t \in SUBSET (DOMAIN memDeals) |->
                                      IF t = {} THEN NoRow ELSE Better(key, c[t \ {Max(t)}], memDeals[Max(t)])]
           IN c[DOMAIN memDeals]
BY DEF MemFindByKey, FoldLeft, MapThenFoldSet, Better

\* and can be followed row by row.
LEMMA FindRuns ==
  ASSUME memDeals \in Seq(DealRow), NEW key
  PROVE  \E run \in [0..Len(memDeals) -> DealRow \cup {NoRow}] :
           /\ run[0] = NoRow /\ run[Len(memDeals)] = MemFindByKey(key)
           /\ \A m \in 0..(Len(memDeals) - 1) : run[m + 1] = Better(key, run[m], memDeals[m + 1])
<1> DEFINE V == DealRow \cup {NoRow}
           D == DOMAIN memDeals
           g == [p \in V \X DealRow |-> Better(key, p[1], p[2])]
           Iter(c) == c = [t \in SUBSET D |-> IF t = {} THEN NoRow ELSE Better(key, c[t \ {Max(t)}], memDeals[Max(t)])]
           c == CHOOSE c : Iter(c)
<1>1. Folding(DealRow, memDeals, V, NoRow, g) /\ \A v \in V, d \in DealRow : g[<<v, d>>] = Better(key, v, d)
  BY DEF Folding, Better
<1> HIDE DEF g, V
<1>2. PICK h : FoldOf(h, V, NoRow, g, memDeals)
  BY <1>1, FoldExists
<1>3. \A t \in SUBSET D : t # {} => memDeals[Max(t)] \in DealRow /\ t \ {Max(t)} \in SUBSET D
  BY <1>1, FoldExists
<1>4. Iter(h)
  <2>1. h \in [SUBSET D -> V] /\ \A t \in SUBSET D : h[t] = IF t = {} THEN NoRow ELSE g[<<h[t \ {Max(t)}], memDeals[Max(t)]>>]
    BY <1>2 DEF FoldOf
  <2> HIDE DEF D
  <2>2. \A t \in SUBSET D : h[t] = IF t = {} THEN NoRow ELSE Better(key, h[t \ {Max(t)}], memDeals[Max(t)])
    BY <1>1, <1>3, <2>1
  <2> QED BY <2>1, <2>2
<1>5. Iter(c)
  BY <1>4
<1>6. MemFindByKey(key) = c[D]
  BY FindFold
<1> HIDE DEF c
<1>7. FoldsTo(c, V, NoRow, g, memDeals)
  BY <1>1, <1>3, <1>5 DEF FoldsTo
<1>8. PICK run : RunOf(run, V, NoRow, g, memDeals) /\ run[Len(memDeals)] = c[D]
  BY <1>1, <1>7, FoldRuns
<1>9. \A m \in 0..(Len(memDeals) - 1) : run[m] \in V /\ memDeals[m + 1] \in DealRow
  BY <1>8 DEF RunOf
<1> HIDE DEF D
<1> QED BY <1>1, <1>6, <1>8, <1>9 DEF V, RunOf

\* What it ends with is a row Postgres may give.
LEMMA CanonicalMayBe ==
  ASSUME DealsAlike, NEW key
  PROVE  MemFindByKey(key) \in PgFindByKey(key)
<1> DEFINE T == {d \in DealRow : Key(d) = key /\ d.status # "rejected"}
           Best(S, b) == IF S = {} THEN b = NoRow ELSE b \in S /\ \A e \in S : e.confidence <= b.confidence
<1>1. PICK n \in Nat, s \in Seq(DealRow) : n = Len(s) /\ s = memDeals /\ Distinct(s) /\ \A i \in 1..n : s[i] \in DealRow
  BY DEF DealsAlike
<1>2. PICK run \in [0..n -> DealRow \cup {NoRow}] :
        run[0] = NoRow /\ run[n] = MemFindByKey(key) /\ \A m \in 0..(n - 1) : run[m + 1] = Better(key, run[m], s[m + 1])
  <2>1. PICK run \in [0..Len(memDeals) -> DealRow \cup {NoRow}] :
           /\ run[0] = NoRow /\ run[Len(memDeals)] = MemFindByKey(key)
           /\ \A m \in 0..(Len(memDeals) - 1) : run[m + 1] = Better(key, run[m], memDeals[m + 1])
    BY <1>1, FindRuns
  <2> QED BY <1>1, <2>1
<1> DEFINE S == {m \in 0..n : Best(Upto(s, m) \cap T, run[m])}
<1>3. 0 \in S
  <2>1. Upto(s, 0) = {}
    BY <1>1, UptoFacts
  <2> QED BY <1>2, <2>1
<1>4. ASSUME NEW m \in 0..(n - 1), m \in S PROVE m + 1 \in S
  <2>0. PICK d \in DealRow : d = s[m + 1]
    BY <1>1
  <2>1. PICK A, B : A = Upto(s, m) \cap T /\ B = Upto(s, m + 1) \cap T /\ d = s[m + 1]
    BY <2>0
  <2>2. B = IF d \in T THEN A \cup {d} ELSE A
    BY <1>1, <2>1, UptoFacts
  <2>3. A \in SUBSET DealRow
    BY <2>1
  <2>4. Best(A, run[m])
    BY <1>4, <2>1
  <2>5. run[m + 1] = Better(key, run[m], d)
    BY <1>2, <2>1
  <2>6. (\A x \in DealRow : x # NoRow) /\ \A x \in DealRow : x.confidence \in Int
    <3>1. \A x \in DealRow : "id" \in DOMAIN x
      BY DEF DealRow
    <3>2. "id" \notin DOMAIN NoRow
      BY DEF NoRow
    <3>3. \A x \in DealRow : x.confidence \in 0..2
      BY DEF DealRow
    <3> QED BY <3>1, <3>2, <3>3
  <2>7. d \in T <=> ~(d.status = "rejected" \/ Key(d) # key)
    BY <2>1
  <2>8. Best(B, run[m + 1])
    <3> HIDE DEF T, S
    <3>1. CASE d \notin T
      BY <2>2, <2>4, <2>5, <2>7, <3>1 DEF Better
    <3>2. CASE d \in T /\ A = {}
      BY <2>2, <2>4, <2>5, <2>6, <2>7, <3>2 DEF Better
    <3>3. CASE d \in T /\ A # {}
      <4>1. PICK b \in A : b = run[m] /\ \A e \in A : e.confidence <= b.confidence
        BY <2>4, <3>3
      <4>2. run[m + 1] = IF d.confidence > b.confidence THEN d ELSE b
        BY <2>3, <2>5, <2>6, <2>7, <3>3, <4>1 DEF Better
      <4>3. d.confidence \in Int /\ b.confidence \in Int /\ \A e \in A : e.confidence \in Int
        BY <2>3, <2>6
      <4> QED BY <2>2, <3>3, <4>1, <4>2, <4>3
    <3> QED BY <3>1, <3>2, <3>3
  <2>9. m + 1 \in 0..n
    OBVIOUS
  <2> QED BY <2>1, <2>8, <2>9
<1>5. n \in S
  <2>1. S \in SUBSET (0..n)
    OBVIOUS
  <2> HIDE DEF S
  <2> QED BY <1>3, <1>4, <2>1, Steps
<1>6. Upto(s, n) = ToSet(s)
  BY <1>1, UptoFacts
<1>7. ToSet(memDeals) \in SUBSET DealRow /\ pgDeals = ToSet(memDeals)
  BY StoreFacts DEF DealsAlike
<1>8. Select(pgDeals, LAMBDA d : Key(d) = key /\ d.status # "rejected") = ToSet(s) \cap T
  BY <1>1, <1>7 DEF Select
<1>9. Best(ToSet(s) \cap T, MemFindByKey(key))
  BY <1>2, <1>5, <1>6
<1> HIDE DEF T, S
<1> QED BY <1>8, <1>9 DEF PgFindByKey

\* Both adapters hold the same rows, so they find the same.
LEMMA LookupsFollow == DealsInv => LookupsAgree
<1> SUFFICES ASSUME DealsInv, ~dealRefused
             PROVE  LookupsAgree
  BY DEF LookupsAgree
<1>1. DealsAlike
  BY DealsAreAlike
<1>2. dealAnswer[1] = dealAnswer[2]
  BY DEF DealsInv, TablesSame, DealsTyped
<1>3. \A limit \in DealLimits : limit \in Nat
  BY DealTablesAssumption DEF DealLimits
<1>4. /\ \A d \in DealRows : PgGetDeal(d.id) = MemGetDeal(d.id)
      /\ \A s \in SourceRows : PgGetSource(s.id) = MemGetSource(s.id) /\ PgGetSourceByUrl(s.url) = MemGetSourceByUrl(s.url)
  BY <1>1, SameRows
<1>5. \A key \in Keys : MemFindByKey(key) \in PgFindByKey(key)
  BY <1>1, CanonicalMayBe
<1>6. \A key \in Keys, e \in EvidenceRows : MemFindActive(key, e.hash) \in PgFindActive(key, e.hash)
  BY <1>1, ActiveMayBe
<1>7. \A status \in Statuses, limit \in DealLimits : ToSet(MemListByStatus(status, limit)) \in PgListByStatus(status, limit)
  BY <1>1, <1>3, StatusListsAgree
<1>8. \A now \in DealTimes, limit \in DealLimits : ToSet(MemListDue(now, limit)) \in PgListDue(now, limit)
  BY <1>1, <1>3, DueListsAgree
<1>9. \A url \in Urls : ToSet(MemListByUrl(url, Reviewable)) = PgListByUrl(url, Reviewable)
  BY <1>1, UrlListsAgree
<1>10. \A q \in Services, resource \in {"candidates", "published"}, limit \in DealLimits :
         ToSet(MemSearch(q, resource, limit)) \in PgSearch(q, resource, limit)
  BY <1>1, <1>3, SearchAgrees
<1> QED BY <1>2, <1>4, <1>5, <1>6, <1>7, <1>8, <1>9, <1>10 DEF LookupsAgree

\* Whatever is looked for, both adapters find the same.
THEOREM LookupsHold == DealTablesSpec => []LookupsAgree
<1>1. DealsInv => LookupsAgree
  BY LookupsFollow
<1> QED BY <1>1, DealsInvariant, PTL

-----------------------------------------------------------------------------
(* Sums over a set.                                                         *)

\* The member a fold over a set takes first.
Taken(t) == CHOOSE x \in t : TRUE

\* A sum for each subset, one member after the other.
SumTable(c, w, S) ==
  /\ c[{}] = 0
  /\ \A t \in SUBSET S : t # {} => c[t] = w[Taken(t)] + c[t \ {Taken(t)}]

Sums(c, w, S) == w \in [S -> Nat] /\ SumTable(c, w, S) /\ \A t \in SUBSET S : c[t] \in Nat

\* The number k is the sum of w over S.
IsSum(w, S, k) == \E c : SumTable(c, w, S) /\ (\A t \in SUBSET S : c[t] \in Nat) /\ c[S] = k

Small(S, n) == {t \in SUBSET S : Cardinality(t) <= n}

\* Without the member it takes first, a set is smaller.
LEMMA TakenFacts ==
  ASSUME NEW S, IsFiniteSet(S), NEW t \in SUBSET S, t # {}
  PROVE  /\ Taken(t) \in t /\ t \ {Taken(t)} \in SUBSET S /\ IsFiniteSet(t)
         /\ Cardinality(t) \in Nat /\ Cardinality(t \ {Taken(t)}) = Cardinality(t) - 1
<1>1. Taken(t) \in t
  BY DEF Taken
<1>2. IsFiniteSet(t)
  BY FS_Subset
<1>3. PICK x : x = Taken(t)
  OBVIOUS
<1>4. Cardinality(t) \in Nat /\ Cardinality(t \ {x}) = Cardinality(t) - 1
  BY <1>1, <1>2, <1>3, FS_RemoveElement, FS_CardinalityType
<1> QED BY <1>1, <1>2, <1>3, <1>4

\* There are such sums.
Weights(w, S) == IsFiniteSet(S) /\ w \in [S -> Nat]
TotalsOf(h, w, S) ==
  h \in [SUBSET S -> Nat] /\ \A t \in SUBSET S : h[t] = IF t = {} THEN 0 ELSE w[Taken(t)] + h[t \ {Taken(t)}]

\* Every finite set of weights has a table of partial sums.
LEMMA SumExists ==
  ASSUME NEW S, NEW w, Weights(w, S)
  PROVE  \E h : TotalsOf(h, w, S)
<1>0. IsFiniteSet(S) /\ w \in [S -> Nat]
  BY DEF Weights
<1> DEFINE Good(h, n) == /\ h \in [Small(S, n) -> Nat]
                         /\ \A t \in Small(S, n) : h[t] = IF t = {} THEN 0 ELSE w[Taken(t)] + h[t \ {Taken(t)}]
           T == {n \in Nat : \E h : Good(h, n)}
<1>1. 0 \in T
  <2>1. ASSUME NEW t \in Small(S, 0) PROVE t = {}
    <3>1. t \in SUBSET S /\ Cardinality(t) <= 0
      BY <1>0 DEF Small
    <3>2. SUFFICES ASSUME t # {} PROVE FALSE
      OBVIOUS
    <3>3. Cardinality(t \ {Taken(t)}) = Cardinality(t) - 1 /\ IsFiniteSet(t \ {Taken(t)})
      BY <1>0, <3>1, <3>2, TakenFacts, FS_Subset
    <3>4. Cardinality(t \ {Taken(t)}) \in Nat /\ Cardinality(t) \in Nat
      BY <1>0, <3>1, <3>2, <3>3, TakenFacts, FS_CardinalityType
    <3> QED BY <1>0, <3>1, <3>3, <3>4
  <2>2. Good([t \in Small(S, 0) |-> 0], 0)
    BY <1>0, <2>1
  <2> HIDE DEF Good
  <2> QED BY <1>0, <2>2
<1>2. ASSUME NEW n \in T PROVE n + 1 \in T
  <2>1. n \in Nat
    OBVIOUS
  <2>2. PICK h : Good(h, n)
    OBVIOUS
  <2> DEFINE g == [t \in Small(S, n + 1) |-> IF t \in Small(S, n) THEN h[t] ELSE w[Taken(t)] + h[t \ {Taken(t)}]]
  <2>3. \A t \in Small(S, n) : t \in Small(S, n + 1) /\ g[t] = h[t] /\ h[t] \in Nat
    <3>1. ASSUME NEW t \in Small(S, n) PROVE t \in Small(S, n + 1)
      <4>1. IsFiniteSet(t) /\ Cardinality(t) \in Nat
        BY <1>0, FS_Subset, FS_CardinalityType DEF Small
      <4> QED BY <1>0, <2>1, <4>1 DEF Small
    <3> QED BY <1>0, <2>2, <3>1
  <2>4. ASSUME NEW t \in Small(S, n + 1), t # {}
        PROVE  Taken(t) \in S /\ t \ {Taken(t)} \in Small(S, n)
    <3>1. /\ t \in SUBSET S /\ Cardinality(t) <= n + 1
          /\ Taken(t) \in t /\ t \ {Taken(t)} \in SUBSET S /\ Cardinality(t) \in Nat /\ Cardinality(t \ {Taken(t)}) = Cardinality(t) - 1
      BY <1>0, <2>4, TakenFacts DEF Small
    <3> QED BY <1>0, <2>1, <3>1 DEF Small
  <2>5. {} \in Small(S, n)
    BY <1>0, <2>1, FS_EmptySet DEF Small
  <2>6. ASSUME NEW t \in Small(S, n + 1)
        PROVE  g[t] \in Nat /\ g[t] = IF t = {} THEN 0 ELSE w[Taken(t)] + g[t \ {Taken(t)}]
    <3>1. CASE t \in Small(S, n)
      <4>1. g[t] = h[t] /\ h[t] \in Nat
        BY <1>0, <2>3, <3>1
      <4>2. h[t] = IF t = {} THEN 0 ELSE w[Taken(t)] + h[t \ {Taken(t)}]
        BY <1>0, <2>2, <3>1
      <4>3. t # {} => g[t \ {Taken(t)}] = h[t \ {Taken(t)}]
        BY <1>0, <2>3, <2>4
      <4> HIDE DEF g
      <4> QED BY <1>0, <4>1, <4>2, <4>3
    <3>2. CASE t \notin Small(S, n)
      <4>1. t # {}
        BY <1>0, <2>5, <3>2
      <4>2. g[t] = w[Taken(t)] + h[t \ {Taken(t)}]
        BY <1>0, <3>2
      <4>3. g[t \ {Taken(t)}] = h[t \ {Taken(t)}] /\ h[t \ {Taken(t)}] \in Nat /\ w[Taken(t)] \in Nat
        BY <1>0, <2>3, <2>4, <4>1
      <4> HIDE DEF g
      <4> QED BY <1>0, <4>1, <4>2, <4>3
    <3> QED BY <1>0, <3>1, <3>2
  <2>7. g \in [Small(S, n + 1) -> Nat]
    <3>1. \A t \in Small(S, n + 1) : g[t] \in Nat
      BY <1>0, <2>6
    <3> QED BY <1>0, <3>1
  <2>8. Good(g, n + 1)
    <3> HIDE DEF g
    <3> QED BY <1>0, <2>6, <2>7
  <2> HIDE DEF g, Good
  <2> QED BY <1>0, <2>1, <2>8
<1>3. T = Nat
  <2>1. T \in SUBSET Nat
    OBVIOUS
  <2> HIDE DEF T
  <2> QED BY <1>0, <1>1, <1>2, <2>1, Induct
<1>4. Cardinality(S) \in Nat
  BY <1>0, FS_CardinalityType
<1>5. Small(S, Cardinality(S)) = SUBSET S
  BY <1>0, FS_Subset DEF Small
<1>6. PICK h : Good(h, Cardinality(S))
  <2>1. Cardinality(S) \in T
    <3> HIDE DEF T
    <3> QED BY <1>0, <1>3, <1>4
  <2> QED BY <1>0, <2>1
<1> QED BY <1>0, <1>5, <1>6 DEF TotalsOf

\* The sum does not depend on which member is taken first.
LEMMA SumAnyOrder ==
  ASSUME NEW S, IsFiniteSet(S), NEW w, NEW c, Sums(c, w, S),
         NEW t \in SUBSET S, NEW x \in t
  PROVE  c[t] = w[x] + c[t \ {x}]
<1>0. w \in [S -> Nat] /\ SumTable(c, w, S) /\ \A u \in SUBSET S : c[u] \in Nat
  BY DEF Sums
<1> DEFINE Ok(u) == \A y \in u : c[u] = w[y] + c[u \ {y}]
           T == {n \in Nat : \A u \in SUBSET S : Cardinality(u) = n => Ok(u)}
<1>1. 0 \in T
  <2> SUFFICES ASSUME NEW u \in SUBSET S, Cardinality(u) = 0 PROVE Ok(u)
    OBVIOUS
  <2>1. u = {}
    BY FS_Subset, FS_EmptySet
  <2> QED BY <2>1
<1>2. ASSUME NEW n \in T PROVE n + 1 \in T
  <2>1. n \in Nat /\ \A u \in SUBSET S : Cardinality(u) = n => Ok(u)
    OBVIOUS
  <2> SUFFICES ASSUME NEW u \in SUBSET S, Cardinality(u) = n + 1, NEW y \in u PROVE c[u] = w[y] + c[u \ {y}]
    BY <2>1
  <2>2. PICK z : z = Taken(u)
    OBVIOUS
  <2>3. z \in u /\ IsFiniteSet(u) /\ Cardinality(u \ {z}) = n
    BY <2>1, <2>2, TakenFacts
  <2>4. Cardinality(u \ {y}) = n
    BY <2>1, <2>3, FS_RemoveElement
  <2>5. c[u] = w[z] + c[u \ {z}]
    BY <1>0, <2>2 DEF SumTable
  <2>6. CASE y = z
    BY <2>5, <2>6
  <2>7. CASE y # z
    <3>1. Ok(u \ {z}) /\ Ok(u \ {y})
      BY <2>1, <2>3, <2>4
    <3>2. PICK v : v = (u \ {z}) \ {y} /\ v = (u \ {y}) \ {z} /\ v \in SUBSET S
      OBVIOUS
    <3>3. y \in u \ {z} /\ z \in u \ {y}
      BY <2>3, <2>7
    <3>4. c[u \ {z}] = w[y] + c[v] /\ c[u \ {y}] = w[z] + c[v]
      BY <3>1, <3>2, <3>3
    <3>5. w[y] \in Nat /\ w[z] \in Nat /\ c[v] \in Nat
      BY <1>0, <2>3, <3>2
    <3> HIDE DEF T
    <3> QED BY <2>5, <3>4, <3>5
  <2> QED BY <2>6, <2>7
<1>3. T = Nat
  <2>1. T \in SUBSET Nat
    OBVIOUS
  <2> HIDE DEF T
  <2> QED BY <1>1, <1>2, <2>1, Induct
<1>4. Cardinality(t) \in T
  <2>1. Cardinality(t) \in Nat
    BY FS_Subset, FS_CardinalityType
  <2> HIDE DEF T
  <2> QED BY <1>3, <2>1
<1> QED BY <1>4

\* A sum without one of its terms.
LEMMA SumLess ==
  ASSUME NEW U, NEW S \in SUBSET U, IsFiniteSet(S), NEW w \in [U -> Nat], NEW k, IsSum(w, S, k), NEW x \in S
  PROVE  k \in Nat /\ w[x] <= k /\ IsSum(w, S \ {x}, k - w[x])
<1>1. PICK c : SumTable(c, w, S) /\ (\A t \in SUBSET S : c[t] \in Nat) /\ c[S] = k
  BY DEF IsSum
<1> DEFINE v == [y \in S |-> w[y]]
<1>2. v \in [S -> Nat] /\ \A y \in S : v[y] = w[y]
  OBVIOUS
<1> HIDE DEF v
<1>3. Sums(c, v, S)
  <2>1. \A t \in SUBSET S : t # {} => Taken(t) \in S
    BY TakenFacts
  <2> QED BY <1>1, <1>2, <2>1 DEF SumTable, Sums
<1>4. c[S] = v[x] + c[S \ {x}]
  <2>1. S \in SUBSET S /\ x \in S
    OBVIOUS
  <2> QED BY <1>3, <2>1, SumAnyOrder
<1>5. SumTable(c, w, S \ {x}) /\ \A t \in SUBSET (S \ {x}) : c[t] \in Nat
  BY <1>1 DEF SumTable
<1>6. k \in Nat /\ w[x] \in Nat /\ c[S \ {x}] \in Nat /\ k = w[x] + c[S \ {x}]
  BY <1>1, <1>2, <1>4
<1>7. c[S \ {x}] = k - w[x] /\ w[x] <= k
  BY <1>6
<1> QED BY <1>5, <1>6, <1>7 DEF IsSum

\* Nothing adds up to 0.
LEMMA SumOfNone ==
  ASSUME NEW w, NEW k, IsSum(w, {}, k)
  PROVE  k = 0
BY DEF IsSum, SumTable

\* There is one sum.
LEMMA SumOnce ==
  ASSUME NEW U, NEW S \in SUBSET U, IsFiniteSet(S), NEW w \in [U -> Nat], NEW k, IsSum(w, S, k), NEW l, IsSum(w, S, l)
  PROVE  k = l
<1> DEFINE T == {n \in Nat : \A A \in SUBSET S : Cardinality(A) = n => \A i, j \in Nat : IsSum(w, A, i) /\ IsSum(w, A, j) => i = j}
<1>1. 0 \in T
  <2> SUFFICES ASSUME NEW A \in SUBSET S, Cardinality(A) = 0, NEW i \in Nat, NEW j \in Nat, IsSum(w, A, i), IsSum(w, A, j)
               PROVE  i = j
    OBVIOUS
  <2>1. A = {}
    BY FS_Subset, FS_EmptySet
  <2> QED BY <2>1, SumOfNone
<1>2. ASSUME NEW n \in T PROVE n + 1 \in T
  <2>1. n \in Nat /\ \A A \in SUBSET S : Cardinality(A) = n => \A i, j \in Nat : IsSum(w, A, i) /\ IsSum(w, A, j) => i = j
    OBVIOUS
  <2> SUFFICES ASSUME NEW A \in SUBSET S, Cardinality(A) = n + 1, NEW i \in Nat, NEW j \in Nat, IsSum(w, A, i), IsSum(w, A, j)
               PROVE  i = j
    BY <2>1
  <2>2. IsFiniteSet(A) /\ A # {} /\ A \in SUBSET U
    BY <2>1, FS_Subset, FS_EmptySet
  <2>3. PICK x \in A : TRUE
    BY <2>2
  <2>4. Cardinality(A \ {x}) = n
    <3>1. Cardinality(A \ {x}) = Cardinality(A) - 1
      BY <2>2, FS_RemoveElement
    <3> HIDE DEF T
    <3> QED BY <2>1, <3>1
  <2>5. w[x] <= i /\ IsSum(w, A \ {x}, i - w[x]) /\ w[x] <= j /\ IsSum(w, A \ {x}, j - w[x])
    BY <2>2, SumLess
  <2>6. w[x] \in Nat
    BY <2>2
  <2>7. i - w[x] \in Nat /\ j - w[x] \in Nat /\ A \ {x} \in SUBSET S
    BY <2>5, <2>6
  <2>8. i - w[x] = j - w[x]
    BY <2>1, <2>4, <2>5, <2>7
  <2> QED BY <2>6, <2>8
<1>3. T = Nat
  <2>1. T \in SUBSET Nat
    OBVIOUS
  <2> HIDE DEF T
  <2> QED BY <1>1, <1>2, <2>1, Induct
<1>4. Cardinality(S) \in T
  <2>1. Cardinality(S) \in Nat
    BY FS_CardinalityType
  <2> HIDE DEF T
  <2> QED BY <1>3, <2>1
<1>5. k \in Nat /\ l \in Nat
  BY DEF IsSum
<1> QED BY <1>4, <1>5

\* What is added up member by member is a number.
LEMMA SumTyped ==
  ASSUME NEW S, IsFiniteSet(S), NEW w \in [S -> Nat], NEW c, SumTable(c, w, S)
  PROVE  Sums(c, w, S)
<1> DEFINE T == {n \in Nat : \A t \in SUBSET S : Cardinality(t) = n => c[t] \in Nat}
<1>1. 0 \in T
  <2> SUFFICES ASSUME NEW t \in SUBSET S, Cardinality(t) = 0 PROVE c[t] \in Nat
    OBVIOUS
  <2>1. t = {}
    BY FS_Subset, FS_EmptySet
  <2> QED BY <2>1 DEF SumTable
<1>2. ASSUME NEW n \in T PROVE n + 1 \in T
  <2>1. n \in Nat /\ \A t \in SUBSET S : Cardinality(t) = n => c[t] \in Nat
    OBVIOUS
  <2> SUFFICES ASSUME NEW t \in SUBSET S, Cardinality(t) = n + 1 PROVE c[t] \in Nat
    BY <2>1
  <2>2. t # {}
    <3>1. Cardinality({}) = 0 /\ n + 1 # 0
      BY <2>1, FS_EmptySet
    <3> HIDE DEF T
    <3> QED BY <3>1
  <2>3. PICK x, u : x = Taken(t) /\ u = t \ {x}
    OBVIOUS
  <2>4. x \in S /\ u \in SUBSET S /\ Cardinality(u) = Cardinality(t) - 1
    BY <2>2, <2>3, TakenFacts
  <2>5. Cardinality(u) = n
    <3> HIDE DEF T
    <3> QED BY <2>1, <2>4
  <2>6. c[u] \in Nat /\ w[x] \in Nat
    BY <2>1, <2>4, <2>5
  <2>7. c[t] = w[x] + c[u]
    BY <2>2, <2>3 DEF SumTable
  <2> QED BY <2>6, <2>7
<1>3. T = Nat
  <2>1. T \in SUBSET Nat
    OBVIOUS
  <2> HIDE DEF T
  <2> QED BY <1>1, <1>2, <2>1, Induct
<1>4. ASSUME NEW t \in SUBSET S PROVE c[t] \in Nat
  <2>1. Cardinality(t) \in Nat
    BY FS_Subset, FS_CardinalityType
  <2>2. Cardinality(t) \in T
    <3> HIDE DEF T
    <3> QED BY <1>3, <2>1
  <2> QED BY <2>2
<1> QED BY <1>4 DEF Sums

\* The sizes of the groups add up to the size of the whole.
Grouped(Q, G, group, w, c) ==
  /\ IsFiniteSet(Q) /\ IsFiniteSet(G) /\ group \in [Q -> G] /\ Sums(c, w, G)
  /\ \A r \in G : w[r] = Cardinality({d \in Q : group[d] = r})

\* The sizes of the groups add up to the whole.
LEMMA GroupSum ==
  ASSUME NEW Q, NEW G, NEW group, NEW w, NEW c, Grouped(Q, G, group, w, c)
  PROVE  c[G] = Cardinality(Q)
<1>00. /\ IsFiniteSet(Q) /\ IsFiniteSet(G) /\ group \in [Q -> G] /\ Sums(c, w, G)
       /\ \A r \in G : w[r] = Cardinality({d \in Q : group[d] = r})
  BY DEF Grouped
<1> DEFINE In(t) == {d \in Q : group[d] \in t}
           T == {n \in Nat : \A t \in SUBSET G : Cardinality(t) = n => c[t] = Cardinality(In(t))}
<1>0. w \in [G -> Nat] /\ SumTable(c, w, G) /\ \A t \in SUBSET G : c[t] \in Nat
  BY <1>00 DEF Sums
<1>1. 0 \in T
  <2> SUFFICES ASSUME NEW t \in SUBSET G, Cardinality(t) = 0 PROVE c[t] = Cardinality(In(t))
    OBVIOUS
  <2>1. t = {}
    BY <1>00, FS_Subset, FS_EmptySet
  <2>2. In(t) = {}
    BY <1>00, <2>1
  <2>3. Cardinality(In(t)) = 0
    BY <1>00, <2>2, FS_EmptySet
  <2> QED BY <1>00, <1>0, <2>1, <2>3 DEF SumTable
<1>2. ASSUME NEW n \in T PROVE n + 1 \in T
  <2>1. n \in Nat /\ \A t \in SUBSET G : Cardinality(t) = n => c[t] = Cardinality(In(t))
    OBVIOUS
  <2> SUFFICES ASSUME NEW t \in SUBSET G, Cardinality(t) = n + 1 PROVE c[t] = Cardinality(In(t))
    BY <1>00, <2>1
  <2>2. t # {}
    <3>1. Cardinality({}) = 0 /\ n + 1 # 0
      BY <1>00, <2>1, FS_EmptySet
    <3> HIDE DEF T
    <3> QED BY <1>00, <3>1
  <2>3. PICK r, u : r = Taken(t) /\ u = t \ {r}
    OBVIOUS
  <2>4. r \in G /\ r \in t /\ u \in SUBSET G /\ Cardinality(u) = Cardinality(t) - 1
    BY <1>00, <2>2, <2>3, TakenFacts
  <2>5. Cardinality(u) = n
    <3> HIDE DEF T, In
    <3> QED BY <1>00, <2>1, <2>4
  <2>6. c[u] = Cardinality(In(u)) /\ c[t] = w[r] + c[u] /\ w[r] = Cardinality({d \in Q : group[d] = r})
    BY <1>00, <1>0, <2>1, <2>2, <2>3, <2>4, <2>5 DEF SumTable
  <2>7. PICK A, B : A = {d \in Q : group[d] = r} /\ B = In(u)
    OBVIOUS
  <2>8. A \cup B = In(t) /\ A \cap B = {} /\ A \in SUBSET Q /\ B \in SUBSET Q
    BY <1>00, <2>3, <2>4, <2>7
  <2>9. IsFiniteSet(A) /\ IsFiniteSet(B)
    BY <1>00, <2>8, FS_Subset
  <2>10. Cardinality(A \cup B) = Cardinality(A) + Cardinality(B) - Cardinality(A \cap B)
    BY <1>00, <2>9, FS_Union
  <2>11. Cardinality(A \cap B) = 0 /\ Cardinality(A) \in Nat /\ Cardinality(B) \in Nat
    BY <1>00, <2>8, <2>9, FS_EmptySet, FS_CardinalityType
  <2> HIDE DEF In, T
  <2>12. Cardinality(In(t)) = Cardinality(A) + Cardinality(B)
    <3>1. Cardinality(A \cup B) = Cardinality(A) + Cardinality(B)
      BY <1>00, <2>10, <2>11
    <3> QED BY <1>00, <2>8, <3>1
  <2>13. c[t] = Cardinality(A) + Cardinality(B)
    BY <2>6, <2>7
  <2> QED BY <1>00, <2>12, <2>13
<1>3. T = Nat
  <2>1. T \in SUBSET Nat
    OBVIOUS
  <2> HIDE DEF T
  <2> QED BY <1>00, <1>1, <1>2, <2>1, Induct
<1>4. G \in SUBSET G /\ Cardinality(G) \in Nat
  BY <1>00, FS_CardinalityType
<1>5. c[G] = Cardinality(In(G))
  <2>1. Cardinality(G) \in T
    <3> HIDE DEF T
    <3> QED BY <1>00, <1>3, <1>4
  <2> QED BY <1>00, <1>4, <2>1
<1>6. In(G) = Q
  BY <1>00
<1> QED BY <1>00, <1>5, <1>6

-----------------------------------------------------------------------------
(* The screens.                                                             *)

\* What the conditions of the lists let through.
Fed(f) == {d \in DealRow : d.status = "published" /\ MatchesFilters(d, f)}
Queued(f) == {d \in DealRow : InQueue(d, f)}
History == {d \in DealRow : d.status \in AdminStatuses}
Pending == {d \in DealRow : d.status \in Reviewable}

\* Both adapters apply the conditions to the same rows.
LEMMA ScreensFound ==
  ASSUME DealsAlike
  PROVE  /\ ToSet(memDeals) \in SUBSET DealRow
         /\ \A f : /\ {d \in pgDeals : d.status = "published" /\ MatchesFilters(d, f)} = ToSet(memDeals) \cap Fed(f)
                   /\ EntriesAt(memDeals, {i \in DOMAIN memDeals : memDeals[i].status = "published" /\ MatchesFilters(memDeals[i], f)}) = Found(memDeals, Fed(f))
         /\ \A f : /\ {d \in pgDeals : InQueue(d, f)} = ToSet(memDeals) \cap Queued(f)
                   /\ EntriesAt(memDeals, {i \in DOMAIN memDeals : InQueue(memDeals[i], f)}) = Found(memDeals, Queued(f))
         /\ {d \in pgDeals : d.status \in AdminStatuses} = ToSet(memDeals) \cap History
         /\ EntriesAt(memDeals, {i \in DOMAIN memDeals : memDeals[i].status \in AdminStatuses}) = Found(memDeals, History)
         /\ {d \in pgDeals : d.status \in Reviewable} = ToSet(memDeals) \cap Pending
         /\ EntriesAt(memDeals, {i \in DOMAIN memDeals : memDeals[i].status \in Reviewable}) = Found(memDeals, Pending)
<1>1. ToSet(memDeals) \in SUBSET DealRow /\ pgDeals = ToSet(memDeals) /\ \A i \in DOMAIN memDeals : memDeals[i] \in DealRow
  BY StoreFacts DEF DealsAlike
<1>2. ASSUME NEW f
      PROVE  /\ {d \in pgDeals : d.status = "published" /\ MatchesFilters(d, f)} = ToSet(memDeals) \cap Fed(f)
             /\ EntriesAt(memDeals, {i \in DOMAIN memDeals : memDeals[i].status = "published" /\ MatchesFilters(memDeals[i], f)}) = Found(memDeals, Fed(f))
  <2>1. {i \in DOMAIN memDeals : memDeals[i].status = "published" /\ MatchesFilters(memDeals[i], f)}
          = {i \in DOMAIN memDeals : memDeals[i] \in Fed(f)}
    BY <1>1 DEF Fed
  <2>2. {d \in pgDeals : d.status = "published" /\ MatchesFilters(d, f)} = ToSet(memDeals) \cap Fed(f)
    BY <1>1 DEF Fed
  <2> QED BY <2>1, <2>2 DEF Found
<1>3. ASSUME NEW f
      PROVE  /\ {d \in pgDeals : InQueue(d, f)} = ToSet(memDeals) \cap Queued(f)
             /\ EntriesAt(memDeals, {i \in DOMAIN memDeals : InQueue(memDeals[i], f)}) = Found(memDeals, Queued(f))
  <2>1. {i \in DOMAIN memDeals : InQueue(memDeals[i], f)} = {i \in DOMAIN memDeals : memDeals[i] \in Queued(f)}
    BY <1>1 DEF Queued
  <2>2. {d \in pgDeals : InQueue(d, f)} = ToSet(memDeals) \cap Queued(f)
    BY <1>1 DEF Queued
  <2> QED BY <2>1, <2>2 DEF Found
<1>4. ASSUME NEW statuses, NEW T, T = {d \in DealRow : d.status \in statuses}
      PROVE  /\ {d \in pgDeals : d.status \in statuses} = ToSet(memDeals) \cap T
             /\ EntriesAt(memDeals, {i \in DOMAIN memDeals : memDeals[i].status \in statuses}) = Found(memDeals, T)
  <2>1. {i \in DOMAIN memDeals : memDeals[i].status \in statuses} = {i \in DOMAIN memDeals : memDeals[i] \in T}
    BY <1>1, <1>4
  <2>2. {d \in pgDeals : d.status \in statuses} = ToSet(memDeals) \cap T
    BY <1>1, <1>4
  <2> QED BY <2>1, <2>2 DEF Found
<1>5. History = {d \in DealRow : d.status \in AdminStatuses} /\ Pending = {d \in DealRow : d.status \in Reviewable}
  BY DEF History, Pending
<1> QED BY <1>1, <1>2, <1>3, <1>4, <1>5

\* What is found is a store of deals, each with an id of its own.
LEMMA FoundDeals ==
  ASSUME DealsAlike, NEW T
  PROVE  LET e == Found(memDeals, T)
             S == ToSet(memDeals) \cap T
         IN  /\ e \in Seq(DealRow) /\ Distinct(e) /\ ToSet(e) = S /\ S \in SUBSET DealRow
             /\ IsFiniteSet(S) /\ Len(e) = Cardinality(S)
             /\ \A a, b \in S : a.id = b.id => a = b
             /\ \A i, j \in DOMAIN e : e[i].id = e[j].id => i = j
<1>1. PICK e, S : e = Found(memDeals, T) /\ S = ToSet(memDeals) \cap T
  OBVIOUS
<1>2. memDeals \in Seq(DealRow) /\ Distinct(memDeals) /\ \A a, b \in ToSet(memDeals) : a.id = b.id => a = b
  BY DEF DealsAlike
<1>3. e \in Seq(DealRow) /\ Distinct(e) /\ ToSet(e) = S /\ IsFiniteSet(S) /\ Len(e) = Cardinality(S)
  BY <1>1, <1>2, FoundFacts
<1>4. S \in SUBSET DealRow /\ \A i \in DOMAIN e : e[i] \in S
  BY <1>3, StoreFacts
<1>5. \A a, b \in S : a.id = b.id => a = b
  BY <1>1, <1>2
<1>6. \A i, j \in DOMAIN e : e[i].id = e[j].id => i = j
  BY <1>3, <1>4, <1>5 DEF Distinct
<1> QED BY <1>1, <1>3, <1>4, <1>5, <1>6

\* The orders of the queue and of the history, on the rows they are asked to order.
ByTriage(S) == {p \in S \X S : TriageBefore(p[1], p[2])}
ByDate(S) == {p \in S \X S : PublishedBefore(p[1], p[2])}
ByFetch(sort, S) == {p \in S \X S : ComparePublishedPrimary(sort, p[1], p[2])}

\* The orders of the screens leave no two deals tied.
LEMMA ScreenOrders ==
  ASSUME NEW S \in SUBSET DealRow, \A a, b \in S : a.id = b.id => a = b
  PROVE  Orders(ByTriage(S), S) /\ Orders(ByDate(S), S) /\ \A sort : Orders(ByFetch(sort, S), S)
<1>1. \A a \in S : a.id \in Nat /\ a.confidence \in Nat /\ a.published_at \in Nat /\ a.cost \in Nat /\ a.verified_at \in Nat
  BY DEF DealRow
<1>2. Orders(ByTriage(S), S)
  <2>1. \A a, b \in S : <<a, b>> \in ByTriage(S) <=> TriageBefore(a, b)
    BY DEF ByTriage
  <2>2. \A a \in S : ~TriageBefore(a, a)
    BY <1>1 DEF TriageBefore
  <2>3. \A a, b \in S : a # b => TriageBefore(a, b) \/ TriageBefore(b, a)
    BY <1>1 DEF TriageBefore
  <2>4. \A a, b, c \in S : TriageBefore(a, b) /\ TriageBefore(b, c) => TriageBefore(a, c)
    BY <1>1 DEF TriageBefore
  <2> QED BY <2>1, <2>2, <2>3, <2>4 DEF Orders
<1>3. Orders(ByDate(S), S)
  <2>1. \A a, b \in S : <<a, b>> \in ByDate(S) <=> PublishedBefore(a, b)
    BY DEF ByDate
  <2>2. \A a \in S : ~PublishedBefore(a, a)
    BY <1>1 DEF PublishedBefore
  <2>3. \A a, b \in S : a # b => PublishedBefore(a, b) \/ PublishedBefore(b, a)
    BY <1>1 DEF PublishedBefore
  <2>4. \A a, b, c \in S : PublishedBefore(a, b) /\ PublishedBefore(b, c) => PublishedBefore(a, c)
    BY <1>1 DEF PublishedBefore
  <2> QED BY <2>1, <2>2, <2>3, <2>4 DEF Orders
<1>4. ASSUME NEW sort PROVE Orders(ByFetch(sort, S), S)
  <2>1. \A a, b \in S : <<a, b>> \in ByFetch(sort, S) <=> ComparePublishedPrimary(sort, a, b)
    BY DEF ByFetch
  <2>2. \A a, b \in S : <<a, b>> \in ByPrimary(sort) <=> ComparePublishedPrimary(sort, a, b)
    BY DEF ByPrimary
  <2>3. Orders(ByPrimary(sort), S)
    BY ByPrimaryOrders
  <2> QED BY <2>1, <2>2, <2>3 DEF Orders
<1> QED BY <1>2, <1>3, <1>4

\* The sort of a store is the order of its rows.
LEMMA ScreenSorts ==
  ASSUME NEW e \in Seq(DealRow), Distinct(e), NEW S, S = ToSet(e), \A a, b \in S : a.id = b.id => a = b
  PROVE  /\ StableSort(e, TriageBefore) = Arranged(S, ByTriage(S))
         /\ StableSort(e, ComparePublishedAt) = Arranged(S, ByDate(S))
         /\ \A sort : StableSort(e, LAMBDA a, b : ComparePublishedPrimary(sort, a, b)) = Arranged(S, ByFetch(sort, S))
<1>1. S \in SUBSET DealRow /\ \A i \in DOMAIN e : e[i] \in S
  BY StoreFacts
<1>2. Orders(ByTriage(S), S) /\ Orders(ByDate(S), S) /\ \A sort : Orders(ByFetch(sort, S), S)
  BY <1>1, ScreenOrders
<1>3. StableSort(e, TriageBefore) = Sorted(e, ByTriage(S))
  <2>1. \A i, j \in DOMAIN e : <<e[i], e[j]>> \in ByTriage(S) <=> TriageBefore(e[i], e[j])
    BY <1>1 DEF ByTriage
  <2>2. {p \in (DOMAIN e) \X (DOMAIN e) : TriageBefore(e[p[1]], e[p[2]]) \/ (~TriageBefore(e[p[2]], e[p[1]]) /\ p[1] < p[2])}
          = Places(e, ByTriage(S))
    BY <2>1 DEF Places
  <2> QED BY <2>2 DEF StableSort, Sorted
<1>4. StableSort(e, ComparePublishedAt) = Sorted(e, ByDate(S))
  <2>1. \A a, b \in S : ComparePublishedAt(a, b) <=> PublishedBefore(a, b)
    <3>1. \A a \in S : a.id \in Nat /\ a.published_at \in Nat
      BY <1>1 DEF DealRow
    <3> QED BY <3>1 DEF ComparePublishedAt, PublishedBefore, NoTime
  <2>2. \A i, j \in DOMAIN e : <<e[i], e[j]>> \in ByDate(S) <=> ComparePublishedAt(e[i], e[j])
    BY <1>1, <2>1 DEF ByDate
  <2>3. {p \in (DOMAIN e) \X (DOMAIN e) : ComparePublishedAt(e[p[1]], e[p[2]]) \/ (~ComparePublishedAt(e[p[2]], e[p[1]]) /\ p[1] < p[2])}
          = Places(e, ByDate(S))
    BY <2>2 DEF Places
  <2> QED BY <2>3 DEF StableSort, Sorted
<1>5. ASSUME NEW sort
      PROVE  StableSort(e, LAMBDA a, b : ComparePublishedPrimary(sort, a, b)) = Sorted(e, ByFetch(sort, S))
  <2>1. \A i, j \in DOMAIN e : <<e[i], e[j]>> \in ByFetch(sort, S) <=> ComparePublishedPrimary(sort, e[i], e[j])
    BY <1>1 DEF ByFetch
  <2>2. {p \in (DOMAIN e) \X (DOMAIN e) : \/ ComparePublishedPrimary(sort, e[p[1]], e[p[2]])
                                          \/ ~ComparePublishedPrimary(sort, e[p[2]], e[p[1]]) /\ p[1] < p[2]}
          = Places(e, ByFetch(sort, S))
    BY <2>1 DEF Places
  <2> QED BY <2>2 DEF StableSort, Sorted
<1>6. \A R : Orders(R, S) => Sorted(e, R) = Arranged(S, R)
  BY SortedFacts
<1> QED BY <1>2, <1>3, <1>4, <1>5, <1>6

\* The pages of the queue and of the history.
LEMMA PagesAgree ==
  ASSUME DealsAlike, NEW offset, NEW limit
  PROVE  /\ \A f : PgListCandidates(f, offset, limit) = MemListCandidates(f, offset, limit)
         /\ PgListAdminPublished(offset, limit) = MemListAdminPublished(offset, limit)
<1>1. ASSUME NEW f PROVE PgListCandidates(f, offset, limit) = MemListCandidates(f, offset, limit)
  <2>1. PICK e, S : e = Found(memDeals, Queued(f)) /\ S = ToSet(memDeals) \cap Queued(f)
    OBVIOUS
  <2>2. e \in Seq(DealRow) /\ Distinct(e) /\ S = ToSet(e) /\ \A a, b \in S : a.id = b.id => a = b
    BY <2>1, FoundDeals
  <2>3. StableSort(e, TriageBefore) = Arranged(S, ByTriage(S))
    BY <2>2, ScreenSorts
  <2>4. InOrder(S, TriageBefore) = Arranged(S, ByTriage(S))
    BY DEF InOrder, ByTriage
  <2>5. {d \in pgDeals : InQueue(d, f)} = S /\ EntriesAt(memDeals, {i \in DOMAIN memDeals : InQueue(memDeals[i], f)}) = e
    BY <2>1, ScreensFound
  <2> QED BY <2>3, <2>4, <2>5 DEF Select, Scan, PgListCandidates, MemListCandidates, Ordered, Slice
<1>2. PgListAdminPublished(offset, limit) = MemListAdminPublished(offset, limit)
  <2>1. PICK e, S : e = Found(memDeals, History) /\ S = ToSet(memDeals) \cap History
    OBVIOUS
  <2>2. e \in Seq(DealRow) /\ Distinct(e) /\ S = ToSet(e) /\ \A a, b \in S : a.id = b.id => a = b
    BY <2>1, FoundDeals
  <2>3. StableSort(e, ComparePublishedAt) = Arranged(S, ByDate(S))
    BY <2>2, ScreenSorts
  <2>4. InOrder(S, PublishedBefore) = Arranged(S, ByDate(S))
    BY DEF InOrder, ByDate
  <2>5. {d \in pgDeals : d.status \in AdminStatuses} = S /\ EntriesAt(memDeals, {i \in DOMAIN memDeals : memDeals[i].status \in AdminStatuses}) = e
    BY <2>1, ScreensFound
  <2> QED BY <2>3, <2>4, <2>5 DEF Select, Scan, PgListAdminPublished, MemListAdminPublished, Ordered, Slice
<1> QED BY <1>1, <1>2

\* The pages of the feed.
LEMMA FeedAgrees ==
  ASSUME DealsAlike, NEW query
  PROVE  PgListPublished(query) = MemListPublished(query)
<1>1. PICK e, S, f, sort : e = Found(memDeals, Fed(f)) /\ S = ToSet(memDeals) \cap Fed(f) /\ f = query.filters /\ sort = query.sort
  OBVIOUS
<1>2. e \in Seq(DealRow) /\ Distinct(e) /\ S = ToSet(e) /\ \A a, b \in S : a.id = b.id => a = b
  BY <1>1, FoundDeals
<1>3. StableSort(e, LAMBDA a, b : ComparePublishedPrimary(sort, a, b)) = Arranged(S, ByFetch(sort, S))
  BY <1>2, ScreenSorts
<1>4. PICK all : all = Arranged(S, ByFetch(sort, S))
  OBVIOUS
<1>5. SubSeq(all, 0 + 1, AtMost(0 + FetchCap, Len(all))) = CapByPrimary(e, sort)
  BY <1>3, <1>4 DEF CapByPrimary, Slice
<1>6. PgSourcesByStatus("active") = ToSet(MemSourcesByStatus("active"))
  <2>1. PICK T : T = {s \in SourceRow : s.status = "active"}
    OBVIOUS
  <2>2. memSources \in Seq(SourceRow) /\ Distinct(memSources) /\ pgSources = ToSet(memSources)
        /\ ToSet(memSources) \in SUBSET SourceRow /\ \A i \in DOMAIN memSources : memSources[i] \in SourceRow
    BY StoreFacts DEF DealsAlike
  <2>3. {i \in DOMAIN memSources : memSources[i].status = "active"} = {i \in DOMAIN memSources : memSources[i] \in T}
    BY <2>1, <2>2
  <2>4. MemSourcesByStatus("active") = Found(memSources, T)
    BY <2>3 DEF MemSourcesByStatus, Scan, Found
  <2>5. ToSet(Found(memSources, T)) = ToSet(memSources) \cap T
    BY <2>2, FoundFacts
  <2> QED BY <2>1, <2>2, <2>4, <2>5 DEF PgSourcesByStatus, Select
<1>7. /\ {d \in pgDeals : d.status = "published" /\ MatchesFilters(d, f)} = S
      /\ EntriesAt(memDeals, {i \in DOMAIN memDeals : memDeals[i].status = "published" /\ MatchesFilters(memDeals[i], f)}) = e
  BY <1>1, ScreensFound
<1>8. PgListPublished(query) = RankPublished(SubSeq(all, 0 + 1, AtMost(0 + FetchCap, Len(all))), ReliabilityIndex(PgSourcesByStatus("active")), query)
  <2>1. PICK rows : rows = {d \in pgDeals : d.status = "published" /\ MatchesFilters(d, query.filters)}
    OBVIOUS
  <2>2. PICK order : order = {p \in rows \X rows : ComparePublishedPrimary(query.sort, p[1], p[2])}
    OBVIOUS
  <2>3. PICK line : line = Arranged(rows, order)
    OBVIOUS
  <2>4. PgListPublished(query) = RankPublished(SubSeq(line, 0 + 1, AtMost(0 + FetchCap, Len(line))), ReliabilityIndex(PgSourcesByStatus("active")), query)
    BY <2>1, <2>2, <2>3 DEF PgListPublished, Ordered, InOrder, Select
  <2>5. rows = S /\ order = ByFetch(sort, S)
    BY <1>1, <1>7, <2>1, <2>2 DEF ByFetch
  <2> QED BY <1>4, <2>3, <2>4, <2>5
<1>9. MemListPublished(query) = RankPublished(CapByPrimary(e, sort), ReliabilityIndex(ToSet(MemSourcesByStatus("active"))), query)
  BY <1>1, <1>7 DEF MemListPublished, Scan
<1> QED BY <1>5, <1>6, <1>8, <1>9

\* The totals.
LEMMA TotalsAgree ==
  ASSUME DealsAlike
  PROVE  PgCountAdmin = MemCountAdmin /\ \A f : PgCountPublished(f) = MemCountPublished(f)
<1>1. \A T : Len(Found(memDeals, T)) = Cardinality(ToSet(memDeals) \cap T)
  BY FoundDeals
<1>2. PgCountAdmin = MemCountAdmin
  BY <1>1, ScreensFound DEF Select, Scan, PgCountAdmin, MemCountAdmin
<1>3. ASSUME NEW f PROVE PgCountPublished(f) = MemCountPublished(f)
  BY <1>1, ScreensFound DEF Select, Scan, PgCountPublished, MemCountPublished
<1> QED BY <1>2, <1>3

\* The counters of the queue, read off a set of rows.
Shaky == {d \in Pending : d.confidence <= LowConfidence}
Edited == {d \in Pending : d.edited}
OnRoute(r) == {d \in Pending : d.route_type = r}
Census(S) == [all_pending |-> Cardinality(S \cap Pending), low_confidence |-> Cardinality(S \cap Shaky),
              human_edited |-> Cardinality(S \cap Edited), by_route |-> [r \in RouteTypes |-> Cardinality(S \cap OnRoute(r))]]

\* One row more.
Counted(n, d) ==
  IF d.status \notin Reviewable THEN n
  ELSE [all_pending    |-> n.all_pending + 1,
        low_confidence |-> n.low_confidence + (IF d.confidence <= LowConfidence THEN 1 ELSE 0),
        human_edited   |-> n.human_edited + (IF d.edited THEN 1 ELSE 0),
        by_route       |-> [n.by_route EXCEPT ![d.route_type] = @ + 1]]
NoneCounted == [all_pending |-> 0, low_confidence |-> 0, human_edited |-> 0, by_route |-> [r \in RouteTypes |-> 0]]
Counters == [all_pending: Nat, low_confidence: Nat, human_edited: Nat, by_route: [RouteTypes -> Nat]]

\* The loop over the queue is a fold, the choice of its table,
LEMMA CountFold ==
  MemCountCandidates =
    LET c == CHOOSE c : c = [t \in SUBSET (DOMAIN memDeals) |->
                               IF t = {} THEN NoneCounted ELSE Counted(c[t \ {Max(t)}], memDeals[Max(t)])]
    IN c[DOMAIN memDeals]
BY DEF MemCountCandidates, FoldLeft, MapThenFoldSet, Counted, NoneCounted

\* its steps leave counters,
LEMMA CountedTyped ==
  ASSUME NEW n \in Counters, NEW d \in DealRow
  PROVE  Counted(n, d) \in Counters
<1>1. /\ n.all_pending + 1 \in Nat /\ n.low_confidence + (IF d.confidence <= LowConfidence THEN 1 ELSE 0) \in Nat
      /\ n.human_edited + (IF d.edited THEN 1 ELSE 0) \in Nat
  BY DEF Counters
<1>2. n.by_route \in [RouteTypes -> Nat] /\ d.route_type \in RouteTypes
  BY DEF Counters, DealRow
<1>3. [n.by_route EXCEPT ![d.route_type] = @ + 1] \in [RouteTypes -> Nat]
  BY <1>2
<1> QED BY <1>1, <1>3 DEF Counted, Counters

\* and it can be followed row by row.
LEMMA CountRuns ==
  ASSUME memDeals \in Seq(DealRow)
  PROVE  \E run \in [0..Len(memDeals) -> Counters] :
           /\ run[0] = NoneCounted /\ run[Len(memDeals)] = MemCountCandidates
           /\ \A m \in 0..(Len(memDeals) - 1) : run[m + 1] = Counted(run[m], memDeals[m + 1])
<1> DEFINE D == DOMAIN memDeals
           g == [p \in Counters \X DealRow |-> Counted(p[1], p[2])]
           Iter(c) == c = [t \in SUBSET D |-> IF t = {} THEN NoneCounted ELSE Counted(c[t \ {Max(t)}], memDeals[Max(t)])]
           c == CHOOSE c : Iter(c)
<1>1. Folding(DealRow, memDeals, Counters, NoneCounted, g) /\ \A v \in Counters, d \in DealRow : g[<<v, d>>] = Counted(v, d)
  <2>1. NoneCounted \in Counters
    BY DEF NoneCounted, Counters
  <2>2. g \in [Counters \X DealRow -> Counters] /\ \A v \in Counters, d \in DealRow : g[<<v, d>>] = Counted(v, d)
    BY CountedTyped
  <2> HIDE DEF g
  <2> QED BY <2>1, <2>2 DEF Folding
<1> HIDE DEF g
<1>2. PICK h : FoldOf(h, Counters, NoneCounted, g, memDeals)
  BY <1>1, FoldExists
<1>3. \A t \in SUBSET D : t # {} => memDeals[Max(t)] \in DealRow /\ t \ {Max(t)} \in SUBSET D
  BY <1>1, FoldExists
<1>4. Iter(h)
  <2>1. h \in [SUBSET D -> Counters] /\ \A t \in SUBSET D : h[t] = IF t = {} THEN NoneCounted ELSE g[<<h[t \ {Max(t)}], memDeals[Max(t)]>>]
    BY <1>2 DEF FoldOf
  <2> HIDE DEF D
  <2>2. \A t \in SUBSET D : h[t] = IF t = {} THEN NoneCounted ELSE Counted(h[t \ {Max(t)}], memDeals[Max(t)])
    BY <1>1, <1>3, <2>1
  <2> QED BY <2>1, <2>2
<1>5. Iter(c)
  BY <1>4
<1>6. MemCountCandidates = c[D]
  BY CountFold
<1> HIDE DEF c
<1>7. FoldsTo(c, Counters, NoneCounted, g, memDeals)
  BY <1>1, <1>3, <1>5 DEF FoldsTo
<1>8. PICK run : RunOf(run, Counters, NoneCounted, g, memDeals) /\ run[Len(memDeals)] = c[D]
  BY <1>1, <1>7, FoldRuns
<1>9. \A m \in 0..(Len(memDeals) - 1) : run[m] \in Counters /\ memDeals[m + 1] \in DealRow
  BY <1>8 DEF RunOf
<1> HIDE DEF D
<1> QED BY <1>1, <1>6, <1>8, <1>9 DEF RunOf

\* The pass has counted the rows it has seen.
LEMMA MemCounts ==
  ASSUME memDeals \in Seq(DealRow), Distinct(memDeals)
  PROVE  MemCountCandidates = Census(ToSet(memDeals))
<1>1. PICK n \in Nat, s \in Seq(DealRow) : n = Len(s) /\ s = memDeals /\ Distinct(s) /\ \A i \in 1..n : s[i] \in DealRow
  OBVIOUS
<1>2. PICK run \in [0..n -> Counters] :
        run[0] = NoneCounted /\ run[n] = MemCountCandidates /\ \A m \in 0..(n - 1) : run[m + 1] = Counted(run[m], s[m + 1])
  <2>1. PICK run \in [0..Len(memDeals) -> Counters] :
           /\ run[0] = NoneCounted /\ run[Len(memDeals)] = MemCountCandidates
           /\ \A m \in 0..(Len(memDeals) - 1) : run[m + 1] = Counted(run[m], memDeals[m + 1])
    BY CountRuns
  <2> QED BY <1>1, <2>1
<1> DEFINE S == {m \in 0..n : run[m] = Census(Upto(s, m))}
<1>3. 0 \in S
  <2>1. Upto(s, 0) = {}
    BY <1>1, UptoFacts
  <2>2. \A T : {} \cap T = {}
    OBVIOUS
  <2>3. Census({}) = NoneCounted
    BY <2>2, FS_EmptySet DEF Census, NoneCounted
  <2>4. 0 \in 0..n /\ run[0] = Census(Upto(s, 0))
    <3>1. Census(Upto(s, 0)) = NoneCounted
      BY <2>1, <2>3
    <3>2. 0 \in 0..n
      OBVIOUS
    <3> QED BY <1>2, <3>1, <3>2
  <2> QED BY <2>4
<1>4. ASSUME NEW m \in 0..(n - 1), m \in S PROVE m + 1 \in S
  <2>0. PICK d \in DealRow : d = s[m + 1]
    BY <1>1
  <2>1. PICK A, B : A = Upto(s, m) /\ B = Upto(s, m + 1) /\ d = s[m + 1]
    BY <2>0
  <2>2. \A T : Cardinality(A \cap T) \in Nat /\ Cardinality(B \cap T) = Cardinality(A \cap T) + (IF d \in T THEN 1 ELSE 0)
    BY <1>1, <2>1, CountGrows
  <2>3. run[m] = Census(A) /\ run[m + 1] = Counted(Census(A), d)
    BY <1>2, <1>4, <2>1
  <2>4. Counted(Census(A), d) = Census(B)
    <3> HIDE DEF S
    <3>1. CASE d \notin Pending
      <4>1. d.status \notin Reviewable
        BY <3>1 DEF Pending
      <4>2. \A T \in SUBSET Pending : Cardinality(B \cap T) = Cardinality(A \cap T)
        <5> SUFFICES ASSUME NEW T \in SUBSET Pending PROVE Cardinality(B \cap T) = Cardinality(A \cap T)
          OBVIOUS
        <5>1. d \notin T
          BY <3>1
        <5>2. Cardinality(A \cap T) \in Nat /\ Cardinality(B \cap T) = Cardinality(A \cap T) + 0
          BY <2>2, <5>1
        <5> QED BY <5>2
      <4>3. /\ Pending \in SUBSET Pending /\ Shaky \in SUBSET Pending /\ Edited \in SUBSET Pending
            /\ \A r : OnRoute(r) \in SUBSET Pending
        BY DEF Shaky, Edited, OnRoute
      <4>4. Census(B) = Census(A)
        BY <4>2, <4>3 DEF Census
      <4> QED BY <4>1, <4>4 DEF Counted
    <3>2. CASE d \in Pending
      <4>1. d.status \in Reviewable
        BY <3>2 DEF Pending
      <4>2. Cardinality(B \cap Pending) = Cardinality(A \cap Pending) + 1
        BY <2>2, <3>2
      <4>3. Cardinality(B \cap Shaky) = Cardinality(A \cap Shaky) + (IF d.confidence <= LowConfidence THEN 1 ELSE 0)
        BY <2>2, <3>2 DEF Shaky
      <4>4. Cardinality(B \cap Edited) = Cardinality(A \cap Edited) + (IF d.edited THEN 1 ELSE 0)
        BY <2>2, <3>2 DEF Edited
      <4>5. PICK f, h : f = [r \in RouteTypes |-> Cardinality(A \cap OnRoute(r))] /\ h = [r \in RouteTypes |-> Cardinality(B \cap OnRoute(r))]
        OBVIOUS
      <4>6. [f EXCEPT ![d.route_type] = @ + 1] = h
        <5>1. ASSUME NEW r \in RouteTypes
              PROVE  h[r] = IF r = d.route_type THEN f[r] + 1 ELSE f[r]
          <6>1. d \in OnRoute(r) <=> r = d.route_type
            BY <3>2 DEF OnRoute
          <6>2. h[r] = Cardinality(B \cap OnRoute(r)) /\ f[r] = Cardinality(A \cap OnRoute(r))
            BY <4>5
          <6>3. CASE r = d.route_type
            BY <2>2, <6>1, <6>2, <6>3
          <6>4. CASE r # d.route_type
            <7>1. h[r] = f[r] + 0 /\ f[r] \in Nat
              BY <2>2, <6>1, <6>2, <6>4
            <7> QED BY <6>4, <7>1
          <6> QED BY <6>3, <6>4
        <5> QED BY <4>5, <5>1
      <4>7. Census(A) = [all_pending |-> Cardinality(A \cap Pending), low_confidence |-> Cardinality(A \cap Shaky),
                         human_edited |-> Cardinality(A \cap Edited), by_route |-> f]
        BY <4>5 DEF Census
      <4>8. Census(B) = [all_pending |-> Cardinality(B \cap Pending), low_confidence |-> Cardinality(B \cap Shaky),
                         human_edited |-> Cardinality(B \cap Edited), by_route |-> h]
        BY <4>5 DEF Census
      <4>9. PICK C : C = Census(A)
        OBVIOUS
      <4>10. Counted(C, d) = [all_pending    |-> C.all_pending + 1,
                              low_confidence |-> C.low_confidence + (IF d.confidence <= LowConfidence THEN 1 ELSE 0),
                              human_edited   |-> C.human_edited + (IF d.edited THEN 1 ELSE 0),
                              by_route       |-> [C.by_route EXCEPT ![d.route_type] = @ + 1]]
        BY <4>1 DEF Counted
      <4>11. /\ C.all_pending = Cardinality(A \cap Pending) /\ C.low_confidence = Cardinality(A \cap Shaky)
             /\ C.human_edited = Cardinality(A \cap Edited) /\ C.by_route = f
        BY <4>7, <4>9
      <4>12. Counted(C, d) = [all_pending    |-> Cardinality(B \cap Pending), low_confidence |-> Cardinality(B \cap Shaky),
                              human_edited   |-> Cardinality(B \cap Edited), by_route |-> h]
        BY <4>2, <4>3, <4>4, <4>6, <4>10, <4>11
      <4> QED BY <4>8, <4>9, <4>12
    <3> QED BY <3>1, <3>2
  <2>5. m + 1 \in 0..n
    OBVIOUS
  <2> QED BY <2>1, <2>3, <2>4, <2>5
<1>5. n \in S
  <2>1. S \in SUBSET (0..n)
    OBVIOUS
  <2> HIDE DEF S
  <2> QED BY <1>3, <1>4, <2>1, Steps
<1>6. Upto(s, n) = ToSet(s)
  BY <1>1, UptoFacts
<1> QED BY <1>1, <1>2, <1>5, <1>6

\* As many here as there.
LEMMA SameSize ==
  ASSUME NEW A, IsFiniteSet(A), NEW B, NEW f \in [A -> B],
         \A a, b \in A : f[a] = f[b] => a = b, \A b \in B : \E a \in A : f[a] = b
  PROVE  IsFiniteSet(B) /\ Cardinality(B) = Cardinality(A)
<1>1. f \in Bijection(A, B)
  BY Fun_IsBij
<1>2. ExistsBijection(A, B)
  BY <1>1 DEF ExistsBijection
<1> QED BY <1>2, FS_Bijection

-----------------------------------------------------------------------------
(* The counters of the queue.                                               *)

\* The table of sums by which the groups of W are added up.
SizeOf(W, r) == Cardinality({d \in W : d.route_type = r})
GroupTable(c, W, G) ==
  c = [t \in SUBSET G |-> IF t = {} THEN 0 ELSE SizeOf(W, Taken(t)) + c[t \ {Taken(t)}]]

\* The three of them that the query adds up.
SizeOfAll(Q, r) == Cardinality({d \in {e \in Q : e.route_type = r} : TRUE})
SizeOfShaky(Q, r) == Cardinality({d \in {e \in Q : e.route_type = r} : d.confidence <= LowConfidence})
SizeOfEdited(Q, r) == Cardinality({d \in {e \in Q : e.route_type = r} : d.edited})
AllTable(c, Q, G) ==
  c = [t \in SUBSET G |-> IF t = {} THEN 0 ELSE SizeOfAll(Q, Taken(t)) + c[t \ {Taken(t)}]]
ShakyTable(c, Q, G) ==
  c = [t \in SUBSET G |-> IF t = {} THEN 0 ELSE SizeOfShaky(Q, Taken(t)) + c[t \ {Taken(t)}]]
EditedTable(c, Q, G) ==
  c = [t \in SUBSET G |-> IF t = {} THEN 0 ELSE SizeOfEdited(Q, Taken(t)) + c[t \ {Taken(t)}]]

\* The counters of the query are sums over the routes, choices of their tables,
LEMMA CountForms ==
  ASSUME NEW Q, Q = {d \in pgDeals : d.status \in Reviewable}, NEW G, G = {d.route_type : d \in Q}
  PROVE  PgCountCandidates =
           [all_pending |-> LET c == CHOOSE c : AllTable(c, Q, G) IN c[G],
            low_confidence |-> LET c == CHOOSE c : ShakyTable(c, Q, G) IN c[G],
            human_edited |-> LET c == CHOOSE c : EditedTable(c, Q, G) IN c[G],
            by_route |-> [r \in RouteTypes |-> Cardinality({d \in Q : d.route_type = r})]]
BY DEF PgCountCandidates, MapThenSumSet, MapThenFoldSet, Select, AllTable, ShakyTable, EditedTable, SizeOfAll, SizeOfShaky, SizeOfEdited, Taken

\* which exist and add up to the whole,
LEMMA GroupTableFacts ==
  ASSUME NEW W \in SUBSET DealRow, IsFiniteSet(W), NEW G, IsFiniteSet(G), \A d \in W : d.route_type \in G
  PROVE  /\ \E h : GroupTable(h, W, G)
         /\ \A c : GroupTable(c, W, G) => c[G] = Cardinality(W)
<1> DEFINE w == [r \in G |-> Cardinality({d \in W : d.route_type = r})]
           group == [d \in W |-> d.route_type]
<1>1. w \in [G -> Nat] /\ \A r \in G : w[r] = Cardinality({d \in W : d.route_type = r})
  <2>1. \A r \in G : Cardinality({d \in W : d.route_type = r}) \in Nat
    <3> SUFFICES ASSUME NEW r \in G PROVE Cardinality({d \in W : d.route_type = r}) \in Nat
      OBVIOUS
    <3>1. PICK V : V = {d \in W : d.route_type = r}
      OBVIOUS
    <3>2. IsFiniteSet(V)
      BY <3>1, FS_Subset
    <3> QED BY <3>1, <3>2, FS_CardinalityType
  <2> QED BY <2>1
<1>2. group \in [W -> G] /\ \A d \in W : group[d] = d.route_type
  OBVIOUS
<1> HIDE DEF w, group
<1>3. \A t \in SUBSET G : t # {} => Taken(t) \in G /\ t \ {Taken(t)} \in SUBSET G
  BY TakenFacts
<1>4. \E h : GroupTable(h, W, G)
  <2>0. Weights(w, G)
    BY <1>1 DEF Weights
  <2>1. PICK h : TotalsOf(h, w, G)
    BY <2>0, SumExists
  <2>2. GroupTable(h, W, G)
    BY <1>1, <1>3, <2>1 DEF GroupTable, TotalsOf, SizeOf
  <2> QED BY <2>2
<1>5. ASSUME NEW c, GroupTable(c, W, G) PROVE c[G] = Cardinality(W)
  <2>1. \A t \in SUBSET G : c[t] = IF t = {} THEN 0 ELSE SizeOf(W, Taken(t)) + c[t \ {Taken(t)}]
    BY <1>5 DEF GroupTable
  <2>2. SumTable(c, w, G)
    BY <1>1, <1>3, <2>1 DEF SumTable, SizeOf
  <2>3. Sums(c, w, G)
    BY <1>1, <2>2, SumTyped
  <2>4. \A r \in G : w[r] = Cardinality({d \in W : group[d] = r})
    <3> SUFFICES ASSUME NEW r \in G PROVE w[r] = Cardinality({d \in W : group[d] = r})
      OBVIOUS
    <3>1. {d \in W : group[d] = r} = {d \in W : d.route_type = r}
      BY <1>2
    <3> QED BY <1>1, <3>1
  <2>5. Grouped(W, G, group, w, c)
    BY <1>2, <2>3, <2>4 DEF Grouped
  <2> QED BY <2>5, GroupSum
<1> QED BY <1>4, <1>5

\* so that the query counts its rows.
LEMMA PgCounts ==
  ASSUME pgDeals \in SUBSET DealRow, IsFiniteSet(pgDeals)
  PROVE  PgCountCandidates = Census(pgDeals)
<1>1. PICK Q : Q = pgDeals \cap Pending
  OBVIOUS
<1>2. PICK G : G = {d.route_type : d \in Q}
  OBVIOUS
<1>3. Q = {d \in pgDeals : d.status \in Reviewable}
  BY <1>1 DEF Pending
<1>4. Q \in SUBSET DealRow /\ IsFiniteSet(Q)
  BY <1>1, FS_Subset
<1>5. IsFiniteSet(G)
  <2>1. G \in SUBSET RouteTypes
    BY <1>2, <1>4 DEF DealRow
  <2>2. IsFiniteSet({"bundle"}) /\ IsFiniteSet({"bundle"} \cup {"promo"})
    BY FS_Singleton, FS_AddElement
  <2>3. {"bundle"} \cup {"promo"} = RouteTypes
    BY DEF RouteTypes
  <2> QED BY <2>1, <2>2, <2>3, FS_Subset
<1>6. ASSUME NEW W \in SUBSET Q
      PROVE  (\E h : GroupTable(h, W, G)) /\ \A c : GroupTable(c, W, G) => c[G] = Cardinality(W)
  <2>1. W \in SUBSET DealRow /\ IsFiniteSet(W) /\ \A d \in W : d.route_type \in G
    BY <1>2, <1>4, FS_Subset
  <2> QED BY <1>5, <2>1, GroupTableFacts
<1> DEFINE allSums == CHOOSE c : AllTable(c, Q, G)
           lowSums == CHOOSE c : ShakyTable(c, Q, G)
           editSums == CHOOSE c : EditedTable(c, Q, G)
<1>7. allSums[G] = Cardinality(pgDeals \cap Pending)
  <2>1. PICK W \in SUBSET Q : W = pgDeals \cap Pending
    BY <1>1
  <2>2. ASSUME NEW r PROVE SizeOfAll(Q, r) = SizeOf(W, r)
    <3>1. {d \in {e \in Q : e.route_type = r} : TRUE} = {d \in W : d.route_type = r}
      BY <1>1, <2>1
    <3> QED BY <3>1 DEF SizeOfAll, SizeOf
  <2>3. \A c : AllTable(c, Q, G) <=> GroupTable(c, W, G)
    BY <2>2 DEF AllTable, GroupTable
  <2>4. AllTable(allSums, Q, G)
    BY <1>6, <2>3
  <2> HIDE DEF allSums
  <2> QED BY <1>6, <2>1, <2>3, <2>4
<1>8. lowSums[G] = Cardinality(pgDeals \cap Shaky)
  <2>1. PICK W \in SUBSET Q : W = pgDeals \cap Shaky
    BY <1>1 DEF Shaky
  <2>2. ASSUME NEW r PROVE SizeOfShaky(Q, r) = SizeOf(W, r)
    <3>1. {d \in {e \in Q : e.route_type = r} : d.confidence <= LowConfidence} = {d \in W : d.route_type = r}
      BY <1>1, <2>1 DEF Shaky
    <3> QED BY <3>1 DEF SizeOfShaky, SizeOf
  <2>3. \A c : ShakyTable(c, Q, G) <=> GroupTable(c, W, G)
    BY <2>2 DEF ShakyTable, GroupTable
  <2>4. ShakyTable(lowSums, Q, G)
    BY <1>6, <2>3
  <2> HIDE DEF lowSums
  <2> QED BY <1>6, <2>1, <2>3, <2>4
<1>9. editSums[G] = Cardinality(pgDeals \cap Edited)
  <2>1. PICK W \in SUBSET Q : W = pgDeals \cap Edited
    BY <1>1 DEF Edited
  <2>2. ASSUME NEW r PROVE SizeOfEdited(Q, r) = SizeOf(W, r)
    <3>1. {d \in {e \in Q : e.route_type = r} : d.edited} = {d \in W : d.route_type = r}
      BY <1>1, <2>1 DEF Edited
    <3> QED BY <3>1 DEF SizeOfEdited, SizeOf
  <2>3. \A c : EditedTable(c, Q, G) <=> GroupTable(c, W, G)
    BY <2>2 DEF EditedTable, GroupTable
  <2>4. EditedTable(editSums, Q, G)
    BY <1>6, <2>3
  <2> HIDE DEF editSums
  <2> QED BY <1>6, <2>1, <2>3, <2>4
<1>10. \A r : {d \in Q : d.route_type = r} = pgDeals \cap OnRoute(r)
  BY <1>1 DEF OnRoute
<1>11. PgCountCandidates = [all_pending |-> allSums[G], low_confidence |-> lowSums[G], human_edited |-> editSums[G],
                            by_route |-> [r \in RouteTypes |-> Cardinality({d \in Q : d.route_type = r})]]
  BY <1>2, <1>3, CountForms
<1> HIDE DEF allSums, lowSums, editSums
<1>12. [r \in RouteTypes |-> Cardinality({d \in Q : d.route_type = r})] = [r \in RouteTypes |-> Cardinality(pgDeals \cap OnRoute(r))]
  BY <1>10
<1> QED BY <1>7, <1>8, <1>9, <1>11, <1>12 DEF Census

\* The counters of the queue are the same.
LEMMA CountersAgree ==
  ASSUME DealsAlike
  PROVE  PgCountCandidates = MemCountCandidates
<1>1. memDeals \in Seq(DealRow) /\ Distinct(memDeals) /\ pgDeals = ToSet(memDeals)
  BY DEF DealsAlike
<1>2. pgDeals \in SUBSET DealRow /\ IsFiniteSet(pgDeals)
  BY <1>1, StoreFacts
<1> QED BY <1>1, <1>2, PgCounts, MemCounts

-----------------------------------------------------------------------------
\* The ages of the queue: a deal there for every entry here, with its values.
Age(d) == IF PgGetEvidence(d.evidence) = NoRow THEN NoTime ELSE PgGetEvidence(d.evidence).captured_at
Signal(d) == [id |-> d.id, confidence |-> d.confidence, captured_at |-> Age(d)]

\* The signals of the queue are the same, each as often.
LEMMA SignalsAgree ==
  ASSUME DealsAlike
  PROVE  /\ Len(MemQueueSignals) = Cardinality(PgQueueSignals)
         /\ \A x \in ToSet(MemQueueSignals) :
              Occurrences(MemQueueSignals, x) =
                Cardinality({s \in PgQueueSignals : s.confidence = x.confidence /\ s.captured_at = x.captured_at})
<1>1. PICK e, S : e = Found(memDeals, Pending) /\ S = ToSet(memDeals) \cap Pending
  OBVIOUS
<1>2. /\ e \in Seq(DealRow) /\ Distinct(e) /\ ToSet(e) = S /\ \A a, b \in S : a.id = b.id => a = b
      /\ Len(e) = Cardinality(S) /\ \A i, j \in DOMAIN e : e[i].id = e[j].id => i = j
  BY <1>1, FoundDeals
<1>3. PICK mem : mem = [i \in DOMAIN e |-> [confidence |-> e[i].confidence, captured_at |-> Age(e[i])]]
  OBVIOUS
<1>4. MemQueueSignals = mem
  <2>1. Scan(memDeals, LAMBDA d : d.status \in Reviewable) = e
    BY <1>1, ScreensFound DEF Scan
  <2>2. MemQueueSignals = [i \in DOMAIN e |-> [confidence |-> e[i].confidence,
                             captured_at |-> IF MemGetEvidence(e[i].evidence) = NoRow THEN NoTime ELSE MemGetEvidence(e[i].evidence).captured_at]]
    BY <2>1 DEF MemQueueSignals
  <2>3. \A d : Age(d) = IF MemGetEvidence(d.evidence) = NoRow THEN NoTime ELSE MemGetEvidence(d.evidence).captured_at
    BY SameRows DEF Age
  <2> QED BY <1>3, <2>2, <2>3
<1>5. PICK pg : pg = {Signal(d) : d \in S}
  OBVIOUS
<1>6. PgQueueSignals = pg
  <2>1. {d \in pgDeals : d.status \in Reviewable} = S
    BY <1>1, ScreensFound
  <2>2. PgQueueSignals = {Signal(d) : d \in {d \in pgDeals : d.status \in Reviewable}}
    BY DEF PgQueueSignals, Select, Signal, Age
  <2> QED BY <1>5, <2>1, <2>2
<1>7. DOMAIN e = 1..Len(e) /\ IsFiniteSet(DOMAIN e) /\ Cardinality(DOMAIN e) = Len(e) /\ Len(e) \in Nat
  <2>1. Len(e) \in Nat /\ DOMAIN e = 1..Len(e)
    BY <1>2
  <2>2. IsFiniteSet(1..Len(e)) /\ Cardinality(1..Len(e)) = Len(e)
    <3>1. PICK n \in Nat : n = Len(e)
      BY <2>1
    <3>2. IsFiniteSet(1..n) /\ Cardinality(1..n) = IF 1 > n THEN 0 ELSE n - 1 + 1
      BY FS_Interval
    <3>3. (IF 1 > n THEN 0 ELSE n - 1 + 1) = n
      OBVIOUS
    <3> QED BY <3>1, <3>2, <3>3
  <2> QED BY <2>1, <2>2
<1>8. \A i \in DOMAIN e : e[i] \in S
  BY <1>2 DEF ToSet
<1>9. \A d : Signal(d).id = d.id /\ Signal(d).confidence = d.confidence /\ Signal(d).captured_at = Age(d)
  BY DEF Signal
<1>10. Cardinality(pg) = Len(e)
  <2> DEFINE f == [i \in DOMAIN e |-> Signal(e[i])]
  <2>1. f \in [DOMAIN e -> pg]
    BY <1>5, <1>8
  <2>2. \A i, j \in DOMAIN e : f[i] = f[j] => i = j
    BY <1>2, <1>9
  <2>3. \A s \in pg : \E i \in DOMAIN e : f[i] = s
    BY <1>2, <1>5 DEF ToSet
  <2> HIDE DEF f
  <2> QED BY <1>7, <2>1, <2>2, <2>3, SameSize
<1>11. DOMAIN mem = DOMAIN e /\ \A i \in DOMAIN e : mem[i] = [confidence |-> e[i].confidence, captured_at |-> Age(e[i])]
  BY <1>3
<1>12. Len(mem) = Len(e)
  BY <1>7, <1>11
<1>13. ASSUME NEW x \in ToSet(mem)
       PROVE  Occurrences(mem, x) = Cardinality({s \in pg : s.confidence = x.confidence /\ s.captured_at = x.captured_at})
  <2>1. PICK k \in DOMAIN e : x = [confidence |-> e[k].confidence, captured_at |-> Age(e[k])]
    BY <1>11 DEF ToSet
  <2>2. PICK A, B : A = {i \in DOMAIN mem : mem[i] = x} /\ B = {s \in pg : s.confidence = x.confidence /\ s.captured_at = x.captured_at}
    OBVIOUS
  <2>3. \A i \in DOMAIN e : i \in A <=> e[i].confidence = x.confidence /\ Age(e[i]) = x.captured_at
    BY <1>11, <2>1, <2>2
  <2>4. A \in SUBSET DOMAIN e
    BY <1>11, <2>2
  <2>5. IsFiniteSet(A)
    BY <1>7, <2>4, FS_Subset
  <2> DEFINE f == [i \in A |-> Signal(e[i])]
  <2>6. f \in [A -> B]
    <3>1. \A i \in A : Signal(e[i]) \in B
      BY <1>5, <1>8, <1>9, <2>2, <2>3, <2>4
    <3> QED BY <3>1
  <2>7. \A i, j \in A : f[i] = f[j] => i = j
    BY <1>2, <1>9, <2>4
  <2>8. \A s \in B : \E i \in A : f[i] = s
    <3> SUFFICES ASSUME NEW s \in B PROVE \E i \in A : f[i] = s
      OBVIOUS
    <3>1. PICK d \in S : s = Signal(d) /\ s.confidence = x.confidence /\ s.captured_at = x.captured_at
      BY <1>5, <2>2
    <3>2. PICK i \in DOMAIN e : e[i] = d
      BY <1>2 DEF ToSet
    <3>3. i \in A
      BY <1>9, <2>3, <3>1, <3>2
    <3> QED BY <3>1, <3>2, <3>3
  <2> HIDE DEF f
  <2>9. Cardinality(B) = Cardinality(A)
    BY <2>5, <2>6, <2>7, <2>8, SameSize
  <2> QED BY <2>2, <2>9 DEF Occurrences
<1> QED BY <1>4, <1>6, <1>10, <1>12, <1>13

-----------------------------------------------------------------------------
LEMMA ScreensFollow == DealsInv => ScreensAgree
<1> SUFFICES ASSUME DealsInv, ~dealRefused
             PROVE  ScreensAgree
  BY DEF ScreensAgree
<1>1. DealsAlike
  BY DealsAreAlike
<1>2. \A query \in FeedQueries : PgListPublished(query) = MemListPublished(query)
  BY <1>1, FeedAgrees
<1>3. PgCountAdmin = MemCountAdmin /\ \A f \in FeedFilters : PgCountPublished(f) = MemCountPublished(f)
  BY <1>1, TotalsAgree
<1>4. \A f \in QueueFilters, offset \in 0..1, limit \in DealLimits :
         PgListCandidates(f, offset, limit) = MemListCandidates(f, offset, limit)
  BY <1>1, PagesAgree
<1>5. \A offset \in 0..1, limit \in DealLimits : PgListAdminPublished(offset, limit) = MemListAdminPublished(offset, limit)
  BY <1>1, PagesAgree
<1>6. PgCountCandidates = MemCountCandidates
  BY <1>1, CountersAgree
<1>7. /\ \A x \in ToSet(MemQueueSignals) :
           Occurrences(MemQueueSignals, x) =
             Cardinality({s \in PgQueueSignals : s.confidence = x.confidence /\ s.captured_at = x.captured_at})
      /\ Len(MemQueueSignals) = Cardinality(PgQueueSignals)
  BY <1>1, SignalsAgree
<1> QED BY <1>2, <1>3, <1>4, <1>5, <1>6, <1>7 DEF ScreensAgree

\* Every screen of the panel and every page of the feed is the same from either adapter.
THEOREM ScreensHold == DealTablesSpec => []ScreensAgree
<1>1. DealsInv => ScreensAgree
  BY ScreensFollow
<1> QED BY <1>1, DealsInvariant, PTL

\* The tables and the Maps keep their types.
LEMMA DealsTypeFollows == DealsInv => DealTablesTypeOK
<1> SUFFICES ASSUME DealsInv PROVE DealTablesTypeOK
  OBVIOUS
<1>1. /\ pgDeals \in SUBSET DealRow /\ memDeals \in Seq(DealRow) /\ Len(memDeals) <= MaxDeals + 1
      /\ memSources \in Seq(SourceRow) /\ memEvidence \in Seq(EvidenceRow)
      /\ dealAnswer \in (0..MaxDeals) \X (0..MaxDeals)
  BY DEF DealsInv, DealsTyped
<1>2. Distinct(memSources) /\ Distinct(memEvidence) /\ pgSources = ToSet(memSources) /\ pgEvidence = ToSet(memEvidence)
  BY KeyedIsDistinct DEF DealsInv, RowsKeyed, TablesSame
<1>3. ToSet(memSources) \in SUBSET SourceRow /\ Len(memSources) = Cardinality(pgSources) /\ Len(memEvidence) = Cardinality(pgEvidence)
  BY <1>1, <1>2, StoreFacts
<1> QED BY <1>1, <1>3 DEF DealTablesTypeOK
=============================================================================
