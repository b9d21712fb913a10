-------------------------- MODULE RowListsProofs --------------------------
(***************************************************************************)
(* What the lists of RowLists hold, for any rows, places and orders.       *)
(***************************************************************************)
EXTENDS RowLists, Functions, FiniteSetsExt, SequencesExt, FiniteSetTheorems, WellFoundedInduction, TLAPS

(* A set of numbers up to N that has a member has a largest one: of the    *)
(* sets without one the smallest would leave such a set without a member.  *)
LEMMA MaxIsIn ==
  ASSUME NEW N \in Nat, NEW S \in SUBSET (1..N), S # {}
  PROVE  Max(S) \in S /\ \A y \in S : Max(S) >= y
<1> DEFINE Topped(T) == \E x \in T : \A y \in T : x >= y
           Bad == {T \in SUBSET S : T # {} /\ ~Topped(T)}
<1>1. SUFFICES ASSUME Bad # {} PROVE FALSE
  BY DEF Max
<1>2. FiniteSubsetsOf(S) = SUBSET S /\ IsWellFoundedOn(StrictSubsetOrdering(S), FiniteSubsetsOf(S))
  <2>1. IsFiniteSet(1..N)
    BY FS_Interval
  <2>2. IsFiniteSet(S)
    BY <2>1, FS_Subset
  <2> HIDE DEF Bad, Topped
  <2>3. FiniteSubsetsOf(S) = SUBSET S
    BY <2>2, FS_FiniteSubsetsOfFinite
  <2>4. IsWellFoundedOn(StrictSubsetOrdering(S), FiniteSubsetsOf(S))
    BY FS_StrictSubsetOrderingWellFounded, Zenon
  <2> QED BY <2>3, <2>4
<1>3. PICK T \in Bad : \A U \in Bad : ~(<<U, T>> \in StrictSubsetOrdering(S))
  <2>1. Bad \subseteq FiniteSubsetsOf(S)
    BY <1>2
  <2> HIDE DEF Bad
  <2> QED BY <1>1, <1>2, <2>1, WFMin
<1>4. PICK x \in T : TRUE
  OBVIOUS
<1>5. T \ {x} # {}
  <2>1. T # {x} /\ x \in Int
    OBVIOUS
  <2> QED BY <2>1
<1>6. T \ {x} \notin Bad
  <2>1. <<T \ {x}, T>> \in StrictSubsetOrdering(S)
    BY <1>4 DEF StrictSubsetOrdering
  <2> HIDE DEF Bad
  <2> QED BY <1>3, <2>1
<1>7. PICK y \in T \ {x} : \A z \in T \ {x} : y >= z
  BY <1>5, <1>6
<1>8. \A z \in T : z \in Int
  OBVIOUS
<1>9. Topped(T)
  BY <1>7, <1>8
<1> QED BY <1>9

(* A set of places that is not empty has a first one.                      *)
LEMMA FirstIsIn ==
  ASSUME NEW N \in Nat, NEW S \in SUBSET (1..N), S # {}
  PROVE  \E x \in S : \A y \in S : x <= y
<1> DEFINE T == {N + 1 - i : i \in S}
<1>1. T \in SUBSET (1..N) /\ T # {}
  <2>1. \A i \in S : N + 1 - i \in 1..N
    OBVIOUS
  <2> QED BY <2>1
<1> HIDE DEF T
<1>3. Max(T) \in T /\ \A n \in T : Max(T) >= n
  BY <1>1, MaxIsIn
<1>4. PICK m \in T : \A n \in T : m >= n
  BY <1>3
<1>5. PICK x \in S : m = N + 1 - x
  BY <1>4 DEF T
<1>6. \A y \in S : N + 1 - y \in T
  BY DEF T
<1>7. \A y \in S : x <= y
  <2> SUFFICES ASSUME NEW y \in S PROVE x <= y
    OBVIOUS
  <2>1. m >= N + 1 - y
    BY <1>4, <1>6
  <2> QED BY <1>5, <2>1
<1> QED BY <1>7

(***************************************************************************)
(* A finite set that is arranged by a strict order of its members is a     *)
(* list of all of them, each once, and none comes before the first.        *)
StrictOrder(S, before) ==
    /\ before \subseteq S \X S
    /\ \A x \in S : <<x, x>> \notin before
    /\ \A x, y, z \in S : <<x, y>> \in before /\ <<y, z>> \in before => <<x, z>> \in before
    /\ \A x, y \in S : x # y => <<x, y>> \in before \/ <<y, x>> \in before

LEMMA ArrangedLists ==
  ASSUME NEW S, IsFiniteSet(S), NEW before, StrictOrder(S, before)
  PROVE  /\ Arranged(S, before) \in Seq(S)
         /\ Range(Arranged(S, before)) = S /\ IsInjective(Arranged(S, before))
         /\ S # {} => \A y \in S : <<y, Arranged(S, before)[1]>> \notin before
         /\ \A i, j \in DOMAIN Arranged(S, before) :
              i < j => <<Arranged(S, before)[j], Arranged(S, before)[i]>> \notin before
<1> DEFINE n == Cardinality(S)
           below(x) == {y \in S : <<y, x>> \in before}
           place == [x \in S |-> Cardinality(below(x)) + 1]
           elem(i) == CHOOSE x \in S : Cardinality(below(x)) = i - 1
           list == Arranged(S, before)
<1>1. n \in Nat /\ IsFiniteSet(1..n) /\ Cardinality(1..n) = n
  BY FS_CardinalityType, FS_Interval
<1>2. ASSUME NEW x \in S
      PROVE  IsFiniteSet(below(x)) /\ Cardinality(below(x)) \in Nat /\ place[x] \in 1..n
  <2>1. below(x) \in SUBSET (S \ {x})
    BY DEF StrictOrder
  <2>2. IsFiniteSet(S \ {x}) /\ Cardinality(S \ {x}) = n - 1
    BY FS_RemoveElement
  <2>3. IsFiniteSet(below(x)) /\ Cardinality(below(x)) <= n - 1
    BY <2>1, <2>2, FS_Subset
  <2>4. Cardinality(below(x)) \in Nat
    BY <2>3, FS_CardinalityType
  <2>5. place[x] = Cardinality(below(x)) + 1
    OBVIOUS
  <2> HIDE DEF below, place
  <2> QED BY <1>1, <2>3, <2>4, <2>5
<1>3. ASSUME NEW x \in S, NEW y \in S, <<x, y>> \in before PROVE place[x] < place[y]
  <2>1. below(x) \in SUBSET below(y) /\ x \in below(y) /\ x \notin below(x)
    BY <1>3 DEF StrictOrder
  <2>2. Cardinality(below(x)) <= Cardinality(below(y)) /\ Cardinality(below(x)) # Cardinality(below(y))
    <3> HIDE DEF below
    <3> QED BY <1>2, <2>1, FS_Subset
  <2>3. place[x] = Cardinality(below(x)) + 1 /\ place[y] = Cardinality(below(y)) + 1
    OBVIOUS
  <2> HIDE DEF below, place
  <2> QED BY <1>2, <2>2, <2>3
<1>0. n = Cardinality(S)
  OBVIOUS
<1> HIDE DEF n
<1>n. \A x \in S : place[x] \in 1..n /\ place[x] \in Int /\ 1 \in 1..n
  <2> SUFFICES ASSUME NEW x \in S PROVE place[x] \in 1..n /\ place[x] \in Int /\ 1 \in 1..n
    OBVIOUS
  <2>1. place[x] \in 1..n
    BY <1>2
  <2>2. n \in Nat
    BY <1>1
  <2> HIDE DEF place
  <2> QED BY <2>1, <2>2
<1>4. \A x, y \in S : place[x] = place[y] => x = y
  <2> SUFFICES ASSUME NEW x \in S, NEW y \in S, x # y PROVE place[x] # place[y]
    OBVIOUS
  <2>1. place[x] < place[y] \/ place[y] < place[x]
    BY <1>3 DEF StrictOrder
  <2>2. place[x] \in Int /\ place[y] \in Int
    <3> HIDE DEF place
    <3> QED BY <1>n
  <2> HIDE DEF place
  <2> QED BY <2>1, <2>2
<1>5. place \in Injection(S, 1..n)
  <2>1. place \in [S -> 1..n]
    <3>1. DOMAIN place = S /\ place = [x \in S |-> place[x]]
      OBVIOUS
    <3> HIDE DEF place
    <3> QED BY <1>2, <3>1
  <2> HIDE DEF place
  <2> QED BY <1>4, <2>1 DEF Injection, IsInjective
<1>6. \A i \in 1..n : \E x \in S : place[x] = i
  <2> HIDE DEF place
  <2>1. place \in Surjection(S, 1..n)
    BY <1>0, <1>1, <1>5, FS_Injection
  <2> QED BY <2>1 DEF Surjection
<1>7. list = [i \in 1..n |-> elem(i)] /\ DOMAIN list = 1..n /\ \A i \in 1..n : list[i] = elem(i)
  BY <1>0 DEF Arranged
<1>8. ASSUME NEW i \in 1..n PROVE list[i] \in S /\ place[list[i]] = i
  <2>1. PICK x \in S : place[x] = i
    BY <1>6
  <2>2. Cardinality(below(x)) = i - 1
    <3>1. place[x] = Cardinality(below(x)) + 1
      OBVIOUS
    <3> HIDE DEF place, below
    <3> QED BY <1>2, <2>1, <3>1
  <2>3. list[i] \in S /\ Cardinality(below(list[i])) = i - 1
    <3>1. elem(i) \in S /\ Cardinality(below(elem(i))) = i - 1
      BY <2>2
    <3>2. list[i] = elem(i)
      BY <1>7
    <3> HIDE DEF list, place, elem
    <3> QED BY <3>1, <3>2
  <2>4. place[list[i]] = Cardinality(below(list[i])) + 1
    BY <2>3
  <2> HIDE DEF list, place, below
  <2> QED BY <1>2, <2>3, <2>4
<1> HIDE DEF list
<1>d. DOMAIN list = 1..n
  BY <1>7
<1>p. \A x \in S : place[x] \in 1..n /\ place[x] \in Int /\ 1 \in 1..n
  BY <1>n
<1> HIDE DEF place, elem, below
<1>e. \A i \in 1..n : list[i] \in S /\ place[list[i]] = i
  BY <1>8
<1>9. list \in Seq(S)
  <2>2. list \in [1..n -> S]
    <3> HIDE DEF place, elem
    <3> QED BY <1>7, <1>8
  <2> QED BY <1>1, <2>2
<1>10. Range(list) = S
  <2>1. \A x \in S : place[x] \in 1..n /\ list[place[x]] = x
    BY <1>p, <1>4, <1>e
  <2> QED BY <1>d, <1>e, <2>1 DEF Range
<1>11. IsInjective(list)
  BY <1>d, <1>e DEF IsInjective
<1>12. ASSUME S # {}, NEW y \in S PROVE <<y, list[1]>> \notin before
  <2>1. 1 \in 1..n
    BY <1>p, <1>12
  <2>2. list[1] \in S /\ place[list[1]] = 1
    BY <1>e, <2>1
  <2>3. place[y] \in 1..n
    BY <1>p, <1>12
  <2>4. <<y, list[1]>> \in before => place[y] < place[list[1]]
    BY <1>3, <1>12, <2>2
  <2> QED BY <2>2, <2>3, <2>4
<1>13. ASSUME NEW i \in DOMAIN list, NEW j \in DOMAIN list, i < j PROVE <<list[j], list[i]>> \notin before
  <2>1. /\ i \in 1..n /\ j \in 1..n /\ list[i] \in S /\ list[j] \in S
        /\ place[list[i]] = i /\ place[list[j]] = j
    BY <1>d, <1>e
  <2>2. <<list[j], list[i]>> \in before => place[list[j]] < place[list[i]]
    BY <1>3, <2>1
  <2> QED BY <1>1, <1>13, <2>1, <2>2
<1> QED BY <1>9, <1>10, <1>11, <1>12, <1>13 DEF list

-----------------------------------------------------------------------------
(* A list is a function whose domain is an interval from one.              *)
IsList(s) == s \in Seq(ToSet(s))

LEMMA ListsAre ==
  ASSUME NEW s, NEW n \in Nat, NEW e, s = [i \in 1..n |-> e[i]]
  PROVE  IsList(s) /\ DOMAIN s = 1..n
<1>1. DOMAIN s = 1..n /\ \A i \in 1..n : s[i] \in ToSet(s)
  BY DEF ToSet
<1>2. s \in [1..n -> ToSet(s)]
  BY <1>1
<1> QED BY <1>1, <1>2 DEF IsList

LEMMA ListPlaces ==
  ASSUME NEW s, IsList(s)
  PROVE  /\ Len(s) \in Nat /\ DOMAIN s = 1..Len(s) /\ IsFiniteSet(DOMAIN s)
         /\ \A i \in DOMAIN s : s[i] \in ToSet(s)
<1>1. Len(s) \in Nat /\ DOMAIN s = 1..Len(s)
  BY DEF IsList
<1> QED BY <1>1, FS_Interval DEF ToSet

LEMMA SequencesAreLists ==
  ASSUME NEW S, NEW s \in Seq(S)
  PROVE  IsList(s) /\ ToSet(s) \subseteq S
<1>1. DOMAIN s = 1..Len(s) /\ Len(s) \in Nat /\ \A i \in DOMAIN s : s[i] \in S
  OBVIOUS
<1>2. s = [i \in 1..Len(s) |-> s[i]]
  OBVIOUS
<1> QED BY <1>1, <1>2, ListsAre DEF ToSet

(* What stands at some places of a list is a list of just these elements,  *)
(* each of them from a place of its own.                                   *)
LEMMA PlacedOrder ==
  ASSUME NEW rows, IsList(rows), NEW places \in SUBSET DOMAIN rows
  PROVE  \E order \in Seq(places) :
           /\ Range(order) = places /\ IsInjective(order)
           /\ \A i, j \in DOMAIN order : i < j => order[i] < order[j]
           /\ Placed(rows, places) = [i \in DOMAIN order |-> rows[order[i]]]
<1> DEFINE before == {p \in places \X places : p[1] < p[2]}
           order == Arranged(places, before)
<1>1. IsFiniteSet(places) /\ \A i \in places : i \in Int
  BY ListPlaces, FS_Subset
<1>2. StrictOrder(places, before)
  <2>1. \A x, y : <<x, y>> \in before <=> x \in places /\ y \in places /\ x < y
    OBVIOUS
  <2>2. before \subseteq places \X places
    OBVIOUS
  <2> HIDE DEF before
  <2> QED BY <1>1, <2>1, <2>2 DEF StrictOrder
<1>3. order \in Seq(places) /\ Range(order) = places /\ IsInjective(order)
  <2> HIDE DEF before
  <2> QED BY <1>1, <1>2, ArrangedLists
<1>4. Placed(rows, places) = [i \in DOMAIN order |-> rows[order[i]]]
  BY DEF Placed
<1>5. ASSUME NEW i \in DOMAIN order, NEW j \in DOMAIN order, i < j PROVE order[i] < order[j]
  <2>1. <<order[j], order[i]>> \notin before
    <3> HIDE DEF before
    <3> QED BY <1>1, <1>2, <1>5, ArrangedLists
  <2> HIDE DEF order
  <2>2. order[i] \in places /\ order[j] \in places /\ i # j
    BY <1>3, <1>5 DEF Range
  <2>3. order[i] # order[j] /\ ~(order[j] < order[i])
    BY <1>3, <2>1, <2>2 DEF IsInjective
  <2>4. order[i] \in Int /\ order[j] \in Int
    BY <1>1, <2>2
  <2> QED BY <2>3, <2>4
<1> HIDE DEF order
<1> QED BY <1>3, <1>4, <1>5

LEMMA PlacedLists ==
  ASSUME NEW rows, IsList(rows), NEW places \in SUBSET DOMAIN rows
  PROVE  /\ IsList(Placed(rows, places))
         /\ ToSet(Placed(rows, places)) = {rows[i] : i \in places}
<1>1. PICK order \in Seq(places) :
        Range(order) = places /\ Placed(rows, places) = [i \in DOMAIN order |-> rows[order[i]]]
  BY PlacedOrder
<1>2. Len(order) \in Nat /\ DOMAIN order = 1..Len(order)
  OBVIOUS
<1>3. Placed(rows, places) = [i \in 1..Len(order) |-> [j \in 1..Len(order) |-> rows[order[j]]][i]]
  BY <1>1, <1>2
<1>4. ToSet(Placed(rows, places)) = {rows[order[i]] : i \in DOMAIN order}
  BY <1>1 DEF ToSet
<1>5. {rows[order[i]] : i \in DOMAIN order} = {rows[i] : i \in places}
  BY <1>1 DEF Range
<1> QED BY <1>2, <1>3, <1>4, <1>5, ListsAre

LEMMA PlacedOnce ==
  ASSUME NEW rows, IsList(rows), NEW places \in SUBSET DOMAIN rows,
         NEW i \in DOMAIN Placed(rows, places), NEW j \in DOMAIN Placed(rows, places)
  PROVE  \E a, b \in places :
           Placed(rows, places)[i] = rows[a] /\ Placed(rows, places)[j] = rows[b] /\ (a = b => i = j)
<1>1. PICK order \in Seq(places) :
        IsInjective(order) /\ Placed(rows, places) = [k \in DOMAIN order |-> rows[order[k]]]
  BY PlacedOrder
<1>2. i \in DOMAIN order /\ j \in DOMAIN order /\ order[i] \in places /\ order[j] \in places
  BY <1>1
<1>3. order[i] = order[j] => i = j
  BY <1>1, <1>2 DEF IsInjective
<1> QED BY <1>1, <1>2, <1>3

(* Lists joined to one hold what each of them holds.                       *)
LEMMA JoinedLists ==
  ASSUME NEW lists, IsList(lists), \A i \in DOMAIN lists : IsList(lists[i])
  PROVE  /\ IsList(Joined(lists))
         /\ ToSet(Joined(lists)) = UNION {ToSet(lists[i]) : i \in DOMAIN lists}
<1> DEFINE places == UNION {{i} \X DOMAIN lists[i] : i \in DOMAIN lists}
           before == {p \in places \X places :
                        p[1][1] < p[2][1] \/ (p[1][1] = p[2][1] /\ p[1][2] < p[2][2])}
           order == Arranged(places, before)
           pick == [n \in DOMAIN order |-> lists[order[n][1]][order[n][2]]]
<1>1. \A p : p \in places <=> \E i \in DOMAIN lists : \E j \in DOMAIN lists[i] : p = <<i, j>>
  OBVIOUS
<1> DEFINE Less(x, y) == x[1] < y[1] \/ (x[1] = y[1] /\ x[2] < y[2])
<1>i. \A x, y : <<x, y>> \in before <=> (x \in places /\ y \in places /\ Less(x, y))
  <2> HIDE DEF places
  <2>1. \A q : q \in before <=> (q \in places \X places /\ Less(q[1], q[2]))
    OBVIOUS
  <2> HIDE DEF before, Less
  <2> SUFFICES ASSUME NEW x, NEW y
               PROVE  <<x, y>> \in before <=> (x \in places /\ y \in places /\ Less(x, y))
    OBVIOUS
  <2> DEFINE q == <<x, y>>
  <2>2. q[1] = x /\ q[2] = y /\ (q \in places \X places <=> (x \in places /\ y \in places))
    OBVIOUS
  <2>3. q \in before <=> (q \in places \X places /\ Less(q[1], q[2]))
    BY <2>1
  <2> HIDE DEF q
  <2>4. q \in before <=> (x \in places /\ y \in places /\ Less(x, y))
    BY <2>2, <2>3
  <2> QED BY <2>4 DEF q
<1>2. \A i \in DOMAIN lists : i \in Int /\ IsFiniteSet(DOMAIN lists[i]) /\ \A j \in DOMAIN lists[i] : j \in Int
  <2>1. \A i \in DOMAIN lists : i \in Int
    BY ListPlaces
  <2>2. ASSUME NEW i \in DOMAIN lists
        PROVE  IsFiniteSet(DOMAIN lists[i]) /\ \A j \in DOMAIN lists[i] : j \in Int
    BY ListPlaces
  <2> QED BY <2>1, <2>2
<1>3. IsFiniteSet(places)
  <2>1. \A i \in DOMAIN lists : IsFiniteSet({i} \X DOMAIN lists[i])
    BY <1>2, FS_Singleton, FS_Product
  <2>2. IsFiniteSet({{i} \X DOMAIN lists[i] : i \in DOMAIN lists})
    <3>1. IsFiniteSet(DOMAIN lists)
      BY ListPlaces
    <3> DEFINE row == [i \in DOMAIN lists |-> {i} \X DOMAIN lists[i]]
               all == {{i} \X DOMAIN lists[i] : i \in DOMAIN lists}
    <3>2. row \in Surjection(DOMAIN lists, all)
      BY DEF Surjection
    <3> HIDE DEF row, all
    <3>3. IsFiniteSet(all)
      BY <3>1, <3>2, FS_Surjection
    <3> QED BY <3>3 DEF all
  <2> QED BY <2>1, <2>2, FS_UNION
<1>4. \A p \in places : p[1] \in Int /\ p[2] \in Int /\ p = <<p[1], p[2]>>
  BY <1>2
<1>5. StrictOrder(places, before)
  <2>1. \A x, y : <<x, y>> \in before <=> (x \in places /\ y \in places /\ Less(x, y))
    BY <1>i
  <2> HIDE DEF places
  <2>2. before \subseteq places \X places
    OBVIOUS
  <2> HIDE DEF before
  <2>3. \A x \in places : <<x, x>> \notin before
    BY <1>4, <2>1
  <2>4. \A x, y, z \in places : <<x, y>> \in before /\ <<y, z>> \in before => <<x, z>> \in before
    BY <1>4, <2>1
  <2>5. \A x, y \in places : x # y => <<x, y>> \in before \/ <<y, x>> \in before
    BY <1>4, <2>1
  <2> QED BY <2>2, <2>3, <2>4, <2>5 DEF StrictOrder
<1>6. order \in Seq(places) /\ Range(order) = places
  <2> HIDE DEF before, places
  <2> QED BY <1>3, <1>5, ArrangedLists
<1>7. Joined(lists) = pick
  BY DEF Joined
<1> HIDE DEF order
<1>8. Len(order) \in Nat /\ DOMAIN order = 1..Len(order)
  <2> HIDE DEF places
  <2> QED BY <1>6
<1>9. DOMAIN pick = DOMAIN order /\ \A n \in DOMAIN order : pick[n] = lists[order[n][1]][order[n][2]]
  OBVIOUS
<1>10. pick = [n \in 1..Len(order) |-> pick[n]]
  BY <1>8
<1>11. ToSet(pick) = {lists[p[1]][p[2]] : p \in places}
  <2> HIDE DEF places
  <2>1. ToSet(pick) = {lists[order[n][1]][order[n][2]] : n \in DOMAIN order}
    BY <1>9 DEF ToSet
  <2>2. places = {order[n] : n \in DOMAIN order}
    BY <1>6 DEF Range
  <2> HIDE DEF pick
  <2> QED BY <2>1, <2>2
<1>12. {lists[p[1]][p[2]] : p \in places} = UNION {ToSet(lists[i]) : i \in DOMAIN lists}
  <2> HIDE DEF places
  <2>1. ASSUME NEW x \in {lists[p[1]][p[2]] : p \in places} PROVE x \in UNION {ToSet(lists[i]) : i \in DOMAIN lists}
    <3>1. PICK p \in places : x = lists[p[1]][p[2]]
      OBVIOUS
    <3>2. PICK i \in DOMAIN lists : \E j \in DOMAIN lists[i] : p = <<i, j>>
      BY <1>1
    <3>3. x \in ToSet(lists[i])
      BY <3>1, <3>2 DEF ToSet
    <3> QED BY <3>3
  <2>2. ASSUME NEW i \in DOMAIN lists, NEW x \in ToSet(lists[i]) PROVE x \in {lists[p[1]][p[2]] : p \in places}
    <3>1. PICK j \in DOMAIN lists[i] : x = lists[i][j]
      BY DEF ToSet
    <3>2. <<i, j>> \in places
      BY <1>1
    <3> QED BY <3>1, <3>2
  <2> QED BY <2>1, <2>2
<1> HIDE DEF pick, places
<1>13. IsList(pick)
  BY <1>8, <1>10, ListsAre
<1> QED BY <1>7, <1>11, <1>12, <1>13
=============================================================================
