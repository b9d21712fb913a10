--------------------------- MODULE ServingProofs ---------------------------
(***************************************************************************)
(* Proofs about SubscriptionServing, for any workspaces and any edits the  *)
(* operator makes while an export reads them: an export implements what    *)
(* ServedConfig promises, traffic goes to the groups the operator chose,   *)
(* what a file lacks is told, the addresses of a file answer, and policy   *)
(* groups offer the nodes of their node groups.                            *)
(***************************************************************************)
EXTENDS SubscriptionServing, RowListsProofs

(* A list of rows whose ids are among S.                                   *)
RowsIn(rows, S) == IsList(rows) /\ \A row \in ToSet(rows) : "id" \in DOMAIN row /\ row.id \in S

(* Rows taken out of a list, renamed, sorted, joined or cut short keep     *)
(* their ids.                                                              *)
LEMMA RowsOfPlaces ==
  ASSUME NEW rows, NEW S, RowsIn(rows, S), NEW places \in SUBSET DOMAIN rows
  PROVE  RowsIn(Placed(rows, places), S)
<1>1. IsList(rows)
  BY DEF RowsIn
<1>2. IsList(Placed(rows, places)) /\ ToSet(Placed(rows, places)) = {rows[i] : i \in places}
  BY <1>1, PlacedLists
<1>3. {rows[i] : i \in places} \subseteq ToSet(rows)
  BY DEF ToSet
<1> QED BY <1>2, <1>3 DEF RowsIn

LEMMA PlacedMembers ==
  ASSUME NEW rows, IsList(rows), NEW places \in SUBSET DOMAIN rows
  PROVE  ToSet(Placed(rows, places)) \subseteq ToSet(rows)
BY PlacedLists DEF ToSet

LEMMA RowsOfFunction ==
  ASSUME NEW rows, NEW S, RowsIn(rows, S), NEW f, f = [i \in DOMAIN rows |-> f[i]],
         \A i \in DOMAIN rows : "id" \in DOMAIN f[i] /\ f[i].id = rows[i].id
  PROVE  RowsIn(f, S)
<1>1. Len(rows) \in Nat /\ DOMAIN rows = 1..Len(rows) /\ \A i \in DOMAIN rows : rows[i] \in ToSet(rows)
  BY ListPlaces DEF RowsIn
<1>2. IsList(f) /\ DOMAIN f = DOMAIN rows
  BY <1>1, ListsAre
<1>3. ASSUME NEW row \in ToSet(f) PROVE "id" \in DOMAIN row /\ row.id \in S
  <2>1. PICK i \in DOMAIN rows : row = f[i]
    BY <1>2 DEF ToSet
  <2> QED BY <1>1, <2>1 DEF RowsIn
<1> QED BY <1>2, <1>3 DEF RowsIn

LEMMA RankIsNumber ==
  ASSUME NEW order, IsList(order), NEW x
  PROVE  Rank(order, x) \in Nat
<1>1. Len(order) \in Nat /\ DOMAIN order = 1..Len(order)
  BY ListPlaces
<1>2. CASE x \in ToSet(order)
  <2>1. \E i \in DOMAIN order : order[i] = x
    BY <1>2 DEF ToSet
  <2>2. Rank(order, x) \in DOMAIN order
    BY <1>2, <2>1 DEF Rank
  <2> QED BY <1>1, <2>2
<1>3. CASE x \notin ToSet(order)
  BY <1>1, <1>3 DEF Rank
<1> QED BY <1>2, <1>3

LEMMA SortedAre ==
  ASSUME NEW rows, IsList(rows), NEW sort, IsList(sort.countries), IsList(Alphabet)
  PROVE  IsList(Sorted(rows, sort)) /\ ToSet(Sorted(rows, sort)) \subseteq ToSet(rows)
<1> DEFINE key == [i \in DOMAIN rows |-> SortKey(rows[i], sort)]
           before == {p \in (DOMAIN rows) \X (DOMAIN rows) :
                        key[p[1]] < key[p[2]] \/ (key[p[1]] = key[p[2]] /\ p[1] < p[2])}
           order == Arranged(DOMAIN rows, before)
           list == [i \in DOMAIN order |-> rows[order[i]]]
           Less(x, y) == key[x] < key[y] \/ (key[x] = key[y] /\ x < y)
<1>1. IsFiniteSet(DOMAIN rows) /\ (\A i \in DOMAIN rows : i \in Int /\ rows[i] \in ToSet(rows))
  BY ListPlaces
<1>2. \A i \in DOMAIN rows : key[i] \in Int
  <2> SUFFICES ASSUME NEW i \in DOMAIN rows PROVE SortKey(rows[i], sort) \in Int
    OBVIOUS
  <2>1. \A order_, x_ : IsList(order_) => Rank(order_, x_) \in Int
    BY RankIsNumber
  <2>2. CASE sort.by = "country"
    BY <2>1, <2>2 DEF SortKey
  <2>3. CASE sort.by = "name"
    BY <2>1, <2>3 DEF SortKey
  <2>4. CASE sort.by \in {"protocol", "source"}
    BY <2>1, <2>4 DEF SortKey
  <2>5. CASE sort.by \notin {"country", "name", "protocol", "source"}
    BY <2>5 DEF SortKey
  <2> QED BY <2>2, <2>3, <2>4, <2>5
<1> HIDE DEF key
<1>3. \A x, y : <<x, y>> \in before <=> (x \in DOMAIN rows /\ y \in DOMAIN rows /\ Less(x, y))
  OBVIOUS
<1>4. before \subseteq (DOMAIN rows) \X (DOMAIN rows)
  OBVIOUS
<1> HIDE DEF before
<1>5. StrictOrder(DOMAIN rows, before)
  <2>1. \A x \in DOMAIN rows : <<x, x>> \notin before
    BY <1>1, <1>2, <1>3
  <2>2. \A x, y, z \in DOMAIN rows : <<x, y>> \in before /\ <<y, z>> \in before => <<x, z>> \in before
    BY <1>1, <1>2, <1>3
  <2>3. \A x, y \in DOMAIN rows : x # y => <<x, y>> \in before \/ <<y, x>> \in before
    BY <1>1, <1>2, <1>3
  <2> QED BY <1>4, <2>1, <2>2, <2>3 DEF StrictOrder
<1>6. order \in Seq(DOMAIN rows)
  BY <1>1, <1>5, ArrangedLists
<1>7. Sorted(rows, sort) = list
  BY DEF Sorted, key, before
<1> HIDE DEF order
<1>8. Len(order) \in Nat /\ DOMAIN order = 1..Len(order) /\ \A i \in DOMAIN order : order[i] \in DOMAIN rows
  BY <1>6
<1>9. list = [i \in 1..Len(order) |-> list[i]] /\ \A i \in 1..Len(order) : list[i] \in ToSet(rows)
  BY <1>1, <1>8
<1> HIDE DEF list
<1>10. IsList(list) /\ DOMAIN list = 1..Len(order)
  BY <1>8, <1>9, ListsAre
<1>11. ToSet(list) \subseteq ToSet(rows)
  BY <1>9, <1>10 DEF ToSet
<1> QED BY <1>7, <1>10, <1>11

LEMMA SortedRows ==
  ASSUME NEW rows, NEW S, RowsIn(rows, S), NEW sort, IsList(sort.countries), IsList(Alphabet)
  PROVE  RowsIn(Sorted(rows, sort), S)
<1>1. IsList(rows)
  BY DEF RowsIn
<1> QED BY <1>1, SortedAre DEF RowsIn

(* A list with at most the names of its rows changed.                      *)
Renaming(f, rows) ==
  /\ f = [i \in DOMAIN rows |-> f[i]]
  /\ \A i \in DOMAIN rows : f[i] = rows[i] \/ \E name : f[i] = [rows[i] EXCEPT !.name = name]

LEMMA RenamedAre ==
  ASSUME NEW rows, IsList(rows), NEW rename
  PROVE  Renaming(Renamed(rows, rename), rows)
<1>1. CASE rename = "prefix"
  <2>1. Renamed(rows, rename) = [i \in DOMAIN rows |-> [rows[i] EXCEPT !.name = <<"pre", Head(@)>>]]
    BY <1>1 DEF Renamed
  <2> QED BY <2>1 DEF Renaming
<1>2. CASE rename = "one_name"
  <2>1. Renamed(rows, rename) = [i \in DOMAIN rows |-> [rows[i] EXCEPT !.name = <<"node">>]]
    BY <1>2 DEF Renamed
  <2> QED BY <2>1 DEF Renaming
<1>3. CASE rename = "auto_number"
  <2> DEFINE Same(i) == {j \in DOMAIN rows : rows[j].name = rows[i].name}
             f == [i \in DOMAIN rows |->
                     IF Cardinality(Same(i)) = 1 THEN rows[i]
                     ELSE [rows[i] EXCEPT !.name = Append(@, Cardinality({j \in Same(i) : j <= i}))]]
  <2>1. Renamed(rows, rename) = f
    BY <1>3 DEF Renamed
  <2> QED BY <2>1 DEF Renaming
<1>4. CASE rename \notin {"prefix", "one_name", "auto_number"}
  <2>1. Renamed(rows, rename) = rows
    BY <1>4 DEF Renamed
  <2>2. rows = [i \in DOMAIN rows |-> rows[i]]
    BY DEF IsList
  <2> QED BY <2>1, <2>2 DEF Renaming
<1> QED BY <1>1, <1>2, <1>3, <1>4

LEMMA NamedAre ==
  ASSUME NEW rows, IsList(rows), NEW names, NEW naming
  PROVE  Renaming(ExportNames(rows, names, naming), rows)
<1>1. CASE naming = "original"
  <2>1. rows = [i \in DOMAIN rows |-> rows[i]]
    BY DEF IsList
  <2> QED BY <1>1, <2>1 DEF ExportNames, Renaming
<1>2. CASE naming # "original"
  <2> DEFINE parts == [i \in DOMAIN rows |-> NameParts(rows[i], names, naming)]
             f == [i \in DOMAIN rows |->
                     [rows[i] EXCEPT !.name = Append(parts[i], Cardinality({j \in 1..i : parts[j] = parts[i]}))]]
  <2>1. ExportNames(rows, names, naming) = f
    BY <1>2 DEF ExportNames
  <2> QED BY <2>1 DEF Renaming
<1> QED BY <1>1, <1>2

LEMMA RenamingKeepsRows ==
  ASSUME NEW rows, NEW S, RowsIn(rows, S), NEW f, Renaming(f, rows)
  PROVE  RowsIn(f, S)
<1>1. \A i \in DOMAIN rows : "id" \in DOMAIN rows[i]
  BY DEF RowsIn, ToSet
<1>2. \A row, name : "id" \in DOMAIN row => "id" \in DOMAIN [row EXCEPT !.name = name] /\ [row EXCEPT !.name = name].id = row.id
  OBVIOUS
<1>3. \A i \in DOMAIN rows : "id" \in DOMAIN f[i] /\ f[i].id = rows[i].id
  BY <1>1, <1>2 DEF Renaming
<1> QED BY <1>3, RowsOfFunction DEF Renaming

LEMMA TransformedRows ==
  ASSUME NEW rows, NEW S, RowsIn(rows, S), NEW pool, IsList(pool.sort.countries), IsList(Alphabet)
  PROVE  RowsIn(Transformed(rows, pool), S)
<1> DEFINE filtered == Filtered(rows, pool.filters)
           renamed == Renamed(filtered, pool.rename)
           first == FirstOfEach(renamed, LAMBDA n : DedupKey(n, pool.dedup))
<1>1. RowsIn(filtered, S)
  BY RowsOfPlaces DEF Filtered, Where
<1> HIDE DEF filtered
<1>2. RowsIn(renamed, S)
  BY <1>1, RenamedAre, RenamingKeepsRows DEF RowsIn
<1> HIDE DEF renamed
<1>3. RowsIn(first, S)
  BY <1>2, RowsOfPlaces DEF FirstOfEach
<1> HIDE DEF first
<1>4. RowsIn(Sorted(first, pool.sort), S)
  BY <1>3, SortedRows
<1> QED BY <1>4 DEF Transformed, first, renamed, filtered

LEMMA PoolRowsAreRows ==
  ASSUME NEW nodes, NEW S, RowsIn(nodes, S), NEW pools, IsList(Alphabet),
         \A pool \in ToSet(pools) : IsList(pool.sort.countries)
  PROVE  \A p \in DOMAIN PoolRows(nodes, pools) : RowsIn(PoolRows(nodes, pools)[p], S)
<1> SUFFICES ASSUME NEW p \in RowIds(pools) PROVE RowsIn(PoolRows(nodes, pools)[p], S)
  BY DEF PoolRows
<1> DEFINE pool == RowOf(pools, p)
<1>1. pool \in ToSet(pools)
  BY DEF RowOf, RowIds
<1>2. PoolRows(nodes, pools)[p] = Transformed(Where(nodes, LAMBDA n : InPool(n, pool)), pool)
  BY DEF PoolRows
<1> HIDE DEF pool
<1>3. RowsIn(Where(nodes, LAMBDA n : InPool(n, pool)), S)
  BY RowsOfPlaces DEF Where
<1> QED BY <1>1, <1>2, <1>3, TransformedRows

LEMMA MergedAre ==
  ASSUME NEW poolRows, \A p \in DOMAIN poolRows : IsList(poolRows[p]), NEW ids, IsList(ids)
  PROVE  /\ IsList(MergedRows(poolRows, ids))
         /\ ToSet(MergedRows(poolRows, ids)) \subseteq UNION {ToSet(poolRows[p]) : p \in DOMAIN poolRows}
<1> DEFINE lists == [i \in DOMAIN ids |-> IF ids[i] \in DOMAIN poolRows THEN poolRows[ids[i]] ELSE <<>>]
           rows == Joined(lists)
           Latest(id) == rows[Max({i \in DOMAIN rows : rows[i].id = id})]
           latest == [i \in DOMAIN rows |-> Latest(rows[i].id)]
           all == UNION {ToSet(poolRows[p]) : p \in DOMAIN poolRows}
<1>1. Len(ids) \in Nat /\ DOMAIN ids = 1..Len(ids)
  BY ListPlaces
<1>2. lists = [i \in 1..Len(ids) |-> lists[i]] /\ DOMAIN lists = DOMAIN ids
  BY <1>1
<1>e. IsList(<<>>) /\ ToSet(<<>>) = {}
  BY DEF IsList, ToSet
<1>3. \A i \in DOMAIN lists : IsList(lists[i]) /\ ToSet(lists[i]) \subseteq all
  BY <1>e
<1> HIDE DEF lists
<1>4. IsList(lists)
  BY <1>1, <1>2, ListsAre
<1>5. IsList(rows) /\ ToSet(rows) \subseteq all
  BY <1>3, <1>4, JoinedLists
<1> HIDE DEF rows, all
<1>6. Len(rows) \in Nat /\ DOMAIN rows = 1..Len(rows) /\ \A i \in DOMAIN rows : rows[i] \in ToSet(rows)
  BY <1>5, ListPlaces
<1>7. \A i \in DOMAIN rows : Latest(rows[i].id) \in ToSet(rows)
  <2> SUFFICES ASSUME NEW i \in DOMAIN rows PROVE Latest(rows[i].id) \in ToSet(rows)
    OBVIOUS
  <2> DEFINE same == {j \in DOMAIN rows : rows[j].id = rows[i].id}
  <2>1. same \in SUBSET (1..Len(rows)) /\ same # {}
    BY <1>6
  <2>2. Max(same) \in same
    <3> HIDE DEF same
    <3> QED BY <1>6, <2>1, MaxIsIn
  <2> QED BY <1>6, <2>2
<1>8. IsList(latest) /\ ToSet(latest) \subseteq ToSet(rows)
  <2>1. latest = [i \in 1..Len(rows) |-> latest[i]] /\ \A i \in DOMAIN rows : latest[i] = Latest(rows[i].id)
    BY <1>6
  <2> HIDE DEF latest
  <2>2. IsList(latest) /\ DOMAIN latest = DOMAIN rows
    BY <1>6, <2>1, ListsAre
  <2>3. \A i \in DOMAIN rows : latest[i] \in ToSet(rows)
    BY <1>7, <2>1
  <2>4. ToSet(latest) = {latest[i] : i \in DOMAIN rows}
    BY <2>2 DEF ToSet
  <2> QED BY <2>2, <2>3, <2>4
<1>9. MergedRows(poolRows, ids) = FirstOfEach(latest, LAMBDA row : row.id)
  BY DEF MergedRows, latest, rows, lists
<1> HIDE DEF latest
<1>10. /\ IsList(FirstOfEach(latest, LAMBDA row : row.id))
       /\ ToSet(FirstOfEach(latest, LAMBDA row : row.id)) \subseteq ToSet(latest)
  BY <1>8, PlacedLists, PlacedMembers DEF FirstOfEach
<1> QED BY <1>5, <1>8, <1>9, <1>10 DEF all

LEMMA MergedAreRows ==
  ASSUME NEW poolRows, NEW S, \A p \in DOMAIN poolRows : RowsIn(poolRows[p], S), NEW ids, IsList(ids)
  PROVE  RowsIn(MergedRows(poolRows, ids), S)
<1>1. \A p \in DOMAIN poolRows : IsList(poolRows[p])
  BY DEF RowsIn
<1>2. /\ IsList(MergedRows(poolRows, ids))
      /\ ToSet(MergedRows(poolRows, ids)) \subseteq UNION {ToSet(poolRows[p]) : p \in DOMAIN poolRows}
  BY <1>1, MergedAre
<1> QED BY <1>2 DEF RowsIn

LEMMA NamedRows ==
  ASSUME NEW rows, NEW S, RowsIn(rows, S), NEW names, NEW naming
  PROVE  RowsIn(ExportNames(rows, names, naming), S)
<1>1. Renaming(ExportNames(rows, names, naming), rows)
  BY NamedAre DEF RowsIn
<1> QED BY <1>1, RenamingKeepsRows

LEMMA SetsAreLists ==
  ASSUME NEW S, IsFiniteSet(S)
  PROVE  IsList(SetToSeq(S))
<1>1. Cardinality(S) \in Nat /\ Bijection(1..Cardinality(S), S) # {}
  BY FS_CardinalityType DEF ExistsBijection
<1>2. PICK b \in [1..Cardinality(S) -> S] : IsInjective(b)
  BY <1>1 DEF Bijection, Injection, IsInjective
<1>3. SetToSeq(S) \in [1..Cardinality(S) -> S]
  BY <1>2 DEF SetToSeq
<1>4. SetToSeq(S) = [i \in 1..Cardinality(S) |-> SetToSeq(S)[i]]
  BY <1>3
<1> QED BY <1>1, <1>4, ListsAre

(* The node groups of an export are a list.                                *)
LEMMA ScopeIsList ==
  ASSUME NEW groups, IsList(groups), \A g \in ToSet(groups) : IsList(g.pools),
         NEW config, IsFiniteSet(config.pools), NEW format
  PROVE  IsList(ScopePools(config, groups, format))
<1> DEFINE lists == [i \in DOMAIN groups |-> groups[i].pools]
           ofGroups == FirstOfEach(Joined(lists), LAMBDA id : id)
<1>1. Len(groups) \in Nat /\ DOMAIN groups = 1..Len(groups) /\ \A i \in DOMAIN groups : groups[i] \in ToSet(groups)
  BY ListPlaces
<1>2. lists = [i \in 1..Len(groups) |-> lists[i]] /\ DOMAIN lists = DOMAIN groups
      /\ \A i \in DOMAIN lists : IsList(lists[i])
  BY <1>1
<1>3. ScopePools(config, groups, format) \in {SetToSeq(config.pools), ofGroups}
  BY DEF ScopePools
<1> HIDE DEF lists
<1>4. IsList(Joined(lists))
  BY <1>1, <1>2, ListsAre, JoinedLists
<1>5. IsList(ofGroups)
  BY <1>4, PlacedLists DEF FirstOfEach
<1>6. IsList(SetToSeq(config.pools))
  BY SetsAreLists
<1> HIDE DEF ofGroups
<1> QED BY <1>3, <1>5, <1>6

(* The groups of an export are groups of the workspace with another list.  *)
LEMMA LinkedRows ==
  ASSUME NEW groups, NEW S, RowsIn(groups, S), NEW prefer,
         \A g \in ToSet(groups) : "pools" \in DOMAIN g /\ IsList(g.pools)
  PROVE  /\ RowsIn(LinkedGroups(groups, prefer), S)
         /\ \A g \in ToSet(LinkedGroups(groups, prefer)) : IsList(g.pools)
<1> DEFINE linked == LinkedGroups(groups, prefer)
<1>1. \A i \in DOMAIN groups : "id" \in DOMAIN groups[i] /\ "pools" \in DOMAIN groups[i] /\ IsList(groups[i].pools)
  BY DEF RowsIn, ToSet
<1>2. linked = [i \in DOMAIN groups |-> linked[i]]
  BY DEF LinkedGroups
<1>3. ASSUME NEW i \in DOMAIN groups
      PROVE  "id" \in DOMAIN linked[i] /\ linked[i].id = groups[i].id /\ linked[i].pools = groups[i].pools
  <2>1. linked[i] = groups[i] \/ linked[i] = [groups[i] EXCEPT !.groupIds = SortedOutlets(groups, groups[i], prefer)]
    BY DEF LinkedGroups
  <2> HIDE DEF linked
  <2> QED BY <1>1, <2>1
<1> HIDE DEF linked
<1>4. RowsIn(linked, S)
  BY <1>2, <1>3, RowsOfFunction
<1>5. \A g \in ToSet(linked) : IsList(g.pools)
  BY <1>1, <1>2, <1>3 DEF ToSet
<1> QED BY <1>4, <1>5 DEF linked

LEMMA ScopedGroups ==
  ASSUME NEW groups, NEW S, RowsIn(groups, S), NEW config, NEW rules, NEW sets, NEW final
  PROVE  /\ RowsIn(ExportGroups(groups, config, rules, sets, final), S)
         /\ ToSet(ExportGroups(groups, config, rules, sets, final)) \subseteq ToSet(groups)
<1>1. ASSUME NEW roots
      PROVE  RowsIn(Referenced(groups, roots), S) /\ ToSet(Referenced(groups, roots)) \subseteq ToSet(groups)
  BY RowsOfPlaces, PlacedMembers DEF Referenced, Where, RowsIn
<1> QED BY <1>1 DEF ExportGroups

LEMMA PickedRows ==
  ASSUME NEW rows, NEW S, RowsIn(rows, S), NEW ids
  PROVE  RowsIn(Picked(rows, ids), S)
BY RowsOfPlaces DEF Picked, Where

LEMMA AimedRows ==
  ASSUME NEW rows, NEW S, RowsIn(rows, S), NEW groups
  PROVE  RowsIn(ToExportedGroups(rows, groups), S)
BY RowsOfPlaces DEF ToExportedGroups, Where

(* An export that has read rows of S only is made of rows of S only, but   *)
(* for the rule that matches everything else.                              *)
DataIn(d, S) ==
  /\ RowsIn(d.nodes, S) /\ RowsIn(d.groups, S) /\ RowsIn(d.sets, S)
  /\ IsList(d.rules)
  /\ \A r \in ToSet(d.rules) : r.type # "MATCH" => "id" \in DOMAIN r /\ r.id \in S
ReadIn(r, S) ==
  /\ RowsIn(r.nodes, S) /\ RowsIn(r.groups, S) /\ RowsIn(r.rules, S) /\ RowsIn(r.sets, S)
  /\ \A g \in ToSet(r.groups) : "pools" \in DOMAIN g /\ IsList(g.pools)
  /\ \A p \in ToSet(r.pools) : IsList(p.sort.countries)
  /\ IsFiniteSet(r.profile.pools)

LEMMA AppendedList ==
  ASSUME NEW s, IsList(s), NEW x
  PROVE  IsList(Append(s, x)) /\ ToSet(Append(s, x)) \subseteq ToSet(s) \cup {x}
<1>1. Append(s, x) \in Seq(ToSet(s) \cup {x})
  BY DEF IsList
<1> QED BY <1>1, SequencesAreLists

LEMMA ExportedRows ==
  ASSUME NEW r, NEW S, ReadIn(r, S), NEW format, IsList(Alphabet)
  PROVE  DataIn(ExportData(r, r.profile, format), S)
<1> DEFINE config == r.profile
           poolRows == PoolRows(r.nodes, r.pools)
           linked == LinkedGroups(r.groups, r.settings.prefer)
           rules == Picked(r.rules, config.rules)
           sets == Picked(r.sets, config.sets)
           final == FinalTarget(r.settings)
           groups == ExportGroups(linked, config, rules, sets, final)
           scope == ScopePools(config, groups, format)
           nodeRows == IF scope = <<>> THEN r.nodes ELSE MergedRows(poolRows, scope)
           nodes == ExportNames(FirstOfEach(nodeRows, Fingerprint), r.names, r.settings.naming)
           ownRules == Where(ToExportedGroups(rules, groups), LAMBDA x : x.type # "MATCH")
           d == ExportData(r, config, format)
<1>1. /\ d.nodes = nodes /\ d.groups = groups /\ d.sets = ToExportedGroups(sets, groups)
      /\ d.rules = Append(ownRules, MatchRule(final))
  BY DEF ExportData
<1>2. \A p \in DOMAIN poolRows : RowsIn(poolRows[p], S)
  BY PoolRowsAreRows DEF ReadIn
<1>3. RowsIn(linked, S) /\ \A g \in ToSet(linked) : IsList(g.pools)
  BY LinkedRows DEF ReadIn
<1>4. RowsIn(rules, S) /\ RowsIn(sets, S)
  BY PickedRows DEF ReadIn
<1> HIDE DEF d, poolRows, linked, rules, sets, final
<1>5. RowsIn(groups, S) /\ ToSet(groups) \subseteq ToSet(linked)
  BY <1>3, ScopedGroups
<1> HIDE DEF groups
<1>6. IsList(groups) /\ (\A g \in ToSet(groups) : IsList(g.pools)) /\ IsFiniteSet(config.pools)
  BY <1>3, <1>5 DEF RowsIn, ReadIn
<1> HIDE DEF config
<1>7. IsList(scope)
  BY <1>6, ScopeIsList
<1> HIDE DEF scope
<1>8. RowsIn(nodeRows, S)
  BY <1>2, <1>7, MergedAreRows DEF ReadIn
<1> HIDE DEF nodeRows
<1>9. RowsIn(FirstOfEach(nodeRows, Fingerprint), S)
  BY <1>8, RowsOfPlaces DEF FirstOfEach
<1>10. RowsIn(nodes, S)
  BY <1>9, NamedRows
<1> HIDE DEF nodes
<1>11. RowsIn(ToExportedGroups(rules, groups), S) /\ RowsIn(ToExportedGroups(sets, groups), S)
  BY <1>4, AimedRows
<1>12. RowsIn(ownRules, S)
  BY <1>11, RowsOfPlaces DEF Where
<1> HIDE DEF ownRules
<1>13. IsList(d.rules) /\ ToSet(d.rules) \subseteq ToSet(ownRules) \cup {MatchRule(final)}
  BY <1>1, <1>12, AppendedList DEF RowsIn
<1>14. MatchRule(final).type = "MATCH"
  BY DEF MatchRule
<1>15. \A x \in ToSet(d.rules) : x.type # "MATCH" => "id" \in DOMAIN x /\ x.id \in S
  BY <1>12, <1>13, <1>14 DEF RowsIn
<1> QED BY <1>1, <1>5, <1>10, <1>11, <1>13, <1>15 DEF DataIn, d, config

------------------------------------------------------------------------------
(* The file made of an export.                                             *)

LEMMA RowsGiveIds ==
  ASSUME NEW rows, NEW S, RowsIn(rows, S)
  PROVE  RowIds(rows) \subseteq S
BY DEF RowIds, RowsIn

LEMMA MappedRows ==
  ASSUME NEW rows, IsList(rows), NEW f, f = [i \in DOMAIN rows |-> f[i]],
         \A i \in DOMAIN rows : f[i].id = rows[i].id
  PROVE  IsList(f) /\ RowIds(f) = RowIds(rows)
<1>1. Len(rows) \in Nat /\ DOMAIN rows = 1..Len(rows)
  BY ListPlaces
<1>2. IsList(f)
  BY <1>1, ListsAre
<1>3. RowIds(f) = {f[i].id : i \in DOMAIN rows} /\ RowIds(rows) = {rows[i].id : i \in DOMAIN rows}
  BY DEF RowIds, ToSet
<1> QED BY <1>2, <1>3

LEMMA WrittenSetRows ==
  ASSUME NEW d, NEW S, RowsIn(d.sets, S), NEW f
  PROVE  RowIds(WrittenSets(d, f)) \subseteq S
<1> DEFINE sets == TakenSets(d, f)
           all == [i \in DOMAIN sets |-> [id |-> sets[i].id, tag |-> Tag(sets[i], f), url |-> ConvertedUrl(sets[i], f)]]
           first == FirstOfEach(all, LAMBDA s : s.tag)
<1>1. RowsIn(sets, S)
  BY RowsOfPlaces DEF TakenSets, Where
<1>2. WrittenSets(d, f) \in {all, first}
  BY DEF WrittenSets
<1> HIDE DEF sets
<1>3. all = [i \in DOMAIN sets |-> all[i]] /\ \A i \in DOMAIN sets : all[i].id = sets[i].id
  OBVIOUS
<1> HIDE DEF all
<1>4. IsList(all) /\ RowIds(all) = RowIds(sets)
  BY <1>1, <1>3, MappedRows DEF RowsIn
<1>5. ToSet(first) \subseteq ToSet(all)
  BY <1>4, PlacedMembers DEF FirstOfEach
<1> HIDE DEF first
<1>6. RowIds(first) \subseteq RowIds(all)
  BY <1>5 DEF RowIds
<1> QED BY <1>1, <1>2, <1>4, <1>6, RowsGiveIds

LEMMA WrittenGroupRows ==
  ASSUME NEW d, NEW S, RowsIn(d.groups, S), NEW f
  PROVE  RowIds(WrittenGroups(d, f)) \subseteq S
<1> DEFINE policies == Where(d.groups, LAMBDA g : ~IsNative(g))
           all == [i \in DOMAIN policies |->
                     [id |-> policies[i].id, name |-> policies[i].name,
                      members |-> ToSet(GroupMembers(policies[i], d, WrittenNodes(d, f), f))]]
<1>1. RowsIn(policies, S)
  BY RowsOfPlaces DEF Where
<1>2. WrittenGroups(d, f) = all
  BY DEF WrittenGroups
<1> HIDE DEF policies
<1>3. all = [i \in DOMAIN policies |-> all[i]] /\ \A i \in DOMAIN policies : all[i].id = policies[i].id
  OBVIOUS
<1> HIDE DEF all
<1>4. RowIds(all) = RowIds(policies)
  BY <1>1, <1>3, MappedRows DEF RowsIn
<1> QED BY <1>1, <1>2, <1>4, RowsGiveIds

LEMMA JoinedMembers ==
  ASSUME NEW s, IsList(s), NEW t, IsList(t)
  PROVE  IsList(s \o t) /\ ToSet(s \o t) = ToSet(s) \cup ToSet(t)
<1> DEFINE all == ToSet(s) \cup ToSet(t)
<1>1. s \in Seq(all) /\ t \in Seq(all)
  BY DEF IsList
<1>2. s \o t \in Seq(all)
  BY <1>1
<1>3. ToSet(s \o t) = ToSet(s) \cup ToSet(t)
  <2>1. Len(s) \in Nat /\ Len(t) \in Nat /\ DOMAIN s = 1..Len(s) /\ DOMAIN t = 1..Len(t)
        /\ DOMAIN (s \o t) = 1..(Len(s) + Len(t))
        /\ \A i \in 1..(Len(s) + Len(t)) : (s \o t)[i] = IF i <= Len(s) THEN s[i] ELSE t[i - Len(s)]
    BY <1>1
  <2>2. \A i \in 1..Len(s) : i \in 1..(Len(s) + Len(t)) /\ (s \o t)[i] = s[i]
    BY <2>1
  <2>3. \A j \in 1..Len(t) : j + Len(s) \in 1..(Len(s) + Len(t)) /\ (s \o t)[j + Len(s)] = t[j]
    BY <2>1
  <2>4. \A i \in 1..(Len(s) + Len(t)) : i \notin 1..Len(s) => i - Len(s) \in 1..Len(t) /\ (s \o t)[i] = t[i - Len(s)]
    BY <2>1
  <2> DEFINE st == s \o t
  <2>5. /\ ToSet(s) = {s[i] : i \in 1..Len(s)} /\ ToSet(t) = {t[i] : i \in 1..Len(t)}
        /\ ToSet(st) = {st[i] : i \in 1..(Len(s) + Len(t))}
    BY <2>1 DEF ToSet
  <2> HIDE DEF st
  <2>6. ToSet(s) \cup ToSet(t) \subseteq ToSet(st)
    BY <2>2, <2>3, <2>5 DEF st
  <2>7. ToSet(st) \subseteq ToSet(s) \cup ToSet(t)
    <3> SUFFICES ASSUME NEW i \in 1..(Len(s) + Len(t)) PROVE st[i] \in ToSet(s) \cup ToSet(t)
      BY <2>5
    <3> QED BY <2>2, <2>4, <2>5 DEF st
  <2> QED BY <2>6, <2>7 DEF st
<1> QED BY <1>2, <1>3, SequencesAreLists

LEMMA OneAfterTheOther ==
  ASSUME NEW s, IsList(s), NEW t, IsList(t)
  PROVE  IsList(s \o t) /\ RowIds(s \o t) = RowIds(s) \cup RowIds(t)
BY JoinedMembers DEF RowIds

LEMMA WrittenRuleRows ==
  ASSUME NEW d, NEW S, DataIn(d, S), NEW f
  PROVE  IsList(WrittenRules(d, f)) /\ RowIds(WrittenRules(d, f)) \subseteq S
<1> DEFINE rules == TakenRules(d, f)
           sets == TakenSets(d, f)
           ofRules == [i \in DOMAIN rules |->
                         [id |-> rules[i].id, tag |-> RuleSetTag(rules[i], f),
                          policy |-> PolicyOf(d.groups, rules[i].target, f)]]
           ofSets == [i \in DOMAIN sets |->
                        [id |-> sets[i].id, tag |-> Tag(sets[i], f),
                         policy |-> PolicyOf(d.groups, SetTarget(sets[i], f), f)]]
<1>1. WrittenRules(d, f) = ofRules \o ofSets
  BY DEF WrittenRules
<1>2. RowsIn(sets, S)
  BY RowsOfPlaces DEF TakenSets, Where, DataIn
<1>3. IsList(rules) /\ \A r \in ToSet(rules) : r.id \in S
  <2> DEFINE places == {i \in DOMAIN d.rules : d.rules[i].enabled /\ d.rules[i].type # "MATCH"
                                                 /\ ClientRule(d.rules[i], f).level # "unsupported"}
  <2>1. rules = Placed(d.rules, places)
    BY DEF TakenRules, Where
  <2>2. IsList(rules) /\ ToSet(rules) = {d.rules[i] : i \in places}
    BY <2>1, PlacedLists DEF DataIn
  <2>3. \A i \in places : d.rules[i].id \in S
    BY DEF DataIn, ToSet
  <2> QED BY <2>2, <2>3
<1> HIDE DEF rules, sets
<1>4. ofRules = [i \in DOMAIN rules |-> ofRules[i]] /\ \A i \in DOMAIN rules : ofRules[i].id = rules[i].id
  OBVIOUS
<1>5. ofSets = [i \in DOMAIN sets |-> ofSets[i]] /\ \A i \in DOMAIN sets : ofSets[i].id = sets[i].id
  OBVIOUS
<1> HIDE DEF ofRules, ofSets
<1>6. IsList(ofRules) /\ RowIds(ofRules) = RowIds(rules)
  BY <1>3, <1>4, MappedRows
<1>7. IsList(ofSets) /\ RowIds(ofSets) = RowIds(sets)
  BY <1>2, <1>5, MappedRows DEF RowsIn
<1>8. RowIds(rules) \subseteq S /\ RowIds(sets) \subseteq S
  BY <1>2, <1>3, RowsGiveIds DEF RowIds
<1> QED BY <1>1, <1>6, <1>7, <1>8, OneAfterTheOther

(* A file holds rows of its export only.                                   *)
LEMMA FileRows ==
  ASSUME NEW d, NEW S, DataIn(d, S), NEW f
  PROVE  FileOut(Rendered(d, f)).rows \subseteq S
<1> DEFINE file == Rendered(d, f)
<1>1. FileOut(file).rows = RowIds(file.nodes) \cup RowIds(file.groups) \cup RowIds(file.sets) \cup RowIds(file.rules)
  BY DEF FileOut
<1>2. RowIds(WrittenNodes(d, f)) \subseteq S
  BY RowsOfPlaces, RowsGiveIds DEF WrittenNodes, Where, DataIn
<1>3. RowIds(WrittenGroups(d, f)) \subseteq S /\ RowIds(WrittenSets(d, f)) \subseteq S
  BY WrittenGroupRows, WrittenSetRows DEF DataIn
<1>4. RowIds(WrittenRules(d, f)) \subseteq S
  BY WrittenRuleRows
<1>5. RowIds(<<>>) = {}
  BY DEF RowIds, ToSet
<1>6. /\ file.nodes = WrittenNodes(d, f)
      /\ file.groups \in {<<>>, WrittenGroups(d, f)} /\ file.sets \in {<<>>, WrittenSets(d, f)}
      /\ file.rules \in {<<>>, WrittenRules(d, f)}
  BY DEF Rendered
<1> HIDE DEF file
<1> QED BY <1>1, <1>2, <1>3, <1>4, <1>5, <1>6 DEF file

(* The policy of a client's own downloads is one the file defines.         *)
LEMMA DetourIsOffered ==
  ASSUME NEW d, IsList(d.groups), NEW f, f \in FullFormats
  PROVE  Detour(d, f) \in Targets(Rendered(d, f))
<1> DEFINE file == Rendered(d, f)
<1>1. file.groups = WrittenGroups(d, f)
  BY DEF Rendered, FullFormats, NodeFormats
<1>2. {DIRECT, REJECT} \subseteq Targets(file) /\ FileNames(file.groups) \subseteq Targets(file)
  BY DEF Targets
<1> HIDE DEF file
<1>3. CASE Detour(d, f) = DIRECT
  BY <1>2, <1>3 DEF file
<1>4. CASE "proxy" \in RowIds(d.groups) /\ Detour(d, f) = PolicyOf(d.groups, "proxy", f)
  <2> DEFINE g == RowOf(d.groups, "proxy")
  <2>1. g \in ToSet(d.groups) /\ Detour(d, f) = PolicyName(g)
    BY <1>4 DEF RowOf, RowIds, PolicyOf
  <2> HIDE DEF g
  <2>2. CASE IsNative(g)
    <3>1. PolicyName(g) \in {DIRECT, REJECT}
      BY <2>2 DEF IsNative, PolicyName
    <3> QED BY <1>2, <2>1, <3>1 DEF file
  <2>3. CASE ~IsNative(g)
    <3> DEFINE places == {i \in DOMAIN d.groups : ~IsNative(d.groups[i])}
               policies == Placed(d.groups, places)
    <3>1. PolicyName(g) = g.name
      BY <2>3 DEF IsNative, PolicyName
    <3>2. PICK i \in places : g = d.groups[i]
      BY <2>1, <2>3 DEF ToSet
    <3>3. ToSet(policies) = {d.groups[j] : j \in places}
      BY PlacedLists
    <3>4. WrittenGroups(d, f) = [j \in DOMAIN policies |->
                                   [id |-> policies[j].id, name |-> policies[j].name,
                                    members |-> ToSet(GroupMembers(policies[j], d, WrittenNodes(d, f), f))]]
      BY DEF WrittenGroups, Where
    <3> HIDE DEF policies
    <3>5. PICK j \in DOMAIN policies : policies[j] = g
      BY <3>2, <3>3 DEF ToSet
    <3> DEFINE all == WrittenGroups(d, f)
    <3>6. DOMAIN all = DOMAIN policies /\ all[j].name = g.name
      BY <3>4, <3>5
    <3> HIDE DEF all
    <3>7. g.name \in FileNames(all)
      BY <3>5, <3>6 DEF FileNames, ToSet
    <3> QED BY <1>1, <1>2, <2>1, <3>1, <3>7 DEF all, file
  <2> QED BY <2>2, <2>3
<1> QED BY <1>3, <1>4 DEF Detour

LEMMA ClosedFile ==
  ASSUME NEW c, \A g \in ToSet(c.groups) : g.members \subseteq Targets(c),
         \A r \in ToSet(c.rules) : r.policy \in Targets(c), c.final \in Targets(c), c.detour \in Targets(c)
  PROVE  FileOut(c).refers \subseteq FileOut(c).offers
<1> DEFINE members == UNION {g.members : g \in ToSet(c.groups)}
           policies == {r.policy : r \in ToSet(c.rules)}
<1>1. members \subseteq Targets(c) /\ policies \subseteq Targets(c)
  OBVIOUS
<1>2. FileOut(c).refers = (members \cup policies) \cup {c.final, c.detour}
  BY Zenon DEF FileOut
<1>3. FileOut(c).offers = Targets(c)
  BY DEF FileOut
<1> HIDE DEF members, policies
<1> QED BY <1>1, <1>2, <1>3

(* A file that passes its last check refers to nothing it does not define. *)
LEMMA CheckedFileIsClosed ==
  ASSUME NEW d, NEW S, DataIn(d, S), NEW f \in Formats, ArtifactIssues(Rendered(d, f), f) = {}
  PROVE  FileOut(Rendered(d, f)).refers \subseteq FileOut(Rendered(d, f)).offers
<1> DEFINE file == Rendered(d, f)
<1>1. ToSet(<<>>) = {} /\ DIRECT \in Targets(file)
  BY DEF ToSet, Targets
<1>2. CASE f \in NodeFormats
  <2>1. file.groups = <<>> /\ file.rules = <<>> /\ file.final = DIRECT /\ file.detour = DIRECT
    BY <1>2 DEF Rendered
  <2> HIDE DEF file
  <2> QED BY <1>1, <2>1, ClosedFile DEF file
<1>3. CASE f \in FullFormats
  <2>1. EmptySections(file, f) = {} /\ MissingReferences(file, f) = {}
    BY DEF ArtifactIssues
  <2>2. file.detour \in Targets(file)
    BY <1>3, DetourIsOffered DEF Rendered, DataIn, RowsIn, FullFormats, NodeFormats
  <2>3. /\ \A g \in ToSet(file.groups) : g.members \subseteq Targets(file)
        /\ \A r \in ToSet(file.rules) : r.policy \in Targets(file)
        /\ file.final \in Targets(file)
    <3> HIDE DEF file
    <3> QED BY <2>1 DEF MissingReferences
  <2> HIDE DEF file
  <2> QED BY <2>2, <2>3, ClosedFile DEF file
<1> QED BY <1>2, <1>3 DEF Formats

------------------------------------------------------------------------------
(* The steps of a request, in their order.                                 *)

LEMMA StepsAre ==
  /\ DOMAIN Steps = 1..14
  /\ Steps[1] = "profile" /\ Steps[2] = "settings" /\ Steps[3] = "nodes" /\ Steps[4] = "pools"
  /\ Steps[5] = "groups" /\ Steps[6] = "rules" /\ Steps[7] = "sets" /\ Steps[8] = "names"
  /\ Steps[9] = "sources" /\ Steps[10] = "build" /\ Steps[11] = "policy" /\ Steps[12] = "check"
  /\ Steps[13] = "preflight" /\ Steps[14] = "render"
BY DEF Steps

LEMMA StepsDiffer ==
  \A i, j \in DOMAIN Steps : Steps[i] = Steps[j] => i = j
<1> SUFFICES ASSUME NEW i \in 1..14, NEW j \in 1..14, Steps[i] = Steps[j], i < j PROVE FALSE
  BY StepsAre
<1> QED BY StepsAre

LEMMA StepsInOrder ==
  ASSUME NEW i \in DOMAIN Steps
  PROVE  NextStep(Steps[i]) = Steps[i + 1]
<1> DEFINE n == CHOOSE k \in DOMAIN Steps : Steps[k] = Steps[i]
<1>1. n \in DOMAIN Steps /\ Steps[n] = Steps[i]
  OBVIOUS
<1>2. n = i
  <2> HIDE DEF n
  <2> QED BY <1>1, StepsDiffer
<1> QED BY <1>2 DEF NextStep

LEMMA PlacesOfSteps ==
  ToSet(Steps) = {"profile", "settings", "nodes", "pools", "groups", "rules", "sets", "names", "sources",
                  "build", "policy", "check", "preflight", "render"}
<1>1. ToSet(Steps) = {Steps[i] : i \in 1..14}
  BY StepsAre DEF ToSet
<1> QED BY <1>1, StepsAre

LEMMA ReadsAre ==
  ExportReads = {"profile", "settings", "nodes", "pools", "groups", "rules", "sets", "names", "sources"}
BY StepsAre DEF ExportReads

------------------------------------------------------------------------------
(* What the operator edits leaves a workspace a workspace, with its ids.   *)

Ids(w) == [t \in Tables |-> RowIds(w[t])]

LEMMA SwitchedRows ==
  ASSUME NEW rows, IsList(rows), \A r \in ToSet(rows) : "id" \in DOMAIN r /\ "enabled" \in DOMAIN r, NEW id
  PROVE  /\ IsList(Switched(rows, id)) /\ DOMAIN Switched(rows, id) = DOMAIN rows
         /\ \A i \in DOMAIN rows : Switched(rows, id)[i].id = rows[i].id
         /\ RowIds(Switched(rows, id)) = RowIds(rows)
         /\ \A i \in DOMAIN rows : \E b \in {rows[i].enabled, ~rows[i].enabled} :
              Switched(rows, id)[i] = [rows[i] EXCEPT !.enabled = b]
<1> DEFINE f == Switched(rows, id)
<1>1. f = [i \in DOMAIN rows |-> f[i]] /\ DOMAIN f = DOMAIN rows
  BY DEF Switched
<1>2. \A i \in DOMAIN rows : \E b \in {rows[i].enabled, ~rows[i].enabled} : f[i] = [rows[i] EXCEPT !.enabled = b]
  BY DEF Switched
<1> HIDE DEF f
<1>3. \A i \in DOMAIN rows : f[i].id = rows[i].id
  BY <1>2 DEF ToSet
<1>4. IsList(f) /\ RowIds(f) = RowIds(rows)
  BY <1>1, <1>3, MappedRows
<1> QED BY <1>1, <1>2, <1>3, <1>4 DEF f

(* A list whose elements change within a set stays a list of that set.     *)
LEMMA SameList ==
  ASSUME NEW S, NEW rows \in Seq(S), NEW f, DOMAIN f = DOMAIN rows, f = [i \in DOMAIN rows |-> f[i]],
         \A i \in DOMAIN rows : f[i] \in S
  PROVE  f \in Seq(S)
<1>1. Len(rows) \in Nat /\ DOMAIN rows = 1..Len(rows)
  OBVIOUS
<1>2. f \in [1..Len(rows) -> S]
  BY <1>1
<1> QED BY <1>1, <1>2

Switchable(S) == \A r \in S, b \in BOOLEAN : /\ r.enabled \in BOOLEAN /\ "enabled" \in DOMAIN r /\ "id" \in DOMAIN r
                                             /\ [r EXCEPT !.enabled = b] \in S

LEMMA SwitchedList ==
  ASSUME NEW S, Switchable(S), NEW rows \in Seq(S), NEW id
  PROVE  Switched(rows, id) \in Seq(S)
<1> DEFINE f == Switched(rows, id)
<1>1. f = [i \in DOMAIN rows |-> f[i]] /\ DOMAIN f = DOMAIN rows
  BY DEF Switched
<1>2. \A i \in DOMAIN rows : rows[i] \in S
  OBVIOUS
<1>3. IsList(rows) /\ \A r \in ToSet(rows) : "id" \in DOMAIN r /\ "enabled" \in DOMAIN r
  BY SequencesAreLists DEF Switchable
<1>4. \A i \in DOMAIN rows : \E b \in {rows[i].enabled, ~rows[i].enabled} : f[i] = [rows[i] EXCEPT !.enabled = b]
  BY <1>3, SwitchedRows
<1> HIDE DEF f
<1>5. ASSUME NEW i \in DOMAIN rows PROVE f[i] \in S
  <2>1. PICK b \in {rows[i].enabled, ~rows[i].enabled} : f[i] = [rows[i] EXCEPT !.enabled = b]
    BY <1>4
  <2>2. rows[i] \in S /\ rows[i].enabled \in BOOLEAN
    BY <1>2 DEF Switchable
  <2>3. b \in BOOLEAN
    BY <2>1, <2>2, Zenon
  <2> QED BY <2>1, <2>2, <2>3, Zenon DEF Switchable
<1> QED BY <1>1, <1>5, SameList DEF f

LEMMA RowsAreSwitchable ==
  /\ Switchable(StoredNode) /\ Switchable(StoredSource) /\ Switchable(StoredPool)
  /\ Switchable(StoredGroup) /\ Switchable(StoredSet)
  /\ \A payload : Switchable(StoredRule(payload))
<1>1. Switchable(StoredNode)
  BY DEF Switchable, StoredNode
<1>2. Switchable(StoredSource)
  BY DEF Switchable, StoredSource
<1>3. Switchable(StoredPool)
  BY DEF Switchable, StoredPool
<1>4. Switchable(StoredGroup)
  BY DEF Switchable, StoredGroup
<1>5. Switchable(StoredSet)
  BY DEF Switchable, StoredSet
<1>6. ASSUME NEW payload PROVE Switchable(StoredRule(payload))
  BY DEF Switchable, StoredRule
<1> QED BY <1>1, <1>2, <1>3, <1>4, <1>5, <1>6

(* One table of a workspace with its rows switched.                        *)
LEMMA SwitchedWorkspace ==
  ASSUME NEW w, IsWorkspace(w), NEW t \in Tables, NEW id
  PROVE  /\ IsWorkspace([w EXCEPT ![t] = Switched(@, id)])
         /\ Ids([w EXCEPT ![t] = Switched(@, id)]) = Ids(w)
<1> DEFINE f == Switched(w[t], id)
           v == [w EXCEPT ![t] = f]
<1>1. /\ DOMAIN v = DOMAIN w /\ v[t] = f /\ \A u \in DOMAIN w : u # t => v[u] = w[u]
      /\ v.profile = w.profile
  BY DEF IsWorkspace, Tables
<1>2. \A u \in Tables : IsList(w[u]) /\ \A r \in ToSet(w[u]) : "id" \in DOMAIN r /\ "enabled" \in DOMAIN r
  <2>1. /\ w.nodes \in Seq(StoredNode) /\ w.sources \in Seq(StoredSource) /\ w.pools \in Seq(StoredPool)
        /\ w.groups \in Seq(StoredGroup) /\ w.sets \in Seq(StoredSet)
    BY DEF IsWorkspace
  <2>2. ASSUME NEW S, NEW rows \in Seq(S), Switchable(S)
        PROVE  IsList(rows) /\ \A r \in ToSet(rows) : "id" \in DOMAIN r /\ "enabled" \in DOMAIN r
    BY <2>2, SequencesAreLists DEF Switchable
  <2>3. IsList(w.rules) /\ \A r \in ToSet(w.rules) : r \in StoredRule(r.payload)
    BY DEF IsWorkspace, IsList
  <2>4. \A r \in ToSet(w.rules) : "id" \in DOMAIN r /\ "enabled" \in DOMAIN r
    BY <2>3 DEF StoredRule
  <2> QED BY <2>1, <2>2, <2>3, <2>4, RowsAreSwitchable DEF Tables
<1>3. /\ IsList(f) /\ DOMAIN f = DOMAIN w[t] /\ RowIds(f) = RowIds(w[t])
      /\ \A i \in DOMAIN w[t] : f[i].id = w[t][i].id
      /\ \A i \in DOMAIN w[t] : \E b \in {w[t][i].enabled, ~w[t][i].enabled} : f[i] = [w[t][i] EXCEPT !.enabled = b]
  BY <1>2, SwitchedRows
<1>4. /\ t = "nodes" => f \in Seq(StoredNode)
      /\ t = "sources" => f \in Seq(StoredSource)
      /\ t = "pools" => f \in Seq(StoredPool)
      /\ t = "groups" => f \in Seq(StoredGroup)
      /\ t = "sets" => f \in Seq(StoredSet)
  BY SwitchedList, RowsAreSwitchable DEF IsWorkspace
<1>5. ASSUME t = "rules", NEW r \in ToSet(f) PROVE r \in StoredRule(r.payload)
  <2>1. PICK i \in DOMAIN f : r = f[i]
    BY DEF ToSet
  <2> DEFINE old == w.rules[i]
  <2>2. old \in ToSet(w.rules) /\ old \in StoredRule(old.payload)
    BY <1>3, <1>5, <2>1 DEF IsWorkspace, ToSet
  <2>3. PICK b \in {old.enabled, ~old.enabled} : r = [old EXCEPT !.enabled = b]
    BY <1>3, <1>5, <2>1
  <2> HIDE DEF old
  <2>4. old.enabled \in BOOLEAN /\ r.payload = old.payload
    BY <2>2, <2>3 DEF StoredRule
  <2>5. b \in BOOLEAN
    BY <2>3, <2>4, Zenon
  <2>6. r \in StoredRule(old.payload)
    BY <2>2, <2>3, <2>5, RowsAreSwitchable DEF Switchable
  <2> QED BY <2>4, <2>6
<1> HIDE DEF f, v
<1>6. Ids(v) = Ids(w)
  <2>1. \A u \in Tables : RowIds(v[u]) = RowIds(w[u])
    BY <1>1, <1>3 DEF IsWorkspace
  <2> QED BY <2>1 DEF Ids
<1>7. IsWorkspace(v)
  <2>1. DOMAIN v = Tables \cup {"settings", "profile"}
    BY <1>1 DEF IsWorkspace
  <2>2. /\ v.nodes \in Seq(StoredNode) /\ v.sources \in Seq(StoredSource) /\ v.pools \in Seq(StoredPool)
        /\ v.groups \in Seq(StoredGroup) /\ v.sets \in Seq(StoredSet)
    BY <1>1, <1>4 DEF IsWorkspace, Tables
  <2>3. v.rules \in Seq(ToSet(v.rules)) /\ \A r \in ToSet(v.rules) : r \in StoredRule(r.payload)
    BY <1>1, <1>3, <1>5 DEF IsWorkspace, Tables, IsList
  <2>4. v.profile \in StoredProfile /\ IsFiniteSet(v.profile.pools) /\ v.settings.shown \in BOOLEAN
    BY <1>1 DEF IsWorkspace, Tables
  <2>5. ASSUME NEW u \in Tables, NEW i \in DOMAIN v[u], NEW j \in DOMAIN v[u], v[u][i].id = v[u][j].id
        PROVE  i = j
    <3>1. DOMAIN v[u] = DOMAIN w[u] /\ v[u][i].id = w[u][i].id /\ v[u][j].id = w[u][j].id
      BY <1>1, <1>3 DEF IsWorkspace
    <3> QED BY <2>5, <3>1 DEF IsWorkspace
  <2>6. RowIds(v.rules) \cap RowIds(v.sets) = {}
    BY <1>1, <1>3 DEF IsWorkspace, Tables
  <2> QED BY <2>1, <2>2, <2>3, <2>4, <2>5, <2>6 DEF IsWorkspace
<1> QED BY <1>6, <1>7 DEF v, f

LEMMA OtherSets ==
  ASSUME NEW w, IsWorkspace(w), NEW sets \in Seq(StoredSet), DOMAIN sets = DOMAIN w.sets,
         \A i \in DOMAIN sets : sets[i].id = w.sets[i].id
  PROVE  IsWorkspace([w EXCEPT !.sets = sets]) /\ Ids([w EXCEPT !.sets = sets]) = Ids(w)
<1> DEFINE v == [w EXCEPT !.sets = sets]
<1>1. DOMAIN v = DOMAIN w /\ v.sets = sets /\ \A u \in DOMAIN w : u # "sets" => v[u] = w[u]
  BY DEF IsWorkspace, Tables
<1>2. RowIds(sets) = RowIds(w.sets)
  BY DEF RowIds, ToSet
<1> HIDE DEF v
<1>3. Ids(v) = Ids(w)
  <2>1. \A u \in Tables : RowIds(v[u]) = RowIds(w[u])
    BY <1>1, <1>2 DEF IsWorkspace
  <2> QED BY <2>1 DEF Ids
<1>4. IsWorkspace(v)
  <2>1. /\ v.nodes = w.nodes /\ v.sources = w.sources /\ v.pools = w.pools /\ v.groups = w.groups
        /\ v.rules = w.rules /\ v.profile = w.profile
    BY <1>1 DEF IsWorkspace, Tables
  <2>2. ASSUME NEW u \in Tables, NEW i \in DOMAIN v[u], NEW j \in DOMAIN v[u], v[u][i].id = v[u][j].id
        PROVE  i = j
    <3>1. DOMAIN v[u] = DOMAIN w[u] /\ v[u][i].id = w[u][i].id /\ v[u][j].id = w[u][j].id
      BY <1>1 DEF IsWorkspace
    <3> QED BY <2>2, <3>1 DEF IsWorkspace
  <2> QED BY <1>1, <1>2, <2>1, <2>2 DEF IsWorkspace
<1> QED BY <1>3, <1>4 DEF v

LEMMA OtherProfile ==
  ASSUME NEW w, IsWorkspace(w), NEW profile \in StoredProfile, profile.pools = w.profile.pools
  PROVE  IsWorkspace([w EXCEPT !.profile = profile]) /\ Ids([w EXCEPT !.profile = profile]) = Ids(w)
<1> DEFINE v == [w EXCEPT !.profile = profile]
<1>1. /\ DOMAIN v = DOMAIN w /\ v.profile = profile /\ v.settings = w.settings
      /\ \A u \in Tables : v[u] = w[u]
  BY DEF IsWorkspace, Tables
<1> HIDE DEF v
<1>2. Ids(v) = Ids(w)
  BY <1>1 DEF Ids
<1>3. /\ v.nodes = w.nodes /\ v.sources = w.sources /\ v.pools = w.pools /\ v.groups = w.groups
      /\ v.rules = w.rules /\ v.sets = w.sets
  BY <1>1 DEF Tables
<1>4. IsWorkspace(v)
  BY <1>1, <1>3 DEF IsWorkspace
<1> QED BY <1>2, <1>4 DEF v

(* An edit leaves a workspace a workspace with the same ids.               *)
LEMMA EditsKeepWorkspace ==
  ASSUME NEW w, IsWorkspace(w), NEW v \in EditedRows(w)
  PROVE  IsWorkspace(v) /\ Ids(v) = Ids(w)
<1>s. ASSUME NEW i \in DOMAIN w.sets, NEW row \in StoredSet, row.id = w.sets[i].id, v = [w EXCEPT !.sets = [@ EXCEPT ![i] = row]]
      PROVE  IsWorkspace(v) /\ Ids(v) = Ids(w)
  <2> DEFINE sets == [w.sets EXCEPT ![i] = row]
  <2>1. w.sets \in Seq(StoredSet)
    BY DEF IsWorkspace
  <2>2. /\ sets \in Seq(StoredSet) /\ DOMAIN sets = DOMAIN w.sets
        /\ \A j \in DOMAIN sets : sets[j].id = w.sets[j].id
    BY <1>s, <2>1
  <2>3. v = [w EXCEPT !.sets = sets]
    BY <1>s DEF IsWorkspace
  <2> HIDE DEF sets
  <2> QED BY <2>2, <2>3, OtherSets
<1>1. CASE v \in UNION {{[w EXCEPT ![t] = Switched(@, id)] : id \in (Editable \ DefaultMembers) \cap RowIds(w[t])} : t \in Tables}
  <2>1. PICK t \in Tables : \E id \in Editable : v = [w EXCEPT ![t] = Switched(@, id)]
    BY <1>1
  <2>2. PICK id \in Editable : v = [w EXCEPT ![t] = Switched(@, id)]
    BY <2>1
  <2>3. IsWorkspace([w EXCEPT ![t] = Switched(@, id)]) /\ Ids([w EXCEPT ![t] = Switched(@, id)]) = Ids(w)
    BY SwitchedWorkspace
  <2> QED BY <2>2, <2>3, Zenon
<1>2. CASE v \in {[w EXCEPT !.sets[i].override = g] : i \in DOMAIN w.sets, g \in Chosen}
  <2>1. PICK i \in DOMAIN w.sets : \E g \in Chosen : v = [w EXCEPT !.sets[i].override = g]
    BY <1>2
  <2>2. PICK g \in Chosen : v = [w EXCEPT !.sets[i].override = g]
    BY <2>1
  <2> DEFINE row == [w.sets[i] EXCEPT !.override = g]
  <2>3. w.sets[i] \in StoredSet
    BY DEF IsWorkspace
  <2>4. row \in StoredSet /\ row.id = w.sets[i].id
    BY <2>3 DEF StoredSet
  <2>5. v = [w EXCEPT !.sets = [@ EXCEPT ![i] = row]]
    BY <2>2
  <2> HIDE DEF row
  <2> QED BY <1>s, <2>4, <2>5
<1>3. CASE v \in {[w EXCEPT !.sets[i].upstream = "down"] : i \in DOMAIN w.sets}
  <2>1. PICK i \in DOMAIN w.sets : v = [w EXCEPT !.sets[i].upstream = "down"]
    BY <1>3
  <2> DEFINE row == [w.sets[i] EXCEPT !.upstream = "down"]
  <2>2. w.sets[i] \in StoredSet
    BY DEF IsWorkspace
  <2>3. row \in StoredSet /\ row.id = w.sets[i].id
    BY <2>2 DEF StoredSet
  <2>4. v = [w EXCEPT !.sets = [@ EXCEPT ![i] = row]]
    BY <2>1
  <2> HIDE DEF row
  <2> QED BY <1>s, <2>3, <2>4
<1>4. CASE v = [w EXCEPT !.profile.enabled = ~@]
  <2> DEFINE profile == [w.profile EXCEPT !.enabled = ~@]
  <2>1. w.profile \in StoredProfile
    BY DEF IsWorkspace
  <2>2. profile \in StoredProfile /\ profile.pools = w.profile.pools
    BY <2>1 DEF StoredProfile
  <2>3. v = [w EXCEPT !.profile = profile]
    BY <1>4
  <2> HIDE DEF profile
  <2> QED BY <2>2, <2>3, OtherProfile
<1>5. CASE v = [w EXCEPT !.profile.token = @ + 1]
  <2> DEFINE profile == [w.profile EXCEPT !.token = @ + 1]
  <2>1. w.profile \in StoredProfile
    BY DEF IsWorkspace
  <2>2. profile \in StoredProfile /\ profile.pools = w.profile.pools
    BY <2>1 DEF StoredProfile
  <2>3. v = [w EXCEPT !.profile = profile]
    BY <1>5
  <2> HIDE DEF profile
  <2> QED BY <2>2, <2>3, OtherProfile
<1> QED BY <1>1, <1>2, <1>3, <1>4, <1>5 DEF EditedRows

------------------------------------------------------------------------------
(* The invariant.  A request goes through its steps in their order, so what *)
(* the export is made of has been read; while a client waits for a file,    *)
(* what was read, and what is made of it, are rows that have been on since  *)
(* it asked, and what is on now is among these.                             *)

AfterBuild == {"policy", "check", "preflight", "render"}

ReadOK(k, rows, S) ==
  /\ k \in {"nodes", "groups", "rules", "sets"} => RowsIn(rows, S)
  /\ k = "groups" => \A g \in ToSet(rows) : "pools" \in DOMAIN g /\ IsList(g.pools)
  /\ k = "pools" => \A p \in ToSet(rows) : IsList(p.sort.countries)
  /\ k = "profile" => IsFiniteSet(rows.pools)

(* The address of a rule set names the client it is converted for.         *)
UrlsOK(file) ==
  \A set \in ToSet(file.sets) :
    set.url.to # None => (IF set.url.for = None THEN set.url.to ELSE set.url.for) \in Formats

RequestOK ==
  /\ DOMAIN req = DOMAIN Idle
  /\ req.at \in ToSet(Steps) \cup {"idle", "answered"}
  /\ req.format \in Formats /\ req.route \in {"link", "download", "preview", "rules"}
  /\ req.at = "idle" => req = Idle
  /\ req.at = "render" \/ Served => ForFile
  /\ Served => UrlsOK(req.file)
  /\ \A i, j \in DOMAIN Steps :
       req.at = Steps[j] /\ i < j /\ Steps[i] \in ExportReads => Steps[i] \in DOMAIN req.got

HistoryOK ==
  /\ rowEdits \in 0..MaxRowEdits /\ quiet \in BOOLEAN
  /\ around \subseteq UNION {RowIds(ws[t]) : t \in Tables}

RowsOK ==
  Waiting /\ ForFile =>
    /\ RowsOn(ws) \subseteq around
    /\ \A k \in DOMAIN req.got : ReadOK(k, req.got[k], around)
    /\ req.at \in AfterBuild => DataIn(req.data, around)

ServingInv == IsWorkspace(ws) /\ RequestOK /\ HistoryOK /\ RowsOK

LEMMA OnAre ==
  ASSUME NEW rows, IsList(rows)
  PROVE  /\ IsList(On(rows)) /\ ToSet(On(rows)) = {x \in ToSet(rows) : x.enabled}
         /\ RowIds(On(rows)) = IdsOn(rows)
<1> DEFINE places == {i \in DOMAIN rows : rows[i].enabled}
<1>1. IsList(On(rows)) /\ ToSet(On(rows)) = {rows[i] : i \in places}
  BY PlacedLists DEF On, Where
<1>2. {rows[i] : i \in places} = {x \in ToSet(rows) : x.enabled}
  BY DEF ToSet
<1> QED BY <1>1, <1>2 DEF RowIds, IdsOn

(* The rows a request reads are rows that are on.                          *)
LEMMA WorkspaceLists ==
  ASSUME NEW w, IsWorkspace(w)
  PROVE  /\ \A t \in Tables : IsList(w[t])
         /\ \A t \in Tables \ {"sources", "pools"} : \A r \in ToSet(w[t]) : "id" \in DOMAIN r /\ r.id \in AllRows
         /\ \A g \in ToSet(w.groups) : "pools" \in DOMAIN g /\ IsList(g.pools)
         /\ \A p \in ToSet(w.pools) : IsList(p.sort.countries)
         /\ IsFiniteSet(w.profile.pools)
<1>1. /\ w.nodes \in Seq(StoredNode) /\ w.sources \in Seq(StoredSource) /\ w.pools \in Seq(StoredPool)
      /\ w.groups \in Seq(StoredGroup) /\ w.sets \in Seq(StoredSet) /\ w.rules \in Seq(ToSet(w.rules))
      /\ \A r \in ToSet(w.rules) : r \in StoredRule(r.payload)
      /\ IsFiniteSet(w.profile.pools)
  BY DEF IsWorkspace
<1>2. /\ IsList(w.nodes) /\ ToSet(w.nodes) \subseteq StoredNode
      /\ IsList(w.sources)
      /\ IsList(w.pools) /\ ToSet(w.pools) \subseteq StoredPool
      /\ IsList(w.groups) /\ ToSet(w.groups) \subseteq StoredGroup
      /\ IsList(w.sets) /\ ToSet(w.sets) \subseteq StoredSet
      /\ IsList(w.rules)
  BY <1>1, SequencesAreLists DEF IsList
<1>3. \A t \in Tables : IsList(w[t])
  BY <1>2 DEF Tables
<1>4. /\ \A r \in StoredNode : "id" \in DOMAIN r /\ r.id \in AllRows
      /\ \A r \in StoredGroup : "id" \in DOMAIN r /\ r.id \in AllRows
      /\ \A r \in StoredSet : "id" \in DOMAIN r /\ r.id \in AllRows
      /\ \A r \in ToSet(w.rules) : "id" \in DOMAIN r /\ r.id \in AllRows
  <2>1. \A r \in StoredNode : "id" \in DOMAIN r /\ r.id \in AllRows
    BY DEF StoredNode
  <2>2. \A r \in StoredGroup : "id" \in DOMAIN r /\ r.id \in AllRows
    BY DEF StoredGroup
  <2>3. \A r \in StoredSet : "id" \in DOMAIN r /\ r.id \in AllRows
    BY DEF StoredSet
  <2>4. \A r \in ToSet(w.rules) : "id" \in DOMAIN r /\ r.id \in AllRows
    BY <1>1 DEF StoredRule
  <2> QED BY <2>1, <2>2, <2>3, <2>4
<1>5. \A t \in Tables \ {"sources", "pools"} : \A r \in ToSet(w[t]) : "id" \in DOMAIN r /\ r.id \in AllRows
  <2> SUFFICES ASSUME NEW t \in {"nodes", "groups", "rules", "sets"}, NEW r \in ToSet(w[t])
               PROVE  "id" \in DOMAIN r /\ r.id \in AllRows
    BY DEF Tables
  <2> QED BY <1>2, <1>4
<1>6. \A g \in StoredGroup : "pools" \in DOMAIN g /\ g.pools \in Seq(Text)
  BY DEF StoredGroup
<1>7. \A p \in StoredPool : p.sort.countries \in Seq(Text)
  BY DEF StoredPool
<1>8. \A s \in Seq(Text) : IsList(s)
  BY SequencesAreLists
<1> QED BY <1>1, <1>2, <1>3, <1>5, <1>6, <1>7, <1>8

LEMMA RowsOnAreRows ==
  ASSUME NEW w, IsWorkspace(w)
  PROVE  RowsOn(w) \subseteq AllRows /\ RowsOn(w) \subseteq UNION {RowIds(w[t]) : t \in Tables}
<1>1. /\ RowsOn(w) \subseteq RowIds(w.nodes) \cup RowIds(w.groups) \cup RowIds(w.rules) \cup RowIds(w.sets)
  BY DEF RowsOn, IdsOn, RowIds
<1>2. {"nodes", "groups", "rules", "sets"} \subseteq Tables \ {"sources", "pools"}
  BY DEF Tables
<1>3. \A t \in Tables \ {"sources", "pools"} : RowIds(w[t]) \subseteq AllRows
  BY WorkspaceLists DEF RowIds
<1> QED BY <1>1, <1>2, <1>3

LEMMA ReadsAreOn ==
  ASSUME NEW w, IsWorkspace(w)
  PROVE  /\ ReadOK("nodes", NodesOn(w), RowsOn(w))
         /\ \A t \in {"groups", "rules", "sets", "pools"} : ReadOK(t, On(w[t]), RowsOn(w))
<1>1. \A t \in Tables : IsList(w[t]) /\ IsList(On(w[t])) /\ ToSet(On(w[t])) = {x \in ToSet(w[t]) : x.enabled}
                         /\ RowIds(On(w[t])) = IdsOn(w[t])
  BY WorkspaceLists, OnAre
<1>2. ReadOK("nodes", NodesOn(w), RowsOn(w))
  <2> DEFINE on == On(w.nodes)
             places == {i \in DOMAIN on : on[i].source \in RowIds(On(w.sources))}
  <2>1. /\ IsList(on) /\ ToSet(on) = {x \in ToSet(w.nodes) : x.enabled}
        /\ RowIds(On(w.sources)) = IdsOn(w.sources)
        /\ \A x \in ToSet(w.nodes) : "id" \in DOMAIN x
    BY <1>1, WorkspaceLists DEF Tables
  <2>2. NodesOn(w) = Placed(on, places)
    BY DEF NodesOn, Where
  <2> HIDE DEF on
  <2>3. IsList(NodesOn(w)) /\ ToSet(NodesOn(w)) = {on[i] : i \in places}
    BY <2>1, <2>2, PlacedLists
  <2>4. ASSUME NEW n \in ToSet(NodesOn(w)) PROVE "id" \in DOMAIN n /\ n.id \in RowsOn(w)
    <3>1. n \in ToSet(w.nodes) /\ n.enabled /\ n.source \in IdsOn(w.sources)
      BY <2>1, <2>3 DEF ToSet
    <3> QED BY <2>1, <3>1 DEF RowsOn
  <2> QED BY <2>3, <2>4 DEF ReadOK, RowsIn
<1>3. \A t \in {"groups", "rules", "sets"} : RowsIn(On(w[t]), RowsOn(w))
  <2> SUFFICES ASSUME NEW t \in {"groups", "rules", "sets"} PROVE RowsIn(On(w[t]), RowsOn(w))
    OBVIOUS
  <2>1. \A x \in ToSet(w[t]) : "id" \in DOMAIN x
    BY WorkspaceLists DEF Tables
  <2>2. RowIds(On(w[t])) \subseteq RowsOn(w)
    BY <1>1 DEF RowsOn, Tables
  <2> QED BY <1>1, <2>1, <2>2 DEF RowsIn, RowIds, Tables
<1>4. /\ \A g \in ToSet(On(w.groups)) : "pools" \in DOMAIN g /\ IsList(g.pools)
      /\ \A p \in ToSet(On(w.pools)) : IsList(p.sort.countries)
  BY <1>1, WorkspaceLists DEF Tables
<1> QED BY <1>2, <1>3, <1>4 DEF ReadOK

LEMMA MoreRows ==
  ASSUME NEW S, NEW T, S \subseteq T
  PROVE  /\ \A k, rows : ReadOK(k, rows, S) => ReadOK(k, rows, T)
         /\ \A d : DataIn(d, S) => DataIn(d, T)
<1>1. \A rows : RowsIn(rows, S) => RowsIn(rows, T)
  BY DEF RowsIn
<1>2. \A k, rows : ReadOK(k, rows, S) => ReadOK(k, rows, T)
  BY <1>1 DEF ReadOK
<1>3. \A d : DataIn(d, S) => DataIn(d, T)
  BY <1>1 DEF DataIn
<1> QED BY <1>2, <1>3

LEMMA IdleParts ==
  /\ DOMAIN Idle = {"at", "route", "format", "token", "url", "got", "data", "answer", "file", "known"}
  /\ Idle.at = "idle" /\ Idle.route = "link" /\ Idle.format = "mihomo" /\ Idle.answer = "none"
  /\ DOMAIN Idle.got = {} /\ Idle.file = Nothing
BY DEF Idle

LEMMA ServingStart == ServingInit => ServingInv
<1> SUFFICES ASSUME ServingInit PROVE ServingInv
  OBVIOUS
<1>1. IsWorkspace(ws) /\ req = Idle /\ around = {} /\ quiet = TRUE
      /\ rowEdits = IF ws \in Calm THEN MaxRowEdits ELSE 0
  BY ServingAssumption DEF ServingInit, ServingFrom
<1>2. RequestOK
  BY <1>1, IdleParts, PlacesOfSteps, StepsAre DEF RequestOK, Served, ForFile, Formats, FullFormats
<1>3. HistoryOK
  BY <1>1, ServingAssumption DEF HistoryOK
<1>4. RowsOK
  BY <1>1, IdleParts, PlacesOfSteps DEF RowsOK, Waiting
<1> QED BY <1>1, <1>2, <1>3, <1>4 DEF ServingInv

LEMMA ServingStutter == ServingInv /\ UNCHANGED servingVars => ServingInv'
BY DEF ServingInv, servingVars, RequestOK, HistoryOK, RowsOK, Served, ForFile, Waiting

(* Most steps of a request change the request only.                        *)
LEMMA RequestSteps ==
  ASSUME ServingInv, UNCHANGED <<ws, rowEdits, around, quiet>>, RequestOK', RowsOK'
  PROVE  ServingInv'
BY DEF ServingInv, HistoryOK

LEMMA AskStep ==
  ASSUME ServingInv, NEW route \in {"link", "download", "preview"}, NEW format \in Formats, Ask(route, format)
  PROVE  ServingInv'
<1>1. /\ DOMAIN req' = DOMAIN Idle /\ req'.at = "profile" /\ req'.route = route /\ req'.format = format
      /\ req'.got = Idle.got /\ req'.answer = "none"
  BY IdleParts DEF Ask
<1>2. around' = RowsOn(ws) /\ quiet' = TRUE /\ ws' = ws /\ rowEdits' = rowEdits
  BY DEF Ask
<1>3. RequestOK'
  BY <1>1, PlacesOfSteps, StepsAre, StepsDiffer DEF RequestOK, Served, ForFile
<1>4. HistoryOK'
  BY <1>2, RowsOnAreRows DEF HistoryOK, ServingInv
<1>5. RowsOK'
  BY <1>1, <1>2, IdleParts DEF RowsOK, AfterBuild
<1> QED BY <1>2, <1>3, <1>4, <1>5 DEF ServingInv

LEMMA FollowStep ==
  ASSUME ServingInv, FollowUrl
  PROVE  ServingInv'
<1>1. PICK set \in ToSet(req.file.sets) :
        /\ set.url.to # None
        /\ req' = [req EXCEPT !.at = "profile", !.route = "rules", !.url = set.url, !.got = <<>>, !.data = <<>>,
                              !.format = IF set.url.for = None THEN set.url.to ELSE set.url.for]
  BY DEF FollowUrl
<1>2. /\ DOMAIN req' = DOMAIN Idle /\ req'.at = "profile" /\ req'.route = "rules"
      /\ req'.format = IF set.url.for = None THEN set.url.to ELSE set.url.for
  BY <1>1, IdleParts DEF ServingInv, RequestOK
<1>3. Served /\ UNCHANGED <<ws, rowEdits, around, quiet>>
  BY DEF FollowUrl, Served
<1>4. req'.format \in Formats
  BY <1>1, <1>2, <1>3 DEF ServingInv, RequestOK, UrlsOK
<1>5. RequestOK'
  BY <1>2, <1>4, PlacesOfSteps, StepsAre, StepsDiffer DEF RequestOK, Served, ForFile
<1>6. RowsOK'
  BY <1>2 DEF RowsOK, ForFile
<1> QED BY <1>3, <1>5, <1>6, RequestSteps

(* An answer without a file.                                               *)
LEMMA RefusedStep ==
  ASSUME ServingInv, NEW what, what # "served", Answer(what), UNCHANGED <<ws, rowEdits, around, quiet>>
  PROVE  ServingInv'
<1>1. /\ DOMAIN req' = DOMAIN Idle /\ req'.at = "answered" /\ req'.answer = what
      /\ req'.route = req.route /\ req'.format = req.format
  BY IdleParts DEF ServingInv, RequestOK, Answer
<1>2. RequestOK'
  BY <1>1, PlacesOfSteps, StepsAre DEF ServingInv, RequestOK, Served
<1>3. RowsOK'
  BY <1>1, PlacesOfSteps DEF RowsOK, Waiting
<1> QED BY <1>2, <1>3, RequestSteps

LEMMA FindProfileStep ==
  ASSUME ServingInv, FindProfile
  PROVE  ServingInv'
<1>1. CASE Answer("unavailable")
  BY <1>1, RefusedStep DEF FindProfile
<1>2. CASE req' = [req EXCEPT !.at = "settings", !.got = [profile |-> ws.profile]]
  <2>1. /\ DOMAIN req' = DOMAIN Idle /\ req'.at = "settings" /\ req'.got = [profile |-> ws.profile]
        /\ req'.route = req.route /\ req'.format = req.format
    BY <1>2, IdleParts DEF ServingInv, RequestOK
  <2>2. req.at = "profile" /\ UNCHANGED <<ws, rowEdits, around, quiet>>
    BY DEF FindProfile
  <2>3. "profile" \in DOMAIN req'.got /\ DOMAIN req'.got = {"profile"} /\ req'.got["profile"] = ws.profile
    BY <2>1
  <2>4. RequestOK'
    BY <2>1, <2>3, PlacesOfSteps, StepsAre, StepsDiffer DEF ServingInv, RequestOK, Served, ForFile
  <2>5. RowsOK'
    <3>1. IsFiniteSet(ws.profile.pools)
      BY DEF ServingInv, IsWorkspace
    <3>2. ReadOK("profile", ws.profile, around)
      BY <3>1 DEF ReadOK
    <3>3. ForFile' => RowsOn(ws) \subseteq around
      BY <2>1, <2>2, PlacesOfSteps DEF ServingInv, RowsOK, Waiting, ForFile
    <3> QED BY <2>1, <2>2, <2>3, <3>2, <3>3 DEF RowsOK, AfterBuild
  <2> QED BY <2>2, <2>4, <2>5, RequestSteps
<1> QED BY <1>1, <1>2 DEF FindProfile

LEMMA ReadStep ==
  ASSUME ServingInv, Read
  PROVE  ServingInv'
<1>1. PICK n \in (2..9) \cup {11} : req.at = Steps[n] /\ n \in DOMAIN Steps /\ n + 1 \in DOMAIN Steps
  BY ReadsAre, StepsAre DEF Read
<1>2. NextStep(req.at) = Steps[n + 1]
  BY <1>1, StepsInOrder
<1> DEFINE got == [k \in DOMAIN req.got \cup {req.at} |-> IF k = req.at THEN Got(k) ELSE req.got[k]]
<1>3. /\ DOMAIN req' = DOMAIN Idle /\ req'.at = Steps[n + 1] /\ req'.got = got
      /\ req'.route = req.route /\ req'.format = req.format /\ req'.data = req.data
  BY <1>2, IdleParts DEF ServingInv, RequestOK, Read
<1>4. UNCHANGED <<ws, rowEdits, around, quiet>>
  BY DEF Read
<1>5. DOMAIN got = DOMAIN req.got \cup {req.at} /\ (\A k \in DOMAIN got : got[k] = IF k = req.at THEN Got(k) ELSE req.got[k])
  OBVIOUS
<1> HIDE DEF got
<1>6. ASSUME NEW i \in DOMAIN Steps, NEW j \in DOMAIN Steps, Steps[n + 1] = Steps[j], i < j, Steps[i] \in ExportReads
      PROVE  Steps[i] \in DOMAIN got
  <2>1. j = n + 1 /\ i \in Int
    BY <1>1, <1>6, StepsDiffer, StepsAre
  <2>2. CASE i = n
    BY <1>1, <1>5, <2>2
  <2>3. CASE i < n
    BY <1>1, <1>5, <1>6, <2>3 DEF ServingInv, RequestOK
  <2> QED BY <1>1, <1>6, <2>1, <2>2, <2>3
<1>7. Steps[n + 1] \in {"nodes", "pools", "groups", "rules", "sets", "names", "sources", "build", "check"}
  BY <1>1, StepsAre
<1>8. RequestOK'
  BY <1>3, <1>6, <1>7, PlacesOfSteps DEF ServingInv, RequestOK, Served, ForFile
<1>9. RowsOK'
  <2> SUFFICES ASSUME ForFile PROVE RowsOK'
    BY <1>3 DEF RowsOK, ForFile
  <2>1. Waiting
    BY <1>1 DEF Waiting, ToSet
  <2>2. /\ RowsOn(ws) \subseteq around /\ \A k \in DOMAIN req.got : ReadOK(k, req.got[k], around)
        /\ req.at \in AfterBuild => DataIn(req.data, around)
    BY <2>1 DEF ServingInv, RowsOK
  <2>3. ReadOK(req.at, Got(req.at), around)
    <3>1. CASE req.at \in {"nodes"}
      BY <2>2, <3>1, ReadsAreOn, MoreRows DEF ServingInv, Got
    <3>2. CASE req.at \in {"groups", "rules", "sets", "pools"}
      <4>1. Got(req.at) = On(ws[req.at])
        BY <3>2 DEF Got
      <4> QED BY <2>2, <3>2, <4>1, ReadsAreOn, MoreRows DEF ServingInv
    <3>3. CASE req.at \in {"settings", "names", "sources", "policy"}
      BY <3>3 DEF ReadOK
    <3> QED BY <3>1, <3>2, <3>3, ReadsAre DEF Read
  <2>4. \A k \in DOMAIN got : ReadOK(k, got[k], around)
    BY <1>5, <2>2, <2>3
  <2>5. Steps[n + 1] \in AfterBuild => req.at \in AfterBuild
    BY <1>1, StepsAre DEF AfterBuild
  <2> QED BY <1>3, <1>4, <2>2, <2>4, <2>5 DEF RowsOK
<1> QED BY <1>4, <1>8, <1>9, RequestSteps

(* At the last reads everything an export is made of has been read.        *)
LEMMA AllRead ==
  ASSUME RequestOK, req.at \in {"build"} \cup AfterBuild
  PROVE  ExportReads \subseteq DOMAIN req.got
<1>1. PICK j \in 10..14 : req.at = Steps[j] /\ j \in DOMAIN Steps
  BY StepsAre DEF AfterBuild
<1>2. \A i \in 1..9 : i \in DOMAIN Steps /\ i < j
  BY <1>1, StepsAre
<1>3. \A i \in 1..9 : Steps[i] \in ExportReads
  BY DEF ExportReads
<1> QED BY <1>1, <1>2, <1>3 DEF RequestOK, ExportReads

(* From one of the last steps to the next.                                 *)
LEMMA LaterStep ==
  ASSUME ServingInv, req.at \in {"build"} \cup AfterBuild, UNCHANGED <<ws, rowEdits, around, quiet>>,
         DOMAIN req' = DOMAIN Idle, req'.at \in AfterBuild, req'.route = req.route, req'.format = req.format,
         req'.got = req.got, req'.at = "render" => ForFile,
         ForFile => DataIn(req'.data, around)
  PROVE  ServingInv'
<1>1. ExportReads \subseteq DOMAIN req.got /\ Waiting
  BY AllRead, PlacesOfSteps DEF ServingInv, AfterBuild, Waiting
<1>2. RequestOK'
  BY <1>1, PlacesOfSteps DEF ServingInv, RequestOK, AfterBuild, Served, ForFile
<1>3. RowsOK'
  BY <1>1 DEF ServingInv, RowsOK, ForFile
<1> QED BY <1>2, <1>3, RequestSteps

LEMMA BuildStep ==
  ASSUME ServingInv, Build
  PROVE  ServingInv'
<1>1. /\ DOMAIN req' = DOMAIN Idle /\ req'.at = "policy" /\ req'.got = req.got
      /\ req'.route = req.route /\ req'.format = req.format
      /\ req'.data = ExportData(req.got, req.got.profile, req.format)
  BY IdleParts DEF ServingInv, RequestOK, Build
<1>2. ASSUME ForFile PROVE DataIn(req'.data, around)
  <2>1. /\ Waiting /\ \A k \in DOMAIN req.got : ReadOK(k, req.got[k], around)
    BY <1>2, PlacesOfSteps DEF Build, Waiting, ServingInv, RowsOK
  <2>2. \A k \in ExportReads : k \in DOMAIN req.got
    BY AllRead DEF ServingInv, Build
  <2>3. /\ ReadOK("nodes", req.got.nodes, around) /\ ReadOK("groups", req.got.groups, around)
        /\ ReadOK("rules", req.got.rules, around) /\ ReadOK("sets", req.got.sets, around)
        /\ ReadOK("pools", req.got.pools, around) /\ ReadOK("profile", req.got.profile, around)
    BY <2>1, <2>2, ReadsAre
  <2>4. ReadIn(req.got, around)
    BY <2>3 DEF ReadOK, ReadIn
  <2>5. IsList(Alphabet)
    BY ServingAssumption, SequencesAreLists
  <2> QED BY <1>1, <2>4, <2>5, ExportedRows
<1> QED BY <1>1, <1>2, LaterStep DEF Build, AfterBuild

LEMMA DataKept == ServingInv /\ req.at \in AfterBuild /\ ForFile => DataIn(req.data, around)
BY PlacesOfSteps DEF ServingInv, RowsOK, Waiting, AfterBuild

LEMMA CheckStep ==
  ASSUME ServingInv, Check
  PROVE  ServingInv'
<1>1. req.at = "check" /\ UNCHANGED <<ws, rowEdits, around, quiet>>
  BY DEF Check
<1>2. CASE Answer("not ready")
  BY <1>1, <1>2, RefusedStep
<1>3. CASE ~Answer("not ready")
  <2>1. \/ req' = [req EXCEPT !.at = "preflight"]
        \/ req' = [req EXCEPT !.at = "preflight", !.known = Told]
    BY <1>3 DEF Check
  <2>2. /\ DOMAIN req' = DOMAIN Idle /\ req'.at = "preflight" /\ req'.got = req.got
        /\ req'.route = req.route /\ req'.format = req.format /\ req'.data = req.data
    BY <2>1, IdleParts DEF ServingInv, RequestOK
  <2> QED BY <1>1, <2>2, DataKept, LaterStep DEF AfterBuild
<1> QED BY <1>2, <1>3

LEMMA ConvertStep ==
  ASSUME ServingInv, Convert
  PROVE  ServingInv'
<1>1. req.at = "preflight" /\ ForFile /\ UNCHANGED <<ws, rowEdits, around, quiet>>
  BY DEF Convert, ForFile
<1>2. CASE Answer("incomplete")
  BY <1>1, <1>2, RefusedStep
<1>3. CASE req' = [req EXCEPT !.at = "render"]
  <2>1. /\ DOMAIN req' = DOMAIN Idle /\ req'.at = "render" /\ req'.got = req.got
        /\ req'.route = req.route /\ req'.format = req.format /\ req'.data = req.data
    BY <1>3, IdleParts DEF ServingInv, RequestOK
  <2> QED BY <1>1, <2>1, DataKept, LaterStep DEF AfterBuild
<1> QED BY <1>2, <1>3 DEF Convert

LEMMA ServeRulesStep ==
  ASSUME ServingInv, ServeRules
  PROVE  ServingInv'
<1>1. UNCHANGED <<ws, rowEdits, around, quiet>>
  BY DEF ServeRules
<1>2. PICK what \in {"out of scope", "not required", "upstream unavailable", "incomplete", "rules"} : Answer(what)
  BY DEF ServeRules
<1> QED BY <1>1, <1>2, RefusedStep

LEMMA FileUrls ==
  ASSUME NEW d, IsList(d.sets), NEW f \in Formats
  PROVE  UrlsOK(Rendered(d, f))
<1> DEFINE sets == TakenSets(d, f)
           all == [i \in DOMAIN sets |-> [id |-> sets[i].id, tag |-> Tag(sets[i], f), url |-> ConvertedUrl(sets[i], f)]]
           first == FirstOfEach(all, LAMBDA s : s.tag)
<1>1. IsList(sets) /\ \A s \in ToSet(sets) : SetTaken(s, f)
  <2> DEFINE places == {i \in DOMAIN d.sets : d.sets[i].enabled /\ SetTaken(d.sets[i], f)}
  <2>1. sets = Placed(d.sets, places)
    BY DEF TakenSets, Where
  <2>2. IsList(sets) /\ ToSet(sets) = {d.sets[i] : i \in places}
    BY <2>1, PlacedLists
  <2> QED BY <2>2
<1>2. ASSUME NEW s, SetTaken(s, f), f \in FullFormats
      PROVE  LET url == ConvertedUrl(s, f) IN url.to # None => (IF url.for = None THEN url.to ELSE url.for) \in Formats
  <2> DEFINE to == ConversionTarget(PublishedFormat(s, f), f)
  <2>1. CASE IsConverted(s, f)
    <3>1. to # "none"
      BY <1>2, <2>1 DEF SetTaken, IsConverted
    <3>2. to \in {"singbox", "mihomo", f}
      BY <3>1 DEF ConversionTarget
    <3> HIDE DEF to
    <3>3. to \in Formats
      BY <3>2 DEF Formats, FullFormats
    <3>4. ConvertedUrl(s, f).to = to /\ ConvertedUrl(s, f).for \in {None, f}
      BY <2>1 DEF ConvertedUrl, to
    <3> QED BY <3>3, <3>4
  <2>2. CASE ~IsConverted(s, f)
    BY <2>2 DEF ConvertedUrl
  <2> QED BY <2>1, <2>2
<1>3. Rendered(d, f).sets \in {<<>>, all, first} /\ (f \notin FullFormats => Rendered(d, f).sets = <<>>)
  BY DEF Rendered, WrittenSets, Formats
<1>4. ToSet(<<>>) = {}
  BY DEF ToSet
<1> HIDE DEF sets
<1>5. \A row \in ToSet(all) : \E i \in DOMAIN sets : row.url = ConvertedUrl(sets[i], f)
  BY DEF ToSet
<1>6. IsList(all)
  <2>1. all = [i \in DOMAIN sets |-> all[i]] /\ \A i \in DOMAIN sets : all[i].id = sets[i].id
    OBVIOUS
  <2> HIDE DEF all
  <2> QED BY <1>1, <2>1, MappedRows
<1> HIDE DEF all
<1>7. ToSet(first) \subseteq ToSet(all)
  BY <1>6, PlacedMembers DEF FirstOfEach
<1> HIDE DEF first
<1>8. ToSet(Rendered(d, f).sets) \subseteq ToSet(all)
  BY <1>3, <1>4, <1>7
<1>9. \A i \in DOMAIN sets : SetTaken(sets[i], f)
  BY <1>1 DEF ToSet
<1>10. CASE f \in FullFormats
  <2> SUFFICES ASSUME NEW row \in ToSet(Rendered(d, f).sets), row.url.to # None
               PROVE  (IF row.url.for = None THEN row.url.to ELSE row.url.for) \in Formats
    BY DEF UrlsOK
  <2>1. PICK i \in DOMAIN sets : row.url = ConvertedUrl(sets[i], f)
    BY <1>5, <1>8
  <2> QED BY <1>2, <1>9, <1>10, <2>1
<1>11. CASE f \notin FullFormats
  BY <1>3, <1>4, <1>11 DEF UrlsOK
<1> QED BY <1>10, <1>11

LEMMA RenderStep ==
  ASSUME ServingInv, Render
  PROVE  ServingInv'
<1> DEFINE file == Rendered(Data, req.format)
<1>1. req.at = "render" /\ ForFile /\ UNCHANGED <<ws, rowEdits, around, quiet>>
  BY DEF Render, ServingInv, RequestOK
<1>2. CASE Answer("invalid")
  BY <1>1, <1>2, RefusedStep
<1>3. CASE req' = [req EXCEPT !.at = "answered", !.answer = "served", !.file = file]
  <2>1. /\ DOMAIN req' = DOMAIN Idle /\ req'.at = "answered" /\ req'.file = file
        /\ req'.route = req.route /\ req'.format = req.format
    BY <1>3, IdleParts DEF ServingInv, RequestOK
  <2>2. UrlsOK(file)
    <3>1. DataIn(req.data, around)
      BY <1>1, DataKept DEF AfterBuild
    <3> QED BY <3>1, FileUrls DEF DataIn, RowsIn, Data, ServingInv, RequestOK
  <2> HIDE DEF file
  <2>3. RequestOK'
    BY <1>1, <2>1, <2>2, PlacesOfSteps, StepsAre DEF ServingInv, RequestOK, Served, ForFile, UrlsOK
  <2>4. RowsOK'
    BY <2>1, PlacesOfSteps DEF RowsOK, Waiting
  <2> QED BY <1>1, <2>3, <2>4, RequestSteps
<1> QED BY <1>2, <1>3 DEF Render

LEMMA EditStep ==
  ASSUME ServingInv, EditRows
  PROVE  ServingInv'
<1>1. /\ ws' \in EditedRows(ws) /\ req' = req /\ quiet' = FALSE /\ rowEdits < MaxRowEdits /\ rowEdits' = rowEdits + 1
      /\ around' = IF Waiting /\ ForFile THEN around \cup RowsOn(ws') ELSE around
  BY DEF EditRows
<1>2. IsWorkspace(ws') /\ Ids(ws') = Ids(ws)
  BY <1>1, EditsKeepWorkspace DEF ServingInv
<1>3. RequestOK'
  BY <1>1 DEF ServingInv, RequestOK, Served, ForFile, UrlsOK
<1>4. HistoryOK'
  <2>1. \A t \in Tables : RowIds(ws'[t]) = RowIds(ws[t])
    BY <1>2 DEF Ids
  <2>2. UNION {RowIds(ws'[t]) : t \in Tables} = UNION {RowIds(ws[t]) : t \in Tables}
    BY <2>1
  <2>3. RowsOn(ws') \subseteq UNION {RowIds(ws'[t]) : t \in Tables}
    BY <1>2, RowsOnAreRows
  <2>4. rowEdits' \in 0..MaxRowEdits
    BY <1>1, ServingAssumption DEF ServingInv, HistoryOK
  <2> QED BY <1>1, <2>2, <2>3, <2>4 DEF ServingInv, HistoryOK
<1>5. RowsOK'
  <2> SUFFICES ASSUME Waiting, ForFile PROVE RowsOK'
    BY <1>1 DEF RowsOK, Waiting, ForFile
  <2>1. around \subseteq around' /\ RowsOn(ws') \subseteq around'
    BY <1>1
  <2>2. (\A k, rows : ReadOK(k, rows, around) => ReadOK(k, rows, around'))
        /\ (\A d : DataIn(d, around) => DataIn(d, around'))
    BY <2>1, MoreRows
  <2> QED BY <1>1, <2>1, <2>2 DEF ServingInv, RowsOK
<1> QED BY <1>2, <1>3, <1>4, <1>5 DEF ServingInv

LEMMA ServingInductive == ServingInv /\ [ServingNext]_servingVars => ServingInv'
<1> SUFFICES ASSUME ServingInv, [ServingNext]_servingVars PROVE ServingInv'
  OBVIOUS
<1>1. CASE Asked
  BY <1>1, AskStep DEF Asked
<1>2. CASE FollowUrl
  BY <1>2, FollowStep
<1>3. CASE Handle
  BY <1>3, FindProfileStep, ReadStep, BuildStep, CheckStep, ConvertStep, RenderStep, ServeRulesStep DEF Handle
<1>4. CASE EditRows
  BY <1>4, EditStep
<1>5. CASE UNCHANGED servingVars
  BY <1>5, ServingStutter
<1> QED BY <1>1, <1>2, <1>3, <1>4, <1>5 DEF ServingNext, Finished

(* The parts of a request are what ServingTypes says, and the rows it       *)
(* remembers as having been on are rows of the workspace.                   *)
THEOREM ServingTypesHold == ServingSpec => []ServingTypes
<1>1. ServingInv => ServingTypes
  BY DEF ServingInv, RequestOK, HistoryOK, ServingTypes
<1> QED BY <1>1, ServingStart, ServingInductive, PTL DEF ServingSpec

------------------------------------------------------------------------------
(* The refinement.  What a client has is told by the state of its request. *)

LEMMA OutIs ==
  /\ Served \/ ~ForFile => Out = FileOut(req.file)
  /\ ~Served /\ ForFile /\ Waiting => Out = NoFile("waiting")
  /\ ~Served /\ ForFile /\ ~Waiting /\ req.at = "idle" => Out = NoFile("idle")
  /\ ~Served /\ ForFile /\ ~Waiting /\ req.at # "idle" => Out = NoFile("refused")
BY DEF Out

LEMMA OutWhileWaiting ==
  ASSUME ServingInv
  PROVE  (Waiting /\ ForFile) <=> Out.state = "waiting"
<1>1. Waiting => ~Served
  BY PlacesOfSteps DEF Waiting, Served
<1>2. FileOut(req.file).state = "served" /\ NoFile("waiting").state = "waiting"
      /\ NoFile("idle").state = "idle" /\ NoFile("refused").state = "refused"
  BY DEF FileOut, NoFile
<1> QED BY <1>1, <1>2, OutIs

LEMMA PromiseStart == ServingInit => Promise!Init
<1> SUFFICES ASSUME ServingInit PROVE Promise!Init
  OBVIOUS
<1>1. IsWorkspace(ws) /\ req = Idle /\ around = {}
  BY ServingAssumption DEF ServingInit, ServingFrom
<1>2. RowsOn(ws) \in SUBSET AllRows
  BY <1>1, RowsOnAreRows
<1>3. Out = NoFile("idle")
  BY <1>1, IdleParts, PlacesOfSteps, OutIs DEF Served, ForFile, Waiting
<1> QED BY <1>1, <1>2, <1>3 DEF Promise!Init, Promise!NoFile, NoFile

promised == <<RowsOn(ws), around, Out>>

(* A request that stays open, or stays answered as it is, shows nothing.   *)
LEMMA QuietSteps ==
  ASSUME ServingInv, ws' = ws, around' = around, req'.route = req.route, req'.file = req.file,
         \/ ForFile /\ Waiting /\ Waiting'
         \/ ~ForFile
  PROVE  UNCHANGED promised
<1>1. RowsOn(ws)' = RowsOn(ws)
  BY DEF RowsOn, IdsOn
<1>2. CASE ~ForFile
  BY <1>1, <1>2, OutIs DEF promised, Out, ForFile, FileOut
<1>3. CASE ForFile /\ Waiting /\ Waiting'
  <2>1. ~Served /\ ~Served'
    BY <1>3, PlacesOfSteps DEF Waiting, Served
  <2> QED BY <1>1, <1>3, <2>1 DEF promised, Out, ForFile, NoFile
<1> QED BY <1>2, <1>3

LEMMA RefusalIsPromised ==
  ASSUME ServingInv, NEW what, what # "served", Answer(what), Waiting, UNCHANGED <<ws, around>>
  PROVE  [Promise!Next]_promised
<1>1. /\ req'.at = "answered" /\ req'.answer = what /\ req'.route = req.route /\ req'.file = req.file
  BY IdleParts DEF ServingInv, RequestOK, Answer
<1>2. CASE ~ForFile
  BY <1>1, <1>2, QuietSteps
<1>3. CASE ForFile
  <2>1. Out.state = "waiting"
    BY <1>3, OutWhileWaiting
  <2>2. Out' = NoFile("refused")
    BY <1>1, <1>3, PlacesOfSteps DEF Out, Served, ForFile, Waiting, NoFile
  <2>3. RowsOn(ws)' = RowsOn(ws) /\ around' = around
    BY DEF RowsOn, IdsOn
  <2>4. Promise!Refuse
    BY <2>1, <2>2, <2>3 DEF Promise!Refuse, Promise!NoFile, NoFile
  <2> QED BY <2>4 DEF Promise!Next
<1> QED BY <1>2, <1>3

LEMMA AskIsPromised ==
  ASSUME ServingInv, NEW route \in {"link", "download", "preview"}, NEW format \in Formats, Ask(route, format)
  PROVE  Promise!Ask
<1>1. req.at = "idle" /\ req = Idle
  BY DEF Ask, ServingInv, RequestOK
<1>2. Out.state # "waiting"
  BY <1>1, PlacesOfSteps, OutWhileWaiting DEF Waiting
<1>3. req'.at = "profile" /\ req'.route = route
  BY IdleParts DEF Ask
<1>4. Out' = NoFile("waiting")
  BY <1>3, PlacesOfSteps DEF Out, Served, ForFile, Waiting, NoFile
<1>5. RowsOn(ws)' = RowsOn(ws) /\ around' = RowsOn(ws)
  BY DEF Ask, RowsOn, IdsOn
<1> QED BY <1>2, <1>4, <1>5 DEF Promise!Ask, Promise!NoFile, NoFile

LEMMA FollowIsQuiet ==
  ASSUME ServingInv, FollowUrl
  PROVE  UNCHANGED promised
<1>1. Served /\ req'.route = "rules" /\ req'.file = req.file /\ UNCHANGED <<ws, around>>
  BY IdleParts DEF FollowUrl, Served, ServingInv, RequestOK
<1>2. Out = FileOut(req.file) /\ Out' = FileOut(req.file)
  BY <1>1 DEF Out, ForFile, FileOut
<1> QED BY <1>1, <1>2 DEF promised, RowsOn, IdsOn

LEMMA RenderIsPromised ==
  ASSUME ServingInv, Render
  PROVE  [Promise!Next]_promised
<1> DEFINE file == Rendered(Data, req.format)
<1>1. req.at = "render" /\ ForFile /\ Waiting /\ UNCHANGED <<ws, around>>
  BY PlacesOfSteps DEF Render, ServingInv, RequestOK, Waiting
<1>2. CASE Answer("invalid")
  BY <1>1, <1>2, RefusalIsPromised
<1>3. CASE ~Answer("invalid")
  <2>1. /\ ArtifactIssues(file, req.format) = {}
        /\ req' = [req EXCEPT !.at = "answered", !.answer = "served", !.file = file]
    BY <1>3 DEF Render
  <2>2. DataIn(Data, around) /\ req.format \in Formats
    BY <1>1, DataKept DEF AfterBuild, Data, ServingInv, RequestOK
  <2>3. FileOut(file).rows \subseteq around /\ FileOut(file).refers \subseteq FileOut(file).offers
    BY <2>1, <2>2, FileRows, CheckedFileIsClosed
  <2> HIDE DEF file
  <2>4. req'.at = "answered" /\ req'.answer = "served" /\ req'.file = file
    BY <2>1, IdleParts DEF ServingInv, RequestOK
  <2>5. Out' = FileOut(file)
    BY <2>4 DEF Out, Served, FileOut
  <2>6. FileOut(file).state = "served"
    BY DEF FileOut
  <2>7. Out.state = "waiting"
    BY <1>1, OutWhileWaiting
  <2>8. RowsOn(ws)' = RowsOn(ws) /\ around' = around
    BY <1>1 DEF RowsOn, IdsOn
  <2>9. Promise!Serve
    BY <2>3, <2>5, <2>6, <2>7, <2>8 DEF Promise!Serve
  <2> QED BY <2>9 DEF Promise!Next
<1> QED BY <1>2, <1>3

LEMMA EditIsPromised ==
  ASSUME ServingInv, EditRows
  PROVE  [Promise!Next]_promised
<1>1. /\ ws' \in EditedRows(ws) /\ req' = req
      /\ around' = IF Waiting /\ ForFile THEN around \cup RowsOn(ws') ELSE around
  BY DEF EditRows
<1>2. RowsOn(ws') \in SUBSET AllRows
  BY <1>1, EditsKeepWorkspace, RowsOnAreRows DEF ServingInv
<1>3. RowsOn(ws)' = RowsOn(ws')
  BY DEF RowsOn, IdsOn
<1>4. Out' = Out
  BY <1>1 DEF Out, Served, ForFile, Waiting, FileOut, NoFile
<1>5. (Waiting /\ ForFile) <=> Out.state = "waiting"
  BY OutWhileWaiting
<1>6. CASE RowsOn(ws') = RowsOn(ws)
  <2>1. Waiting /\ ForFile => RowsOn(ws) \subseteq around
    BY DEF ServingInv, RowsOK
  <2>2. around' = around
    BY <1>1, <1>6, <2>1
  <2> QED BY <1>3, <1>4, <1>6, <2>2 DEF promised
<1>7. CASE RowsOn(ws') # RowsOn(ws)
  <2>1. Promise!Change
    BY <1>1, <1>2, <1>3, <1>4, <1>5, <1>7 DEF Promise!Change
  <2> QED BY <2>1 DEF Promise!Next
<1> QED BY <1>6, <1>7

(* The handlers: they refuse, serve, or go on unseen.                      *)
LEMMA HandlersArePromised ==
  ASSUME ServingInv, Handle
  PROVE  [Promise!Next]_promised
<1>1. CASE FindProfile
  <2>1. Waiting /\ UNCHANGED <<ws, around>>
    BY <1>1, PlacesOfSteps DEF FindProfile, Waiting
  <2>2. CASE Answer("unavailable")
    BY <2>1, <2>2, RefusalIsPromised
  <2>3. CASE req' = [req EXCEPT !.at = "settings", !.got = [profile |-> ws.profile]]
    <3>1. req'.at = "settings" /\ req'.route = req.route /\ req'.file = req.file
      BY <2>3, IdleParts DEF ServingInv, RequestOK
    <3> QED BY <2>1, <3>1, PlacesOfSteps, QuietSteps DEF Waiting
  <2> QED BY <1>1, <2>2, <2>3 DEF FindProfile
<1>2. CASE Read
  <2>1. PICK n \in (2..9) \cup {11} : req.at = Steps[n] /\ n \in DOMAIN Steps /\ n + 1 \in DOMAIN Steps
    BY <1>2, ReadsAre, StepsAre DEF Read
  <2>2. req'.at = Steps[n + 1] /\ req'.route = req.route /\ req'.file = req.file /\ UNCHANGED <<ws, around>>
    BY <1>2, <2>1, StepsInOrder, IdleParts DEF ServingInv, RequestOK, Read
  <2>3. Waiting /\ Waiting'
    BY <2>1, <2>2 DEF Waiting, ToSet
  <2> QED BY <2>2, <2>3, QuietSteps
<1>3. CASE Build
  <2>1. req'.at = "policy" /\ req'.route = req.route /\ req'.file = req.file /\ req.at = "build"
        /\ UNCHANGED <<ws, around>>
    BY <1>3, IdleParts DEF ServingInv, RequestOK, Build
  <2> QED BY <2>1, PlacesOfSteps, QuietSteps DEF Waiting
<1>4. CASE Check
  <2>1. req.at = "check" /\ Waiting /\ UNCHANGED <<ws, around>>
    BY <1>4, PlacesOfSteps DEF Check, Waiting
  <2>2. CASE Answer("not ready")
    BY <2>1, <2>2, RefusalIsPromised
  <2>3. CASE ~Answer("not ready")
    <3>1. req'.at = "preflight" /\ req'.route = req.route /\ req'.file = req.file
      BY <1>4, <2>3, IdleParts DEF ServingInv, RequestOK, Check
    <3> QED BY <2>1, <3>1, PlacesOfSteps, QuietSteps DEF Waiting
  <2> QED BY <2>2, <2>3
<1>5. CASE Convert
  <2>1. req.at = "preflight" /\ Waiting /\ UNCHANGED <<ws, around>>
    BY <1>5, PlacesOfSteps DEF Convert, Waiting
  <2>2. CASE Answer("incomplete")
    BY <2>1, <2>2, RefusalIsPromised
  <2>3. CASE req' = [req EXCEPT !.at = "render"]
    <3>1. req'.at = "render" /\ req'.route = req.route /\ req'.file = req.file
      BY <2>3, IdleParts DEF ServingInv, RequestOK
    <3> QED BY <2>1, <3>1, PlacesOfSteps, QuietSteps DEF Waiting
  <2> QED BY <1>5, <2>2, <2>3 DEF Convert
<1>6. CASE Render
  BY <1>6, RenderIsPromised
<1>7. CASE ServeRules
  <2>1. req.at = "preflight" /\ Waiting /\ UNCHANGED <<ws, around>>
    BY <1>7, PlacesOfSteps DEF ServeRules, Waiting
  <2>2. PICK what \in {"out of scope", "not required", "upstream unavailable", "incomplete", "rules"} : Answer(what)
    BY <1>7 DEF ServeRules
  <2> QED BY <2>1, <2>2, RefusalIsPromised
<1> QED BY <1>1, <1>2, <1>3, <1>4, <1>5, <1>6, <1>7 DEF Handle

LEMMA StepsArePromised == ServingInv /\ [ServingNext]_servingVars => [Promise!Next]_promised
<1> SUFFICES ASSUME ServingInv, [ServingNext]_servingVars PROVE [Promise!Next]_promised
  OBVIOUS
<1>1. CASE Asked
  BY <1>1, AskIsPromised DEF Asked, Promise!Next
<1>2. CASE FollowUrl
  BY <1>2, FollowIsQuiet
<1>3. CASE Handle
  BY <1>3, HandlersArePromised
<1>4. CASE EditRows
  BY <1>4, EditIsPromised
<1>5. CASE UNCHANGED servingVars
  BY <1>5 DEF servingVars, promised, RowsOn, IdsOn, Out, Served, ForFile, Waiting, FileOut, NoFile
<1> QED BY <1>1, <1>2, <1>3, <1>4, <1>5 DEF ServingNext, Finished

(* Whatever the workspace holds and whatever is edited between the reads of *)
(* an export, a file a link hands out is made of rows that were on while    *)
(* the client waited, and refers to nothing it does not define itself.      *)
THEOREM ServesAsPromised == ServingSpec => ServesWhatItPromises
<1>1. [Promise!Next]_promised => [Promise!Next]_<<RowsOn(ws), around, Out>>
  BY DEF promised
<1> QED BY <1>1, ServingStart, ServingInductive, PromiseStart, StepsArePromised, PTL
        DEF ServingSpec, ServesWhatItPromises, Promise!Spec

------------------------------------------------------------------------------
(* Where traffic goes.  What a request has read of the groups, rules and    *)
(* rule sets are rows of these tables, with ids of their own; an export     *)
(* keeps the rules and sets whose group it keeps, under that group's name.  *)

ReadRows(k, rows) ==
  /\ IsList(rows) /\ RowIds(rows) \subseteq RowIds(ws[k])
  /\ \A x, y \in ToSet(rows) : x.id = y.id => x = y
  /\ k = "groups" => \A g \in ToSet(rows) : g \in StoredGroup
  /\ k = "sets" => \A s \in ToSet(rows) : s \in StoredSet
  /\ k = "rules" => \A r \in ToSet(rows) : r.override = None /\ "id" \in DOMAIN r /\ r.type \in RuleTypes
  /\ \A row \in ToSet(rows) : row.enabled

(* The groups, rules and sets of an export, as those a request has read.    *)
Aimed(d, got) ==
  /\ IsList(d.groups) /\ IsList(d.rules) /\ IsList(d.sets)
  /\ \A g \in ToSet(d.groups) : \E h \in ToSet(got.groups) : h.id = g.id /\ h.type = g.type /\ h.name = g.name
  /\ \A x \in ToSet(d.rules) : x.type # "MATCH" => x \in ToSet(got.rules) /\ TargetOf(x) \in RowIds(d.groups)
  /\ \A x \in ToSet(d.sets) : x \in ToSet(got.sets) /\ TargetOf(x) \in RowIds(d.groups)

LEMMA ReadRowsOfWorkspace ==
  ASSUME IsWorkspace(ws), NEW k \in {"groups", "rules", "sets"}
  PROVE  ReadRows(k, On(ws[k]))
<1> DEFINE rows == On(ws[k])
<1>1. IsList(ws[k]) /\ IsList(rows) /\ ToSet(rows) = {x \in ToSet(ws[k]) : x.enabled}
  BY WorkspaceLists, OnAre DEF Tables
<1>2. RowIds(rows) \subseteq RowIds(ws[k])
  BY <1>1 DEF RowIds
<1>3. \A i, j \in DOMAIN ws[k] : ws[k][i].id = ws[k][j].id => i = j
  BY DEF IsWorkspace, Tables
<1>4. \A x, y \in ToSet(ws[k]) : x.id = y.id => x = y
  BY <1>3 DEF ToSet
<1>5. k = "groups" => \A g \in ToSet(rows) : g \in StoredGroup
  BY <1>1, SequencesAreLists DEF IsWorkspace
<1>6. k = "sets" => \A s \in ToSet(rows) : s \in StoredSet
  BY <1>1, SequencesAreLists DEF IsWorkspace
<1>7. \A payload : \A r \in StoredRule(payload) : r.override = None /\ "id" \in DOMAIN r /\ r.type \in RuleTypes
  BY DEF StoredRule
<1>8. k = "rules" => \A r \in ToSet(rows) : r.override = None /\ "id" \in DOMAIN r /\ r.type \in RuleTypes
  BY <1>1, <1>7 DEF IsWorkspace
<1> HIDE DEF rows
<1> QED BY <1>1, <1>2, <1>4, <1>5, <1>6, <1>8 DEF ReadRows, rows

LEMMA PlacedAre ==
  ASSUME NEW rows, IsList(rows), NEW ids
  PROVE  IsList(Picked(rows, ids)) /\ ToSet(Picked(rows, ids)) \subseteq ToSet(rows)
BY PlacedLists, PlacedMembers DEF Picked, Where

LEMMA ExportedAre ==
  ASSUME NEW rows, IsList(rows), NEW groups
  PROVE  /\ IsList(ToExportedGroups(rows, groups))
         /\ \A x \in ToSet(ToExportedGroups(rows, groups)) : x \in ToSet(rows) /\ TargetOf(x) \in RowIds(groups)
<1> DEFINE places == {i \in DOMAIN rows : TargetOf(rows[i]) \in RowIds(groups)}
           kept == ToExportedGroups(rows, groups)
<1>1. kept = Placed(rows, places)
  BY DEF ToExportedGroups, Where
<1>2. IsList(kept) /\ ToSet(kept) = {rows[i] : i \in places}
  BY <1>1, PlacedLists
<1> HIDE DEF kept
<1> QED BY <1>2 DEF ToSet, kept

LEMMA ExportIsAimed ==
  ASSUME NEW got, ReadRows("groups", got.groups), ReadRows("rules", got.rules), ReadRows("sets", got.sets),
         NEW config, NEW format
  PROVE  Aimed(ExportData(got, config, format), got)
<1> DEFINE linked == LinkedGroups(got.groups, got.settings.prefer)
           rules == Picked(got.rules, config.rules)
           sets == Picked(got.sets, config.sets)
           final == FinalTarget(got.settings)
           groups == ExportGroups(linked, config, rules, sets, final)
           kept == ToExportedGroups(rules, groups)
           own == Where(kept, LAMBDA x : x.type # "MATCH")
           d == ExportData(got, config, format)
<1>1. d.groups = groups /\ d.sets = ToExportedGroups(sets, groups) /\ d.rules = Append(own, MatchRule(final))
  BY DEF ExportData
<1> HIDE DEF d
<1>2. \A i \in DOMAIN got.groups : got.groups[i] \in StoredGroup /\ got.groups[i] \in ToSet(got.groups)
  BY DEF ReadRows, ToSet
<1>3. ASSUME NEW i \in DOMAIN got.groups
      PROVE  /\ linked[i].id = got.groups[i].id /\ linked[i].type = got.groups[i].type
             /\ linked[i].name = got.groups[i].name
  <2> DEFINE g == got.groups[i]
  <2>1. linked[i] = g \/ linked[i] = [g EXCEPT !.groupIds = SortedOutlets(got.groups, g, got.settings.prefer)]
    BY DEF LinkedGroups
  <2>2. g \in StoredGroup
    BY <1>2
  <2> HIDE DEF g, linked
  <2> QED BY <2>1, <2>2 DEF StoredGroup, g
<1>4. linked = [i \in DOMAIN got.groups |-> linked[i]]
  BY DEF LinkedGroups
<1> HIDE DEF linked
<1>5. RowsIn(linked, RowIds(linked))
  <2>1. RowsIn(got.groups, RowIds(got.groups))
    BY DEF ReadRows, RowsIn, RowIds, StoredGroup
  <2>2. \A g \in ToSet(got.groups) : "pools" \in DOMAIN g /\ IsList(g.pools)
    <3>1. \A g \in StoredGroup : "pools" \in DOMAIN g /\ g.pools \in Seq(Text)
      BY DEF StoredGroup
    <3> QED BY <3>1, SequencesAreLists DEF ReadRows
  <2>3. RowsIn(linked, RowIds(got.groups))
    BY <2>1, <2>2, LinkedRows DEF linked
  <2> QED BY <2>3 DEF RowsIn, RowIds
<1>6. RowsIn(groups, RowIds(linked)) /\ ToSet(groups) \subseteq ToSet(linked)
  BY <1>5, ScopedGroups
<1> HIDE DEF groups
<1>7. \A g \in ToSet(groups) : \E h \in ToSet(got.groups) : h.id = g.id /\ h.type = g.type /\ h.name = g.name
  <2> SUFFICES ASSUME NEW g \in ToSet(groups)
               PROVE  \E h \in ToSet(got.groups) : h.id = g.id /\ h.type = g.type /\ h.name = g.name
    OBVIOUS
  <2>1. PICK i \in DOMAIN got.groups : g = linked[i]
    BY <1>4, <1>6 DEF ToSet
  <2> QED BY <1>2, <1>3, <2>1
<1>8. IsList(rules) /\ ToSet(rules) \subseteq ToSet(got.rules) /\ IsList(sets) /\ ToSet(sets) \subseteq ToSet(got.sets)
  BY PlacedAre DEF ReadRows
<1> HIDE DEF rules, sets
<1>9. /\ IsList(kept) /\ \A x \in ToSet(kept) : x \in ToSet(got.rules) /\ TargetOf(x) \in RowIds(groups)
      /\ IsList(d.sets) /\ \A x \in ToSet(d.sets) : x \in ToSet(got.sets) /\ TargetOf(x) \in RowIds(groups)
  BY <1>1, <1>8, ExportedAre
<1> HIDE DEF kept
<1>10. IsList(own) /\ ToSet(own) \subseteq ToSet(kept)
  BY <1>9, PlacedLists, PlacedMembers DEF Where
<1> HIDE DEF own
<1>11. IsList(d.rules) /\ ToSet(d.rules) \subseteq ToSet(own) \cup {MatchRule(final)}
  BY <1>1, <1>10, AppendedList
<1>12. MatchRule(final).type = "MATCH"
  BY DEF MatchRule
<1>13. \A x \in ToSet(d.rules) : x.type # "MATCH" => x \in ToSet(got.rules) /\ TargetOf(x) \in RowIds(groups)
  BY <1>9, <1>10, <1>11, <1>12
<1> QED BY <1>1, <1>6, <1>7, <1>9, <1>11, <1>13 DEF Aimed, RowsIn, d

LEMMA PolicyOfExportedGroup ==
  ASSUME NEW d, NEW got, ReadRows("groups", got.groups), Aimed(d, got), NEW id \in RowIds(d.groups), NEW f
  PROVE  id \in RowIds(got.groups) /\ PolicyOf(d.groups, id, f) = PolicyName(RowOf(got.groups, id))
<1> DEFINE g == RowOf(d.groups, id)
           h == RowOf(got.groups, id)
<1>1. g \in ToSet(d.groups) /\ g.id = id /\ PolicyOf(d.groups, id, f) = PolicyName(g)
  BY DEF RowOf, RowIds, PolicyOf
<1> HIDE DEF g
<1>2. PICK k \in ToSet(got.groups) : k.id = id /\ k.type = g.type /\ k.name = g.name
  BY <1>1 DEF Aimed
<1>3. id \in RowIds(got.groups)
  BY <1>2 DEF RowIds
<1>4. h \in ToSet(got.groups) /\ h.id = id
  BY <1>2 DEF RowOf
<1> HIDE DEF h
<1>5. h = k
  BY <1>2, <1>4 DEF ReadRows
<1>6. PolicyName(g) = PolicyName(h)
  BY <1>2, <1>5 DEF PolicyName
<1> QED BY <1>1, <1>3, <1>6 DEF h

(* Every rule written into a file is one of a rule or of a rule set that    *)
(* was read, with the policy of its group.                                  *)
LEMMA WrittenRulesAim ==
  ASSUME NEW d, NEW got, ReadRows("groups", got.groups), ReadRows("rules", got.rules), Aimed(d, got), NEW f,
         NEW r \in ToSet(WrittenRules(d, f))
  PROVE  \/ \E x \in ToSet(got.rules) : r.id = x.id /\ TargetOf(x) \in RowIds(got.groups)
            /\ r.policy = PolicyName(RowOf(got.groups, TargetOf(x)))
         \/ \E x \in ToSet(got.sets) : r.id = x.id /\ TargetOf(x) \in RowIds(got.groups)
            /\ (f \in Mapped => r.policy = PolicyName(RowOf(got.groups, TargetOf(x))))
<1> DEFINE rules == TakenRules(d, f)
           sets == TakenSets(d, f)
           ofRules == [i \in DOMAIN rules |->
                         [id |-> rules[i].id, tag |-> RuleSetTag(rules[i], f),
                          policy |-> PolicyOf(d.groups, rules[i].target, f)]]
           ofSets == [i \in DOMAIN sets |->
                        [id |-> sets[i].id, tag |-> Tag(sets[i], f),
                         policy |-> PolicyOf(d.groups, SetTarget(sets[i], f), f)]]
<1>1. WrittenRules(d, f) = ofRules \o ofSets
  BY DEF WrittenRules
<1>2. IsList(rules) /\ \A x \in ToSet(rules) : x \in ToSet(d.rules) /\ x.type # "MATCH"
  <2> DEFINE places == {i \in DOMAIN d.rules : d.rules[i].enabled /\ d.rules[i].type # "MATCH"
                                                 /\ ClientRule(d.rules[i], f).level # "unsupported"}
  <2>1. rules = Placed(d.rules, places)
    BY DEF TakenRules, Where
  <2>2. IsList(rules) /\ ToSet(rules) = {d.rules[i] : i \in places}
    BY <2>1, PlacedLists DEF Aimed
  <2> HIDE DEF rules
  <2>3. \A i \in places : d.rules[i] \in ToSet(d.rules) /\ d.rules[i].type # "MATCH"
    BY DEF ToSet
  <2> QED BY <2>2, <2>3
<1>3. IsList(sets) /\ ToSet(sets) \subseteq ToSet(d.sets)
  BY PlacedLists, PlacedMembers DEF TakenSets, Where, Aimed
<1> HIDE DEF rules, sets
<1>4. ofRules = [i \in DOMAIN rules |-> ofRules[i]] /\ \A i \in DOMAIN rules : ofRules[i].id = rules[i].id
  OBVIOUS
<1>5. ofSets = [i \in DOMAIN sets |-> ofSets[i]] /\ \A i \in DOMAIN sets : ofSets[i].id = sets[i].id
  OBVIOUS
<1>6. /\ \A y \in ToSet(ofRules) : \E i \in DOMAIN rules : y.id = rules[i].id /\ y.policy = PolicyOf(d.groups, rules[i].target, f)
      /\ \A y \in ToSet(ofSets) : \E i \in DOMAIN sets : y.id = sets[i].id /\ y.policy = PolicyOf(d.groups, SetTarget(sets[i], f), f)
  BY DEF ToSet
<1> HIDE DEF ofRules, ofSets
<1>7. IsList(ofRules) /\ IsList(ofSets)
  BY <1>2, <1>3, <1>4, <1>5, MappedRows
<1>8. r \in ToSet(ofRules) \/ r \in ToSet(ofSets)
  BY <1>1, <1>7, JoinedMembers
<1>9. CASE r \in ToSet(ofRules)
  <2>1. PICK i \in DOMAIN rules : r.id = rules[i].id /\ r.policy = PolicyOf(d.groups, rules[i].target, f)
    BY <1>6, <1>9
  <2> DEFINE x == rules[i]
  <2>2. x \in ToSet(got.rules) /\ TargetOf(x) \in RowIds(d.groups)
    BY <1>2, <2>1 DEF Aimed, ToSet
  <2>3. TargetOf(x) = x.target
    BY <2>2 DEF ReadRows, TargetOf
  <2>4. r.id = x.id /\ r.policy = PolicyOf(d.groups, x.target, f)
    BY <2>1
  <2> HIDE DEF x
  <2>5. TargetOf(x) \in RowIds(got.groups) /\ r.policy = PolicyName(RowOf(got.groups, TargetOf(x)))
    BY <2>2, <2>3, <2>4, PolicyOfExportedGroup
  <2> QED BY <2>2, <2>4, <2>5
<1>10. CASE r \in ToSet(ofSets)
  <2>1. PICK i \in DOMAIN sets : r.id = sets[i].id /\ r.policy = PolicyOf(d.groups, SetTarget(sets[i], f), f)
    BY <1>6, <1>10
  <2> DEFINE x == sets[i]
  <2>2. x \in ToSet(got.sets) /\ TargetOf(x) \in RowIds(d.groups)
    BY <1>3, <2>1 DEF Aimed, ToSet
  <2>3. f \in Mapped => SetTarget(x, f) = TargetOf(x)
    BY DEF SetTarget
  <2>4. r.id = x.id /\ r.policy = PolicyOf(d.groups, SetTarget(x, f), f)
    BY <2>1
  <2> HIDE DEF x
  <2>5. TargetOf(x) \in RowIds(got.groups) /\ PolicyOf(d.groups, TargetOf(x), f) = PolicyName(RowOf(got.groups, TargetOf(x)))
    BY <2>2, PolicyOfExportedGroup
  <2> QED BY <2>2, <2>3, <2>4, <2>5
<1> QED BY <1>8, <1>9, <1>10

LEMMA FileAims ==
  ASSUME NEW d, NEW got, ReadRows("groups", got.groups), ReadRows("rules", got.rules), ReadRows("sets", got.sets),
         Aimed(d, got), RowIds(got.rules) \cap RowIds(got.sets) = {}, NEW f \in FullFormats,
         NEW row \in ToSet(got.rules) \cup ToSet(got.sets), row \in ToSet(got.rules) \/ f \in Mapped,
         NEW r \in ToSet(Rendered(d, f).rules), r.id = row.id
  PROVE  TargetOf(row) \in RowIds(got.groups) /\ r.policy = PolicyName(RowOf(got.groups, TargetOf(row)))
<1>1. r \in ToSet(WrittenRules(d, f))
  BY DEF Rendered, FullFormats, NodeFormats
<1>2. \A x \in ToSet(got.rules), y \in ToSet(got.sets) : x.id # y.id
  BY DEF RowIds
<1>3. /\ \A x, y \in ToSet(got.rules) : x.id = y.id => x = y
      /\ \A x, y \in ToSet(got.sets) : x.id = y.id => x = y
  BY DEF ReadRows
<1>4. \/ \E x \in ToSet(got.rules) : r.id = x.id /\ TargetOf(x) \in RowIds(got.groups)
         /\ r.policy = PolicyName(RowOf(got.groups, TargetOf(x)))
      \/ \E x \in ToSet(got.sets) : r.id = x.id /\ TargetOf(x) \in RowIds(got.groups)
         /\ (f \in Mapped => r.policy = PolicyName(RowOf(got.groups, TargetOf(x))))
  BY <1>1, WrittenRulesAim
<1>5. CASE \E x \in ToSet(got.rules) : r.id = x.id /\ TargetOf(x) \in RowIds(got.groups)
         /\ r.policy = PolicyName(RowOf(got.groups, TargetOf(x)))
  <2>1. PICK x \in ToSet(got.rules) : r.id = x.id /\ TargetOf(x) \in RowIds(got.groups)
         /\ r.policy = PolicyName(RowOf(got.groups, TargetOf(x)))
    BY <1>5
  <2>2. row = x
    BY <1>2, <1>3, <2>1
  <2> QED BY <2>1, <2>2
<1>6. CASE \E x \in ToSet(got.sets) : r.id = x.id /\ TargetOf(x) \in RowIds(got.groups)
         /\ (f \in Mapped => r.policy = PolicyName(RowOf(got.groups, TargetOf(x))))
  <2>1. PICK x \in ToSet(got.sets) : r.id = x.id /\ TargetOf(x) \in RowIds(got.groups)
         /\ (f \in Mapped => r.policy = PolicyName(RowOf(got.groups, TargetOf(x))))
    BY <1>6
  <2>2. row = x /\ f \in Mapped
    BY <1>2, <1>3, <2>1
  <2> QED BY <2>1, <2>2
<1> QED BY <1>4, <1>5, <1>6

Aiming == {"groups", "rules", "sets"}

AimInv ==
  /\ \A k \in Aiming \cap DOMAIN req.got : ReadRows(k, req.got[k])
  /\ req.at \in AfterBuild => Aimed(req.data, req.got)
  /\ Served => /\ Aiming \subseteq DOMAIN req.got /\ Aimed(req.data, req.got)
               /\ req.file = Rendered(req.data, req.format)

LEMMA AimStart == ServingInit => AimInv
BY IdleParts DEF ServingInit, ServingFrom, AimInv, AfterBuild, Served

(* A step that reads nothing and hands out no file.                         *)
LEMMA AimKept ==
  ASSUME ServingInv, AimInv, ws' = ws, req'.got = req.got, ~Served',
         req'.at \in AfterBuild => req.at \in AfterBuild /\ req'.data = req.data
  PROVE  AimInv'
BY DEF AimInv, ReadRows, Aimed

LEMMA AimRefused ==
  ASSUME ServingInv, AimInv, NEW what, what # "served", Answer(what), ws' = ws
  PROVE  AimInv'
<1>1. req'.got = req.got /\ req'.at = "answered" /\ req'.answer = what
  BY IdleParts DEF ServingInv, RequestOK, Answer
<1> QED BY <1>1, AimKept DEF AfterBuild, Served

LEMMA AimReads ==
  ASSUME ServingInv, AimInv, Read
  PROVE  AimInv'
<1>1. PICK n \in (2..9) \cup {11} : req.at = Steps[n] /\ n \in DOMAIN Steps /\ n + 1 \in DOMAIN Steps
  BY ReadsAre, StepsAre DEF Read
<1> DEFINE got == [k \in DOMAIN req.got \cup {req.at} |-> IF k = req.at THEN Got(k) ELSE req.got[k]]
<1>2. req'.at = Steps[n + 1] /\ req'.got = got /\ req'.data = req.data /\ ws' = ws
  BY <1>1, StepsInOrder, IdleParts DEF ServingInv, RequestOK, Read
<1>3. DOMAIN got = DOMAIN req.got \cup {req.at} /\ (\A k \in DOMAIN got : got[k] = IF k = req.at THEN Got(k) ELSE req.got[k])
  OBVIOUS
<1> HIDE DEF got
<1>4. ASSUME NEW k \in Aiming \cap DOMAIN got PROVE ReadRows(k, got[k])
  <2>1. CASE k = req.at
    <3>1. Got(k) = On(ws[k])
      BY DEF Got, Aiming
    <3> QED BY <1>3, <2>1, <3>1, ReadRowsOfWorkspace DEF ServingInv, Aiming
  <2>2. CASE k # req.at
    BY <1>3, <2>2 DEF AimInv
  <2> QED BY <2>1, <2>2
<1>5. \A k \in Aiming \cap DOMAIN req'.got : ReadRows(k, req'.got[k])
  BY <1>2, <1>4
<1>6. Steps[n + 1] # "answered"
  BY <1>1, StepsAre
<1>7. Steps[n + 1] \in AfterBuild => req.at = "policy"
  BY <1>1, StepsAre DEF AfterBuild
<1>8. ASSUME req.at = "policy" PROVE Aimed(req.data, got)
  <2>1. Aimed(req.data, req.got) /\ ExportReads \subseteq DOMAIN req.got
    BY <1>8, AllRead DEF AimInv, AfterBuild, ServingInv
  <2>2. got["groups"] = req.got["groups"] /\ got["rules"] = req.got["rules"] /\ got["sets"] = req.got["sets"]
    BY <1>3, <1>8, <2>1, ReadsAre
  <2> QED BY <2>1, <2>2 DEF Aimed
<1>9. req'.at \in AfterBuild => Aimed(req.data, got)
  BY <1>2, <1>7, <1>8
<1>10. \A k \in Aiming \cap DOMAIN req'.got : ReadRows(k, req.got[k])'
  BY <1>2, <1>5 DEF ReadRows
<1> QED BY <1>2, <1>6, <1>9, <1>10 DEF AimInv, Served, Aimed

LEMMA AimBuilds ==
  ASSUME ServingInv, AimInv, Build
  PROVE  AimInv'
<1>1. /\ req'.at = "policy" /\ req'.got = req.got /\ ws' = ws
      /\ req'.data = ExportData(req.got, req.got.profile, req.format)
  BY IdleParts DEF ServingInv, RequestOK, Build
<1>2. ExportReads \subseteq DOMAIN req.got
  BY AllRead DEF ServingInv, Build
<1>3. ReadRows("groups", req.got.groups) /\ ReadRows("rules", req.got.rules) /\ ReadRows("sets", req.got.sets)
  BY <1>2, ReadsAre DEF AimInv, Aiming
<1>4. Aimed(req'.data, req.got)
  BY <1>1, <1>3, ExportIsAimed
<1>5. \A k \in Aiming \cap DOMAIN req.got : ReadRows(k, req.got[k])'
  BY <1>1 DEF AimInv, ReadRows
<1> QED BY <1>1, <1>4, <1>5 DEF AimInv, Served

LEMMA AimRenders ==
  ASSUME ServingInv, AimInv, Render
  PROVE  AimInv'
<1>1. req.at = "render" /\ ws' = ws
  BY DEF Render
<1>2. CASE Answer("invalid")
  BY <1>1, <1>2, AimRefused
<1>3. CASE ~Answer("invalid")
  <2> DEFINE file == Rendered(req.data, req.format)
  <2>1. req' = [req EXCEPT !.at = "answered", !.answer = "served", !.file = file]
    BY <1>3 DEF Render, Data
  <2>2. /\ req'.at = "answered" /\ req'.file = file /\ req'.got = req.got /\ req'.data = req.data
        /\ req'.format = req.format
    BY <2>1, IdleParts DEF ServingInv, RequestOK
  <2>3. Aiming \subseteq DOMAIN req.got /\ Aimed(req.data, req.got)
    BY <1>1, AllRead, ReadsAre DEF AimInv, AfterBuild, Aiming, ServingInv
  <2>4. \A k \in Aiming \cap DOMAIN req.got : ReadRows(k, req.got[k])'
    BY <1>1, <2>2 DEF AimInv, ReadRows
  <2> HIDE DEF file
  <2> QED BY <2>2, <2>3, <2>4 DEF AimInv, AfterBuild, Served, file
<1> QED BY <1>2, <1>3

LEMMA AimInductive == ServingInv /\ AimInv /\ [ServingNext]_servingVars => AimInv'
<1> SUFFICES ASSUME ServingInv, AimInv, [ServingNext]_servingVars PROVE AimInv'
  OBVIOUS
<1>1. CASE Asked
  <2>1. PICK route \in {"link", "download", "preview"}, format \in Formats : Ask(route, format)
    BY <1>1 DEF Asked
  <2>2. req'.at = "profile" /\ req'.got = Idle.got
    BY <2>1, IdleParts DEF Ask
  <2> QED BY <2>2, IdleParts DEF AimInv, AfterBuild, Served
<1>2. CASE FollowUrl
  <2>1. req'.at = "profile" /\ req'.got = <<>>
    BY <1>2, IdleParts DEF FollowUrl, ServingInv, RequestOK
  <2> QED BY <2>1 DEF AimInv, AfterBuild, Served
<1>3. CASE FindProfile
  <2>1. CASE Answer("unavailable")
    BY <1>3, <2>1, AimRefused DEF FindProfile
  <2>2. CASE req' = [req EXCEPT !.at = "settings", !.got = [profile |-> ws.profile]]
    <3>1. req'.at = "settings" /\ req'.got = [profile |-> ws.profile]
      BY <2>2, IdleParts DEF ServingInv, RequestOK
    <3> QED BY <3>1 DEF AimInv, AfterBuild, Served, Aiming
  <2> QED BY <1>3, <2>1, <2>2 DEF FindProfile
<1>4. CASE Read
  BY <1>4, AimReads
<1>5. CASE Build
  BY <1>5, AimBuilds
<1>6. CASE Check
  <2>1. CASE Answer("not ready")
    BY <1>6, <2>1, AimRefused DEF Check
  <2>2. CASE ~Answer("not ready")
    <3>1. req'.at = "preflight" /\ req'.got = req.got /\ req'.data = req.data /\ req.at = "check" /\ ws' = ws
      BY <1>6, <2>2, IdleParts DEF ServingInv, RequestOK, Check
    <3> QED BY <3>1, AimKept DEF AfterBuild, Served
  <2> QED BY <2>1, <2>2
<1>7. CASE Convert
  <2>1. CASE Answer("incomplete")
    BY <1>7, <2>1, AimRefused DEF Convert
  <2>2. CASE req' = [req EXCEPT !.at = "render"]
    <3>1. req'.at = "render" /\ req'.got = req.got /\ req'.data = req.data /\ req.at = "preflight" /\ ws' = ws
      BY <1>7, <2>2, IdleParts DEF ServingInv, RequestOK, Convert
    <3> QED BY <3>1, AimKept DEF AfterBuild, Served
  <2> QED BY <1>7, <2>1, <2>2 DEF Convert
<1>8. CASE Render
  BY <1>8, AimRenders
<1>9. CASE ServeRules
  <2>1. PICK what \in {"out of scope", "not required", "upstream unavailable", "incomplete", "rules"} : Answer(what)
    BY <1>9 DEF ServeRules
  <2> QED BY <1>9, <2>1, AimRefused DEF ServeRules
<1>10. CASE EditRows
  <2>1. req' = req /\ Ids(ws') = Ids(ws)
    BY <1>10, EditsKeepWorkspace DEF EditRows, ServingInv
  <2>2. \A k \in Aiming : RowIds(ws'[k]) = RowIds(ws[k])
    BY <2>1 DEF Ids, Aiming, Tables
  <2> QED BY <2>1, <2>2 DEF AimInv, ReadRows, Aimed, Served
<1>11. CASE UNCHANGED servingVars
  BY <1>11 DEF AimInv, ReadRows, Aimed, Served, servingVars
<1> QED BY <1>1, <1>2, <1>3, <1>4, <1>5, <1>6, <1>7, <1>8, <1>9, <1>10, <1>11 DEF ServingNext, Handle, Finished

(* In a file every rule, and for the clients written from mapped rows every *)
(* rule set, sends its traffic to the group the operator chose last for it. *)
THEOREM TrafficIsAimed == ServingSpec => []TrafficGoesWhereItIsSent
<1>1. ASSUME ServingInv, AimInv PROVE TrafficGoesWhereItIsSent
  <2> SUFFICES ASSUME FullFile,
                      NEW row \in ToSet(req.got.rules) \cup ToSet(req.got.sets),
                      row \in ToSet(req.got.rules) \/ req.format \in Mapped
               PROVE  AimsAt(row, req.file)
    BY DEF TrafficGoesWhereItIsSent
  <2>1. /\ ReadRows("groups", req.got.groups) /\ ReadRows("rules", req.got.rules)
        /\ ReadRows("sets", req.got.sets) /\ Aimed(req.data, req.got)
        /\ req.file = Rendered(req.data, req.format) /\ req.format \in FullFormats
    BY <1>1 DEF AimInv, FullFile, Aiming
  <2>2. RowIds(req.got.rules) \cap RowIds(req.got.sets) = {}
    BY <1>1, <2>1 DEF ReadRows, ServingInv, IsWorkspace
  <2>3. \A r \in ToSet(req.file.rules) : r.id = row.id =>
          TargetOf(row) \in RowIds(req.got.groups) /\ r.policy = PolicyName(RowOf(req.got.groups, TargetOf(row)))
    BY <2>1, <2>2, FileAims
  <2>4. TargetOf(row) = IF row.override = None THEN row.target ELSE row.override
    BY DEF TargetOf
  <2> QED BY <2>3, <2>4 DEF AimsAt
<1> QED BY <1>1, ServingStart, ServingInductive, AimStart, AimInductive, PTL DEF ServingSpec

------------------------------------------------------------------------------
(* What a file lacks.  The checks before an export say of every node, rule  *)
(* and rule set a client cannot take that it will be missing.               *)

(* A node with its credentials that passes the check is written.            *)
LEMMA TakenNodesAreWritten ==
  ASSUME NEW f \in FullFormats, NEW n, n.complete, NodeTaken(n, f)
  PROVE  FileWrites(n, f)
<1>1. NodeRenderable(n, f) /\ n.protocol \in NodeProtocols[f] /\ f \in Formats
  BY DEF NodeTaken, NodeRenderable, ProtocolSupported, FullFormats, NodeFormats, Formats
<1>2. CASE f \in Yaml
  BY <1>1, <1>2 DEF FileWrites, MihomoWrites, Yaml, NodeProtocols, MihomoAlways, MihomoKeyed, Plain, Everywhere
<1>3. CASE f = "singbox"
  BY <1>1, <1>3 DEF FileWrites, SingboxWrites, Yaml, NodeProtocols, Everywhere
<1>4. CASE f = "loon"
  BY <1>1, <1>4 DEF FileWrites, LoonWrites, Yaml, NodeProtocols, Everywhere, NodeRenderable, TransportChecked
<1>5. CASE f = "surge"
  BY <1>1, <1>5 DEF FileWrites, SurgeWrites, Yaml, NodeProtocols, Everywhere, Plain
<1>6. CASE f = "shadowrocket"
  BY <1>1, <1>6 DEF FileWrites, ShadowrocketWrites, Yaml, NodeProtocols, Everywhere, Plain
<1>7. CASE f = "quantumultx"
  BY <1>1, <1>7 DEF FileWrites, QuantumultXWrites, Yaml, NodeProtocols, Everywhere, Plain
<1>8. CASE f = "egern"
  <2>1. EgernTransport(n.protocol, n.network)
    BY <1>1, <1>8 DEF NodeRenderable, TransportChecked, EgernTransport
  <2> QED BY <1>1, <1>8, <2>1 DEF FileWrites, EgernWrites, Yaml, NodeProtocols, Everywhere, Plain
<1> QED BY <1>2, <1>3, <1>4, <1>5, <1>6, <1>7, <1>8 DEF FullFormats, Yaml

(* A rule the client cannot take is lost by the warnings too.               *)
LEMMA RefusedRulesAreLost ==
  ASSUME NEW f \in FullFormats, NEW r, r.type \in RuleTypes, ClientRule(r, f).level = "unsupported"
  PROVE  ResolveRule(r.type, r.payload, f).level \in {"unsupported", "partial"}
<1>1. CASE f # "stash"
  BY <1>1 DEF ClientRule
<1>2. CASE f = "stash"
  <2>1. ResolveRule(r.type, r.payload, "mihomo").level = "unsupported"
    BY <1>2 DEF ClientRule
  <2>2. "mihomo" \notin UnsupportedIn[r.type]
    BY DEF UnsupportedIn, FullFormats, RuleTypes
  <2>3. CASE r.type \in {"NETWORK", "PROTOCOL"}
    <3>1. ResolveTransportRule(r.type, r.payload, "mihomo").level = "unsupported"
      BY <2>1, <2>3 DEF ResolveRule, FullFormats
    <3>2. ResolveTransportRule(r.type, r.payload, "stash").level = "unsupported"
      BY <2>3, <3>1 DEF ResolveTransportRule, Resolved
    <3> QED BY <1>2, <2>3, <3>2 DEF ResolveRule, FullFormats
  <2>4. CASE r.type \notin {"NETWORK", "PROTOCOL"}
    <3>1. ResolveRule(r.type, r.payload, "mihomo").level \in {"convert", "partial", "full"}
      BY <2>2, <2>4 DEF ResolveRule, RuleLevel, Resolved, NodeFormats
    <3> QED BY <2>1, <3>1
  <2> QED BY <2>3, <2>4
<1> QED BY <1>1, <1>2

LEMMA LostRowsAreTold ==
  ASSUME NEW d, NEW f \in FullFormats, NEW x,
         \/ x \in ToSet(d.nodes) /\ ~NodeTaken(x, f)
         \/ x \in ToSet(d.rules) /\ ResolveRule(x.type, x.payload, f).level \in {"unsupported", "partial"}
         \/ x \in ToSet(d.sets) /\ ~SetTaken(x, f)
  PROVE  x.id \in {w.id : w \in ExportWarnings(d, f, TRUE)}
<1>1. CompatibilityWarnings(d, f) \subseteq ExportWarnings(d, f, TRUE) /\ f \notin NodeFormats
  BY DEF ExportWarnings, FullFormats, NodeFormats
<1>2. CASE x \in ToSet(d.nodes) /\ ~NodeTaken(x, f)
  <2> DEFINE w == Warning("partial", "node", x.id)
  <2>1. w \in NodeLosses(d, f)
    BY <1>2 DEF NodeLosses
  <2>2. w \in ExportWarnings(d, f, TRUE)
    BY <1>1, <2>1 DEF CompatibilityWarnings
  <2>3. w.id = x.id
    BY DEF Warning
  <2> HIDE DEF w
  <2> QED BY <2>2, <2>3
<1>3. CASE x \in ToSet(d.rules) /\ ResolveRule(x.type, x.payload, f).level \in {"unsupported", "partial"}
  <2> DEFINE w == Warning(ResolveRule(x.type, x.payload, f).level, "rule", x.id)
  <2>1. w \in RuleLosses(d, f)
    BY <1>3 DEF RuleLosses
  <2>2. w \in ExportWarnings(d, f, TRUE)
    BY <1>1, <2>1 DEF CompatibilityWarnings
  <2>3. w.id = x.id
    BY DEF Warning
  <2> HIDE DEF w
  <2> QED BY <2>2, <2>3
<1>4. CASE x \in ToSet(d.sets) /\ ~SetTaken(x, f)
  <2> DEFINE w == Warning("partial", "set", x.id)
  <2>1. w \in SetLosses(d, f)
    BY <1>4 DEF SetLosses
  <2>2. w \in ExportWarnings(d, f, TRUE)
    BY <1>1, <2>1 DEF CompatibilityWarnings
  <2>3. w.id = x.id
    BY DEF Warning
  <2> HIDE DEF w
  <2> QED BY <2>2, <2>3
<1> QED BY <1>2, <1>3, <1>4

LEMMA MissingNodes ==
  ASSUME NEW d, IsList(d.nodes), NEW f \in FullFormats,
         NEW n \in ToSet(d.nodes), n.id \notin RowIds(Rendered(d, f).nodes), n.complete
  PROVE  n.id \in {w.id : w \in ExportWarnings(d, f, TRUE)}
<1> DEFINE places == {i \in DOMAIN d.nodes : FileWrites(d.nodes[i], f)}
<1>1. Rendered(d, f).nodes = Placed(d.nodes, places)
  BY DEF Rendered, WrittenNodes, Where
<1>2. ToSet(Placed(d.nodes, places)) = {d.nodes[i] : i \in places}
  BY PlacedLists
<1>3. ~FileWrites(n, f)
  BY <1>1, <1>2 DEF RowIds, ToSet
<1> QED BY <1>3, TakenNodesAreWritten, LostRowsAreTold

LEMMA MissingRules ==
  ASSUME NEW d, IsList(d.rules), IsList(d.sets), NEW f \in FullFormats,
         NEW r \in ToSet(d.rules), r.type \in RuleTypes \ {"MATCH"}, r.enabled,
         r.id \notin RowIds(Rendered(d, f).rules)
  PROVE  r.id \in {w.id : w \in ExportWarnings(d, f, TRUE)}
<1> DEFINE rules == TakenRules(d, f)
           sets == TakenSets(d, f)
           ofRules == [i \in DOMAIN rules |->
                         [id |-> rules[i].id, tag |-> RuleSetTag(rules[i], f),
                          policy |-> PolicyOf(d.groups, rules[i].target, f)]]
           ofSets == [i \in DOMAIN sets |->
                        [id |-> sets[i].id, tag |-> Tag(sets[i], f),
                         policy |-> PolicyOf(d.groups, SetTarget(sets[i], f), f)]]
           places == {i \in DOMAIN d.rules : d.rules[i].enabled /\ d.rules[i].type # "MATCH"
                                                 /\ ClientRule(d.rules[i], f).level # "unsupported"}
<1>1. Rendered(d, f).rules = ofRules \o ofSets
  BY DEF Rendered, WrittenRules, FullFormats, NodeFormats
<1>2. IsList(rules) /\ ToSet(rules) = {d.rules[i] : i \in places}
  <2>1. rules = Placed(d.rules, places)
    BY DEF TakenRules, Where
  <2> QED BY <2>1, PlacedLists
<1>3. IsList(sets)
  BY PlacedLists DEF TakenSets, Where
<1> HIDE DEF rules, sets
<1>4. ofRules = [i \in DOMAIN rules |-> ofRules[i]] /\ \A i \in DOMAIN rules : ofRules[i].id = rules[i].id
  OBVIOUS
<1>5. ofSets = [i \in DOMAIN sets |-> ofSets[i]] /\ \A i \in DOMAIN sets : ofSets[i].id = sets[i].id
  OBVIOUS
<1> HIDE DEF ofRules, ofSets
<1>6. IsList(ofRules) /\ RowIds(ofRules) = RowIds(rules) /\ IsList(ofSets)
  BY <1>2, <1>3, <1>4, <1>5, MappedRows
<1>7. RowIds(rules) \subseteq RowIds(Rendered(d, f).rules)
  BY <1>1, <1>6, OneAfterTheOther
<1>8. r \notin ToSet(rules)
  BY <1>7 DEF RowIds
<1>9. ClientRule(r, f).level = "unsupported"
  <2>1. PICK i \in DOMAIN d.rules : r = d.rules[i]
    BY DEF ToSet
  <2>2. i \notin places
    BY <1>2, <1>8, <2>1
  <2> QED BY <2>1, <2>2
<1> QED BY <1>9, RefusedRulesAreLost, LostRowsAreTold

(* A set the client takes is missing only when another one has its tag.     *)
LEMMA MissingSets ==
  ASSUME NEW d, IsList(d.sets), NEW f \in FullFormats,
         NEW s \in ToSet(d.sets), s.enabled, s.id \notin RowIds(Rendered(d, f).sets)
  PROVE  \/ s.id \in {w.id : w \in ExportWarnings(d, f, TRUE)}
         \/ f = "singbox" /\ \E kept \in ToSet(Rendered(d, f).sets) : kept.tag = SafeName(s.name)
<1> SUFFICES ASSUME SetTaken(s, f)
             PROVE  f = "singbox" /\ \E kept \in ToSet(Rendered(d, f).sets) : kept.tag = SafeName(s.name)
  BY LostRowsAreTold
<1> DEFINE sets == TakenSets(d, f)
           all == [i \in DOMAIN sets |-> [id |-> sets[i].id, tag |-> Tag(sets[i], f), url |-> ConvertedUrl(sets[i], f)]]
           firsts == {i \in DOMAIN all : \A j \in 1..(i - 1) : all[j].tag # all[i].tag}
<1>1. IsList(sets) /\ s \in ToSet(sets)
  <2> DEFINE places == {i \in DOMAIN d.sets : d.sets[i].enabled /\ SetTaken(d.sets[i], f)}
  <2>1. sets = Placed(d.sets, places)
    BY DEF TakenSets, Where
  <2>2. IsList(sets) /\ ToSet(sets) = {d.sets[i] : i \in places}
    BY <2>1, PlacedLists
  <2>3. \E i \in places : s = d.sets[i]
    BY DEF ToSet
  <2> QED BY <2>2, <2>3
<1>2. Rendered(d, f).sets = IF f = "singbox" THEN Placed(all, firsts) ELSE all
  BY DEF Rendered, WrittenSets, FullFormats, NodeFormats, FirstOfEach
<1> HIDE DEF sets
<1>3. PICK i \in DOMAIN sets : s = sets[i]
  BY <1>1 DEF ToSet
<1>4. /\ all = [k \in DOMAIN sets |-> all[k]] /\ DOMAIN all = DOMAIN sets
      /\ \A k \in DOMAIN sets : all[k].id = sets[k].id /\ all[k].tag = Tag(sets[k], f)
  OBVIOUS
<1> HIDE DEF all
<1>5. IsList(all) /\ RowIds(all) = RowIds(sets)
  BY <1>1, <1>4, MappedRows
<1>6. f = "singbox"
  BY <1>1, <1>2, <1>5 DEF RowIds
<1>7. Len(all) \in Nat /\ DOMAIN all = 1..Len(all)
  BY <1>5, ListPlaces
<1> DEFINE same == {k \in 1..Len(all) : all[k].tag = all[i].tag}
<1>8. PICK k \in same : \A l \in same : k <= l
  <2>1. same \in SUBSET (1..Len(all)) /\ same # {}
    BY <1>3, <1>4, <1>7
  <2> HIDE DEF same
  <2> QED BY <1>7, <2>1, FirstIsIn
<1>9. k \in firsts /\ all[k].tag = all[i].tag
  BY <1>7, <1>8
<1>10. all[k] \in ToSet(Rendered(d, f).sets)
  <2>1. ToSet(Placed(all, firsts)) = {all[l] : l \in firsts}
    BY <1>5, PlacedLists
  <2> QED BY <1>2, <1>6, <1>9, <2>1
<1>11. all[k].tag = SafeName(s.name)
  BY <1>3, <1>4, <1>6, <1>9 DEF Tag, Mapped
<1> QED BY <1>6, <1>10, <1>11

(* What a preview tells beside its file is what was found of the export.    *)
KnownInv ==
  (req.at \in {"preflight", "render"} /\ ForFile) \/ Served =>
    req.known = Told /\ IsList(req.data.nodes)

LEMMA KnownStart == ServingInit => KnownInv
BY IdleParts DEF ServingInit, ServingFrom, KnownInv, Served

(* A step that neither passes the checks nor hands out a file.              *)
LEMMA KnownElsewhere ==
  ASSUME req'.at \notin {"preflight", "render"}, ~Served'
  PROVE  KnownInv'
BY DEF KnownInv

LEMMA KnownRefused ==
  ASSUME ServingInv, NEW what, what # "served", Answer(what)
  PROVE  KnownInv'
<1>1. req'.at = "answered" /\ req'.answer = what
  BY IdleParts DEF ServingInv, RequestOK, Answer
<1> QED BY <1>1, KnownElsewhere DEF Served

LEMMA KnownInductive == ServingInv /\ KnownInv /\ [ServingNext]_servingVars => KnownInv'
<1> SUFFICES ASSUME ServingInv, KnownInv, [ServingNext]_servingVars PROVE KnownInv'
  OBVIOUS
<1>1. CASE Asked
  <2>1. PICK route \in {"link", "download", "preview"}, format \in Formats : Ask(route, format)
    BY <1>1 DEF Asked
  <2>2. req'.at = "profile"
    BY <2>1, IdleParts DEF Ask
  <2> QED BY <2>2, KnownElsewhere DEF Served
<1>2. CASE FollowUrl
  <2>1. req'.at = "profile"
    BY <1>2, IdleParts DEF FollowUrl, ServingInv, RequestOK
  <2> QED BY <2>1, KnownElsewhere DEF Served
<1>3. CASE FindProfile
  <2>1. CASE Answer("unavailable")
    BY <2>1, KnownRefused
  <2>2. CASE req' = [req EXCEPT !.at = "settings", !.got = [profile |-> ws.profile]]
    <3>1. req'.at = "settings"
      BY <2>2, IdleParts DEF ServingInv, RequestOK
    <3> QED BY <3>1, KnownElsewhere DEF Served
  <2> QED BY <1>3, <2>1, <2>2 DEF FindProfile
<1>4. CASE Read
  <2>1. PICK n \in (2..9) \cup {11} : req.at = Steps[n] /\ n \in DOMAIN Steps /\ n + 1 \in DOMAIN Steps
    BY <1>4, ReadsAre, StepsAre DEF Read
  <2>2. req'.at = Steps[n + 1]
    BY <1>4, <2>1, StepsInOrder, IdleParts DEF ServingInv, RequestOK, Read
  <2>3. req'.at \notin {"preflight", "render", "answered"}
    BY <2>1, <2>2, StepsAre
  <2> QED BY <2>3, KnownElsewhere DEF Served
<1>5. CASE Build
  <2>1. req'.at = "policy"
    BY <1>5, IdleParts DEF ServingInv, RequestOK, Build
  <2> QED BY <2>1, KnownElsewhere DEF Served
<1>6. CASE Check
  <2>1. CASE Answer("not ready")
    BY <2>1, KnownRefused
  <2>2. CASE req.route = "rules" /\ req' = [req EXCEPT !.at = "preflight"]
    <3>1. req'.at = "preflight" /\ req'.route = "rules"
      BY <2>2, IdleParts DEF ServingInv, RequestOK
    <3> QED BY <3>1 DEF KnownInv, ForFile, Served
  <2>3. CASE req.route # "rules" /\ req' = [req EXCEPT !.at = "preflight", !.known = Told]
    <3>1. /\ req'.data = req.data /\ req'.format = req.format /\ req'.route = req.route /\ req'.got = req.got
          /\ req'.known = Told
      BY <2>3, IdleParts DEF ServingInv, RequestOK
    <3>2. IsList(req.data.nodes)
      <4>1. DataIn(req.data, around)
        BY <1>6, <2>3, DataKept DEF Check, AfterBuild, ForFile
      <4> QED BY <4>1 DEF DataIn, RowsIn
    <3> QED BY <3>1, <3>2 DEF KnownInv, Told, Data
  <2> QED BY <1>6, <2>1, <2>2, <2>3 DEF Check
<1>7. CASE Convert
  <2>1. CASE Answer("incomplete")
    BY <2>1, KnownRefused
  <2>2. CASE req' = [req EXCEPT !.at = "render"]
    <3>1. /\ req'.data = req.data /\ req'.format = req.format /\ req'.route = req.route /\ req'.got = req.got
          /\ req'.known = req.known
      BY <2>2, IdleParts DEF ServingInv, RequestOK
    <3> QED BY <1>7, <3>1 DEF KnownInv, Told, Data, Convert, ForFile
  <2> QED BY <1>7, <2>1, <2>2 DEF Convert
<1>8. CASE Render
  <2> DEFINE file == Rendered(Data, req.format)
  <2>1. CASE Answer("invalid")
    BY <2>1, KnownRefused
  <2>2. CASE req' = [req EXCEPT !.at = "answered", !.answer = "served", !.file = file]
    <3>1. /\ req'.data = req.data /\ req'.format = req.format /\ req'.route = req.route /\ req'.got = req.got
          /\ req'.known = req.known
      BY <2>2, IdleParts DEF ServingInv, RequestOK
    <3>2. req.at = "render" /\ ForFile
      BY <1>8 DEF Render, ServingInv, RequestOK
    <3> QED BY <3>1, <3>2 DEF KnownInv, Told, Data
  <2> QED BY <1>8, <2>1, <2>2 DEF Render
<1>9. CASE ServeRules
  <2>1. PICK what \in {"out of scope", "not required", "upstream unavailable", "incomplete", "rules"} : Answer(what)
    BY <1>9 DEF ServeRules
  <2> QED BY <2>1, KnownRefused
<1>10. CASE EditRows
  BY <1>10 DEF EditRows, KnownInv, Told, Data, Served, ForFile
<1>11. CASE UNCHANGED servingVars
  BY <1>11 DEF KnownInv, Told, Data, Served, ForFile, servingVars
<1> QED BY <1>1, <1>2, <1>3, <1>4, <1>5, <1>6, <1>7, <1>8, <1>9, <1>10, <1>11 DEF ServingNext, Handle, Finished

------------------------------------------------------------------------------
(* A request during which nothing is edited.  What it has read, what it     *)
(* makes of that and the file it is handed are those of the workspace as it *)
(* is; a client that follows an address of the file asks about the same     *)
(* export, and in strict mode nothing of it converts with losses.           *)

NowOf(w, k) ==
  CASE k = "profile" -> w.profile
    [] k = "settings" -> w.settings
    [] k = "nodes" -> NodesOn(w)
    [] k = "names" -> [s \in RowIds(w.sources) |-> s]
    [] k = "policy" -> w.settings.policy
    [] OTHER -> On(w[k])

ReadBefore(n) == {Steps[i] : i \in 1..(n - 1)}
Exported(w, f) == ExportData([k \in ExportReads |-> NowOf(w, k)], w.profile, f)

Found(w, r) ==
  /\ w.profile.enabled /\ (r.route \in {"download", "preview"} \/ w.profile.token = r.token)
  /\ w.profile.default \/ w.profile.format = r.format
PolicyIn(profile, policy) == IF profile.policy # None THEN profile.policy ELSE policy
Strict(w) == PolicyIn(w.profile, w.settings.policy) = "strict"
Whole(w, f) == \A id \in Preflight(Exported(w, f), f) : RowOf(w.sets, id).upstream = "whole"

(* The addresses in the file made of an export.                             *)
Addresses(d, f) == {url \in {ConvertedUrl(s, f) : s \in ToSet(TakenSets(d, f))} : url.to # None}

SteadyReads(w, r) ==
  \A n \in 2..10 : r.at = Steps[n] => Found(w, r) /\ r.got = [k \in ReadBefore(n) |-> NowOf(w, k)]
SteadyData(w, r) ==
  r.at \in AfterBuild =>
    /\ Found(w, r) /\ r.got.profile = w.profile /\ r.data = Exported(w, r.format)
    /\ r.at # "policy" => r.got.policy = w.settings.policy
SteadyFile(w, r) ==
  /\ r.at = "render" => (Strict(w) => Whole(w, r.format))
  /\ r.at = "answered" /\ r.answer = "served" =>
       /\ Found(w, r) /\ r.file = Rendered(Exported(w, r.format), r.format)
       /\ Strict(w) => Whole(w, r.format)
SteadyAddress(w, r) ==
  r.route = "rules" /\ r.at # "answered" =>
    /\ Found(w, r) /\ r.format \in FullFormats
    /\ r.url \in Addresses(Exported(w, r.format), r.format)
    /\ Strict(w) => Whole(w, r.format)
SteadyAnswer(r) ==
  r.route = "rules" /\ r.at = "answered" =>
    /\ r.answer \in {"rules", "incomplete", "upstream unavailable"}
    /\ r.answer # "rules" => PolicyIn(r.got.profile, r.got.policy) # "strict"
Steady(w, r) ==
  SteadyReads(w, r) /\ SteadyData(w, r) /\ SteadyFile(w, r) /\ SteadyAddress(w, r) /\ SteadyAnswer(r)

SteadyInv == quiet => Steady(ws, req)

(* The client an address is for is the one the file was made for.           *)
LEMMA AddressSaysClient ==
  ASSUME NEW f \in FullFormats, NEW s, SetTaken(s, f), ConvertedUrl(s, f).to # None
  PROVE  /\ IsConverted(s, f)
         /\ PublishedFormat(s, f) # "none"
         /\ ConvertedUrl(s, f).id = s.id
         /\ ConvertedUrl(s, f).to = ConversionTarget(PublishedFormat(s, f), f) /\ ConvertedUrl(s, f).to # "none"
         /\ f = IF ConvertedUrl(s, f).for = None THEN ConvertedUrl(s, f).to ELSE ConvertedUrl(s, f).for
<1> DEFINE to == ConversionTarget(PublishedFormat(s, f), f)
<1>1. IsConverted(s, f)
  BY DEF ConvertedUrl
<1>2. PublishedFormat(s, f) # "none" /\ to # "none"
  BY <1>1 DEF SetTaken, IsConverted
<1>3. to \in {"singbox", "mihomo", f} /\ (to = "singbox" => f = "singbox")
  BY <1>2 DEF ConversionTarget
<1> HIDE DEF to
<1>4. ConvertedUrl(s, f) = [id |-> s.id, to |-> to, for |-> IF to = "mihomo" /\ f # "mihomo" THEN f ELSE None]
  BY <1>1 DEF ConvertedUrl, to
<1>5. None # f
  BY ServingAssumption DEF Formats
<1> QED BY <1>1, <1>2, <1>3, <1>4, <1>5 DEF to

LEMMA TakenAre ==
  ASSUME NEW d, IsList(d.sets), NEW f
  PROVE  IsList(TakenSets(d, f))
         /\ ToSet(TakenSets(d, f)) = {s \in ToSet(d.sets) : s.enabled /\ SetTaken(s, f)}
<1> DEFINE places == {i \in DOMAIN d.sets : d.sets[i].enabled /\ SetTaken(d.sets[i], f)}
<1>1. TakenSets(d, f) = Placed(d.sets, places)
  BY DEF TakenSets, Where
<1>2. IsList(TakenSets(d, f)) /\ ToSet(TakenSets(d, f)) = {d.sets[i] : i \in places}
  BY <1>1, PlacedLists
<1>3. {d.sets[i] : i \in places} = {s \in ToSet(d.sets) : s.enabled /\ SetTaken(s, f)}
  BY DEF ToSet
<1> QED BY <1>2, <1>3

LEMMA FileAddresses ==
  ASSUME NEW d, IsList(d.sets), NEW f \in FullFormats, NEW set \in ToSet(Rendered(d, f).sets), set.url.to # None
  PROVE  set.url \in Addresses(d, f)
<1> DEFINE sets == TakenSets(d, f)
           all == [i \in DOMAIN sets |-> [id |-> sets[i].id, tag |-> Tag(sets[i], f), url |-> ConvertedUrl(sets[i], f)]]
           first == FirstOfEach(all, LAMBDA s : s.tag)
<1>1. IsList(sets)
  BY TakenAre
<1>2. Rendered(d, f).sets \in {all, first}
  BY DEF Rendered, WrittenSets, FullFormats, NodeFormats
<1> HIDE DEF sets
<1>3. /\ all = [i \in DOMAIN sets |-> all[i]] /\ DOMAIN all = DOMAIN sets
      /\ \A i \in DOMAIN sets : all[i].id = sets[i].id /\ all[i].url = ConvertedUrl(sets[i], f)
  OBVIOUS
<1> HIDE DEF all
<1>4. IsList(all)
  BY <1>1, <1>3, MappedRows
<1>5. ToSet(first) \subseteq ToSet(all)
  BY <1>4, PlacedMembers DEF FirstOfEach
<1> HIDE DEF first
<1>6. PICK i \in DOMAIN sets : set = all[i]
  <2>1. set \in ToSet(all)
    BY <1>2, <1>5
  <2>2. DOMAIN all = DOMAIN sets
    BY <1>3
  <2> QED BY <2>1, <2>2 DEF ToSet
<1>7. set.url = ConvertedUrl(sets[i], f) /\ sets[i] \in ToSet(sets)
  BY <1>3, <1>6 DEF ToSet
<1> QED BY <1>7 DEF Addresses, sets

(* The endpoint answers for every address of the export.                    *)
LEMMA AddressesAnswer ==
  ASSUME NEW d, "sets" \in DOMAIN d, IsList(d.sets), \A x, y \in ToSet(d.sets) : x.id = y.id => x = y,
         NEW f \in FullFormats, NEW url \in Addresses(d, f)
  PROVE  LET set == RowOf(d.sets, url.id) IN
         /\ {s \in ToSet(d.sets) : s.id = url.id /\ s.enabled} # {}
         /\ Preflight([d EXCEPT !.sets = <<set>>], f) # {} /\ set.id \in Preflight(d, f)
         /\ ConversionTarget(PublishedFormat(set, f), f) = url.to
<1> DEFINE set == RowOf(d.sets, url.id)
<1>1. PICK s \in ToSet(d.sets) : s.enabled /\ SetTaken(s, f) /\ url = ConvertedUrl(s, f) /\ url.to # None
  BY TakenAre DEF Addresses
<1>2. /\ IsConverted(s, f) /\ PublishedFormat(s, f) # "none" /\ url.id = s.id
      /\ url.to = ConversionTarget(PublishedFormat(s, f), f) /\ url.to # "none"
  BY <1>1, AddressSaysClient
<1>3. set \in ToSet(d.sets) /\ set.id = url.id
  BY <1>1, <1>2 DEF RowOf
<1> HIDE DEF set
<1>4. set = s
  BY <1>1, <1>2, <1>3
<1> DEFINE one == [d EXCEPT !.sets = <<set>>]
<1>5. set.id \in Preflight(d, f)
  BY <1>1, <1>2, <1>4 DEF Preflight
<1>6. set.id \in Preflight(one, f)
  <2>1. one.sets = <<set>> /\ set \in ToSet(<<set>>)
    BY DEF ToSet
  <2> HIDE DEF one
  <2> QED BY <1>1, <1>2, <1>4, <2>1 DEF Preflight
<1> QED BY <1>1, <1>2, <1>3, <1>4, <1>5, <1>6 DEF set

LEMMA ExportedSets ==
  ASSUME IsWorkspace(ws), NEW f
  PROVE  LET d == Exported(ws, f) IN
         "sets" \in DOMAIN d /\ IsList(d.sets) /\ \A x, y \in ToSet(d.sets) : x.id = y.id => x = y
<1> DEFINE got == [k \in ExportReads |-> NowOf(ws, k)]
           d == Exported(ws, f)
<1>1. got.groups = On(ws.groups) /\ got.rules = On(ws.rules) /\ got.sets = On(ws.sets)
  BY ReadsAre DEF NowOf
<1>2. d = ExportData(got, ws.profile, f)
  BY DEF Exported
<1> HIDE DEF got
<1>3. ReadRows("groups", got.groups) /\ ReadRows("rules", got.rules) /\ ReadRows("sets", got.sets)
  BY <1>1, ReadRowsOfWorkspace
<1>4. Aimed(d, got)
  BY <1>2, <1>3, ExportIsAimed
<1>5. "sets" \in DOMAIN d
  BY <1>2 DEF ExportData
<1> HIDE DEF d
<1> QED BY <1>3, <1>4, <1>5 DEF Aimed, ReadRows, d

LEMMA GotIsNow == \A k : k # "profile" => Got(k) = NowOf(ws, k)
BY DEF Got, NowOf

LEMMA EarlySteps ==
  \A n \in 2..10 : Steps[n] \in {"settings", "nodes", "pools", "groups", "rules", "sets", "names", "sources", "build"}
<1> SUFFICES ASSUME NEW n \in 2..10
             PROVE  Steps[n] \in {"settings", "nodes", "pools", "groups", "rules", "sets", "names", "sources", "build"}
  OBVIOUS
<1>1. n = 2 \/ n = 3 \/ n = 4 \/ n = 5 \/ n = 6 \/ n = 7 \/ n = 8 \/ n = 9 \/ n = 10
  OBVIOUS
<1> QED BY <1>1, StepsAre

(* A request that has not begun to read, or was answered without a file.    *)
LEMMA NothingSteady ==
  ASSUME NEW w, NEW r, r.at \in {"idle", "profile", "answered"}, r.answer # "served" \/ r.at # "answered", r.route # "rules"
  PROVE  Steady(w, r)
<1>1. \A n \in 2..10 : Steps[n] \notin {"idle", "profile", "answered"}
  BY EarlySteps
<1> QED BY <1>1 DEF Steady, SteadyReads, SteadyData, SteadyFile, SteadyAddress, SteadyAnswer, AfterBuild

LEMMA SteadyStart == ServingInit => SteadyInv
<1> SUFFICES ASSUME ServingInit PROVE Steady(ws, req)
  BY DEF SteadyInv
<1>1. req = Idle
  BY DEF ServingInit, ServingFrom
<1> QED BY <1>1, IdleParts, NothingSteady

(* A request keeps to the address it follows.                               *)
LEMMA SteadyOnTheWay ==
  ASSUME NEW w, NEW r, NEW q, SteadyAddress(w, r), q.route = r.route, q.url = r.url, q.format = r.format,
         q.token = r.token, r.at # "answered"
  PROVE  SteadyAddress(w, q) /\ (Found(w, q) <=> Found(w, r))
BY DEF SteadyAddress, Found

LEMMA SteadyRead ==
  ASSUME ServingInv, Steady(ws, req), Read
  PROVE  Steady(ws, req')
<1>1. PICK n \in (2..9) \cup {11} : req.at = Steps[n] /\ n \in DOMAIN Steps /\ n + 1 \in DOMAIN Steps
  BY ReadsAre, StepsAre DEF Read
<1> DEFINE got == [k \in DOMAIN req.got \cup {req.at} |-> IF k = req.at THEN Got(k) ELSE req.got[k]]
<1>2. /\ req'.at = Steps[n + 1] /\ req'.got = got /\ req'.data = req.data /\ req'.format = req.format
      /\ req'.route = req.route /\ req'.url = req.url /\ req'.token = req.token
  BY <1>1, StepsInOrder, IdleParts DEF ServingInv, RequestOK, Read
<1>3. req'.at \in {"nodes", "pools", "groups", "rules", "sets", "names", "sources", "build", "check"}
      /\ req.at \notin {"profile", "answered"}
  BY <1>1, <1>2, StepsAre
<1>4. SteadyAddress(ws, req') /\ (Found(ws, req') <=> Found(ws, req))
  BY <1>2, <1>3, SteadyOnTheWay DEF Steady
<1>5. SteadyFile(ws, req') /\ SteadyAnswer(req')
  BY <1>3 DEF SteadyFile, SteadyAnswer
<1>6. Got(req.at) = NowOf(ws, req.at)
  BY <1>3, GotIsNow
<1>7. CASE n \in 2..9
  <2>1. Found(ws, req) /\ req.got = [k \in ReadBefore(n) |-> NowOf(ws, k)]
    BY <1>1, <1>7 DEF Steady, SteadyReads
  <2>2. ReadBefore(n + 1) = ReadBefore(n) \cup {req.at}
    <3>1. 1..(n + 1 - 1) = 1..(n - 1) \cup {n}
      BY <1>7
    <3> QED BY <1>1, <3>1 DEF ReadBefore
  <2>3. got = [k \in ReadBefore(n + 1) |-> NowOf(ws, k)]
    <3>1. DOMAIN req.got = ReadBefore(n) /\ \A k \in ReadBefore(n) : req.got[k] = NowOf(ws, k)
      BY <2>1
    <3>2. \A k \in ReadBefore(n) \cup {req.at} : (IF k = req.at THEN Got(k) ELSE req.got[k]) = NowOf(ws, k)
      BY <1>6, <3>1
    <3> QED BY <2>2, <3>1, <3>2
  <2> HIDE DEF got
  <2>4. SteadyReads(ws, req')
    <3> SUFFICES ASSUME NEW m \in 2..10, req'.at = Steps[m]
                 PROVE  Found(ws, req') /\ req'.got = [k \in ReadBefore(m) |-> NowOf(ws, k)]
      BY DEF SteadyReads
    <3>1. m \in DOMAIN Steps /\ Steps[m] = Steps[n + 1]
      BY <1>2, StepsAre
    <3>2. m = n + 1
      BY <1>1, <3>1, StepsDiffer
    <3> QED BY <1>2, <1>4, <2>1, <2>3, <3>2
  <2>5. req'.at \notin AfterBuild
    BY <1>2, <1>7, StepsAre DEF AfterBuild
  <2>6. SteadyData(ws, req')
    BY <2>5 DEF SteadyData
  <2> QED BY <1>4, <1>5, <2>4, <2>6 DEF Steady
<1>8. CASE n = 11
  <2>1. req.at = "policy" /\ req'.at = "check"
    BY <1>1, <1>2, <1>8, StepsAre
  <2>2. Found(ws, req) /\ req.got.profile = ws.profile /\ req.data = Exported(ws, req.format)
    BY <2>1 DEF Steady, SteadyData, AfterBuild
  <2>3. "profile" \in DOMAIN req.got
    BY <2>1, AllRead, ReadsAre DEF ServingInv, AfterBuild
  <2>4. got.profile = ws.profile /\ got.policy = ws.settings.policy
    BY <1>6, <2>1, <2>2, <2>3 DEF NowOf
  <2> HIDE DEF got
  <2>5. SteadyData(ws, req')
    BY <1>2, <1>4, <2>2, <2>4 DEF SteadyData
  <2>6. SteadyReads(ws, req')
    BY <2>1, EarlySteps DEF SteadyReads
  <2> QED BY <1>4, <1>5, <2>5, <2>6 DEF Steady
<1> QED BY <1>7, <1>8

LEMMA SteadyBuild ==
  ASSUME ServingInv, Steady(ws, req), Build
  PROVE  Steady(ws, req')
<1>1. /\ req'.at = "policy" /\ req'.got = req.got /\ req'.format = req.format
      /\ req'.route = req.route /\ req'.url = req.url /\ req'.token = req.token /\ req.at = "build"
      /\ req'.data = ExportData(req.got, req.got.profile, req.format)
  BY IdleParts DEF ServingInv, RequestOK, Build
<1>2. Found(ws, req) /\ req.got = [k \in ReadBefore(10) |-> NowOf(ws, k)]
  BY <1>1, StepsAre DEF Steady, SteadyReads
<1>3. ReadBefore(10) = ExportReads
  BY DEF ReadBefore, ExportReads
<1>4. req.got.profile = ws.profile
  BY <1>2, <1>3, ReadsAre DEF NowOf
<1>5. req'.data = Exported(ws, req.format)
  BY <1>1, <1>2, <1>3, <1>4 DEF Exported
<1>6. SteadyAddress(ws, req') /\ (Found(ws, req') <=> Found(ws, req))
  BY <1>1, SteadyOnTheWay DEF Steady
<1>7. SteadyData(ws, req')
  BY <1>1, <1>2, <1>4, <1>5, <1>6 DEF SteadyData
<1>8. SteadyReads(ws, req') /\ SteadyFile(ws, req') /\ SteadyAnswer(req')
  BY <1>1, EarlySteps DEF SteadyReads, SteadyFile, SteadyAnswer
<1> QED BY <1>6, <1>7, <1>8 DEF Steady

(* A refusal ends the request; for a converted set there is none that the   *)
(* file does not allow for.                                                 *)
LEMMA SteadyRefused ==
  ASSUME ServingInv, NEW what, what # "served", Answer(what),
         req.route = "rules" =>
           /\ what \in {"rules", "incomplete", "upstream unavailable"}
           /\ what # "rules" => PolicyIn(req.got.profile, req.got.policy) # "strict"
  PROVE  Steady(ws, req')
<1>1. req'.at = "answered" /\ req'.answer = what /\ req'.route = req.route /\ req'.got = req.got
  BY IdleParts DEF ServingInv, RequestOK, Answer
<1>2. \A n \in 2..10 : Steps[n] # "answered"
  BY EarlySteps
<1> QED BY <1>1, <1>2 DEF Steady, SteadyReads, SteadyData, SteadyFile, SteadyAddress, SteadyAnswer, AfterBuild

LEMMA SteadyFind ==
  ASSUME ServingInv, Steady(ws, req), FindProfile
  PROVE  Steady(ws, req')
<1>1. req.at = "profile"
  BY DEF FindProfile
<1>2. CASE ~Found(ws, req)
  <2>1. Answer("unavailable")
    BY <1>2 DEF FindProfile, Found
  <2>2. req.route # "rules"
    BY <1>1, <1>2 DEF Steady, SteadyAddress
  <2> QED BY <2>1, <2>2, SteadyRefused
<1>3. CASE Found(ws, req)
  <2>1. req' = [req EXCEPT !.at = "settings", !.got = [profile |-> ws.profile]]
    BY <1>3 DEF FindProfile, Found
  <2>2. /\ req'.at = "settings" /\ req'.got = [profile |-> ws.profile] /\ req'.format = req.format
        /\ req'.route = req.route /\ req'.url = req.url /\ req'.token = req.token
    BY <2>1, IdleParts DEF ServingInv, RequestOK
  <2>3. SteadyAddress(ws, req') /\ (Found(ws, req') <=> Found(ws, req))
    BY <1>1, <2>2, SteadyOnTheWay DEF Steady
  <2>4. ReadBefore(2) = {"profile"}
    <3>1. 1..(2 - 1) = {1}
      OBVIOUS
    <3> QED BY <3>1, StepsAre DEF ReadBefore
  <2>5. req'.got = [k \in ReadBefore(2) |-> NowOf(ws, k)]
    BY <2>2, <2>4 DEF NowOf
  <2>6. SteadyReads(ws, req')
    <3> SUFFICES ASSUME NEW m \in 2..10, req'.at = Steps[m]
                 PROVE  Found(ws, req') /\ req'.got = [k \in ReadBefore(m) |-> NowOf(ws, k)]
      BY DEF SteadyReads
    <3>1. m \in DOMAIN Steps /\ 2 \in DOMAIN Steps /\ Steps[m] = Steps[2]
      BY <2>2, StepsAre
    <3>2. m = 2
      BY <3>1, StepsDiffer
    <3> QED BY <1>3, <2>3, <2>5, <3>2
  <2>7. SteadyData(ws, req') /\ SteadyFile(ws, req') /\ SteadyAnswer(req')
    BY <2>2 DEF SteadyData, SteadyFile, SteadyAnswer, AfterBuild
  <2> QED BY <2>3, <2>6, <2>7 DEF Steady
<1> QED BY <1>2, <1>3

(* From one of the last steps to the next.                                  *)
LEMMA SteadyLater ==
  ASSUME Steady(ws, req), req.at \in {"check", "preflight"}, req'.at \in {"preflight", "render"},
         req'.got = req.got, req'.data = req.data, req'.format = req.format,
         req'.route = req.route, req'.url = req.url, req'.token = req.token,
         req'.at = "render" => (Strict(ws) => Whole(ws, req.format))
  PROVE  Steady(ws, req')
<1>1. SteadyAddress(ws, req') /\ (Found(ws, req') <=> Found(ws, req))
  BY SteadyOnTheWay DEF Steady
<1>2. SteadyData(ws, req')
  BY <1>1 DEF Steady, SteadyData, AfterBuild
<1>3. SteadyReads(ws, req')
  BY EarlySteps DEF SteadyReads
<1>4. SteadyFile(ws, req') /\ SteadyAnswer(req')
  BY DEF SteadyFile, SteadyAnswer
<1> QED BY <1>1, <1>2, <1>3, <1>4 DEF Steady

LEMMA SteadyCheck ==
  ASSUME ServingInv, Steady(ws, req), Check
  PROVE  Steady(ws, req')
<1>1. req.at = "check"
  BY DEF Check
<1>2. CASE Answer("not ready") /\ req.route # "rules"
  BY <1>2, SteadyRefused
<1>3. CASE ~(Answer("not ready") /\ req.route # "rules")
  <2>1. \/ req' = [req EXCEPT !.at = "preflight"]
        \/ req' = [req EXCEPT !.at = "preflight", !.known = Told]
    BY <1>3 DEF Check
  <2>2. /\ req'.at = "preflight" /\ req'.got = req.got /\ req'.data = req.data /\ req'.format = req.format
        /\ req'.route = req.route /\ req'.url = req.url /\ req'.token = req.token
    BY <2>1, IdleParts DEF ServingInv, RequestOK
  <2> QED BY <1>1, <2>2, SteadyLater
<1> QED BY <1>2, <1>3

(* What was read of the policy and of the sets is what the workspace has.   *)
LEMMA PolicyRead ==
  ASSUME Steady(ws, req), req.at \in {"check", "preflight", "render"}
  PROVE  /\ req.data = Exported(ws, req.format)
         /\ Policy = PolicyIn(req.got.profile, req.got.policy) /\ (Policy = "strict" <=> Strict(ws))
BY DEF Steady, SteadyData, AfterBuild, Policy, PolicyIn, Strict

LEMMA SteadyConvert ==
  ASSUME ServingInv, Steady(ws, req), Convert
  PROVE  Steady(ws, req')
<1>1. req.at = "preflight" /\ req.route # "rules"
  BY DEF Convert
<1>2. CASE Answer("incomplete")
  BY <1>1, <1>2, SteadyRefused
<1>3. CASE ~Answer("incomplete")
  <2>1. /\ req' = [req EXCEPT !.at = "render"]
        /\ ~(Policy = "strict" /\ \E id \in Preflight(Data, req.format) : Conversion(id) # "whole")
    BY <1>3 DEF Convert
  <2>2. Strict(ws) => Whole(ws, req.format)
    BY <1>1, <2>1, PolicyRead DEF Whole, Conversion, Data
  <2>3. /\ req'.at = "render" /\ req'.got = req.got /\ req'.data = req.data /\ req'.format = req.format
        /\ req'.route = req.route /\ req'.url = req.url /\ req'.token = req.token
    BY <2>1, IdleParts DEF ServingInv, RequestOK
  <2> QED BY <1>1, <2>2, <2>3, SteadyLater
<1> QED BY <1>2, <1>3

LEMMA SteadyRender ==
  ASSUME ServingInv, Steady(ws, req), Render
  PROVE  Steady(ws, req')
<1> DEFINE file == Rendered(Data, req.format)
<1>1. req.at = "render" /\ req.route # "rules"
  BY DEF Render, ServingInv, RequestOK, ForFile
<1>2. CASE Answer("invalid")
  BY <1>1, <1>2, SteadyRefused
<1>3. CASE req' = [req EXCEPT !.at = "answered", !.answer = "served", !.file = file]
  <2>1. /\ req'.at = "answered" /\ req'.file = file /\ req'.format = req.format
        /\ req'.route = req.route /\ req'.url = req.url /\ req'.token = req.token
    BY <1>3, IdleParts DEF ServingInv, RequestOK
  <2>2. SteadyAddress(ws, req') /\ (Found(ws, req') <=> Found(ws, req))
    BY <1>1, <2>1, SteadyOnTheWay DEF Steady
  <2>3. /\ Found(ws, req) /\ file = Rendered(Exported(ws, req.format), req.format)
        /\ Strict(ws) => Whole(ws, req.format)
    BY <1>1, PolicyRead DEF Steady, SteadyData, SteadyFile, AfterBuild, Data
  <2>4. SteadyFile(ws, req')
    BY <2>1, <2>2, <2>3 DEF SteadyFile
  <2>5. SteadyReads(ws, req') /\ SteadyData(ws, req') /\ SteadyAnswer(req')
    BY <1>1, <2>1, EarlySteps DEF SteadyReads, SteadyData, SteadyAnswer, AfterBuild
  <2> QED BY <2>2, <2>4, <2>5 DEF Steady
<1> QED BY <1>2, <1>3 DEF Render

LEMMA SteadyServeRules ==
  ASSUME ServingInv, Steady(ws, req), ServeRules
  PROVE  Steady(ws, req')
<1> DEFINE d == req.data
           f == req.format
           set == RowOf(d.sets, req.url.id)
<1>1. req.at = "preflight" /\ req.route = "rules"
  BY DEF ServeRules
<1>2. /\ d = Exported(ws, f) /\ Policy = PolicyIn(req.got.profile, req.got.policy)
      /\ Policy = "strict" => Whole(ws, f)
      /\ f \in FullFormats /\ req.url \in Addresses(d, f)
  BY <1>1, PolicyRead DEF Steady, SteadyAddress
<1> HIDE DEF d, f
<1>3. "sets" \in DOMAIN d /\ IsList(d.sets) /\ \A x, y \in ToSet(d.sets) : x.id = y.id => x = y
  BY <1>2, ExportedSets DEF ServingInv
<1>4. /\ {s \in ToSet(d.sets) : s.id = req.url.id /\ s.enabled} # {}
      /\ Preflight([d EXCEPT !.sets = <<set>>], f) # {} /\ set.id \in Preflight(d, f)
      /\ ConversionTarget(PublishedFormat(set, f), f) = req.url.to
  BY <1>2, <1>3, AddressesAnswer
<1>5. Policy = "strict" => Conversion(set.id) = "whole"
  BY <1>2, <1>4 DEF Whole, Conversion
<1>6. IF Conversion(set.id) = "down" THEN Answer("upstream unavailable")
      ELSE IF Policy = "strict" /\ Conversion(set.id) = "partial" THEN Answer("incomplete")
      ELSE Answer("rules")
  BY <1>4 DEF ServeRules, Data, d, f
<1>7. CASE Answer("rules")
  BY <1>7, SteadyRefused
<1>8. CASE Answer("upstream unavailable") /\ Policy # "strict"
  BY <1>2, <1>8, SteadyRefused
<1>9. Answer("rules") \/ (Answer("upstream unavailable") /\ Policy # "strict")
  BY <1>5, <1>6
<1> QED BY <1>7, <1>8, <1>9

LEMMA SteadyFollow ==
  ASSUME ServingInv, Steady(ws, req), FollowUrl
  PROVE  Steady(ws, req')
<1>1. PICK set \in ToSet(req.file.sets) :
        /\ set.url.to # None
        /\ req' = [req EXCEPT !.at = "profile", !.route = "rules", !.url = set.url, !.got = <<>>, !.data = <<>>,
                              !.format = IF set.url.for = None THEN set.url.to ELSE set.url.for]
  BY DEF FollowUrl
<1>2. /\ req'.at = "profile" /\ req'.route = "rules" /\ req'.url = set.url /\ req'.token = req.token
      /\ req'.format = IF set.url.for = None THEN set.url.to ELSE set.url.for
  BY <1>1, IdleParts DEF ServingInv, RequestOK
<1> DEFINE f == req.format
           d == Exported(ws, f)
<1>3. /\ Found(ws, req) /\ req.file = Rendered(d, f) /\ (Strict(ws) => Whole(ws, f)) /\ req.route = "link"
  BY DEF FollowUrl, Steady, SteadyFile
<1>4. IsList(d.sets)
  BY ExportedSets DEF ServingInv
<1>5. f \in FullFormats
  <2>1. CASE f \in NodeFormats
    <3>1. req.file.sets = <<>>
      BY <1>3, <2>1 DEF Rendered
    <3> QED BY <3>1 DEF ToSet
  <2> QED BY <2>1 DEF ServingInv, RequestOK, Formats
<1> HIDE DEF d, f
<1>6. set.url \in Addresses(d, f)
  BY <1>1, <1>3, <1>4, <1>5, FileAddresses
<1>7. req'.format = f
  <2>1. PICK s \in ToSet(TakenSets(d, f)) : set.url = ConvertedUrl(s, f)
    BY <1>6 DEF Addresses
  <2>2. SetTaken(s, f)
    BY <1>4, <2>1, TakenAre
  <2> QED BY <1>1, <1>2, <1>5, <2>1, <2>2, AddressSaysClient
<1>8. Found(ws, req')
  BY <1>2, <1>3, <1>7 DEF Found, f
<1>9. SteadyAddress(ws, req')
  BY <1>2, <1>3, <1>5, <1>6, <1>7, <1>8 DEF SteadyAddress, d
<1>10. SteadyReads(ws, req') /\ SteadyData(ws, req') /\ SteadyFile(ws, req') /\ SteadyAnswer(req')
  BY <1>2, EarlySteps DEF SteadyReads, SteadyData, SteadyFile, SteadyAnswer, AfterBuild
<1> QED BY <1>9, <1>10 DEF Steady

LEMMA SteadyInductive == ServingInv /\ SteadyInv /\ [ServingNext]_servingVars => SteadyInv'
<1> SUFFICES ASSUME ServingInv, SteadyInv, [ServingNext]_servingVars, quiet' PROVE Steady(ws', req')
  BY DEF SteadyInv
<1>1. CASE Asked
  <2>1. PICK route \in {"link", "download", "preview"}, format \in Formats : Ask(route, format)
    BY <1>1 DEF Asked
  <2>2. req'.at = "profile" /\ req'.route = route
    BY <2>1, IdleParts DEF Ask
  <2> QED BY <2>2, NothingSteady
<1>2. CASE FollowUrl \/ Handle
  <2>1. ws' = ws /\ quiet' = quiet
    BY <1>2 DEF FollowUrl, Handle, FindProfile, Read, Build, Check, Convert, Render, ServeRules
  <2>2. Steady(ws, req)
    BY <2>1 DEF SteadyInv
  <2>3. Steady(ws, req')
    BY <1>2, <2>2, SteadyFollow, SteadyFind, SteadyRead, SteadyBuild, SteadyCheck, SteadyConvert, SteadyRender,
       SteadyServeRules DEF Handle
  <2> QED BY <2>1, <2>3
<1>3. CASE EditRows
  BY <1>3 DEF EditRows
<1>4. CASE UNCHANGED servingVars
  BY <1>4 DEF servingVars, SteadyInv
<1> QED BY <1>1, <1>2, <1>3, <1>4 DEF ServingNext, Finished

(* A client that follows the address of a converted rule set in its file is *)
(* answered for that set, unless the workspace was edited in between.       *)
THEOREM AddressesOfFilesAnswer == ServingSpec => []ConvertedUrlsAnswer
<1>1. SteadyInv => ConvertedUrlsAnswer
  BY DEF SteadyInv, Steady, SteadyAnswer, ConvertedUrlsAnswer, Followed
<1> QED BY <1>1, ServingStart, ServingInductive, SteadyStart, SteadyInductive, PTL DEF ServingSpec

(* What a file lacks of its export the operator who previews it is told,    *)
(* unless the settings switch that off, whatever is edited meanwhile; in    *)
(* strict mode no converted rule set a client fetches has losses.           *)
THEOREM LossesAreTold == ServingSpec => []NothingIsLostSilently
<1>1. ASSUME ServingInv, AimInv, KnownInv, SteadyInv PROVE NothingIsLostSilently
  <2>1. ASSUME Followed, quiet, req.answer \notin {"rules", "unavailable"} PROVE Policy # "strict"
    <3>1. PolicyIn(req.got.profile, req.got.policy) # "strict"
      BY <1>1, <2>1 DEF SteadyInv, Steady, SteadyAnswer, Followed
    <3> QED BY <3>1 DEF Policy, PolicyIn
  <2> DEFINE d == req.data
             f == req.format
             told == {w.id : w \in req.known}
  <2>2. ASSUME Served, f \in FullFormats, req.route = "preview", req.got.settings.shown
        PROVE  /\ \A n \in ToSet(d.nodes) : n.id \notin RowIds(req.file.nodes) => (n.complete => n.id \in told)
               /\ \A x \in ToSet(d.rules) : x.id \notin RowIds(req.file.rules) => (x.type # "MATCH" => x.id \in told)
               /\ \A s \in ToSet(d.sets) : s.id \notin RowIds(req.file.sets) =>
                    s.id \in told \/ (f = "singbox" /\ \E kept \in ToSet(req.file.sets) : kept.tag = SafeName(s.name))
    <3>1. /\ Aimed(d, req.got) /\ ReadRows("rules", req.got.rules) /\ ReadRows("sets", req.got.sets)
          /\ req.file = Rendered(d, f)
      BY <1>1, <2>2 DEF AimInv, Aiming
    <3>2. req.known = ExportWarnings(d, f, TRUE) /\ IsList(d.nodes)
      <4>1. req.known = ExportWarnings(d, f, req.got.settings.shown) /\ IsList(d.nodes)
        BY <1>1, <2>2 DEF KnownInv, Told, Data
      <4> QED BY <2>2, <4>1 DEF ExportWarnings
    <3> HIDE DEF d, f
    <3>3. IsList(d.rules) /\ IsList(d.sets)
      BY <3>1 DEF Aimed
    <3>4. \A x \in ToSet(d.rules) : x.type # "MATCH" => x.type \in RuleTypes \ {"MATCH"} /\ x.enabled
      BY <3>1 DEF Aimed, ReadRows
    <3>5. \A s \in ToSet(d.sets) : s.enabled
      BY <3>1 DEF Aimed, ReadRows
    <3>6. \A n \in ToSet(d.nodes) : n.id \notin RowIds(req.file.nodes) => (n.complete => n.id \in told)
      BY <2>2, <3>1, <3>2, MissingNodes
    <3>7. \A x \in ToSet(d.rules) : x.id \notin RowIds(req.file.rules) => (x.type # "MATCH" => x.id \in told)
      BY <2>2, <3>1, <3>2, <3>3, <3>4, MissingRules
    <3>8. \A s \in ToSet(d.sets) : s.id \notin RowIds(req.file.sets) =>
            s.id \in told \/ (f = "singbox" /\ \E kept \in ToSet(req.file.sets) : kept.tag = SafeName(s.name))
      <4> SUFFICES ASSUME NEW s \in ToSet(d.sets), s.id \notin RowIds(req.file.sets), s.id \notin told
                   PROVE  f = "singbox" /\ \E kept \in ToSet(req.file.sets) : kept.tag = SafeName(s.name)
        OBVIOUS
      <4>1. s.id \notin RowIds(Rendered(d, f).sets) /\ s.id \notin {w.id : w \in ExportWarnings(d, f, TRUE)}
        BY <3>1, <3>2
      <4>2. f = "singbox" /\ \E kept \in ToSet(Rendered(d, f).sets) : kept.tag = SafeName(s.name)
        BY <2>2, <3>3, <3>5, <4>1, MissingSets
      <4> QED BY <3>1, <4>2
    <3> QED BY <3>6, <3>7, <3>8
  <2> QED BY <2>1, <2>2 DEF NothingIsLostSilently, FullFile, Data
<1> QED BY <1>1, ServingStart, ServingInductive, AimStart, AimInductive, KnownStart, KnownInductive,
        SteadyStart, SteadyInductive, PTL DEF ServingSpec

------------------------------------------------------------------------------
(* The nodes of policy groups.  Through filters, names, deduplication and   *)
(* sorting a row of a node group stays the connection of a node the request *)
(* has read, and of each connection the export keeps one row.  The name a   *)
(* node group has for a connection is therefore that of this row.           *)

Alike(row, n) ==
  {"id", "protocol", "endpoint", "secret"} \subseteq DOMAIN row /\ row.id = n.id /\ Fingerprint(row) = Fingerprint(n)
FromNodes(rows, nodes) == IsList(rows) /\ \A row \in ToSet(rows) : \E n \in ToSet(nodes) : Alike(row, n)

LEMMA SomeNodes ==
  ASSUME NEW rows, NEW nodes, FromNodes(rows, nodes), NEW kept, IsList(kept), ToSet(kept) \subseteq ToSet(rows)
  PROVE  FromNodes(kept, nodes)
BY DEF FromNodes

LEMMA RenamingKeepsNodes ==
  ASSUME NEW rows, NEW nodes, FromNodes(rows, nodes), NEW f, Renaming(f, rows)
  PROVE  /\ FromNodes(f, nodes) /\ DOMAIN f = DOMAIN rows
         /\ \A i \in DOMAIN rows : Fingerprint(f[i]) = Fingerprint(rows[i])
<1>1. Len(rows) \in Nat /\ DOMAIN rows = 1..Len(rows) /\ \A i \in DOMAIN rows : rows[i] \in ToSet(rows)
  BY ListPlaces DEF FromNodes
<1>2. f = [i \in 1..Len(rows) |-> f[i]]
  BY <1>1 DEF Renaming
<1>3. IsList(f) /\ DOMAIN f = DOMAIN rows
  BY <1>1, <1>2, ListsAre
<1>4. \A row, n, name : Alike(row, n) =>
         Alike([row EXCEPT !.name = name], n) /\ Fingerprint([row EXCEPT !.name = name]) = Fingerprint(row)
  BY DEF Alike, Fingerprint
<1>5. ASSUME NEW i \in DOMAIN rows
      PROVE  Fingerprint(f[i]) = Fingerprint(rows[i]) /\ \E n \in ToSet(nodes) : Alike(f[i], n)
  <2>1. PICK n \in ToSet(nodes) : Alike(rows[i], n)
    BY <1>1 DEF FromNodes
  <2>2. CASE f[i] = rows[i]
    BY <2>1, <2>2
  <2>3. ASSUME NEW name, f[i] = [rows[i] EXCEPT !.name = name]
        PROVE  Fingerprint(f[i]) = Fingerprint(rows[i]) /\ Alike(f[i], n)
    BY <1>4, <2>1, <2>3
  <2> QED BY <2>1, <2>2, <2>3 DEF Renaming
<1>6. ToSet(f) = {f[i] : i \in DOMAIN rows}
  BY <1>3 DEF ToSet
<1> QED BY <1>3, <1>5, <1>6 DEF FromNodes

LEMMA TransformedNodes ==
  ASSUME NEW rows, NEW nodes, FromNodes(rows, nodes), NEW pool, IsList(pool.sort.countries), IsList(Alphabet)
  PROVE  FromNodes(Transformed(rows, pool), nodes)
<1> DEFINE filtered == Filtered(rows, pool.filters)
           renamed == Renamed(filtered, pool.rename)
           first == FirstOfEach(renamed, LAMBDA n : DedupKey(n, pool.dedup))
<1>1. IsList(rows)
  BY DEF FromNodes
<1>2. IsList(filtered) /\ ToSet(filtered) \subseteq ToSet(rows)
  BY <1>1, PlacedLists, PlacedMembers DEF Filtered, Where
<1>3. FromNodes(filtered, nodes)
  BY <1>2, SomeNodes
<1> HIDE DEF filtered
<1>4. FromNodes(renamed, nodes)
  BY <1>2, <1>3, RenamedAre, RenamingKeepsNodes
<1> HIDE DEF renamed
<1>5. IsList(renamed)
  BY <1>4 DEF FromNodes
<1>6. IsList(first) /\ ToSet(first) \subseteq ToSet(renamed)
  BY <1>5, PlacedLists, PlacedMembers DEF FirstOfEach
<1>7. FromNodes(first, nodes)
  BY <1>4, <1>6, SomeNodes
<1> HIDE DEF first
<1>8. IsList(Sorted(first, pool.sort)) /\ ToSet(Sorted(first, pool.sort)) \subseteq ToSet(first)
  BY <1>6, SortedAre
<1>9. FromNodes(Sorted(first, pool.sort), nodes)
  BY <1>7, <1>8, SomeNodes
<1> QED BY <1>9 DEF Transformed, first, renamed, filtered

LEMMA PoolNodes ==
  ASSUME NEW nodes, FromNodes(nodes, nodes), NEW pools, IsList(Alphabet),
         \A pool \in ToSet(pools) : IsList(pool.sort.countries)
  PROVE  \A p \in DOMAIN PoolRows(nodes, pools) : FromNodes(PoolRows(nodes, pools)[p], nodes)
<1> SUFFICES ASSUME NEW p \in RowIds(pools) PROVE FromNodes(PoolRows(nodes, pools)[p], nodes)
  BY DEF PoolRows
<1> DEFINE pool == RowOf(pools, p)
           own == Where(nodes, LAMBDA n : InPool(n, pool))
<1>1. pool \in ToSet(pools)
  BY DEF RowOf, RowIds
<1>2. PoolRows(nodes, pools)[p] = Transformed(own, pool)
  BY DEF PoolRows
<1> HIDE DEF pool
<1>3. IsList(own) /\ ToSet(own) \subseteq ToSet(nodes)
  BY PlacedLists, PlacedMembers DEF Where, FromNodes
<1>4. FromNodes(own, nodes)
  BY <1>3, SomeNodes
<1> HIDE DEF own
<1> QED BY <1>1, <1>2, <1>4, TransformedNodes

(* No two places of an export hold the same connection.                     *)
LEMMA FirstConnections ==
  ASSUME NEW rows, IsList(rows)
  PROVE  \A i, j \in DOMAIN FirstOfEach(rows, Fingerprint) :
           Fingerprint(FirstOfEach(rows, Fingerprint)[i]) = Fingerprint(FirstOfEach(rows, Fingerprint)[j]) => i = j
<1> DEFINE places == {i \in DOMAIN rows : \A j \in 1..(i - 1) : Fingerprint(rows[j]) # Fingerprint(rows[i])}
           first == Placed(rows, places)
<1> SUFFICES ASSUME NEW i \in DOMAIN first, NEW j \in DOMAIN first, Fingerprint(first[i]) = Fingerprint(first[j])
             PROVE  i = j
  BY DEF FirstOfEach
<1>1. DOMAIN rows \subseteq Nat \ {0}
  BY ListPlaces
<1>2. \A a, b \in places : Fingerprint(rows[a]) = Fingerprint(rows[b]) => a = b
  BY <1>1
<1>3. PICK a, b \in places : first[i] = rows[a] /\ first[j] = rows[b] /\ (a = b => i = j)
  <2>1. places \in SUBSET DOMAIN rows
    OBVIOUS
  <2> HIDE DEF places
  <2> QED BY <2>1, PlacedOnce
<1> QED BY <1>2, <1>3

(* Dropping what repeats loses nothing.                                     *)
LEMMA DistinctKeepsAll ==
  ASSUME NEW rows, IsList(rows)
  PROVE  IsList(FirstOfEach(rows, LAMBDA x : x)) /\ ToSet(FirstOfEach(rows, LAMBDA x : x)) = ToSet(rows)
<1> DEFINE places == {i \in DOMAIN rows : \A j \in 1..(i - 1) : rows[j] # rows[i]}
<1>1. FirstOfEach(rows, LAMBDA x : x) = Placed(rows, places)
  BY DEF FirstOfEach
<1>2. IsList(Placed(rows, places)) /\ ToSet(Placed(rows, places)) = {rows[i] : i \in places}
  BY PlacedLists
<1>3. Len(rows) \in Nat /\ DOMAIN rows = 1..Len(rows)
  BY ListPlaces
<1>4. ASSUME NEW i \in DOMAIN rows PROVE \E a \in places : rows[a] = rows[i]
  <2> DEFINE same == {j \in 1..Len(rows) : rows[j] = rows[i]}
  <2>1. same \in SUBSET (1..Len(rows)) /\ same # {}
    BY <1>3
  <2>2. PICK a \in same : \A b \in same : a <= b
    <3> HIDE DEF same
    <3> QED BY <1>3, <2>1, FirstIsIn
  <2>3. a \in places
    BY <1>3, <2>2
  <2> QED BY <2>2, <2>3
<1>5. {rows[i] : i \in places} = ToSet(rows)
  BY <1>4 DEF ToSet
<1> QED BY <1>1, <1>2, <1>5

(* A node group knows a connection by the name of the row the export kept   *)
(* for it.                                                                  *)
KeptOnce(exported) ==
  \A i, j \in DOMAIN exported : Fingerprint(exported[i]) = Fingerprint(exported[j]) => i = j

OwnIds(nodes) == \A x, y \in ToSet(nodes) : x.id = y.id => x = y

KnownAs(names, rows, exported) ==
  /\ IsList(names)
  /\ \A m : m \in ToSet(names) <=>
       \E row \in ToSet(rows), x \in ToSet(exported) : Fingerprint(x) = Fingerprint(row) /\ x.name = m

LEMMA PoolNamesAre ==
  ASSUME NEW nodes, OwnIds(nodes),
         NEW poolRows, NEW p \in DOMAIN poolRows, FromNodes(poolRows[p], nodes),
         NEW exported, FromNodes(exported, nodes), KeptOnce(exported)
  PROVE  KnownAs(CollectionNames(poolRows, exported)[p], poolRows[p], exported)
<1> DEFINE rows == poolRows[p]
           Same(row) == IF row.id \in RowIds(exported) THEN {x \in ToSet(exported) : x.id = row.id}
                        ELSE {x \in ToSet(exported) : Fingerprint(x) = Fingerprint(row)}
           NameOf(row) == (CHOOSE x \in Same(row) : TRUE).name
           places == {i \in DOMAIN rows : Same(rows[i]) # {}}
           kept == Placed(rows, places)
           found == [i \in DOMAIN kept |-> NameOf(kept[i])]
           names == FirstOfEach(found, LAMBDA n : n)
<1>1. CollectionNames(poolRows, exported)[p] = names
  BY DEF CollectionNames, Where
<1>2. \A x, y \in ToSet(exported) : Fingerprint(x) = Fingerprint(y) => x = y
  BY DEF KeptOnce, ToSet
<1>3. ASSUME NEW row \in ToSet(rows)
      PROVE  /\ \A x \in Same(row) : x \in ToSet(exported) /\ Fingerprint(x) = Fingerprint(row)
             /\ \A x \in ToSet(exported) : Fingerprint(x) = Fingerprint(row) => Same(row) # {} /\ NameOf(row) = x.name
  <2>1. PICK n \in ToSet(nodes) : Alike(row, n)
    BY DEF FromNodes
  <2>2. ASSUME NEW x \in Same(row) PROVE x \in ToSet(exported) /\ Fingerprint(x) = Fingerprint(row)
    <3>1. x \in ToSet(exported) /\ (x.id = row.id \/ Fingerprint(x) = Fingerprint(row))
      OBVIOUS
    <3>2. PICK m \in ToSet(nodes) : Alike(x, m)
      BY <3>1 DEF FromNodes
    <3> QED BY <2>1, <3>1, <3>2 DEF Alike, OwnIds
  <2>3. ASSUME NEW x \in ToSet(exported), Fingerprint(x) = Fingerprint(row)
        PROVE  Same(row) # {} /\ NameOf(row) = x.name
    <3>1. Same(row) # {}
      BY <2>3 DEF RowIds
    <3> DEFINE y == CHOOSE z \in Same(row) : TRUE
    <3>2. y \in Same(row)
      BY <3>1
    <3> HIDE DEF y
    <3>3. y = x
      BY <1>2, <2>2, <2>3, <3>2
    <3> QED BY <3>1, <3>3 DEF y
  <2> QED BY <2>2, <2>3
<1> HIDE DEF Same
<1>4. IsList(rows) /\ places \in SUBSET DOMAIN rows
  BY DEF FromNodes
<1>5. IsList(kept) /\ ToSet(kept) = {rows[i] : i \in places}
  BY <1>4, PlacedLists
<1>6. {rows[i] : i \in places} = {row \in ToSet(rows) : Same(row) # {}}
  BY DEF ToSet
<1> HIDE DEF kept, rows, places, NameOf
<1>7. IsList(found) /\ ToSet(found) = {NameOf(row) : row \in ToSet(kept)}
  <2>1. Len(kept) \in Nat /\ DOMAIN kept = 1..Len(kept)
    BY <1>5, ListPlaces
  <2>2. found = [i \in 1..Len(kept) |-> found[i]] /\ DOMAIN found = DOMAIN kept
    BY <2>1
  <2>3. ToSet(found) = {NameOf(row) : row \in ToSet(kept)}
    BY DEF ToSet
  <2> HIDE DEF found
  <2> QED BY <2>1, <2>2, <2>3, ListsAre
<1> HIDE DEF found
<1>8. IsList(names) /\ ToSet(names) = ToSet(found)
  BY <1>7, DistinctKeepsAll
<1> HIDE DEF names
<1>9. ASSUME NEW m
      PROVE  m \in ToSet(names) <=>
               \E row \in ToSet(rows), x \in ToSet(exported) : Fingerprint(x) = Fingerprint(row) /\ x.name = m
  <2>1. ASSUME m \in ToSet(names)
        PROVE  \E row \in ToSet(rows), x \in ToSet(exported) : Fingerprint(x) = Fingerprint(row) /\ x.name = m
    <3>1. PICK row \in ToSet(rows) : Same(row) # {} /\ m = NameOf(row)
      BY <1>5, <1>6, <1>7, <1>8, <2>1
    <3>2. PICK x \in Same(row) : TRUE
      BY <3>1
    <3>3. x \in ToSet(exported) /\ Fingerprint(x) = Fingerprint(row)
      BY <1>3, <3>2
    <3> QED BY <1>3, <3>1, <3>3
  <2>2. ASSUME NEW row \in ToSet(rows), NEW x \in ToSet(exported), Fingerprint(x) = Fingerprint(row), x.name = m
        PROVE  m \in ToSet(names)
    <3>1. Same(row) # {} /\ m = NameOf(row)
      BY <1>3, <2>2
    <3> QED BY <1>5, <1>6, <1>7, <1>8, <3>1
  <2> QED BY <2>1, <2>2
<1> QED BY <1>1, <1>8, <1>9 DEF rows, KnownAs

(* What a request has read of nodes and node groups, and the nodes, names   *)
(* and groups of an export made of it.                                      *)
ReadNodes(nodes) ==
  /\ IsList(nodes) /\ OwnIds(nodes) /\ \A n \in ToSet(nodes) : n \in StoredNode
ReadPools(pools) == \A pool \in ToSet(pools) : IsList(pool.sort.countries)

Pooled(d, got) ==
  /\ FromNodes(d.nodes, got.nodes) /\ KeptOnce(d.nodes)
  /\ d.poolNames = CollectionNames(PoolRows(got.nodes, got.pools), d.nodes)
  /\ \A g \in ToSet(d.groups) : \E h \in ToSet(got.groups) : h.id = g.id /\ (h.pools # <<>> => g = h)

LEMMA ExportIsPooled ==
  ASSUME NEW got, ReadNodes(got.nodes), ReadPools(got.pools), ReadRows("groups", got.groups),
         NEW config, IsFiniteSet(config.pools), NEW format, IsList(Alphabet)
  PROVE  Pooled(ExportData(got, config, format), got)
<1> DEFINE poolRows == PoolRows(got.nodes, got.pools)
           linked == LinkedGroups(got.groups, got.settings.prefer)
           rules == Picked(got.rules, config.rules)
           sets == Picked(got.sets, config.sets)
           final == FinalTarget(got.settings)
           groups == ExportGroups(linked, config, rules, sets, final)
           scope == ScopePools(config, groups, format)
           nodeRows == IF scope = <<>> THEN got.nodes ELSE MergedRows(poolRows, scope)
           first == FirstOfEach(nodeRows, Fingerprint)
           nodes == ExportNames(first, got.names, got.settings.naming)
           d == ExportData(got, config, format)
<1>1. d.nodes = nodes /\ d.groups = groups /\ d.poolNames = CollectionNames(poolRows, nodes)
  BY DEF ExportData
<1> HIDE DEF d
<1>2. FromNodes(got.nodes, got.nodes)
  BY DEF FromNodes, Alike, ReadNodes, StoredNode
<1>3. \A p \in DOMAIN poolRows : FromNodes(poolRows[p], got.nodes)
  BY <1>2, PoolNodes DEF ReadPools
<1>4. /\ RowsIn(got.groups, RowIds(got.groups))
      /\ \A g \in ToSet(got.groups) : "pools" \in DOMAIN g /\ IsList(g.pools)
  <2>1. \A g \in StoredGroup : "id" \in DOMAIN g /\ "pools" \in DOMAIN g /\ g.pools \in Seq(Text)
    BY DEF StoredGroup
  <2> QED BY <2>1, SequencesAreLists DEF ReadRows, RowsIn, RowIds
<1>5. RowsIn(linked, RowIds(got.groups)) /\ \A g \in ToSet(linked) : IsList(g.pools)
  BY <1>4, LinkedRows
<1>6. ASSUME NEW g \in ToSet(linked)
      PROVE  \E h \in ToSet(got.groups) : h.id = g.id /\ (h.pools # <<>> => g = h)
  <2>1. linked = [i \in DOMAIN got.groups |-> linked[i]]
    BY DEF LinkedGroups
  <2>2. PICK i \in DOMAIN got.groups : g = linked[i]
    BY <2>1 DEF ToSet
  <2> DEFINE h == got.groups[i]
  <2>3. h \in ToSet(got.groups) /\ h \in StoredGroup
    BY DEF ReadRows, ToSet
  <2>4. g = IF IsRoutingGroup(h) THEN [h EXCEPT !.groupIds = SortedOutlets(got.groups, h, got.settings.prefer)] ELSE h
    BY <2>2 DEF LinkedGroups
  <2> HIDE DEF h
  <2>5. h.pools # <<>> => g = h
    BY <2>4 DEF IsRoutingGroup
  <2>6. g.id = h.id
    BY <2>3, <2>4 DEF StoredGroup
  <2> QED BY <2>3, <2>5, <2>6
<1> HIDE DEF linked, poolRows
<1>7. RowsIn(groups, RowIds(got.groups)) /\ ToSet(groups) \subseteq ToSet(linked)
  BY <1>5, ScopedGroups
<1> HIDE DEF groups
<1>8. IsList(scope)
  BY <1>5, <1>7, ScopeIsList DEF RowsIn
<1> HIDE DEF scope
<1>9. FromNodes(nodeRows, got.nodes)
  <2>1. \A p \in DOMAIN poolRows : IsList(poolRows[p])
    BY <1>3 DEF FromNodes
  <2>2. /\ IsList(MergedRows(poolRows, scope))
        /\ ToSet(MergedRows(poolRows, scope)) \subseteq UNION {ToSet(poolRows[p]) : p \in DOMAIN poolRows}
    BY <1>8, <2>1, MergedAre
  <2>3. FromNodes(MergedRows(poolRows, scope), got.nodes)
    BY <1>3, <2>2 DEF FromNodes
  <2> QED BY <1>2, <2>3
<1> HIDE DEF nodeRows
<1>10. FromNodes(first, got.nodes) /\ KeptOnce(first)
  <2>1. IsList(nodeRows)
    BY <1>9 DEF FromNodes
  <2>2. IsList(first) /\ ToSet(first) \subseteq ToSet(nodeRows)
    BY <2>1, PlacedLists, PlacedMembers DEF FirstOfEach
  <2>3. KeptOnce(first)
    BY <2>1, FirstConnections DEF KeptOnce
  <2> QED BY <1>9, <2>2, <2>3, SomeNodes
<1> HIDE DEF first
<1>11. FromNodes(nodes, got.nodes) /\ KeptOnce(nodes)
  <2>1. Renaming(nodes, first)
    BY <1>10, NamedAre DEF FromNodes
  <2> HIDE DEF nodes
  <2>2. FromNodes(nodes, got.nodes) /\ DOMAIN nodes = DOMAIN first
        /\ \A i \in DOMAIN first : Fingerprint(nodes[i]) = Fingerprint(first[i])
    BY <1>10, <2>1, RenamingKeepsNodes
  <2> QED BY <1>10, <2>2 DEF KeptOnce
<1> HIDE DEF nodes
<1> QED BY <1>1, <1>6, <1>7, <1>11 DEF Pooled, d, poolRows

(* A group that uses node groups offers their names, those of the groups it *)
(* lists, the policies built in, and one name when it would be empty.       *)
LEMMA MembersOfPools ==
  ASSUME NEW g \in StoredGroup, g.pools # <<>>, NEW d, IsList(d.groups),
         \A p \in DOMAIN d.poolNames : IsList(d.poolNames[p]),
         NEW written, IsList(written), NEW f, NEW m, m # DIRECT, m \notin ToSet(g.builtins),
         \A h \in ToSet(d.groups) : m # PolicyName(h), \E n \in ToSet(written) : n.name = m
  PROVE  m \in ToSet(GroupMembers(g, d, written, f)) <=>
           \E p \in ToSet(g.pools) \cap DOMAIN d.poolNames : m \in ToSet(d.poolNames[p])
<1> DEFINE listed == Where(g.groupIds, LAMBDA id : id \in RowIds(d.groups))
           nested == [i \in DOMAIN listed |-> PolicyName(RowOf(d.groups, listed[i]))]
           names == {n.name : n \in ToSet(written)}
           OfPool(p) == IF p \in DOMAIN d.poolNames
                        THEN Where(d.poolNames[p], LAMBDA n : n \in names) ELSE <<>>
           lists == [i \in DOMAIN g.pools |-> OfPool(g.pools[i])]
           ofPools == Joined(lists)
           Kept(x) == f = "singbox" => x # REJECT
           own == Where(g.builtins \o nested, Kept)
           members == FirstOfEach(own \o ofPools, LAMBDA x : x)
<1>1. GroupMembers(g, d, written, f) = IF members = <<>> THEN <<DIRECT>> ELSE members
  BY DEF GroupMembers
<1>2. IsList(g.groupIds) /\ IsList(g.pools) /\ IsList(g.builtins)
  BY SequencesAreLists DEF StoredGroup
<1>3. IsList(listed) /\ \A i \in DOMAIN listed : listed[i] \in RowIds(d.groups)
  <2> DEFINE places == {i \in DOMAIN g.groupIds : g.groupIds[i] \in RowIds(d.groups)}
  <2>1. listed = Placed(g.groupIds, places)
    BY DEF Where
  <2>2. IsList(Placed(g.groupIds, places)) /\ ToSet(Placed(g.groupIds, places)) = {g.groupIds[i] : i \in places}
    BY <1>2, PlacedLists
  <2> HIDE DEF listed
  <2> QED BY <2>1, <2>2 DEF ToSet
<1> HIDE DEF listed
<1>4. IsList(nested) /\ m \notin ToSet(nested)
  <2>1. Len(listed) \in Nat /\ DOMAIN listed = 1..Len(listed)
    BY <1>3, ListPlaces
  <2>2. nested = [i \in 1..Len(listed) |-> nested[i]]
    BY <2>1
  <2>3. \A i \in DOMAIN listed : RowOf(d.groups, listed[i]) \in ToSet(d.groups)
    BY <1>3 DEF RowOf, RowIds
  <2>4. m \notin ToSet(nested)
    BY <2>3 DEF ToSet
  <2> HIDE DEF nested
  <2> QED BY <2>1, <2>2, <2>4, ListsAre
<1> HIDE DEF nested
<1>5. IsList(own) /\ m \notin ToSet(own)
  <2>1. IsList(g.builtins \o nested) /\ ToSet(g.builtins \o nested) = ToSet(g.builtins) \cup ToSet(nested)
    BY <1>2, <1>4, JoinedMembers
  <2> DEFINE both == g.builtins \o nested
  <2> HIDE DEF both
  <2>2. IsList(Where(both, Kept)) /\ ToSet(Where(both, Kept)) \subseteq ToSet(both)
    BY <2>1, PlacedLists, PlacedMembers DEF Where, both
  <2> QED BY <1>4, <2>1, <2>2 DEF both
<1> HIDE DEF own
<1>6. ASSUME NEW p \in DOMAIN d.poolNames
      PROVE  IsList(OfPool(p)) /\ ToSet(OfPool(p)) = ToSet(d.poolNames[p]) \cap names
  <2> DEFINE rows == d.poolNames[p]
             places == {i \in DOMAIN rows : rows[i] \in names}
  <2>1. OfPool(p) = Placed(rows, places)
    BY DEF Where
  <2>2. IsList(Placed(rows, places)) /\ ToSet(Placed(rows, places)) = {rows[i] : i \in places}
    BY PlacedLists
  <2>3. {rows[i] : i \in places} = ToSet(rows) \cap names
    BY DEF ToSet
  <2> QED BY <2>1, <2>2, <2>3
<1>7. \A p : p \notin DOMAIN d.poolNames => IsList(OfPool(p)) /\ ToSet(OfPool(p)) = {}
  BY DEF IsList, ToSet
<1> HIDE DEF OfPool
<1>8. IsList(ofPools) /\ ToSet(ofPools) = UNION {ToSet(OfPool(p)) : p \in ToSet(g.pools)}
  <2>1. Len(g.pools) \in Nat /\ DOMAIN g.pools = 1..Len(g.pools)
    BY <1>2, ListPlaces
  <2>2. lists = [i \in 1..Len(g.pools) |-> lists[i]] /\ DOMAIN lists = DOMAIN g.pools
    BY <2>1
  <2>3. \A i \in DOMAIN lists : lists[i] = OfPool(g.pools[i])
    OBVIOUS
  <2> HIDE DEF lists
  <2>4. IsList(lists) /\ \A i \in DOMAIN lists : IsList(lists[i])
    BY <1>6, <1>7, <2>1, <2>2, <2>3, ListsAre
  <2>5. IsList(ofPools) /\ ToSet(ofPools) = UNION {ToSet(lists[i]) : i \in DOMAIN lists}
    BY <2>4, JoinedLists
  <2>6. UNION {ToSet(lists[i]) : i \in DOMAIN lists} = UNION {ToSet(OfPool(p)) : p \in ToSet(g.pools)}
    <3>1. {lists[i] : i \in DOMAIN lists} = {OfPool(p) : p \in ToSet(g.pools)}
      BY <2>2, <2>3 DEF ToSet
    <3> QED BY <3>1
  <2> QED BY <2>5, <2>6
<1>9. m \in names
  OBVIOUS
<1>10. m \in ToSet(ofPools) <=> \E p \in ToSet(g.pools) \cap DOMAIN d.poolNames : m \in ToSet(d.poolNames[p])
  BY <1>6, <1>7, <1>8, <1>9
<1> HIDE DEF ofPools, names
<1>11. IsList(members) /\ ToSet(members) = ToSet(own) \cup ToSet(ofPools)
  <2>1. IsList(own \o ofPools) /\ ToSet(own \o ofPools) = ToSet(own) \cup ToSet(ofPools)
    BY <1>5, <1>8, JoinedMembers
  <2> QED BY <2>1, DistinctKeepsAll
<1> HIDE DEF members
<1>12. m \in ToSet(GroupMembers(g, d, written, f)) <=> m \in ToSet(ofPools)
  <2>1. CASE members = <<>>
    <3>1. ToSet(<<DIRECT>>) = {DIRECT} /\ ToSet(<<>>) = {}
      BY DEF ToSet
    <3> QED BY <1>1, <1>11, <2>1, <3>1
  <2>2. CASE members # <<>>
    BY <1>1, <1>5, <1>11, <2>2
  <2> QED BY <2>1, <2>2
<1> QED BY <1>10, <1>12

(* A node that has no name of a policy, and one that the node groups of a   *)
(* policy group come to.                                                    *)
NoPolicy(got, g, n) ==
  /\ n.name # DIRECT /\ n.name \notin ToSet(RowOf(got.groups, g.id).builtins)
  /\ \A h \in ToSet(got.groups) : n.name # PolicyName(h)
IsOffered(got, g, n) ==
  \E p \in ToSet(RowOf(got.groups, g.id).pools) \cap DOMAIN PoolRows(got.nodes, got.pools) :
    \E row \in ToSet(PoolRows(got.nodes, got.pools)[p]) : Fingerprint(n) = Fingerprint(row)

LEMMA GroupsOfferTheirNodes ==
  ASSUME NEW d, NEW got, ReadNodes(got.nodes), ReadPools(got.pools), ReadRows("groups", got.groups),
         Pooled(d, got), Aimed(d, got), Namesakes(d) = {}, IsList(Alphabet), NEW f,
         NEW g \in ToSet(WrittenGroups(d, f)), NEW n \in ToSet(WrittenNodes(d, f)),
         RowOf(got.groups, g.id).pools # <<>>, NoPolicy(got, g, n)
  PROVE  n.name \in g.members <=> IsOffered(got, g, n)
<1> DEFINE poolRows == PoolRows(got.nodes, got.pools)
           h == RowOf(got.groups, g.id)
           policies == Where(d.groups, LAMBDA x : ~IsNative(x))
           written == WrittenNodes(d, f)
<1>1. FromNodes(d.nodes, got.nodes) /\ KeptOnce(d.nodes) /\ d.poolNames = CollectionNames(poolRows, d.nodes)
  BY DEF Pooled
<1>2. \A p \in DOMAIN poolRows : FromNodes(poolRows[p], got.nodes)
  <2>1. FromNodes(got.nodes, got.nodes)
    BY DEF FromNodes, Alike, ReadNodes, StoredNode
  <2> QED BY <2>1, PoolNodes DEF ReadPools
<1>3. IsList(written) /\ ToSet(written) \subseteq ToSet(d.nodes)
  BY <1>1, PlacedLists, PlacedMembers DEF WrittenNodes, Where, FromNodes
<1>4. IsList(policies) /\ ToSet(policies) \subseteq ToSet(d.groups) /\ IsList(d.groups)
  BY PlacedLists, PlacedMembers DEF Where, Aimed
<1>5. PICK x \in ToSet(d.groups) : g.id = x.id /\ g.members = ToSet(GroupMembers(x, d, written, f))
  <2> DEFINE all == [i \in DOMAIN policies |->
                       [id |-> policies[i].id, name |-> policies[i].name,
                        members |-> ToSet(GroupMembers(policies[i], d, written, f))]]
  <2>1. WrittenGroups(d, f) = all
    BY DEF WrittenGroups
  <2> HIDE DEF policies, written
  <2>2. PICK i \in DOMAIN policies : g = all[i]
    BY <2>1 DEF ToSet
  <2>3. policies[i] \in ToSet(d.groups)
    BY <1>4 DEF ToSet
  <2> QED BY <2>2, <2>3
<1>6. x = h /\ h \in StoredGroup
  <2>1. PICK k \in ToSet(got.groups) : k.id = x.id /\ (k.pools # <<>> => x = k)
    BY DEF Pooled
  <2>2. h \in ToSet(got.groups) /\ h.id = g.id
    BY <1>5, <2>1 DEF RowOf
  <2>3. h = k
    BY <1>5, <2>1, <2>2 DEF ReadRows
  <2> QED BY <2>1, <2>2, <2>3 DEF ReadRows
<1>7. \A y \in ToSet(d.groups) : n.name # PolicyName(y)
  <2> SUFFICES ASSUME NEW y \in ToSet(d.groups) PROVE n.name # PolicyName(y)
    OBVIOUS
  <2>1. PICK k \in ToSet(got.groups) : k.id = y.id /\ k.type = y.type /\ k.name = y.name
    BY DEF Aimed
  <2>2. PolicyName(y) = PolicyName(k)
    BY <2>1 DEF PolicyName
  <2> QED BY <2>2 DEF NoPolicy
<1>8. DOMAIN d.poolNames = DOMAIN poolRows
  BY <1>1 DEF CollectionNames
<1>9. ASSUME NEW p \in DOMAIN poolRows PROVE KnownAs(d.poolNames[p], poolRows[p], d.nodes)
  <2>1. OwnIds(got.nodes)
    BY DEF ReadNodes
  <2> HIDE DEF poolRows
  <2>2. FromNodes(poolRows[p], got.nodes)
    BY <1>2
  <2>3. KnownAs(CollectionNames(poolRows, d.nodes)[p], poolRows[p], d.nodes)
    BY <1>1, <2>1, <2>2, PoolNamesAre
  <2> QED BY <1>1, <2>3
<1>10. n \in ToSet(d.nodes) /\ \E y \in ToSet(written) : y.name = n.name
  BY <1>3
<1>11. \A y \in ToSet(d.nodes) : y.name = n.name => y = n
  <2> SUFFICES ASSUME NEW y \in ToSet(d.nodes), y.name = n.name, y # n PROVE FALSE
    OBVIOUS
  <2>1. PICK i \in DOMAIN d.nodes, j \in DOMAIN d.nodes : d.nodes[i] = y /\ d.nodes[j] = n
    BY <1>10 DEF ToSet
  <2>2. y.id \in Namesakes(d)
    BY <2>1 DEF Namesakes
  <2> QED BY <2>2
<1> HIDE DEF poolRows, h, policies, written
<1>12. n.name \in ToSet(GroupMembers(h, d, written, f)) <=>
         \E p \in ToSet(h.pools) \cap DOMAIN d.poolNames : n.name \in ToSet(d.poolNames[p])
  <2>1. h.pools # <<>> /\ n.name # DIRECT /\ n.name \notin ToSet(h.builtins)
    BY DEF h, NoPolicy
  <2>2. \A p \in DOMAIN d.poolNames : IsList(d.poolNames[p])
    BY <1>8, <1>9 DEF KnownAs
  <2> QED BY <1>3, <1>4, <1>6, <1>7, <1>10, <2>1, <2>2, MembersOfPools
<1>13. ASSUME NEW p \in DOMAIN poolRows
       PROVE  n.name \in ToSet(d.poolNames[p]) <=> \E row \in ToSet(poolRows[p]) : Fingerprint(n) = Fingerprint(row)
  <2>1. n.name \in ToSet(d.poolNames[p]) <=>
          \E row \in ToSet(poolRows[p]), y \in ToSet(d.nodes) : Fingerprint(y) = Fingerprint(row) /\ y.name = n.name
    <3>1. KnownAs(d.poolNames[p], poolRows[p], d.nodes)
      BY <1>9
    <3> QED BY <3>1 DEF KnownAs
  <2>2. \A row \in ToSet(poolRows[p]) :
          (\E y \in ToSet(d.nodes) : Fingerprint(y) = Fingerprint(row) /\ y.name = n.name)
            <=> Fingerprint(n) = Fingerprint(row)
    BY <1>10, <1>11
  <2> QED BY <2>1, <2>2
<1>14. n.name \in g.members <=>
         \E p \in ToSet(h.pools) \cap DOMAIN poolRows :
           \E row \in ToSet(poolRows[p]) : Fingerprint(n) = Fingerprint(row)
  BY <1>5, <1>6, <1>8, <1>12, <1>13
<1> QED BY <1>14 DEF h, poolRows, IsOffered

(* A request holds nodes and node groups as they were read, and an export   *)
(* made of them until its file is handed out.                               *)
Pooling(r) ==
  /\ "nodes" \in DOMAIN r.got => ReadNodes(r.got.nodes)
  /\ "pools" \in DOMAIN r.got => ReadPools(r.got.pools)
  /\ "profile" \in DOMAIN r.got => IsFiniteSet(r.got.profile.pools)
  /\ r.at \in AfterBuild \/ (r.at = "answered" /\ r.answer = "served") =>
       {"nodes", "pools"} \subseteq DOMAIN r.got /\ Pooled(r.data, r.got)
PoolInv == Pooling(req)

LEMMA PoolsRead ==
  ASSUME IsWorkspace(ws)
  PROVE  ReadNodes(Got("nodes")) /\ ReadPools(Got("pools")) /\ IsFiniteSet(ws.profile.pools)
<1>1. IsList(ws.nodes) /\ IsList(On(ws.nodes)) /\ ToSet(On(ws.nodes)) \subseteq ToSet(ws.nodes)
      /\ ToSet(On(ws.pools)) \subseteq ToSet(ws.pools)
  BY WorkspaceLists, OnAre DEF Tables
<1>2. \A x, y \in ToSet(ws.nodes) : x.id = y.id => x = y
  <2>1. \A i, j \in DOMAIN ws.nodes : ws.nodes[i].id = ws.nodes[j].id => i = j
    BY DEF IsWorkspace, Tables
  <2> QED BY <2>1 DEF ToSet
<1>3. \A n \in ToSet(ws.nodes) : n \in StoredNode
  BY SequencesAreLists DEF IsWorkspace
<1>4. IsList(NodesOn(ws)) /\ ToSet(NodesOn(ws)) \subseteq ToSet(ws.nodes)
  BY <1>1, PlacedLists, PlacedMembers DEF NodesOn, Where
<1>5. ReadNodes(NodesOn(ws))
  BY <1>2, <1>3, <1>4 DEF ReadNodes, OwnIds
<1>6. \A pool \in ToSet(ws.pools) : IsList(pool.sort.countries)
  <2>1. \A pool \in ToSet(ws.pools) : pool \in StoredPool
    BY SequencesAreLists DEF IsWorkspace
  <2>2. \A pool \in StoredPool : pool.sort.countries \in Seq(Text)
    BY DEF StoredPool
  <2> QED BY <2>1, <2>2, SequencesAreLists
<1>7. Got("nodes") = NodesOn(ws) /\ Got("pools") = On(ws.pools)
  BY DEF Got
<1> QED BY <1>1, <1>5, <1>6, <1>7 DEF ReadPools, IsWorkspace

LEMMA PoolStart == ServingInit => PoolInv
BY IdleParts DEF ServingInit, ServingFrom, PoolInv, Pooling, AfterBuild

(* A step that reads nothing.                                               *)
LEMMA PoolKept ==
  ASSUME PoolInv, req'.got = req.got,
         req'.at \in AfterBuild \/ (req'.at = "answered" /\ req'.answer = "served") =>
           req.at \in AfterBuild /\ req'.data = req.data
  PROVE  PoolInv'
BY DEF PoolInv, Pooling

LEMMA PoolRefused ==
  ASSUME ServingInv, PoolInv, NEW what, what # "served", Answer(what)
  PROVE  PoolInv'
<1>1. req'.got = req.got /\ req'.at = "answered" /\ req'.answer = what
  BY IdleParts DEF ServingInv, RequestOK, Answer
<1> QED BY <1>1, PoolKept DEF AfterBuild

LEMMA PoolReads ==
  ASSUME ServingInv, PoolInv, Read
  PROVE  PoolInv'
<1>1. PICK n \in (2..9) \cup {11} : req.at = Steps[n] /\ n \in DOMAIN Steps /\ n + 1 \in DOMAIN Steps
  BY ReadsAre, StepsAre DEF Read
<1> DEFINE got == [k \in DOMAIN req.got \cup {req.at} |-> IF k = req.at THEN Got(k) ELSE req.got[k]]
<1>2. req'.at = Steps[n + 1] /\ req'.got = got /\ req'.data = req.data
  BY <1>1, StepsInOrder, IdleParts DEF ServingInv, RequestOK, Read
<1>3. DOMAIN got = DOMAIN req.got \cup {req.at} /\ (\A k \in DOMAIN got : got[k] = IF k = req.at THEN Got(k) ELSE req.got[k])
  OBVIOUS
<1> HIDE DEF got
<1>4. req.at # "profile" /\ Steps[n + 1] # "answered" /\ (Steps[n + 1] \in AfterBuild => req.at = "policy")
  BY <1>1, StepsAre DEF AfterBuild
<1>5. /\ "nodes" \in DOMAIN got => ReadNodes(got["nodes"])
      /\ "pools" \in DOMAIN got => ReadPools(got["pools"])
      /\ "profile" \in DOMAIN got => IsFiniteSet(got["profile"].pools)
  BY <1>3, <1>4, PoolsRead DEF PoolInv, Pooling, ServingInv
<1>6. ASSUME req.at = "policy"
      PROVE  {"nodes", "pools"} \subseteq DOMAIN got /\ Pooled(req.data, got)
  <2>1. {"nodes", "pools"} \subseteq DOMAIN req.got /\ Pooled(req.data, req.got) /\ ExportReads \subseteq DOMAIN req.got
    BY <1>6, AllRead DEF PoolInv, Pooling, AfterBuild, ServingInv
  <2>2. got["nodes"] = req.got["nodes"] /\ got["pools"] = req.got["pools"] /\ got["groups"] = req.got["groups"]
    BY <1>3, <1>6, <2>1, ReadsAre
  <2> QED BY <1>3, <2>1, <2>2 DEF Pooled
<1> QED BY <1>2, <1>4, <1>5, <1>6 DEF PoolInv, Pooling

LEMMA PoolBuilds ==
  ASSUME ServingInv, AimInv, PoolInv, Build
  PROVE  PoolInv'
<1>1. req'.at = "policy" /\ req'.got = req.got /\ req'.data = ExportData(req.got, req.got.profile, req.format)
  BY IdleParts DEF ServingInv, RequestOK, Build
<1>2. ExportReads \subseteq DOMAIN req.got
  BY AllRead DEF ServingInv, Build
<1>3. /\ {"nodes", "pools"} \subseteq DOMAIN req.got /\ ReadNodes(req.got.nodes) /\ ReadPools(req.got.pools)
      /\ IsFiniteSet(req.got.profile.pools)
  BY <1>2, ReadsAre DEF PoolInv, Pooling
<1>4. ReadRows("groups", req.got.groups)
  BY <1>2, ReadsAre DEF AimInv, Aiming
<1>5. IsList(Alphabet)
  BY ServingAssumption, SequencesAreLists
<1>6. Pooled(req'.data, req.got)
  BY <1>1, <1>3, <1>4, <1>5, ExportIsPooled
<1> QED BY <1>1, <1>3, <1>6 DEF PoolInv, Pooling

LEMMA PoolInductive == ServingInv /\ AimInv /\ PoolInv /\ [ServingNext]_servingVars => PoolInv'
<1> SUFFICES ASSUME ServingInv, AimInv, PoolInv, [ServingNext]_servingVars PROVE PoolInv'
  OBVIOUS
<1>1. CASE Asked
  <2>1. PICK route \in {"link", "download", "preview"}, format \in Formats : Ask(route, format)
    BY <1>1 DEF Asked
  <2>2. req'.at = "profile" /\ req'.got = Idle.got
    BY <2>1, IdleParts DEF Ask
  <2> QED BY <2>2, IdleParts DEF PoolInv, Pooling, AfterBuild
<1>2. CASE FollowUrl
  <2>1. req'.at = "profile" /\ req'.got = <<>>
    BY <1>2, IdleParts DEF FollowUrl, ServingInv, RequestOK
  <2> QED BY <2>1 DEF PoolInv, Pooling, AfterBuild
<1>3. CASE FindProfile
  <2>1. CASE Answer("unavailable")
    BY <2>1, PoolRefused
  <2>2. CASE req' = [req EXCEPT !.at = "settings", !.got = [profile |-> ws.profile]]
    <3>1. req'.at = "settings" /\ req'.got = [profile |-> ws.profile]
      BY <2>2, IdleParts DEF ServingInv, RequestOK
    <3> QED BY <3>1, PoolsRead DEF PoolInv, Pooling, AfterBuild, ServingInv
  <2> QED BY <1>3, <2>1, <2>2 DEF FindProfile
<1>4. CASE Read
  BY <1>4, PoolReads
<1>5. CASE Build
  BY <1>5, PoolBuilds
<1>6. CASE Check
  <2>1. CASE Answer("not ready")
    BY <2>1, PoolRefused
  <2>2. CASE ~Answer("not ready")
    <3>1. req'.at = "preflight" /\ req'.got = req.got /\ req'.data = req.data /\ req.at = "check"
      BY <1>6, <2>2, IdleParts DEF ServingInv, RequestOK, Check
    <3> QED BY <3>1, PoolKept DEF AfterBuild
  <2> QED BY <2>1, <2>2
<1>7. CASE Convert
  <2>1. CASE Answer("incomplete")
    BY <2>1, PoolRefused
  <2>2. CASE req' = [req EXCEPT !.at = "render"]
    <3>1. req'.at = "render" /\ req'.got = req.got /\ req'.data = req.data /\ req.at = "preflight"
      BY <1>7, <2>2, IdleParts DEF ServingInv, RequestOK, Convert
    <3> QED BY <3>1, PoolKept DEF AfterBuild
  <2> QED BY <1>7, <2>1, <2>2 DEF Convert
<1>8. CASE Render
  <2> DEFINE file == Rendered(Data, req.format)
  <2>1. CASE Answer("invalid")
    BY <2>1, PoolRefused
  <2>2. CASE req' = [req EXCEPT !.at = "answered", !.answer = "served", !.file = file]
    <3>1. req'.at = "answered" /\ req'.got = req.got /\ req'.data = req.data /\ req.at = "render"
      BY <1>8, <2>2, IdleParts DEF ServingInv, RequestOK, Render
    <3> QED BY <3>1, PoolKept DEF AfterBuild
  <2> QED BY <1>8, <2>1, <2>2 DEF Render
<1>9. CASE ServeRules
  <2>1. PICK what \in {"out of scope", "not required", "upstream unavailable", "incomplete", "rules"} : Answer(what)
    BY <1>9 DEF ServeRules
  <2> QED BY <2>1, PoolRefused
<1>10. CASE EditRows
  BY <1>10 DEF EditRows, PoolInv
<1>11. CASE UNCHANGED servingVars
  BY <1>11 DEF PoolInv, servingVars
<1> QED BY <1>1, <1>2, <1>3, <1>4, <1>5, <1>6, <1>7, <1>8, <1>9, <1>10, <1>11 DEF ServingNext, Handle, Finished

(* In a file whose nodes have names of their own, a policy group that uses  *)
(* node groups offers exactly the connections these come to.                *)
THEOREM GroupsHaveTheirNodes == ServingSpec => []GroupHasItsNodes
<1>1. ASSUME ServingInv, AimInv, PoolInv PROVE GroupHasItsNodes
  <2> DEFINE poolRows == PoolRows(req.got.nodes, req.got.pools)
             row(g) == RowOf(req.got.groups, g.id)
             mine(g) == {Fingerprint(n) : n \in UNION {ToSet(poolRows[p]) : p \in ToSet(row(g).pools) \cap DOMAIN poolRows}}
             policies(g) == ToSet(row(g).builtins) \cup {PolicyName(h) : h \in ToSet(req.got.groups)} \cup {DIRECT}
  <2> SUFFICES ASSUME FullFile, Namesakes(Data) = {},
                      NEW g \in ToSet(req.file.groups), row(g).pools # <<>>,
                      NEW n \in ToSet(req.file.nodes), n.name \notin policies(g)
               PROVE  n.name \in g.members <=> Fingerprint(n) \in mine(g)
    BY DEF GroupHasItsNodes
  <2>1. Served /\ req.at = "answered" /\ req.answer = "served" /\ req.format \in FullFormats
    BY DEF FullFile, Served
  <2>2. /\ ReadRows("groups", req.got.groups) /\ Aimed(req.data, req.got)
        /\ req.file = Rendered(req.data, req.format)
    BY <1>1, <2>1 DEF AimInv, Aiming
  <2>3. ReadNodes(req.got.nodes) /\ ReadPools(req.got.pools) /\ Pooled(req.data, req.got)
    BY <1>1, <2>1 DEF PoolInv, Pooling
  <2>4. Namesakes(req.data) = {}
    BY DEF Data
  <2>5. req.file.groups = WrittenGroups(req.data, req.format) /\ req.file.nodes = WrittenNodes(req.data, req.format)
    BY <2>1, <2>2 DEF Rendered, FullFormats, NodeFormats
  <2>6. n.name # DIRECT /\ n.name \notin ToSet(row(g).builtins) /\ \A h \in ToSet(req.got.groups) : n.name # PolicyName(h)
    OBVIOUS
  <2>7. IsList(Alphabet)
    BY ServingAssumption, SequencesAreLists
  <2>8. n.name \in g.members <=>
          \E p \in ToSet(row(g).pools) \cap DOMAIN poolRows :
            \E x \in ToSet(poolRows[p]) : Fingerprint(n) = Fingerprint(x)
    <3> DEFINE d == req.data
               got == req.got
               f == req.format
    <3>1. g \in ToSet(WrittenGroups(d, f)) /\ n \in ToSet(WrittenNodes(d, f)) /\ RowOf(got.groups, g.id).pools # <<>>
      BY <2>5
    <3>2. NoPolicy(got, g, n)
      BY <2>6 DEF NoPolicy
    <3>3. ReadNodes(got.nodes) /\ ReadPools(got.pools) /\ ReadRows("groups", got.groups)
          /\ Pooled(d, got) /\ Aimed(d, got) /\ Namesakes(d) = {}
      BY <2>2, <2>3, <2>4
    <3> HIDE DEF d, got, f, poolRows, mine, policies, row
    <3>4. n.name \in g.members <=> IsOffered(got, g, n)
      BY <2>7, <3>1, <3>2, <3>3, GroupsOfferTheirNodes
    <3> QED BY <3>4 DEF IsOffered, got, row, poolRows
  <2> HIDE DEF poolRows, row
  <2> QED BY <2>8
<1> QED BY <1>1, ServingStart, ServingInductive, AimStart, AimInductive,
           PoolStart, PoolInductive, PTL DEF ServingSpec
=============================================================================
