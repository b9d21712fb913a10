----------------------------- MODULE ExportScope -----------------------------
(* What of a workspace goes into one export: the nodes and their names, the   *)
(* policy groups with the lists computed for them, the rules, the rule sets,  *)
(* and the nodes of every node group (pool).  The operators take the rows a   *)
(* request has read; a record r holds them:                                   *)
(*   settings [naming, unmatched, policy, prefer], nodes (enabled, of enabled *)
(*   sources), pools (enabled), groups (enabled, in order), rules and sets    *)
(*   (enabled, in order), names (source id -> name).                          *)
EXTENDS ExportFormats, RowLists, SequencesExt, Functions

CONSTANTS None, Alphabet  \* no id; the order localeCompare gives to labels and protocols

RowIds(rows) == {row.id : row \in ToSet(rows)}
RowOf(rows, id) == CHOOSE row \in ToSet(rows) : row.id = id

(* The connection a node makes, whatever it is called. *)
Fingerprint(node) == <<node.protocol, node.endpoint, node.secret>>

------------------------------------------------------------------------------
(* The transforms of a node group: filter, rename, drop duplicates, sort.     *)

FieldOf(node, field) ==
  CASE field = "name" -> node.name [] field = "protocol" -> node.protocol
    [] field = "country" -> node.region [] field = "sourceId" -> node.source
    [] field = "server" -> node.endpoint

(* A filter selects the values its pattern or its list matches, or the rest. *)
MatchesFilter(node, filter) == (FieldOf(node, filter.field) \in filter.values) = filter.selects
Filtered(rows, filters) ==
  Where(rows, LAMBDA n : \A f \in {g \in ToSet(filters) : g.enabled} : MatchesFilter(n, f))

Renamed(rows, rename) ==
  CASE rename = "prefix" -> [i \in DOMAIN rows |-> [rows[i] EXCEPT !.name = <<"pre", Head(@)>>]]
    [] rename = "one_name" -> [i \in DOMAIN rows |-> [rows[i] EXCEPT !.name = <<"node">>]]
    [] rename = "auto_number" ->
         LET Same(i) == {j \in DOMAIN rows : rows[j].name = rows[i].name} IN
         [i \in DOMAIN rows |->
            IF Cardinality(Same(i)) = 1 THEN rows[i]
            ELSE [rows[i] EXCEPT !.name = Append(@, Cardinality({j \in Same(i) : j <= i}))]]
    [] OTHER -> rows

DedupKey(node, strategy) ==
  CASE strategy = "name" -> node.name
    [] strategy = "server_port" -> <<node.endpoint>>
    [] strategy = "protocol_server_port" -> <<node.protocol, node.endpoint>>
    [] strategy = "full_config" -> Fingerprint(node)
    [] OTHER -> <<node.id>>

Rank(order, x) == IF x \in ToSet(order) THEN CHOOSE i \in DOMAIN order : order[i] = x ELSE Len(order) + 1
SortKey(node, sort) ==
  CASE sort.by = "country" -> Rank(sort.countries, node.region)
    [] sort.by = "name" -> Rank(Alphabet, Head(node.name))
    [] sort.by \in {"protocol", "source"} -> Rank(Alphabet, node[sort.by])
    [] OTHER -> 0

(* A stable sort. *)
Sorted(rows, sort) ==
  LET key == [i \in DOMAIN rows |-> SortKey(rows[i], sort)]
      order == Arranged(DOMAIN rows, {p \in (DOMAIN rows) \X (DOMAIN rows) :
                 key[p[1]] < key[p[2]] \/ (key[p[1]] = key[p[2]] /\ p[1] < p[2])})
  IN  [i \in DOMAIN order |-> rows[order[i]]]

Transformed(rows, pool) ==
  Sorted(FirstOfEach(Renamed(Filtered(rows, pool.filters), pool.rename),
                     LAMBDA n : DedupKey(n, pool.dedup)), pool.sort)

InPool(node, pool) ==
  IF pool.nodes # {} THEN node.id \in pool.nodes
  ELSE pool.sources # {} => node.source \in pool.sources

PoolRows(nodes, pools) ==
  [p \in RowIds(pools) |-> LET pool == RowOf(pools, p) IN
     Transformed(Where(nodes, LAMBDA n : InPool(n, pool)), pool)]

------------------------------------------------------------------------------
(* The lists of the groups that have no nodes of their own.                   *)

GeneralOrder == <<"auto", "node-select", "fallback", "all-nodes", "proxy", "direct", "reject">>
DefaultMembers == ToSet(GeneralOrder)

OutletIds(groups) ==
  LET defaults == Where(groups, LAMBDA g : g.id \in DefaultMembers)
      backed == Where(groups, LAMBDA g : g.pools # <<>>)
  IN  FirstOfEach([i \in DOMAIN (defaults \o backed) |-> (defaults \o backed)[i].id], LAMBDA id : id)

IsRoutingGroup(g) ==
  /\ g.id \in DefaultMembers => g.id = "proxy"
  /\ g.type \notin {"direct", "reject"} /\ g.pools = <<>>

(* The outlet the operator prefers comes first, then those whose tag or       *)
(* country the group asks for (its "likes"), then the general order.          *)
SortedOutlets(groups, g, prefer) ==
  LET outlets == Where(OutletIds(groups), LAMBDA id : id # g.id)
      preferred == IF g.id \in DOMAIN prefer THEN <<prefer[g.id]>>
                   ELSE IF g.name = <<"SPEEDTEST">> THEN <<"direct">> ELSE <<>>
      Liked(like) == Where(outlets, LAMBDA id : LET o == RowOf(groups, id) IN
                                                      o.pools # <<>> /\ o.hint = like)
  IN  Where(FirstOfEach(preferred \o Joined([i \in DOMAIN g.likes |-> Liked(g.likes[i])])
                              \o GeneralOrder \o outlets, LAMBDA id : id),
                LAMBDA id : id \in ToSet(outlets))

LinkedGroups(groups, prefer) ==
  [i \in DOMAIN groups |->
     IF IsRoutingGroup(groups[i])
     THEN [groups[i] EXCEPT !.groupIds = SortedOutlets(groups, groups[i], prefer)] ELSE groups[i]]

------------------------------------------------------------------------------
(* The scope of an export profile.  An empty selection selects everything.    *)

TargetOfSlipDefault(row) == row.target
TargetOf(row) == IF row.override # None THEN row.override ELSE row.target
Picked(rows, ids) == IF ids = {} THEN rows ELSE Where(rows, LAMBDA row : row.id \in ids)
FinalTarget(settings) == IF settings.unmatched = "direct" THEN "direct" ELSE "proxy"

Referenced(groups, roots) ==
  LET found == roots \cap RowIds(groups)
      reach[n \in 0..Len(groups)] ==
        IF n = 0 THEN found
        ELSE LET near == reach[n-1]
             IN  near \cup (RowIds(groups) \cap UNION {ToSet(RowOf(groups, g).groupIds) : g \in near})
  IN  Where(groups, LAMBDA g : g.id \in reach[Len(groups)])

ExportGroups(groups, config, rules, sets, final) ==
  IF config.groups = {} /\ config.rules = {} /\ config.sets = {} THEN groups
  ELSE Referenced(groups, config.groups \cup {final}
         \cup (IF config.rules = {} THEN {} ELSE {TargetOf(x) : x \in ToSet(rules)})
         \cup (IF config.sets = {} THEN {} ELSE {TargetOf(x) : x \in ToSet(sets)}))

ScopePools(config, groups, format) ==
  LET ofGroups == FirstOfEach(Joined([i \in DOMAIN groups |-> groups[i].pools]), LAMBDA id : id)
  IN  IF format \in NodeFormats \/ ofGroups = <<>> THEN SetToSeq(config.pools) ELSE ofGroups

(* A node of several pools keeps its first place and its last name.           *)
MergedRows(poolRows, ids) ==
  LET rows == Joined([i \in DOMAIN ids |-> IF ids[i] \in DOMAIN poolRows THEN poolRows[ids[i]] ELSE <<>>])
      Latest(id) == rows[Max({i \in DOMAIN rows : rows[i].id = id})]
  IN  FirstOfEach([i \in DOMAIN rows |-> Latest(rows[i].id)], LAMBDA row : row.id)

(* The name of an exported node: its own, or a region and a number.           *)
NameParts(row, names, naming) ==
  LET source == IF row.source \in DOMAIN names THEN names[row.source] ELSE row.source IN
  CASE naming = "region_sequence" -> <<row.region>>
    [] naming = "region_source_sequence" -> <<row.region, source>>
    [] naming = "source_region_sequence" -> <<source, row.region>>

ExportNames(rows, names, naming) ==
  IF naming = "original" THEN rows
  ELSE LET parts == [i \in DOMAIN rows |-> NameParts(rows[i], names, naming)] IN
       [i \in DOMAIN rows |->
          [rows[i] EXCEPT !.name = Append(parts[i], Cardinality({j \in 1..i : parts[j] = parts[i]}))]]

(* The names a pool has in the export: of its own rows, or of the row kept    *)
(* for the same connection.                                                   *)
CollectionNamesSlipById(poolRows, exported) ==
  [p \in DOMAIN poolRows |->
     LET kept == Where(poolRows[p], LAMBDA row : row.id \in RowIds(exported))
     IN  [i \in DOMAIN kept |-> RowOf(exported, kept[i].id).name]]
CollectionNames(poolRows, exported) ==
  [p \in DOMAIN poolRows |->
     LET Same(row) == IF row.id \in RowIds(exported) THEN {x \in ToSet(exported) : x.id = row.id}
                      ELSE {x \in ToSet(exported) : Fingerprint(x) = Fingerprint(row)}
         kept == Where(poolRows[p], LAMBDA row : Same(row) # {})
     IN  FirstOfEach([i \in DOMAIN kept |-> (CHOOSE x \in Same(kept[i]) : TRUE).name], LAMBDA n : n)]

------------------------------------------------------------------------------
(* buildExportData.                                                           *)

MatchRule(target) == [id |-> "unmatched", type |-> "MATCH", payload |-> "", target |-> target,
                      override |-> None, enabled |-> TRUE, noResolve |-> FALSE, valid |-> TRUE]

ToExportedGroups(rows, groups) == Where(rows, LAMBDA row : TargetOf(row) \in RowIds(groups))

ExportData(r, config, format) ==
  LET poolRows == PoolRows(r.nodes, r.pools)
      linked == LinkedGroups(r.groups, r.settings.prefer)
      rules == Picked(r.rules, config.rules)
      sets == Picked(r.sets, config.sets)
      final == FinalTarget(r.settings)
      groups == ExportGroups(linked, config, rules, sets, final)
      scope == ScopePools(config, groups, format)
      nodeRows == IF scope = <<>> THEN r.nodes ELSE MergedRows(poolRows, scope)
      nodes == ExportNames(FirstOfEach(nodeRows, Fingerprint), r.names, r.settings.naming)
  IN  [nodes |-> nodes, groups |-> groups,
       rules |-> Append(Where(ToExportedGroups(rules, groups), LAMBDA x : x.type # "MATCH"),
                        MatchRule(final)),
       sets |-> ToExportedGroups(sets, groups),
       sources |-> r.sources,
       poolNames |-> CollectionNames(poolRows, nodes)]
=============================================================================
