------------------------------ MODULE NodeDiff ------------------------------
(***************************************************************************)
(* How a refresh turns the node rows of a source into those of the content *)
(* that was fetched.  A parsed node has a name and a key, the fingerprint  *)
(* of its connection; a row also has an id.  A parsed node takes over the  *)
(* row with its key, or else the row with its name if that name is unique  *)
(* on both sides; the other parsed nodes are added, the other rows removed. *)
(***************************************************************************)
EXTENDS Integers, Sequences, FiniteSets

(* A later node with the key of an earlier one is skipped. *)
Firsts(parsed) ==
    {i \in DOMAIN parsed : \A j \in 1..(i - 1) : parsed[j].key # parsed[i].key}

(* existingByKey: one row for every key.  The query has no ORDER BY, so    *)
(* any row of a duplicated key can be the last one, which the map keeps.   *)
ByKey(rows) ==
    {f \in [{r.key : r \in rows} -> rows] : \A k \in DOMAIN f : f[k].key = k}

(* existingByUniqueName and parsedNameCounts. *)
ByUniqueName(rows, parsed, name) ==
    {r \in rows :
        /\ \A q \in rows : q.name = name <=> q = r
        /\ \E i \in DOMAIN parsed : \A j \in DOMAIN parsed : parsed[j].name = name <=> j = i}

(* The row that parsed node i takes over, if any. *)
Match(rows, byKey, parsed, i) ==
    IF parsed[i].key \in DOMAIN byKey THEN {byKey[parsed[i].key]}
    ELSE ByUniqueName(rows, parsed, parsed[i].name)

Added(rows, byKey, parsed) ==
    {i \in Firsts(parsed) : Match(rows, byKey, parsed, i) = {}}

RemovedSlipByName(rows, byKey, parsed) ==
    {r \in rows : \A i \in Firsts(parsed) : r.name # parsed[i].name}

Removed(rows, byKey, parsed) ==
    {r \in rows : \A i \in Firsts(parsed) : r \notin Match(rows, byKey, parsed, i)}

(* The parsed nodes that write row r; shouldUpdateNode skips equal ones. *)
Writers(rows, byKey, parsed, r) ==
    {i \in Firsts(parsed) : /\ r \in Match(rows, byKey, parsed, i)
                            /\ <<r.name, r.key>> # <<parsed[i].name, parsed[i].key>>}

(* The updates of a row, of which the last one counts, and what one writes. *)
LastWriter(rows, byKey, parsed, r) ==
    CHOOSE i \in Writers(rows, byKey, parsed, r) :
        \A j \in Writers(rows, byKey, parsed, r) : j <= i

WriteNodeSlipEnables(row, node) ==
    [row EXCEPT !.name = node.name, !.key = node.key, !.enabled = TRUE]

WriteNode(row, node) == [row EXCEPT !.name = node.name, !.key = node.key]

(* node_count as the refresh computes it from the rows it read. *)
NodeCountSlipDelta(rows, byKey, parsed) ==
    Cardinality(Added(rows, byKey, parsed)) - Cardinality(Removed(rows, byKey, parsed))

NodeCount(rows, byKey, parsed) ==
    Cardinality(rows) - Cardinality(Removed(rows, byKey, parsed))
        + Cardinality(Added(rows, byKey, parsed))
=============================================================================
