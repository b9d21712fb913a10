-------------------------- MODULE SourceNodeGroups --------------------------
(***************************************************************************)
(* Node groups (collections) that follow a group of a source:              *)
(* applyParsedSourceContent and syncImportedSourceNodeGroups of            *)
(* routes/sources.ts.  A refresh reads a text, compares its nodes with the *)
(* rows, writes the difference, and then looks up the ids of the members   *)
(* by name.  Refreshes overlap, and the operator switches nodes and edits  *)
(* node groups between their calls.                                        *)
(***************************************************************************)
EXTENDS SourceContent, NodeDiff

CONSTANTS
    Files,          \* what a provider serves: nodes and groups of their names
    Follows,        \* collections, each with the group its marker names
    RowNumbers,     \* ids of nodes
    RefreshCalls,   \* refreshes that may overlap
    MaxGroupSteps   \* bound on refreshes and edits together

ASSUME SourceGroupsAssumption ==
    /\ \A file \in Files : /\ file.nodes \in Seq([name : STRING, key : Nat, fault : BOOLEAN])
                          /\ file.groups \in Seq([name : STRING, members : Seq(STRING)])
    /\ RowNumbers \subseteq Nat /\ IsFiniteSet(RowNumbers) /\ MaxGroupSteps \in Nat

VARIABLES
    members,       \* node_ids of the collections there are
    groupRows,     \* the rows of nodes of the source
    refreshes,     \* what each refresh holds between two calls
    groupSteps,    \* refreshes and edits so far
    reading        \* history: the text of a refresh that ran alone and ended last

groupVars == <<members, groupRows, refreshes, groupSteps, reading>>
groupStore == <<members, groupRows, groupSteps>>

-----------------------------------------------------------------------------
ServedNode(name, key, fault) == [name |-> name, key |-> key, fault |-> fault]
ServedGroup(name, names) == [name |-> name, members |-> names]

TextOf(file, shape) ==
    [shape |-> shape, nodes |-> file.nodes, groups |-> IF shape \in Grouped THEN file.groups ELSE <<>>]

NoText == [nodes |-> <<>>, groups |-> <<>>]
NoHeld == [c \in {} |-> {}]
IdleRefresh == [at |-> "idle", text |-> NoText, detects |-> FALSE, body |-> NoText,
                seen |-> {}, held |-> NoHeld, found |-> {}, alone |-> FALSE]
Unfinished == [text |-> NoText, detects |-> FALSE, refused |-> FALSE]

GroupInit ==
    /\ members = [c \in DOMAIN Follows |-> {}] /\ groupRows = {}
    /\ refreshes = [c \in RefreshCalls |-> IdleRefresh]
    /\ groupSteps = 0 /\ reading = Unfinished

-----------------------------------------------------------------------------
Met(record) == [record EXCEPT !.alone = FALSE, !.detects = FALSE, !.text = NoText]
Disturbed == [c \in RefreshCalls |-> Met(refreshes[c])]
RefreshGoes(c, record) == refreshes' = [refreshes EXCEPT ![c] = record]
RefreshEnds(c, refused) ==
    /\ RefreshGoes(c, IdleRefresh)
    /\ reading' = IF refreshes[c].alone
                  THEN [text |-> refreshes[c].text, detects |-> refreshes[c].detects, refused |-> refused]
                  ELSE Unfinished

(* Any text may be served, whatever format the operator gave the source.   *)
(* "detects" says that the format has to be found out, "text" what the     *)
(* text holds for a reader.                                                *)
Arrival(file, shape, format) ==
    LET text == TextOf(file, shape)
        body == UsableContent(Parse(text, format))
        detects == format = "auto" /\ shape # "clash json"
    IN  [body |-> body, detects |-> detects,
         text |-> IF detects \/ body.nodes # <<>> THEN [nodes |-> text.nodes, groups |-> text.groups] ELSE NoText]
Arrivals ==
    {Arrival(file, shape, format) : file \in Files, shape \in Shapes, format \in SourceFormats \cup {"auto"}}

FetchText(c) ==
    /\ groupSteps < MaxGroupSteps /\ groupSteps' = groupSteps + 1
    /\ refreshes[c].at = "idle" /\ \A d \in RefreshCalls : d < c => refreshes[d].at # "idle"
    /\ \E arrival \in Arrivals :
         LET begun == [IdleRefresh EXCEPT !.at = "diff", !.alone = TRUE, !.body = arrival.body,
                                          !.detects = arrival.detects, !.text = arrival.text]
         IN  refreshes' = [Disturbed EXCEPT ![c] =
               IF \A d \in RefreshCalls : refreshes[d].at = "idle" THEN begun ELSE Met(begun)]
    /\ reading' = Unfinished /\ UNCHANGED <<members, groupRows>>

(* A text without a usable node is refused. *)
ReadSourceRows(c) ==
    /\ refreshes[c].at = "diff"
    /\ IF refreshes[c].body.nodes = <<>> THEN RefreshEnds(c, TRUE)
       ELSE /\ RefreshGoes(c, [refreshes[c] EXCEPT !.at = "apply",
                 !.seen = {[id |-> r.id, name |-> r.name, key |-> r.key] : r \in groupRows}])
            /\ UNCHANGED reading
    /\ UNCHANGED groupStore

(* The batch of the refresh, with ids no row, node group or refresh knows. *)
ApplyText(c) ==
    LET seen == refreshes[c].seen
        body == refreshes[c].body.nodes
        known == {r.id : r \in groupRows} \cup (UNION {members[p] : p \in DOMAIN members})
                   \cup (UNION {{r.id : r \in refreshes[d].seen \cup refreshes[d].found} : d \in RefreshCalls})
        free == RowNumbers \ known
    IN  /\ refreshes[c].at = "apply"
        /\ \E byKey \in ByKey(seen) :
             LET added == Added(seen, byKey, body)
                 removed == {r.id : r \in Removed(seen, byKey, body)}
                 written == {r \in seen : Writers(seen, byKey, body, r) # {}}
                 update(row) ==
                     IF \E r \in written : r.id = row.id
                     THEN WriteNode(row, body[LastWriter(seen, byKey, body, CHOOSE r \in written : r.id = row.id)])
                     ELSE row
                 ids == Arranged(free, {p \in free \X free : p[1] < p[2]})
                 idOf(i) == ids[Cardinality({j \in added : j <= i})]
             IN  /\ Cardinality(free) >= Cardinality(added)
                 /\ groupRows' = {update(row) : row \in {r \in groupRows : r.id \notin removed}}
                       \cup {[id |-> idOf(i), name |-> body[i].name, key |-> body[i].key, enabled |-> TRUE] :
                                i \in added}
        /\ RefreshGoes(c, [refreshes[c] EXCEPT !.at = "pools", !.seen = {},
                                               !.body = [refreshes[c].body EXCEPT !.nodes = <<>>]])
        /\ UNCHANGED <<members, groupSteps, reading>>

(* The node groups of the source, if there are any, are read, ... *)
ReadFollowers(c) ==
    /\ refreshes[c].at = "pools"
    /\ IF DOMAIN members = {} THEN RefreshEnds(c, FALSE)
       ELSE RefreshGoes(c, [refreshes[c] EXCEPT !.at = "ids", !.held = members]) /\ UNCHANGED reading
    /\ UNCHANGED groupStore

(* ... then the ids of the nodes that are on: nodeIdByName, where any row  *)
(* of a name may be the last, ...                                          *)
IdsByNameSlipOff(rows) ==
    {f \in [{r.name : r \in rows} -> {[id |-> r.id, name |-> r.name] : r \in rows}] :
        \A name \in DOMAIN f : f[name].name = name}
IdsByName(rows) ==
    LET on == {r \in rows : r.enabled}
    IN  {f \in [{r.name : r \in on} -> {[id |-> r.id, name |-> r.name] : r \in on}] :
            \A name \in DOMAIN f : f[name].name = name}
ReadIds(c) ==
    /\ refreshes[c].at = "ids"
    /\ \E byName \in IdsByName(groupRows) :
         RefreshGoes(c, [refreshes[c] EXCEPT !.at = "write", !.found = Range(byName)])
    /\ UNCHANGED <<groupStore, reading>>

(* ... and one batch stores the members of each, but for lists that were   *)
(* the same when they were read (two of the same members may differ in the *)
(* order); a group the text no longer has loses all.                       *)
MembersFor(name, call) ==
    LET groups == call.body.groups
        last == {i \in DOMAIN groups : groups[i].name = name
                                         /\ \A j \in DOMAIN groups : j > i => groups[j].name # name}
    IN  {r.id : r \in {x \in call.found : \E i \in last : x.name \in Range(groups[i].members)}}
WriteFollowers(c) ==
    /\ refreshes[c].at = "write"
    /\ LET held == refreshes[c].held
           next == [p \in DOMAIN members |-> MembersFor(Follows[p], refreshes[c])]
       IN  \E skipped \in SUBSET {p \in DOMAIN members : p \in DOMAIN held /\ held[p] = next[p]} :
             members' = [p \in DOMAIN members |-> IF p \in skipped THEN members[p] ELSE next[p]]
    /\ RefreshEnds(c, FALSE) /\ UNCHANGED <<groupRows, groupSteps>>

(* The operator switches a node, puts nodes of his choice into a node      *)
(* group, or deletes it; a refresh is cut off.                             *)
EditGroups ==
    /\ groupSteps < MaxGroupSteps /\ groupSteps' = groupSteps + 1
    /\ \/ /\ \E r \in groupRows : groupRows' = (groupRows \ {r}) \cup {[r EXCEPT !.enabled = ~@]}
          /\ UNCHANGED members
       \/ \E p \in DOMAIN members, r \in groupRows :
            members' = [members EXCEPT ![p] = {r.id}] /\ UNCHANGED groupRows
       \/ \E p \in DOMAIN members :
            members' = [q \in DOMAIN members \ {p} |-> members[q]] /\ UNCHANGED groupRows
    /\ refreshes' = Disturbed /\ reading' = Unfinished

CutOffRefresh(c) ==
    /\ refreshes[c].at # "idle" /\ RefreshGoes(c, IdleRefresh) /\ reading' = Unfinished
    /\ UNCHANGED groupStore

GroupNext ==
    \/ EditGroups
    \/ \E c \in RefreshCalls : \/ FetchText(c) \/ ReadSourceRows(c) \/ ApplyText(c)
                               \/ ReadFollowers(c) \/ ReadIds(c) \/ WriteFollowers(c) \/ CutOffRefresh(c)

-----------------------------------------------------------------------------
GroupTypes ==
    /\ DOMAIN members \subseteq DOMAIN Follows
    /\ \A p \in DOMAIN members : members[p] \subseteq RowNumbers
    /\ \A r \in groupRows : r.id \in RowNumbers /\ \A q \in groupRows : q.id = r.id => q = r
    /\ \A c \in RefreshCalls : refreshes[c].at \in {"idle", "diff", "apply", "pools", "ids", "write"}
    /\ groupSteps \in 0..MaxGroupSteps

(* A provider that never gives the name of one connection to another.      *)
KeepsNames ==
    \A file, other \in Files : \A n \in Range(file.nodes), m \in Range(other.nodes) :
        n.key = m.key => n.name = m.name

(* The names in the last group of a name that has any besides some.        *)
ListedIn(groups, besides, name) ==
    LET having == {i \in DOMAIN groups : groups[i].name = name /\ Range(groups[i].members) \ besides # {}}
    IN  UNION {Range(groups[i].members) \ besides : i \in {j \in having : \A k \in having : k <= j}}

(* However refreshes, switches and edits of node groups overlapped before: *)
(* a refresh that runs alone finds in the text what it holds, if it has to *)
(* find out the format itself (but for Clash written as JSON); it leaves   *)
(* only rows of usable nodes, one for each connection if the provider      *)
(* keeps the names of connections (if not, see ServedNodesStay of          *)
(* SourceRefresh); and every node group that follows a group of the text   *)
(* has one row, a row that is on, for each name the text gives the group   *)
(* and nothing else, unusable nodes and built-in policies apart.           *)
SourceGroupsFollow ==
    LET text == reading.text
        faulty == {n.name : n \in {x \in Range(text.nodes) : x.fault}} \cup {"info"}
        usable == {n \in Range(text.nodes) : ~n.fault /\ n.name # "info"}
        listed(name) == ListedIn(text.groups, faulty \cup {"DIRECT"}, name)
        named(names) == {r \in groupRows : r.name \in names /\ r.enabled}
    IN  text # NoText =>
        /\ reading.detects => (reading.refused <=> usable = {})
        /\ ~reading.refused =>
             /\ {r.key : r \in groupRows} \subseteq {n.key : n \in usable}
             /\ KeepsNames => {n.key : n \in usable} \subseteq {r.key : r \in groupRows}
             /\ \A p \in DOMAIN members :
                  /\ members[p] \subseteq {r.id : r \in named(listed(Follows[p]))}
                  /\ \A name \in listed(Follows[p]) : named({name}) # {} =>
                       Cardinality(members[p] \cap {r.id : r \in named({name})}) = 1
=============================================================================
