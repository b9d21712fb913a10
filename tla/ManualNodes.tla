---------------------------- MODULE ManualNodes ----------------------------
(***************************************************************************)
(* routes/nodes.ts: nodes the operator adds by hand, from a share URI or   *)
(* field by field, edits, switches on and off in batches and deletes.  A   *)
(* row keeps the connection twice: in columns, which the operator sees,    *)
(* and in parsed_config with its secrets, beside raw_config.  Of several   *)
(* protocols, servers, ports and secrets two of each kind are enough; the  *)
(* port goes the way of the server, tags and notes are left out, as are    *)
(* the defaults every write ensures at its end (DefaultProfile).           *)
(*                                                                         *)
(* A call reads and writes in separate steps, and two of them overlap.     *)
(***************************************************************************)
EXTENDS Naturals, FiniteSets

CONSTANTS
    NodeCalls,      \* requests that may overlap
    MaxNodeCalls    \* bound on the requests

ASSUME ManualAssumption == MaxNodeCalls \in Nat

VARIABLES
    manual,     \* the rows of nodes
    owners,     \* the sources there are, with node_count
    nodeAsks,   \* where each request is
    nodeSteps,  \* requests so far
    wish,       \* history: whether each node was last asked to be on
    neat        \* history: no two requests have overlapped

nodeVars == <<manual, owners, nodeAsks, nodeSteps, wish, neat>>

-----------------------------------------------------------------------------
(* A field a body lacks is "", a config it lacks the empty set.            *)
NoBody == [uri |-> "", source |-> "", name |-> "", protocol |-> "", server |-> "", country |-> "", enabled |-> "",
           raw |-> {}, parsed |-> {}, malformed |-> FALSE]
Core(protocol, server, keys) == [protocol |-> protocol, server |-> server, keys |-> keys]
Or(given, other) == IF given = "" THEN other ELSE given

(* detectCountry, isUsableProxyProtocol, and the fields of the registry.   *)
Detect(name) == IF name = "us" THEN "US" ELSE ""
Usable(protocol) == protocol \in {"trojan", "vmess"}
Needs(protocol) == IF protocol = "vmess" THEN {"uuid"} ELSE {"password"}
MissingSlipAny(protocol, parsed, raw) == IF parsed.keys \cup raw = {} THEN Needs(protocol) ELSE {}
Missing(protocol, parsed, raw) == Needs(protocol) \ (parsed.keys \cup raw)

(* resolveManualNodeInput: what a share URI says, each part of which the   *)
(* body may overrule; its parsed_config is then still that of the URI.     *)
FromUri == [name |-> "us", country |-> "US", protocol |-> "trojan", server |-> "a", raw |-> {"password"}]
Only(set, other) == IF set = {} THEN other ELSE CHOOSE x \in set : TRUE
ResolveInput(body) ==
    LET base == IF body.uri = "good" THEN FromUri ELSE [name |-> "", country |-> "", protocol |-> "", server |-> "", raw |-> {}]
        name == Or(body.name, base.name)
        protocol == Or(body.protocol, base.protocol)
        server == Or(body.server, base.server)
        raw == Only(body.raw, base.raw)
        built == IF body.uri = "good" THEN Core(base.protocol, base.server, base.raw) ELSE Core(protocol, server, raw)
    IN [id |-> 0, source |-> Or(body.source, "manual"),
        name |-> name, protocol |-> protocol, server |-> server, raw |-> raw, parsed |-> Only(body.parsed, built),
        country |-> Or(body.country, Or(Detect(body.name), base.country)), chosen |-> body.country # "",
        enabled |-> body.enabled # "off", edited |-> FALSE, hand |-> TRUE]
Resolves(body) ==
    LET input == ResolveInput(body) IN
    /\ ~body.malformed /\ body.uri # "junk"
    /\ input.name # "" /\ input.server # "" /\ Usable(input.protocol)
    /\ Missing(input.protocol, input.parsed, input.raw) = {}

(* withNormalizedNodeCore, and what PUT makes of a row it read.            *)
NormalizedCoreSlipKeeps(parsed, protocol, server) == parsed
NormalizedCore(parsed, protocol, server) == Core(protocol, server, parsed.keys)
UpdatedRow(row, body) ==
    LET protocol == Or(body.protocol, row.protocol)
        server == Or(body.server, row.server)
    IN [row EXCEPT !.name = Or(body.name, @), !.protocol = protocol, !.server = server,
                   !.country = Or(body.country, Or(Detect(body.name), @)),
                   !.chosen = body.country # "" \/ (@ /\ Detect(body.name) = ""),
                   !.enabled = IF body.enabled = "" THEN @ ELSE body.enabled = "on",
                   !.raw = Only(body.raw, @), !.parsed = NormalizedCore(Only(body.parsed, @), protocol, server),
                   !.edited = TRUE]
EnabledOnly(body) == body.enabled # "" /\ body = [NoBody EXCEPT !.enabled = body.enabled]

(* The bodies: of one field, alone or beside a share URI, and whole ones.  *)
OneField ==
    {[NoBody EXCEPT !.name = "plain"], [NoBody EXCEPT !.name = "us"], [NoBody EXCEPT !.protocol = "vmess"],
     [NoBody EXCEPT !.protocol = "vmess", !.raw = {{"uuid"}}], [NoBody EXCEPT !.server = "b"],
     [NoBody EXCEPT !.country = "XX"], [NoBody EXCEPT !.enabled = "off"], [NoBody EXCEPT !.raw = {{}}],
     [NoBody EXCEPT !.parsed = {Core("vmess", "b", {"uuid"})}], [NoBody EXCEPT !.protocol = "bogus"],
     [NoBody EXCEPT !.malformed = TRUE]}
WholeNode == [NoBody EXCEPT !.name = "us", !.protocol = "trojan", !.server = "a", !.raw = {{"password"}}]
Bodies ==
    OneField \cup {[body EXCEPT !.uri = "good"] : body \in OneField} \cup {[WholeNode EXCEPT !.uri = "junk"]} \cup
    {[WholeNode EXCEPT !.source = source, !.enabled = enabled, !.parsed = parsed] :
        source \in {"", "s"}, enabled \in {"", "off"}, parsed \in {{}, {Core("trojan", "b", {})}}}
Resolving == {body \in Bodies : Resolves(body)}
Editing == {body \in Bodies : ~body.malformed /\ body.uri = "" /\ body.source = ""}

-----------------------------------------------------------------------------
NodeRow0(id, source, byHand, name) ==
    [id |-> id, source |-> source, name |-> name, protocol |-> "trojan", server |-> "a", country |-> Detect(name),
     chosen |-> FALSE, enabled |-> TRUE, raw |-> {"password"}, parsed |-> Core("trojan", "a", {"password"}),
     edited |-> FALSE, hand |-> byHand]
NotAsked == [at |-> "idle"]
NodesOf(rows, source) == {row \in rows : row.source = source}

ManualInit ==
    /\ \/ manual = {NodeRow0(1, "s", FALSE, "us")} /\ owners = [s \in {"s"} |-> 1]
       \/ manual = {NodeRow0(1, "s", FALSE, "us"), NodeRow0(2, "manual", TRUE, "us")} /\ owners = [s \in {"s", "manual"} |-> 1]
    /\ nodeAsks = [q \in NodeCalls |-> NotAsked] /\ nodeSteps = 0 /\ neat = TRUE
    /\ wish = [id \in 1..(2 + MaxNodeCalls) |-> TRUE]

-----------------------------------------------------------------------------
MayAsk(q) == nodeAsks[q].at = "idle" /\ nodeSteps < MaxNodeCalls
Arrives(q, ask) ==
    /\ nodeSteps' = nodeSteps + 1 /\ nodeAsks' = [nodeAsks EXCEPT ![q] = ask]
    /\ neat' = (neat /\ \A other \in NodeCalls : nodeAsks[other].at = "idle")
Goes(q, at) == nodeAsks' = [nodeAsks EXCEPT ![q].at = at] /\ UNCHANGED <<nodeSteps, neat>>
Ends(q) == nodeAsks' = [nodeAsks EXCEPT ![q] = NotAsked] /\ UNCHANGED <<nodeSteps, neat>>

(* POST /nodes: the manual source is made when it is missing, another one  *)
(* has to exist, still when the row is inserted.                           *)
CreateNode(q) ==
    MayAsk(q) /\ \E body \in Resolving :
        /\ Or(body.source, "manual") \in DOMAIN owners \cup {"manual"}
        /\ Arrives(q, [at |-> "insert", row |-> [ResolveInput(body) EXCEPT !.id = 3 + nodeSteps]])
        /\ owners' = IF body.source # "" THEN owners
                     ELSE [s \in DOMAIN owners \cup {"manual"} |-> IF s \in DOMAIN owners THEN owners[s] ELSE 0]
        /\ UNCHANGED <<manual, wish>>
InsertNode(q) ==
    /\ nodeAsks[q].at = "insert"
    /\ LET row == nodeAsks[q].row IN
       IF row.source \notin DOMAIN owners THEN Ends(q) /\ UNCHANGED <<manual, wish>>
       ELSE manual' = manual \cup {row} /\ Goes(q, "count") /\ wish' = [wish EXCEPT ![row.id] = row.enabled]
    /\ UNCHANGED owners

(* updateSourceNodeCount *)
CountNodes(q) ==
    /\ nodeAsks[q].at = "count"
    /\ LET row == nodeAsks[q].row IN
       nodeAsks' = [nodeAsks EXCEPT ![q] = [at |-> "store", row |-> row, count |-> Cardinality(NodesOf(manual, row.source))]]
    /\ UNCHANGED <<manual, owners, nodeSteps, wish, neat>>
StoreNodeCount(q) ==
    /\ nodeAsks[q].at = "store"
    /\ owners' = [s \in DOMAIN owners |-> IF s = nodeAsks[q].row.source THEN nodeAsks[q].count ELSE owners[s]]
    /\ Ends(q) /\ UNCHANGED <<manual, wish>>

(* PUT /nodes/:id: a node of a subscription can only be switched, and that *)
(* at once; of a manual one every column is written as read or as asked.   *)
ReadNodeRow(q) ==
    MayAsk(q) /\ \E row \in manual, body \in Editing :
        /\ IF ~row.hand THEN EnabledOnly(body)
           ELSE LET next == UpdatedRow(row, body) IN
                Usable(next.protocol) /\ Missing(next.protocol, next.parsed, next.raw) = {}
        /\ Arrives(q, [at |-> "update", row |-> row, body |-> body])
        /\ UNCHANGED <<manual, owners, wish>>
UpdateNodeRow(q) ==
    /\ nodeAsks[q].at = "update"
    /\ LET read == nodeAsks[q].row
           body == nodeAsks[q].body
           written(row) == IF row.hand THEN UpdatedRow(read, body) ELSE [row EXCEPT !.enabled = body.enabled = "on"]
       IN /\ manual' = {IF row.id = read.id THEN written(row) ELSE row : row \in manual}
          /\ wish' = IF body.enabled = "" THEN wish ELSE [wish EXCEPT ![read.id] = body.enabled = "on"]
    /\ Ends(q) /\ UNCHANGED owners

(* DELETE /nodes/:id *)
ReadForDelete(q) ==
    /\ MayAsk(q) /\ \E row \in manual : row.hand /\ Arrives(q, [at |-> "delete", row |-> row])
    /\ UNCHANGED <<manual, owners, wish>>
DeleteNodeRow(q) ==
    /\ nodeAsks[q].at = "delete"
    /\ manual' = {row \in manual : row.id # nodeAsks[q].row.id}
    /\ Goes(q, "count") /\ UNCHANGED <<owners, wish>>

(* PUT /nodes/batch-enabled: every node is looked up, then all are set.    *)
AllFound(ids) == ids # {} /\ ids \subseteq {row.id : row \in manual}
ReadBatch(q) ==
    MayAsk(q) /\ \E ids \in SUBSET {1, 2, 3}, to \in {"on", "off"} :
        /\ AllFound(ids)
        /\ Arrives(q, [at |-> "batch", ids |-> ids, to |-> to])
        /\ UNCHANGED <<manual, owners, wish>>
WriteBatch(q) ==
    /\ nodeAsks[q].at = "batch"
    /\ LET ids == nodeAsks[q].ids
           on == nodeAsks[q].to = "on"
       IN /\ manual' = {[row EXCEPT !.enabled = IF row.id \in ids THEN on ELSE @] : row \in manual}
          /\ wish' = [id \in DOMAIN wish |-> IF id \in ids THEN on ELSE wish[id]]
    /\ Ends(q) /\ UNCHANGED owners

(* DELETE /sources/:id takes the nodes of a source with it.                *)
DropSource ==
    /\ "s" \in DOMAIN owners /\ nodeSteps < MaxNodeCalls /\ nodeSteps' = nodeSteps + 1
    /\ neat' = (neat /\ \A q \in NodeCalls : nodeAsks[q].at = "idle")
    /\ owners' = [s \in DOMAIN owners \ {"s"} |-> owners[s]] /\ manual' = manual \ NodesOf(manual, "s")
    /\ UNCHANGED <<nodeAsks, wish>>

ManualNext ==
    \/ \E q \in NodeCalls : CreateNode(q) \/ InsertNode(q) \/ CountNodes(q) \/ StoreNodeCount(q) \/ ReadNodeRow(q)
                            \/ UpdateNodeRow(q) \/ ReadForDelete(q) \/ DeleteNodeRow(q) \/ ReadBatch(q) \/ WriteBatch(q)
    \/ DropSource

ManualSpec == ManualInit /\ [][ManualNext]_nodeVars

-----------------------------------------------------------------------------
ManualTypes ==
    /\ DOMAIN owners \subseteq {"s", "manual"} /\ nodeSteps \in 0..MaxNodeCalls
    /\ \A q \in NodeCalls : nodeAsks[q].at \in {"idle", "insert", "count", "store", "update", "delete", "batch"}
    /\ \A row, other \in manual : row.id = other.id => row = other

(* However edits of a node overlap, its row is one some request wanted as  *)
(* a whole: the secret its protocol needs is stored, once it was edited    *)
(* both copies of the connection agree, and the country is the one its     *)
(* name says or the operator chose.  A node of a subscription stays as the *)
(* provider names it and belongs to a source there is.  Without overlap    *)
(* every node is as it was last switched and every source counts its own.  *)
ManualNodesAgree ==
    /\ \A row \in manual : row.source \in DOMAIN owners
    /\ \A row \in manual :
         IF row.hand THEN /\ Needs(row.protocol) \subseteq row.parsed.keys \cup row.raw
                          /\ row.edited => row.parsed.protocol = row.protocol /\ row.parsed.server = row.server
                          /\ Detect(row.name) # "" /\ ~row.chosen => row.country = Detect(row.name)
         ELSE row = [NodeRow0(row.id, "s", FALSE, "us") EXCEPT !.enabled = row.enabled]
    /\ neat => \A row \in manual : row.enabled = wish[row.id]
    /\ neat /\ (\A q \in NodeCalls : nodeAsks[q].at = "idle") =>
         \A s \in DOMAIN owners : owners[s] = Cardinality(NodesOf(manual, s))
=============================================================================
