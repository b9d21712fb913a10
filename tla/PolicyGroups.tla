---------------------------- MODULE PolicyGroups -----------------------------
(***************************************************************************)
(* Policy groups of one workspace, the node groups (collections) they draw *)
(* nodes from, and the rules that send traffic to them.  Every write of a  *)
(* group or a node group ends with syncRoutingPolicyGroups, which rewrites *)
(* what the groups without nodes of their own list; rules are written      *)
(* after it.  Each database call is one action, so requests interleave     *)
(* between the checks they make and what they write.  A request carries    *)
(* the calls it has still to make.                                         *)
(***************************************************************************)
EXTENDS GroupReferences, SequencesExt

CONSTANTS
    Proxy,     \* builtin-proxy, the default outlet that is itself a routing group
    Custom,    \* ids of groups of the operator
    Pools,     \* ids of node groups of the operator
    Rules,     \* ids of rules
    Requests,  \* slots for requests in flight
    Nobody,    \* no id, no group, no target
    Ops,       \* what each slot may be asked for
    MayDie,    \* whether a request may be cut off between two calls
    GoesOn     \* bound: whether requests begin after one met another or was cut off

Operations == {"create", "update", "delete", "pool", "unpool", "both", "relink", "rule", "unrule"}

ASSUME ConstantsAssumption ==
    /\ Proxy \notin Custom /\ Nobody \notin Custom \cup {Proxy} \cup Pools \cup Rules
    /\ Ops \in [Requests -> SUBSET Operations] /\ MayDie \in BOOLEAN /\ GoesOn \in BOOLEAN

Groups == Custom \cup {Proxy}

VARIABLES
    groups,  \* the rows of groups that matter here, Nobody for none
    pools,   \* the rows of collections
    target,  \* target_group_id of each rule, Nobody for no rule
    req,     \* requests in flight
    calm,    \* no request ever met another one or was cut off
    plain    \* no group ever had both nodes and a list of its own

rows == <<groups, plain>>
vars == <<groups, pools, target, req, calm, plain>>

-----------------------------------------------------------------------------
Row == [enabled : BOOLEAN, pools : SUBSET Pools, members : SUBSET Groups]
NoRow == [enabled |-> FALSE, pools |-> {}, members |-> {}]

(* Nobody stands for a row that is not there. *)
ASSUME NobodyIsNoRow == Nobody \notin Row

Steps == {"pools", "graph", "insert", "update", "parents", "targets", "delete",
          "poolParents", "deletePool", "insertPool", "insertBoth", "link",
          "updateLinked", "target", "insertRule", "updateRule", "deleteRule", "syncRead", "syncWrite"}

(* todo: the calls still to make; id, pool, rule: what it is about; row:   *)
(* the row to write; plan: the lists syncRoutingPolicyGroups computed.     *)
Idle == [todo |-> <<>>, id |-> Nobody, pool |-> Nobody, rule |-> Nobody,
         row |-> NoRow, plan |-> <<>>]

Existing == {g \in Groups : groups[g] # Nobody}
TypeOK ==
    /\ groups \in [Groups -> Row \cup {Nobody}] /\ groups[Proxy] # Nobody
    /\ pools \subseteq Pools
    /\ target \in [Rules -> Groups \cup {Nobody}]
    /\ DOMAIN req = Requests
    /\ \A q \in Requests :
         /\ req[q].todo \in Seq(Steps)
         /\ req[q].id \in Groups \cup {Nobody} /\ req[q].pool \in Pools \cup {Nobody}
         /\ req[q].rule \in Rules \cup {Nobody} /\ req[q].row \in Row
         /\ \A g \in DOMAIN req[q].plan :
              g \in Groups /\ req[q].plan[g] \subseteq Groups \ {g}
    /\ calm \in BOOLEAN /\ plain \in BOOLEAN

Init ==
    /\ groups = [g \in Groups |-> IF g = Proxy THEN [NoRow EXCEPT !.enabled = TRUE] ELSE Nobody]
    /\ pools = {} /\ target = [r \in Rules |-> Nobody]
    /\ req = [q \in Requests |-> Idle] /\ calm = TRUE /\ plain = TRUE

-----------------------------------------------------------------------------
(* resolveRoutingGroupIds and resolveOutletGroupIds of the rows gs. *)
IsRouting(row) == row.enabled /\ row.pools = {}
IsOutlet(g, row) == row.enabled /\ (g = Proxy \/ row.pools # {})
Routing == {g \in Existing : IsRouting(groups[g])}
Outlets == {g \in Existing : IsOutlet(g, groups[g])}
ResolvedSlipSelf(g) == Outlets
Resolved(g) == Outlets \ {g}

(* The order of a list does not matter to what is said here. *)
References(gs) == [g \in {h \in Groups : gs[h] # Nobody} |-> SetToSeq(gs[g].members)]
SoundSlipClosed(gs) == Closed(References(gs))
Sound(gs) == LET refs == References(gs) IN Closed(refs) /\ Acyclic(refs)

-----------------------------------------------------------------------------
(* How a request proceeds. *)
At(q, step) == req[q].todo # <<>> /\ Head(req[q].todo) = step
Answer(q) == req' = [req EXCEPT ![q] = Idle]
Continue(q, r) ==
    req' = [req EXCEPT ![q] = IF Len(r.todo) = 1 THEN Idle ELSE [r EXCEPT !.todo = Tail(@)]]

Begin(q, op, r) ==
    /\ op \in Ops[q]
    /\ req' = [req EXCEPT ![q] = r]
    /\ calm' = (calm /\ \A p \in Requests \ {q} : req[p] = Idle)
    /\ UNCHANGED <<rows, pools, target>>

Store(gs) ==
    /\ groups' = gs
    /\ plain' = (plain /\ \A g \in Groups : \/ gs[g] = Nobody
                                           \/ gs[g].pools = {} \/ gs[g].members = {})

Sync == <<"syncRead", "syncWrite">>

(* newId returns an id nobody has heard of. *)
FreshGroup(g) ==
    /\ groups[g] = Nobody
    /\ \A h \in Existing : g \notin groups[h].members
    /\ \A q \in Requests :
         /\ g # req[q].id /\ g \notin req[q].row.members
         /\ \A h \in DOMAIN req[q].plan : g # h /\ g \notin req[q].plan[h]
FreshPool(c) ==
    /\ c \notin pools
    /\ \A h \in Existing : c \notin groups[h].pools
    /\ \A q \in Requests : c # req[q].pool /\ c \notin req[q].row.pools

-----------------------------------------------------------------------------
(* POST /groups; the body may name groups and node groups that are gone. *)
CreateGroup(q, g, row) ==
    /\ FreshGroup(g) /\ g \notin row.members
    /\ Begin(q, "create", [Idle EXCEPT !.id = g, !.row = row,
                           !.todo = <<"pools", "graph", "insert">> \o Sync])

(* PUT /groups/:id reads the row and keeps what the body does not name. *)
UpdateGroup(q, g, row, named) ==
    /\ groups[g] # Nobody /\ g # Proxy /\ g \notin row.members
    /\ LET old == groups[g]
           new == [f \in DOMAIN row |-> IF f \in named THEN row[f] ELSE old[f]]
           checks == (IF "members" \in named THEN <<"graph">> ELSE <<>>)
                       \o (IF "pools" \in named THEN <<"pools">> ELSE <<>>)
       IN  Begin(q, "update", [Idle EXCEPT !.id = g, !.row = new,
                               !.todo = checks \o <<"update">> \o Sync])

(* validateGroupCollectionReferences *)
CheckPools(q) ==
    /\ At(q, "pools")
    /\ IF req[q].row.pools \subseteq pools THEN Continue(q, req[q]) ELSE Answer(q)
    /\ UNCHANGED <<rows, pools, target, calm>>

(* validateGroupReferenceChange: the graph as stored, with this group's new list. *)
CheckGraph(q) ==
    /\ At(q, "graph")
    /\ IF Sound([groups EXCEPT ![req[q].id] = req[q].row])
         THEN Continue(q, req[q]) ELSE Answer(q)
    /\ UNCHANGED <<rows, pools, target, calm>>

InsertGroup(q) ==
    /\ At(q, "insert")
    /\ Store([groups EXCEPT ![req[q].id] = req[q].row])
    /\ Continue(q, req[q]) /\ UNCHANGED <<pools, target, calm>>

(* An UPDATE of a row that is gone changes nothing. *)
StoreGroup(q) ==
    /\ At(q, "update")
    /\ Store(IF groups[req[q].id] = Nobody THEN groups
             ELSE [groups EXCEPT ![req[q].id] = req[q].row])
    /\ Continue(q, req[q]) /\ UNCHANGED <<pools, target, calm>>

(* DELETE /groups/:id *)
DeleteGroup(q, g) ==
    /\ groups[g] # Nobody /\ g # Proxy
    /\ Begin(q, "delete", [Idle EXCEPT !.id = g, !.todo = <<"parents", "targets", "delete">> \o Sync])

(* findGroupDeleteBlockers: groups that list g, but for those the sync rewrites. *)
ManagedSlipDisabled(h) == groups[h].pools = {}
Managed(h) == h \in Routing
Parents(g) == {h \in Existing \ {g} : ~Managed(h) /\ g \in groups[h].members}
TargetedBy(g) == {r \in Rules : target[r] = g}

FindParents(q) ==
    /\ At(q, "parents")
    /\ IF Parents(req[q].id) = {} THEN Continue(q, req[q]) ELSE Answer(q)
    /\ UNCHANGED <<rows, pools, target, calm>>

FindTargets(q) ==
    /\ At(q, "targets")
    /\ IF TargetedBy(req[q].id) = {} THEN Continue(q, req[q]) ELSE Answer(q)
    /\ UNCHANGED <<rows, pools, target, calm>>

(* rules.target_group_id REFERENCES groups(id): the statement fails. *)
DeletableSlipUnchecked(gs) == TRUE
Deletable(gs) == \A r \in Rules : target[r] \notin gs
Removed(gs) == [g \in Groups |-> IF g \in gs THEN Nobody ELSE groups[g]]

RemoveGroup(q) ==
    /\ At(q, "delete")
    /\ IF Deletable({req[q].id})
         THEN Store(Removed({req[q].id})) /\ Continue(q, req[q])
         ELSE UNCHANGED rows /\ Answer(q)
    /\ UNCHANGED <<pools, target, calm>>

-----------------------------------------------------------------------------
(* POST /collections *)
CreatePool(q, c) ==
    /\ FreshPool(c)
    /\ Begin(q, "pool", [Idle EXCEPT !.pool = c, !.todo = <<"insertPool">> \o Sync])

InsertPool(q) ==
    /\ At(q, "insertPool")
    /\ pools' = pools \cup {req[q].pool}
    /\ Continue(q, req[q]) /\ UNCHANGED <<rows, target, calm>>

(* DELETE /collections/:id takes the groups along that draw on it alone. *)
DeletePool(q, c) ==
    /\ c \in pools
    /\ Begin(q, "unpool", [Idle EXCEPT !.pool = c, !.todo = <<"poolParents", "deletePool">> \o Sync])

Dedicated(c) == {g \in Existing \ {Proxy} : groups[g].pools = {c}}

FindPoolParents(q) ==
    /\ At(q, "poolParents")
    /\ LET c == req[q].pool
           users == {g \in Existing : c \in groups[g].pools}
       IN  IF /\ users = Dedicated(c)
              /\ \A g \in users : Parents(g) = {} /\ TargetedBy(g) = {}
             THEN Continue(q, req[q]) ELSE Answer(q)
    /\ UNCHANGED <<rows, pools, target, calm>>

RemovePool(q) ==
    /\ At(q, "deletePool")
    /\ LET c == req[q].pool
       IN  IF Deletable(Dedicated(c))
             THEN Store(Removed(Dedicated(c))) /\ pools' = pools \ {c} /\ Continue(q, req[q])
             ELSE UNCHANGED <<rows, pools>> /\ Answer(q)
    /\ UNCHANGED <<target, calm>>

(* POST /collections/with-group syncs first and writes both in one batch. *)
CreateBoth(q, c, g, enabled) ==
    /\ FreshPool(c) /\ FreshGroup(g)
    /\ Begin(q, "both", [Idle EXCEPT !.pool = c, !.id = g, !.todo = Sync \o <<"insertBoth">>,
                         !.row = [NoRow EXCEPT !.enabled = enabled, !.pools = {c}]])

InsertBoth(q) ==
    /\ At(q, "insertBoth")
    /\ Store([groups EXCEPT ![req[q].id] = req[q].row])
    /\ pools' = pools \cup {req[q].pool}
    /\ Continue(q, req[q]) /\ UNCHANGED <<target, calm>>

(* PUT /collections/:id/with-group finds the group of the node group first, *)
(* and adds one if there is none; other columns of the node group are left  *)
(* out.                                                                     *)
UpdateBoth(q, c, enabled) ==
    /\ c \in pools
    /\ Begin(q, "relink", [Idle EXCEPT !.pool = c, !.todo = <<"link">>,
                           !.row = [NoRow EXCEPT !.enabled = enabled, !.pools = {c}]])

FindLinked(q) ==
    /\ At(q, "link")
    /\ LET linked == Dedicated(req[q].pool)
       IN  \E g \in Custom :
             /\ IF linked = {} THEN FreshGroup(g) ELSE g \in linked
             /\ req' = [req EXCEPT ![q].id = g, ![q].todo =
                           Sync \o <<IF linked = {} THEN "insert" ELSE "updateLinked">>]
    /\ UNCHANGED <<rows, pools, target, calm>>

StoreLinked(q) ==
    /\ At(q, "updateLinked")
    /\ LET g == req[q].id
       IN  Store(IF groups[g] = Nobody THEN groups
                 ELSE [groups EXCEPT ![g].enabled = req[q].row.enabled,
                                     ![g].pools = req[q].row.pools])
    /\ Continue(q, req[q]) /\ UNCHANGED <<pools, target, calm>>

-----------------------------------------------------------------------------
(* POST /rules, and PUT /rules/:id with a target: the defaults are ensured *)
(* before the target is looked at.                                         *)
WriteRule(q, r, g) ==
    /\ target[r] = Nobody => \A p \in Requests : req[p].rule # r
    /\ Begin(q, "rule", [Idle EXCEPT !.rule = r, !.id = g,
                         !.todo = Sync \o <<"target", IF target[r] = Nobody THEN "insertRule"
                                                       ELSE "updateRule">>])

(* PUT /rules/:id that names no target writes back the one it read first.  *)
EditRule(q, r) ==
    /\ target[r] # Nobody
    /\ Begin(q, "rule", [Idle EXCEPT !.rule = r, !.id = target[r],
                         !.todo = Sync \o <<"updateRule">>])

(* isEnabledTargetGroup *)
CheckTarget(q) ==
    /\ At(q, "target")
    /\ IF req[q].id \in Routing THEN Continue(q, req[q]) ELSE Answer(q)
    /\ UNCHANGED <<rows, pools, target, calm>>

(* The foreign key again: a target that is gone fails the statement.       *)
Referable(g) == groups[g] # Nobody

InsertRule(q) ==
    /\ At(q, "insertRule")
    /\ IF Referable(req[q].id)
         THEN target' = [target EXCEPT ![req[q].rule] = req[q].id] /\ Continue(q, req[q])
         ELSE UNCHANGED target /\ Answer(q)
    /\ UNCHANGED <<rows, pools, calm>>

StoreRule(q) ==
    /\ At(q, "updateRule")
    /\ IF target[req[q].rule] # Nobody /\ Referable(req[q].id)
         THEN target' = [target EXCEPT ![req[q].rule] = req[q].id] /\ Continue(q, req[q])
         ELSE UNCHANGED target /\ Answer(q)
    /\ UNCHANGED <<rows, pools, calm>>

DeleteRule(q, r) ==
    /\ target[r] # Nobody
    /\ Begin(q, "unrule", [Idle EXCEPT !.rule = r, !.todo = <<"deleteRule">> \o Sync])

RemoveRule(q) ==
    /\ At(q, "deleteRule")
    /\ target' = [target EXCEPT ![req[q].rule] = Nobody]
    /\ Continue(q, req[q]) /\ UNCHANGED <<rows, pools, calm>>

-----------------------------------------------------------------------------
(* syncRoutingPolicyGroups reads all rows, then writes the lists in a batch; *)
(* DIRECT, REJECT and the outlets of all nodes, which list nobody and are    *)
(* never deleted, are left out.                                              *)
SyncRead(q) ==
    /\ At(q, "syncRead")
    /\ Continue(q, [req[q] EXCEPT !.plan = [g \in Routing |-> Resolved(g)]])
    /\ UNCHANGED <<rows, pools, target, calm>>

SyncWrite(q) ==
    /\ At(q, "syncWrite")
    /\ Store([g \in Groups |-> IF g \in DOMAIN req[q].plan /\ groups[g] # Nobody
                               THEN [groups[g] EXCEPT !.members = req[q].plan[g]]
                               ELSE groups[g]])
    /\ Continue(q, [req[q] EXCEPT !.plan = <<>>]) /\ UNCHANGED <<pools, target, calm>>

Die(q) ==
    /\ MayDie /\ req[q] # Idle
    /\ Answer(q) /\ calm' = FALSE /\ UNCHANGED <<rows, pools, target>>

-----------------------------------------------------------------------------
Asked(q) ==
    /\ req[q] = Idle /\ (calm \/ GoesOn)
    /\ \/ \E g \in Custom, row \in Row :
            \/ CreateGroup(q, g, row)
            \/ \E named \in SUBSET DOMAIN NoRow :
                 /\ \A f \in DOMAIN NoRow \ named : row[f] = NoRow[f]
                 /\ UpdateGroup(q, g, row, named)
       \/ \E g \in Custom : DeleteGroup(q, g)
       \/ \E c \in Pools : CreatePool(q, c) \/ DeletePool(q, c)
       \/ \E c \in Pools, enabled \in BOOLEAN :
            UpdateBoth(q, c, enabled) \/ \E g \in Custom : CreateBoth(q, c, g, enabled)
       \/ \E r \in Rules : DeleteRule(q, r) \/ EditRule(q, r) \/ \E g \in Groups : WriteRule(q, r, g)

Call(q) ==
    \/ CheckPools(q) \/ CheckGraph(q) \/ InsertGroup(q) \/ StoreGroup(q)
    \/ FindParents(q) \/ FindTargets(q) \/ RemoveGroup(q)
    \/ InsertPool(q) \/ FindPoolParents(q) \/ RemovePool(q)
    \/ InsertBoth(q) \/ FindLinked(q) \/ StoreLinked(q)
    \/ CheckTarget(q) \/ InsertRule(q) \/ StoreRule(q) \/ RemoveRule(q)
    \/ SyncRead(q) \/ SyncWrite(q)

Next == \E q \in Requests : Asked(q) \/ Call(q) \/ Die(q)

Spec == Init /\ [][Next]_vars

-----------------------------------------------------------------------------
(* A rule never sends traffic to a group that does not exist, whichever    *)
(* deletions and rule edits overlap.                                       *)
RuleTargetsExist == \A r \in Rules : target[r] # Nobody => groups[target[r]] # Nobody

(* One request after the other, no group is left that lists a deleted one, *)
(* which would make validateGroupReferenceChange refuse every new group;   *)
(* nor do groups list each other in a circle, as long as none ever had     *)
(* both nodes and a list of its own.                                       *)
Quiet == calm /\ \A q \in Requests : req[q] = Idle
ListsStaySound ==
    Quiet => Closed(References(groups)) /\ (plain => Acyclic(References(groups)))

(* "rejects missing and cyclic policy-group references against real D1     *)
(* state": the stored lists are acyclic.                                   *)
ReferencesAcyclic == Quiet => Acyclic(References(groups))
=============================================================================
