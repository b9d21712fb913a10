-------------------------- MODULE PolicyGroupsProofs --------------------------
(***************************************************************************)
(* For any groups, node groups, rules and requests: types are kept, a rule *)
(* never has a target that does not exist, and requests that come one      *)
(* after the other leave lists of groups that are sound.                   *)
(***************************************************************************)
EXTENDS PolicyGroups, FiniteSetTheorems, TLAPS

(* What TypeOK leaves open: requests are records, none is to write or      *)
(* delete the row of PROXY, and those that add a node group know which.    *)
Lists == {f \in UNION {[D -> SUBSET Groups] : D \in SUBSET Groups} :
            \A g \in DOMAIN f : g \notin f[g]}
AnyRequest ==
    [todo : Seq(Steps), id : Groups \cup {Nobody}, pool : Pools \cup {Nobody},
     rule : Rules \cup {Nobody}, row : Row, plan : Lists]
Owned == {"insert", "update", "delete", "insertBoth", "updateLinked"}
May(id, pool) == {s \in Steps : /\ s \in Owned => id # Proxy
                                /\ s \in {"insertPool", "insertBoth"} => pool # Nobody}
Request == {r \in AnyRequest : r.todo \in Seq(May(r.id, r.pool))}

RequestsOK == req \in [Requests -> Request]
RowsOK == groups \in [Groups -> Row \cup {Nobody}] /\ groups[Proxy] # Nobody
RestOK ==
    /\ pools \subseteq Pools /\ target \in [Rules -> Groups \cup {Nobody}]
    /\ calm \in BOOLEAN /\ plain \in BOOLEAN

IInv == RequestsOK /\ RowsOK /\ RestOK /\ RuleTargetsExist

-----------------------------------------------------------------------------
(* How a request changes. *)
LEMMA NoLists == <<>> \in Lists
<1>1. DOMAIN <<>> = {}
  OBVIOUS
<1>2. <<>> \in [{} -> SUBSET Groups]
  BY <1>1
<1> QED BY <1>1, <1>2 DEF Lists

LEMMA IdleIsRequest == Idle \in Request
<1>1. NoRow \in Row
  BY DEF NoRow, Row
<1>2. <<>> \in Seq(Steps)
  OBVIOUS
<1>3. Idle \in AnyRequest
  <2>1. \A t \in Seq(Steps), l \in Lists :
          [todo |-> t, id |-> Nobody, pool |-> Nobody, rule |-> Nobody,
           row |-> NoRow, plan |-> l] \in AnyRequest
    BY <1>1 DEF AnyRequest
  <2> QED BY <2>1, <1>2, NoLists DEF Idle
<1>4. Idle.todo \in Seq(May(Idle.id, Idle.pool))
  <2>1. \A S : <<>> \in Seq(S)
    OBVIOUS
  <2> QED BY <2>1 DEF Idle
<1> QED BY <1>3, <1>4 DEF Request

LEMMA Answered == ASSUME RequestsOK, NEW q \in Requests, Answer(q) PROVE RequestsOK'
  BY IdleIsRequest DEF Answer, RequestsOK

LEMMA TailOfSteps ==
  ASSUME NEW S, NEW s \in Seq(S), s # <<>> PROVE Tail(s) \in Seq(S)
  OBVIOUS

LEMMA Continued ==
  ASSUME RequestsOK, NEW q \in Requests, NEW r \in Request, r.todo # <<>>, Continue(q, r)
  PROVE  RequestsOK'
<1> DEFINE next == [r EXCEPT !.todo = Tail(@)]
<1>1. Tail(r.todo) \in Seq(Steps)
  BY TailOfSteps DEF Request, AnyRequest
<1>2. Tail(r.todo) \in Seq(May(r.id, r.pool))
  BY TailOfSteps DEF Request
<1>3. next \in AnyRequest /\ next.id = r.id /\ next.pool = r.pool /\ next.todo = Tail(r.todo)
  BY <1>1 DEF Request, AnyRequest
<1>4. next \in Request
  BY <1>2, <1>3 DEF Request
<1> QED BY <1>4, IdleIsRequest DEF Continue, RequestsOK

LEMMA Proceeds ==
  ASSUME RequestsOK, NEW q \in Requests, req[q].todo # <<>>,
         Continue(q, req[q]) \/ Answer(q)
  PROVE  RequestsOK'
<1>1. req[q] \in Request
  BY DEF RequestsOK
<1> QED BY <1>1, Continued, Answered

LEMMA Began ==
  ASSUME RequestsOK, NEW q \in Requests, NEW op, NEW r \in Request, Begin(q, op, r)
  PROVE  RequestsOK'
  BY DEF Begin, RequestsOK

-----------------------------------------------------------------------------
(* The requests that begin, and the calls they are to make. *)
LEMMA Joined ==
  ASSUME NEW S, NEW s \in Seq(S), NEW t \in Seq(S) PROVE s \o t \in Seq(S)
  OBVIOUS

LEMMA SyncIsSteps == ASSUME NEW id, NEW pool PROVE Sync \in Seq(May(id, pool))
  BY DEF Sync, Steps, May, Owned

LEMMA MayIsSteps ==
  ASSUME NEW id, NEW pool, NEW s \in Seq(May(id, pool)) PROVE s \in Seq(Steps)
<1>1. May(id, pool) \subseteq Steps
  BY DEF May, Owned
<1> HIDE DEF May, Owned, Steps
<1> QED BY <1>1

LEMMA IdleFields == Idle.id = Nobody /\ Idle.pool = Nobody /\ Nobody # Proxy
  BY ConstantsAssumption DEF Idle


LEMMA CreateIsRequest ==
  ASSUME NEW q \in Requests, NEW g \in Custom, NEW row \in Row, RequestsOK, CreateGroup(q, g, row)
  PROVE  RequestsOK'
<1> DEFINE todo == <<"pools", "graph", "insert">> \o Sync
           r == [Idle EXCEPT !.id = g, !.row = row, !.todo = todo]
<1>1. todo \in Seq(May(g, Nobody))
  <2>1. <<"pools", "graph", "insert">> \in Seq(May(g, Nobody))
    BY ConstantsAssumption DEF Groups, Steps, May, Owned
  <2> QED BY <2>1, Joined, SyncIsSteps
<1>2. g \in Groups /\ g # Proxy
  BY ConstantsAssumption DEF Groups
<1> HIDE DEF todo
<1>3. todo \in Seq(Steps)
  BY <1>1, MayIsSteps
<1>4. r \in AnyRequest /\ r.id = g /\ r.pool = Nobody /\ r.todo = todo
  BY <1>2, <1>3, IdleIsRequest, IdleFields DEF Request, AnyRequest
<1>5. r \in Request
  BY <1>1, <1>4 DEF Request
<1> HIDE DEF r
<1> QED BY <1>5, Began DEF CreateGroup, r, todo

LEMMA UpdateIsRequest ==
  ASSUME NEW q \in Requests, NEW g \in Custom, NEW row \in Row, NEW named, RequestsOK, RowsOK,
         UpdateGroup(q, g, row, named)
  PROVE  RequestsOK'
<1> DEFINE new == [f \in DOMAIN row |-> IF f \in named THEN row[f] ELSE groups[g][f]]
           first == IF "members" \in named THEN <<"graph">> ELSE <<>>
           second == IF "pools" \in named THEN <<"pools">> ELSE <<>>
           todo == (first \o second) \o <<"update">> \o Sync
           r == [Idle EXCEPT !.id = g, !.row = new, !.todo = todo]
<1>1. todo \in Seq(May(g, Nobody))
  <2>1. /\ <<"graph">> \in Seq(May(g, Nobody)) /\ <<"pools">> \in Seq(May(g, Nobody))
        /\ <<"update">> \in Seq(May(g, Nobody))
    BY ConstantsAssumption DEF Groups, Steps, May, Owned
  <2>2. <<>> \in Seq(May(g, Nobody))
    OBVIOUS
  <2>3. first \in Seq(May(g, Nobody)) /\ second \in Seq(May(g, Nobody))
    BY <2>1, <2>2
  <2> HIDE DEF first, second
  <2>4. first \o second \in Seq(May(g, Nobody))
    BY <2>3, Joined
  <2>5. (first \o second) \o <<"update">> \in Seq(May(g, Nobody))
    BY <2>1, <2>4, Joined
  <2> QED BY <2>5, Joined, SyncIsSteps
<1>2. g \in Groups /\ g # Proxy
  BY ConstantsAssumption DEF Groups
<1>3. groups[g] \in Row
  BY <1>2 DEF RowsOK, UpdateGroup
<1>4. new \in Row
  BY <1>3 DEF Row
<1> HIDE DEF todo, new
<1>5. todo \in Seq(Steps)
  BY <1>1, MayIsSteps
<1>6. r \in AnyRequest /\ r.id = g /\ r.pool = Nobody /\ r.todo = todo
  BY <1>2, <1>3, <1>4, <1>5, IdleIsRequest, IdleFields DEF Request, AnyRequest
<1>7. r \in Request
  BY <1>1, <1>6 DEF Request
<1> HIDE DEF r
<1> QED BY <1>7, Began DEF UpdateGroup, r, todo, new, first, second

LEMMA DeleteIsRequest ==
  ASSUME NEW q \in Requests, NEW g \in Custom, RequestsOK, DeleteGroup(q, g)
  PROVE  RequestsOK'
<1> DEFINE todo == <<"parents", "targets", "delete">> \o Sync
           r == [Idle EXCEPT !.id = g, !.todo = todo]
<1>1. todo \in Seq(May(g, Nobody))
  <2>1. <<"parents", "targets", "delete">> \in Seq(May(g, Nobody))
    BY ConstantsAssumption DEF Groups, Steps, May, Owned
  <2> QED BY <2>1, Joined, SyncIsSteps
<1>2. g \in Groups /\ g # Proxy
  BY ConstantsAssumption DEF Groups
<1> HIDE DEF todo
<1>3. todo \in Seq(Steps)
  BY <1>1, MayIsSteps
<1>4. r \in AnyRequest /\ r.id = g /\ r.pool = Nobody /\ r.todo = todo
  BY <1>2, <1>3, IdleIsRequest, IdleFields DEF Request, AnyRequest
<1>5. r \in Request
  BY <1>1, <1>4 DEF Request
<1> HIDE DEF r
<1> QED BY <1>5, Began DEF DeleteGroup, r, todo

LEMMA PoolIsRequest ==
  ASSUME NEW q \in Requests, NEW c \in Pools, RequestsOK, CreatePool(q, c) \/ DeletePool(q, c)
  PROVE  RequestsOK'
<1> DEFINE added == <<"insertPool">> \o Sync
           gone == <<"poolParents", "deletePool">> \o Sync
           r(todo) == [Idle EXCEPT !.pool = c, !.todo = todo]
<1>1. added \in Seq(May(Nobody, c)) /\ gone \in Seq(May(Nobody, c))
  <2>1. /\ <<"insertPool">> \in Seq(May(Nobody, c))
        /\ <<"poolParents", "deletePool">> \in Seq(May(Nobody, c))
    BY ConstantsAssumption DEF Steps, May, Owned
  <2> QED BY <2>1, Joined, SyncIsSteps
<1> HIDE DEF added, gone
<1>2. ASSUME NEW todo \in Seq(May(Nobody, c)) PROVE r(todo) \in Request
  <2>1. todo \in Seq(Steps)
    BY MayIsSteps
  <2>2. r(todo) \in AnyRequest /\ r(todo).id = Nobody /\ r(todo).pool = c /\ r(todo).todo = todo
    BY <2>1, IdleIsRequest, IdleFields DEF Request, AnyRequest
  <2> QED BY <2>2 DEF Request
<1>3. r(added) \in Request /\ r(gone) \in Request
  BY <1>1, <1>2
<1> HIDE DEF r
<1> QED BY <1>3, Began DEF CreatePool, DeletePool, r, added, gone

LEMMA BothIsRequest ==
  ASSUME NEW q \in Requests, NEW c \in Pools, NEW g \in Custom, NEW enabled \in BOOLEAN,
         RequestsOK, CreateBoth(q, c, g, enabled)
  PROVE  RequestsOK'
<1> DEFINE todo == Sync \o <<"insertBoth">>
           row == [NoRow EXCEPT !.enabled = enabled, !.pools = {c}]
           r == [Idle EXCEPT !.pool = c, !.id = g, !.todo = todo, !.row = row]
<1>1. todo \in Seq(May(g, c))
  <2>1. <<"insertBoth">> \in Seq(May(g, c))
    BY ConstantsAssumption DEF Groups, Steps, May, Owned
  <2> QED BY <2>1, Joined, SyncIsSteps
<1>2. g \in Groups /\ g # Proxy
  BY ConstantsAssumption DEF Groups
<1>3. row \in Row
  BY DEF Row, NoRow
<1> HIDE DEF todo, row
<1>4. todo \in Seq(Steps)
  BY <1>1, MayIsSteps
<1>5. r \in AnyRequest /\ r.id = g /\ r.pool = c /\ r.todo = todo
  BY <1>2, <1>3, <1>4, IdleIsRequest, IdleFields DEF Request, AnyRequest
<1>6. r \in Request
  BY <1>1, <1>5 DEF Request
<1> HIDE DEF r
<1> QED BY <1>6, Began DEF CreateBoth, r, todo, row

LEMMA RelinkIsRequest ==
  ASSUME NEW q \in Requests, NEW c \in Pools, NEW enabled \in BOOLEAN,
         RequestsOK, UpdateBoth(q, c, enabled)
  PROVE  RequestsOK'
<1> DEFINE todo == <<"link">>
           row == [NoRow EXCEPT !.enabled = enabled, !.pools = {c}]
           r == [Idle EXCEPT !.pool = c, !.todo = todo, !.row = row]
<1>1. todo \in Seq(May(Nobody, c))
  BY DEF Steps, May, Owned
<1>2. row \in Row
  BY DEF Row, NoRow
<1> HIDE DEF todo, row
<1>3. todo \in Seq(Steps)
  BY <1>1, MayIsSteps
<1>4. r \in AnyRequest /\ r.id = Nobody /\ r.pool = c /\ r.todo = todo
  BY <1>2, <1>3, IdleIsRequest, IdleFields DEF Request, AnyRequest
<1>5. r \in Request
  BY <1>1, <1>4 DEF Request
<1> HIDE DEF r
<1> QED BY <1>5, Began DEF UpdateBoth, r, todo, row

LEMMA RuleIsRequest ==
  ASSUME NEW q \in Requests, NEW rule \in Rules, NEW g \in Groups, RequestsOK,
         WriteRule(q, rule, g)
  PROVE  RequestsOK'
<1> DEFINE last == IF target[rule] = Nobody THEN "insertRule" ELSE "updateRule"
           todo == Sync \o <<"target", last>>
           r == [Idle EXCEPT !.rule = rule, !.id = g, !.todo = todo]
<1>1. last \in Steps \ Owned /\ last \notin {"insertPool", "insertBoth"}
  BY DEF Steps, Owned
<1> HIDE DEF last
<1>2. <<"target", last>> \in Seq(May(g, Nobody))
  BY <1>1 DEF Steps, May, Owned
<1>3. todo \in Seq(May(g, Nobody))
  BY <1>2, Joined, SyncIsSteps
<1> HIDE DEF todo
<1>4. todo \in Seq(Steps)
  BY <1>3, MayIsSteps
<1>5. r \in AnyRequest /\ r.id = g /\ r.pool = Nobody /\ r.todo = todo
  BY <1>1, <1>2, <1>4, IdleIsRequest, IdleFields DEF Request, AnyRequest
<1>6. r \in Request
  BY <1>3, <1>5 DEF Request
<1> HIDE DEF r
<1> QED BY <1>6, Began DEF WriteRule, r, todo, last

LEMMA EditIsRequest ==
  ASSUME NEW q \in Requests, NEW rule \in Rules, RequestsOK, RestOK, EditRule(q, rule)
  PROVE  RequestsOK'
<1> DEFINE todo == Sync \o <<"updateRule">>
           r == [Idle EXCEPT !.rule = rule, !.id = target[rule], !.todo = todo]
<1>1. <<"updateRule">> \in Seq(May(target[rule], Nobody))
  BY DEF Steps, May, Owned
<1>2. todo \in Seq(May(target[rule], Nobody))
  BY <1>1, Joined, SyncIsSteps
<1>3. target[rule] \in Groups \cup {Nobody}
  BY DEF RestOK
<1> HIDE DEF todo
<1>4. todo \in Seq(Steps)
  BY <1>2, MayIsSteps
<1>5. r \in AnyRequest /\ r.id = target[rule] /\ r.pool = Nobody /\ r.todo = todo
  BY <1>1, <1>3, <1>4, IdleIsRequest, IdleFields DEF Request, AnyRequest
<1>6. r \in Request
  BY <1>2, <1>5 DEF Request
<1> HIDE DEF r
<1> QED BY <1>6, Began DEF EditRule, r, todo

LEMMA UnruleIsRequest ==
  ASSUME NEW q \in Requests, NEW rule \in Rules, RequestsOK, DeleteRule(q, rule)
  PROVE  RequestsOK'
<1> DEFINE todo == <<"deleteRule">> \o Sync
           r == [Idle EXCEPT !.rule = rule, !.todo = todo]
<1>1. todo \in Seq(May(Nobody, Nobody))
  <2>1. <<"deleteRule">> \in Seq(May(Nobody, Nobody))
    BY ConstantsAssumption DEF Groups, Steps, May, Owned
  <2> QED BY <2>1, Joined, SyncIsSteps
<1> HIDE DEF todo
<1>2. todo \in Seq(Steps)
  BY <1>1, MayIsSteps
<1>3. r \in AnyRequest /\ r.id = Nobody /\ r.pool = Nobody /\ r.todo = todo
  BY <1>2, IdleIsRequest, IdleFields DEF Request, AnyRequest
<1>4. r \in Request
  BY <1>1, <1>3 DEF Request
<1> HIDE DEF r
<1> QED BY <1>4, Began DEF DeleteRule, r, todo

(* Every beginning leaves the rows alone. *)
LEMMA AskedKeepsAll ==
  ASSUME IInv, NEW q \in Requests, Asked(q)
  PROVE  RequestsOK' /\ UNCHANGED <<groups, pools, target, plain>> /\ calm' \in BOOLEAN
<1>1. RequestsOK /\ RowsOK /\ RestOK
  BY DEF IInv
<1>2. RequestsOK'
  BY <1>1, CreateIsRequest, UpdateIsRequest, DeleteIsRequest, PoolIsRequest, BothIsRequest,
     RelinkIsRequest, RuleIsRequest, EditIsRequest, UnruleIsRequest DEF Asked
<1>3. ASSUME NEW op, NEW r, Begin(q, op, r)
      PROVE  UNCHANGED <<groups, pools, target, plain>> /\ calm' \in BOOLEAN
  BY <1>1, <1>3 DEF Begin, RestOK, rows
<1>4. UNCHANGED <<groups, pools, target, plain>> /\ calm' \in BOOLEAN
  BY <1>3 DEF Asked, CreateGroup, UpdateGroup, DeleteGroup, CreatePool, DeletePool, UpdateBoth,
              CreateBoth, DeleteRule, EditRule, WriteRule
<1> QED BY <1>2, <1>4

-----------------------------------------------------------------------------
(* The calls of a request keep it a request. *)
LEMMA LinkKeepsRequests ==
  ASSUME RequestsOK, NEW q \in Requests, FindLinked(q)
  PROVE  RequestsOK'
<1> DEFINE linked == Dedicated(req[q].pool)
           last == IF linked = {} THEN "insert" ELSE "updateLinked"
           todo == Sync \o <<last>>
<1>1. PICK g \in Custom :
        req' = [req EXCEPT ![q].id = g, ![q].todo = todo]
  BY DEF FindLinked
<1> HIDE DEF last
<1> DEFINE S == May(g, req[q].pool)
<1>3. last \in S
  BY ConstantsAssumption DEF May, Owned, Steps, Groups, last
<1>4. todo \in Seq(S)
  <2> HIDE DEF S
  <2>1. <<last>> \in Seq(S)
    BY <1>3
  <2> QED BY <2>1, Joined, SyncIsSteps DEF S
<1>5. todo \in Seq(Steps)
  BY <1>4, MayIsSteps
<1> HIDE DEF todo
<1> DEFINE r == [req[q] EXCEPT !.id = g, !.todo = todo]
<1>6. r \in AnyRequest /\ r.id = g /\ r.pool = req[q].pool /\ r.todo = todo
  BY <1>5 DEF RequestsOK, Request, AnyRequest, Groups
<1>7. r \in Request
  BY <1>4, <1>6 DEF Request
<1>8. req' = [req EXCEPT ![q] = r]
  BY <1>1
<1> HIDE DEF r
<1> QED BY <1>7, <1>8 DEF RequestsOK

LEMMA PlanIsLists == [g \in Routing |-> Resolved(g)] \in Lists
<1> DEFINE plan == [g \in Routing |-> Resolved(g)]
<1>1. Routing \in SUBSET Groups
  BY DEF Routing, Existing
<1>2. \A g \in Routing : Resolved(g) \in SUBSET Groups /\ g \notin Resolved(g)
  BY DEF Resolved, Outlets, Existing
<1>3. plan \in [Routing -> SUBSET Groups] /\ DOMAIN plan = Routing
  BY <1>2
<1>4. \A g \in DOMAIN plan : g \notin plan[g]
  BY <1>2
<1> HIDE DEF plan
<1>5. plan \in Lists
  BY <1>1, <1>3, <1>4 DEF Lists
<1> QED BY <1>5 DEF plan

LEMMA SyncKeepsRequests ==
  ASSUME RequestsOK, NEW q \in Requests, SyncRead(q) \/ SyncWrite(q)
  PROVE  RequestsOK'
<1> DEFINE plan == [g \in Routing |-> Resolved(g)]
           r(l) == [req[q] EXCEPT !.plan = l]
<1>1. plan \in Lists
  BY PlanIsLists
<1> HIDE DEF plan
<1>2. ASSUME NEW l \in Lists
      PROVE  r(l) \in Request /\ r(l).todo = req[q].todo
  <2>1. /\ r(l) \in AnyRequest /\ r(l).todo = req[q].todo
        /\ r(l).id = req[q].id /\ r(l).pool = req[q].pool
    BY DEF RequestsOK, Request, AnyRequest
  <2> QED BY <2>1 DEF RequestsOK, Request
<1>3. /\ r(plan) \in Request /\ r(plan).todo = req[q].todo
      /\ r(<<>>) \in Request /\ r(<<>>).todo = req[q].todo
  BY <1>1, <1>2, NoLists
<1>4. req[q].todo # <<>> /\ (Continue(q, r(plan)) \/ Continue(q, r(<<>>)))
  BY DEF SyncRead, SyncWrite, At, plan
<1> HIDE DEF r
<1> QED BY <1>3, <1>4, Continued

LEMMA CallKeepsRequests ==
  ASSUME RequestsOK, NEW q \in Requests, Call(q)
  PROVE  RequestsOK'
<1>1. CASE FindLinked(q)
  BY <1>1, LinkKeepsRequests
<1>2. CASE SyncRead(q) \/ SyncWrite(q)
  BY <1>2, SyncKeepsRequests
<1>3. CASE CheckPools(q) \/ CheckGraph(q) \/ FindParents(q) \/ FindTargets(q) \/ FindPoolParents(q)
             \/ CheckTarget(q)
  <2>1. req[q].todo # <<>> /\ (Continue(q, req[q]) \/ Answer(q))
    BY <1>3 DEF CheckPools, CheckGraph, FindParents, FindTargets, FindPoolParents, CheckTarget, At
  <2> QED BY <2>1, Proceeds
<1>4. CASE InsertGroup(q) \/ StoreGroup(q) \/ RemoveGroup(q) \/ InsertPool(q) \/ RemovePool(q)
             \/ InsertBoth(q) \/ StoreLinked(q)
  <2>1. req[q].todo # <<>> /\ (Continue(q, req[q]) \/ Answer(q))
    BY <1>4 DEF InsertGroup, StoreGroup, RemoveGroup, InsertPool, RemovePool, InsertBoth,
                StoreLinked, At
  <2> QED BY <2>1, Proceeds
<1>5. CASE InsertRule(q) \/ StoreRule(q) \/ RemoveRule(q)
  <2>1. req[q].todo # <<>> /\ (Continue(q, req[q]) \/ Answer(q))
    BY <1>5 DEF InsertRule, StoreRule, RemoveRule, At
  <2> QED BY <2>1, Proceeds
<1> QED BY <1>1, <1>2, <1>3, <1>4, <1>5 DEF Call

-----------------------------------------------------------------------------
(* Rows: what a call leaves of them, whom a deletion spares. *)
Kept == RowsOK' /\ RestOK' /\ target' = target
        /\ \A g \in Groups : groups[g] # Nobody => groups'[g] # Nobody

LEMMA NextCall ==
  ASSUME RequestsOK, NEW q \in Requests, NEW step, At(q, step)
  PROVE  step \in May(req[q].id, req[q].pool)
<1>1. req[q].todo \in Seq(May(req[q].id, req[q].pool)) /\ req[q].todo # <<>>
  BY DEF RequestsOK, Request, At
<1>2. ASSUME NEW S, NEW s \in Seq(S), s # <<>> PROVE Head(s) \in S
  BY <1>2
<1> QED BY <1>1, <1>2 DEF At

LEMMA ChecksKeepRows ==
  ASSUME IInv, NEW q \in Requests,
         \/ CheckPools(q) \/ CheckGraph(q) \/ FindParents(q) \/ FindTargets(q)
         \/ FindPoolParents(q) \/ FindLinked(q) \/ CheckTarget(q) \/ SyncRead(q)
  PROVE  Kept
<1>1. UNCHANGED <<groups, pools, target, calm, plain>>
  BY DEF CheckPools, CheckGraph, FindParents, FindTargets, FindPoolParents, FindLinked,
         CheckTarget, SyncRead, rows
<1> QED BY <1>1 DEF Kept, IInv, RowsOK, RestOK

LEMMA StoredKeepRows ==
  ASSUME RowsOK, RestOK, NEW gs \in [Groups -> Row \cup {Nobody}], Store(gs),
         \A g \in Groups : groups[g] # Nobody => gs[g] # Nobody,
         UNCHANGED <<target, calm>>, pools' \subseteq Pools
  PROVE  Kept
<1>1. groups' = gs /\ plain' \in BOOLEAN
  BY DEF Store
<1>2. Proxy \in Groups
  BY DEF Groups
<1> QED BY <1>1, <1>2 DEF Kept, RowsOK, RestOK

LEMMA WritesKeepRows ==
  ASSUME IInv, NEW q \in Requests,
         InsertGroup(q) \/ StoreGroup(q) \/ InsertBoth(q)
  PROVE  Kept
<1> DEFINE gs == [groups EXCEPT ![req[q].id] = req[q].row]
<1>1. RowsOK /\ RestOK /\ RequestsOK
  BY DEF IInv
<1>2. req[q].row \in Row /\ req[q].pool \in Pools \cup {Nobody}
  BY DEF IInv, RequestsOK, Request, AnyRequest
<1>3. gs \in [Groups -> Row \cup {Nobody}]
  BY <1>1, <1>2 DEF RowsOK
<1>4. \A g \in Groups : groups[g] # Nobody => gs[g] # Nobody
  BY <1>1, <1>2, NobodyIsNoRow DEF RowsOK
<1>5. UNCHANGED <<target, calm>> /\ (Store(gs) \/ Store(groups))
  BY DEF InsertGroup, StoreGroup, InsertBoth
<1>6. pools' \subseteq Pools
  <2>1. pools \subseteq Pools
    BY <1>1 DEF RestOK
  <2>2. CASE InsertBoth(q)
    BY <2>1, <2>2, <1>1, <1>2, NextCall DEF InsertBoth, May, Owned
  <2> QED BY <2>1, <2>2 DEF InsertGroup, StoreGroup
<1>7. groups \in [Groups -> Row \cup {Nobody}]
  BY <1>1 DEF RowsOK
<1> HIDE DEF gs
<1> QED BY <1>1, <1>3, <1>4, <1>5, <1>6, <1>7, StoredKeepRows

LEMMA PoolsKeepRows ==
  ASSUME IInv, NEW q \in Requests, InsertPool(q) PROVE Kept
<1>1. UNCHANGED <<groups, target, calm, plain>> /\ pools' = pools \cup {req[q].pool}
  BY DEF InsertPool, rows
<1>2. req[q].pool \in Pools
  BY NextCall DEF InsertPool, IInv, RequestsOK, Request, AnyRequest, May, Owned
<1> QED BY <1>1, <1>2 DEF Kept, IInv, RowsOK, RestOK

LEMMA LinksKeepRows ==
  ASSUME IInv, NEW q \in Requests, StoreLinked(q) PROVE Kept
<1> DEFINE g == req[q].id
           gs == [groups EXCEPT ![g].enabled = req[q].row.enabled, ![g].pools = req[q].row.pools]
<1>1. RowsOK /\ RestOK
  BY DEF IInv
<1>2. req[q].row \in Row
  BY DEF IInv, RequestsOK, Request, AnyRequest
<1>3. groups \in [Groups -> Row \cup {Nobody}] /\ pools \subseteq Pools
  BY <1>1 DEF RowsOK, RestOK
<1>4. UNCHANGED <<pools, target, calm>> /\ Store(IF groups[g] = Nobody THEN groups ELSE gs)
  BY DEF StoreLinked
<1>5. CASE groups[g] = Nobody \/ g \notin Groups
  <2>1. gs = groups \/ groups[g] = Nobody
    BY <1>3, <1>5
  <2> HIDE DEF gs, g
  <2>2. Store(groups)
    BY <1>4, <2>1
  <2> QED BY <1>1, <1>3, <1>4, <2>2, StoredKeepRows
<1>6. CASE groups[g] # Nobody /\ g \in Groups
  <2> DEFINE row == [groups[g] EXCEPT !.enabled = req[q].row.enabled, !.pools = req[q].row.pools]
  <2>1. row \in Row
    BY <1>2, <1>3, <1>6 DEF Row
  <2>2. gs = [groups EXCEPT ![g] = row]
    BY <1>3, <1>6
  <2> HIDE DEF gs, g, row
  <2>3. gs \in [Groups -> Row \cup {Nobody}]
    BY <1>3, <2>1, <2>2
  <2>4. \A h \in Groups : groups[h] # Nobody => gs[h] # Nobody
    BY <1>3, <2>1, <2>2, NobodyIsNoRow
  <2>5. Store(gs)
    BY <1>4, <1>6
  <2> QED BY <1>1, <1>3, <1>4, <2>3, <2>4, <2>5, StoredKeepRows
<1> QED BY <1>5, <1>6

LEMMA SyncKeepsRows ==
  ASSUME IInv, NEW q \in Requests, SyncWrite(q) PROVE Kept
<1> DEFINE plan == req[q].plan
           row(g) == IF g \in DOMAIN plan /\ groups[g] # Nobody
                       THEN [groups[g] EXCEPT !.members = plan[g]] ELSE groups[g]
           gs == [g \in Groups |-> row(g)]
<1>1. RowsOK /\ RestOK /\ RequestsOK
  BY DEF IInv
<1>2. groups \in [Groups -> Row \cup {Nobody}] /\ pools \subseteq Pools
  BY <1>1 DEF RowsOK, RestOK
<1>3. \A g \in DOMAIN plan : plan[g] \subseteq Groups
  BY <1>1 DEF RequestsOK, Request, AnyRequest, Lists
<1>4. ASSUME NEW g \in Groups
      PROVE  row(g) \in Row \cup {Nobody} /\ (groups[g] # Nobody => row(g) # Nobody)
  <2> HIDE DEF plan
  <2>1. CASE g \in DOMAIN plan /\ groups[g] # Nobody
    <3>1. groups[g] \in Row
      BY <1>2, <2>1
    <3>2. [groups[g] EXCEPT !.members = plan[g]] \in Row
      BY <1>3, <2>1, <3>1 DEF Row
    <3>3. row(g) \in Row
      BY <2>1, <3>2
    <3> HIDE DEF row
    <3> QED BY <3>3, NobodyIsNoRow
  <2>2. CASE ~(g \in DOMAIN plan /\ groups[g] # Nobody)
    BY <1>2, <2>2
  <2> QED BY <2>1, <2>2
<1>5. UNCHANGED <<pools, target, calm>> /\ Store(gs)
  BY DEF SyncWrite
<1> HIDE DEF row
<1>6. gs \in [Groups -> Row \cup {Nobody}] /\ \A g \in Groups : groups[g] # Nobody => gs[g] # Nobody
  BY <1>4
<1> HIDE DEF gs
<1> QED BY <1>1, <1>2, <1>5, <1>6, StoredKeepRows

-----------------------------------------------------------------------------
(* Rules and their targets. *)
Safe == RowsOK' /\ RestOK' /\ RuleTargetsExist'

LEMMA KeptIsSafe == ASSUME IInv, Kept PROVE Safe
<1>1. \A r \in Rules : target[r] \in Groups \cup {Nobody}
  BY DEF IInv, RestOK
<1>2. ASSUME NEW r \in Rules, target'[r] # Nobody PROVE groups'[target'[r]] # Nobody
  BY <1>1, <1>2 DEF IInv, Kept, RuleTargetsExist
<1> QED BY <1>2 DEF Safe, Kept, RuleTargetsExist

(* Rows go only when no rule has them as its target. *)
LEMMA RemovedIsSafe ==
  ASSUME IInv, NEW gs, Proxy \notin gs, Deletable(gs), Store(Removed(gs)),
         UNCHANGED <<target, calm>>, pools' \subseteq pools
  PROVE  Safe
<1>1. groups' = Removed(gs) /\ plain' \in BOOLEAN
  BY DEF Store
<1>2. groups \in [Groups -> Row \cup {Nobody}] /\ groups[Proxy] # Nobody /\ Proxy \in Groups
  BY DEF IInv, RowsOK, Groups
<1>3. RowsOK'
  BY <1>1, <1>2 DEF RowsOK, Removed
<1>4. RestOK'
  BY <1>1 DEF IInv, RestOK
<1>5. ASSUME NEW r \in Rules, target'[r] # Nobody PROVE groups'[target'[r]] # Nobody
  <2>1. target[r] \in Groups /\ target[r] \notin gs /\ groups[target[r]] # Nobody
    BY <1>5 DEF IInv, RestOK, Deletable, RuleTargetsExist
  <2> QED BY <1>1, <2>1 DEF Removed
<1> QED BY <1>3, <1>4, <1>5 DEF Safe, RuleTargetsExist

LEMMA DeletionsAreSafe ==
  ASSUME IInv, NEW q \in Requests, RemoveGroup(q) \/ RemovePool(q) PROVE Safe
<1>1. CASE RemoveGroup(q)
  <2>1. req[q].id # Proxy
    BY <1>1, NextCall DEF RemoveGroup, IInv, May, Owned
  <2>2. CASE Deletable({req[q].id})
    BY <1>1, <2>1, <2>2, RemovedIsSafe DEF RemoveGroup
  <2>3. CASE ~Deletable({req[q].id})
    <3>1. UNCHANGED <<groups, pools, target, calm, plain>>
      BY <1>1, <2>3 DEF RemoveGroup, rows
    <3>2. Kept
      BY <3>1 DEF Kept, IInv, RowsOK, RestOK
    <3> QED BY <3>2, KeptIsSafe
  <2> QED BY <2>2, <2>3
<1>2. CASE RemovePool(q)
  <2> DEFINE gs == Dedicated(req[q].pool)
  <2>1. Proxy \notin gs
    BY DEF Dedicated
  <2>2. CASE Deletable(gs)
    <3>1. Store(Removed(gs)) /\ UNCHANGED <<target, calm>> /\ pools' \subseteq pools
      BY <1>2, <2>2 DEF RemovePool
    <3> HIDE DEF gs
    <3> QED BY <2>1, <2>2, <3>1, RemovedIsSafe
  <2>3. CASE ~Deletable(gs)
    <3>1. UNCHANGED <<groups, pools, target, calm, plain>>
      BY <1>2, <2>3 DEF RemovePool, rows
    <3>2. Kept
      BY <3>1 DEF Kept, IInv, RowsOK, RestOK
    <3> QED BY <3>2, KeptIsSafe
  <2> QED BY <2>2, <2>3
<1> QED BY <1>1, <1>2

(* A target is written only while its row exists. *)
LEMMA RuleWritesAreSafe ==
  ASSUME IInv, NEW q \in Requests, InsertRule(q) \/ StoreRule(q) \/ RemoveRule(q) PROVE Safe
<1> DEFINE rule == req[q].rule
           id == req[q].id
<1>1. UNCHANGED <<groups, pools, calm, plain>>
  BY DEF InsertRule, StoreRule, RemoveRule, rows
<1>2. \/ target' = target
      \/ target' = [target EXCEPT ![rule] = id] /\ groups[id] # Nobody
      \/ target' = [target EXCEPT ![rule] = Nobody]
  BY DEF InsertRule, StoreRule, RemoveRule, Referable
<1>3. id \in Groups \cup {Nobody}
  BY DEF IInv, RequestsOK, Request, AnyRequest
<1>4. target \in [Rules -> Groups \cup {Nobody}] /\ RuleTargetsExist
  BY DEF IInv, RestOK
<1> HIDE DEF id, rule
<1>5. target' \in [Rules -> Groups \cup {Nobody}]
  BY <1>2, <1>3, <1>4
<1>6. ASSUME NEW r \in Rules, target'[r] # Nobody PROVE groups[target'[r]] # Nobody
  BY <1>2, <1>4, <1>6 DEF RuleTargetsExist
<1> QED BY <1>1, <1>5, <1>6 DEF Safe, IInv, RowsOK, RestOK, RuleTargetsExist

LEMMA CallIsSafe == ASSUME IInv, NEW q \in Requests, Call(q) PROVE Safe
<1>1. CASE Kept
  BY <1>1, KeptIsSafe
<1>2. \/ Kept \/ RemoveGroup(q) \/ RemovePool(q)
      \/ InsertRule(q) \/ StoreRule(q) \/ RemoveRule(q)
  BY ChecksKeepRows, WritesKeepRows, PoolsKeepRows, LinksKeepRows, SyncKeepsRows DEF Call
<1> QED BY <1>1, <1>2, DeletionsAreSafe, RuleWritesAreSafe

-----------------------------------------------------------------------------
LEMMA InitIInv == ASSUME Init PROVE IInv
<1>1. RequestsOK
  BY IdleIsRequest DEF Init, RequestsOK
<1>2. NoRow \in Row /\ [NoRow EXCEPT !.enabled = TRUE] \in Row /\ Proxy \in Groups
  BY DEF NoRow, Row, Groups
<1>3. RowsOK
  BY <1>2, NobodyIsNoRow DEF Init, RowsOK
<1>4. RestOK /\ RuleTargetsExist
  BY DEF Init, RestOK, RuleTargetsExist
<1> QED BY <1>1, <1>3, <1>4 DEF IInv

LEMMA NextIInv == ASSUME IInv, [Next]_vars PROVE IInv'
<1>0. RequestsOK /\ RowsOK /\ RestOK /\ RuleTargetsExist
  BY DEF IInv
<1>1. ASSUME NEW q \in Requests, Asked(q) PROVE IInv'
  <2>1. RequestsOK' /\ UNCHANGED <<groups, pools, target, plain>> /\ calm' \in BOOLEAN
    BY <1>1, AskedKeepsAll
  <2> QED BY <1>0, <2>1 DEF IInv, RowsOK, RestOK, RuleTargetsExist
<1>2. ASSUME NEW q \in Requests, Call(q) PROVE IInv'
  BY <1>0, <1>2, CallKeepsRequests, CallIsSafe DEF Safe, IInv
<1>3. ASSUME NEW q \in Requests, Die(q) PROVE IInv'
  <2>1. RequestsOK'
    BY <1>0, <1>3, Answered DEF Die
  <2>2. UNCHANGED <<groups, pools, target, plain>> /\ calm' \in BOOLEAN
    BY <1>3 DEF Die, rows
  <2> QED BY <1>0, <2>1, <2>2 DEF IInv, RowsOK, RestOK, RuleTargetsExist
<1>4. CASE UNCHANGED vars
  BY <1>0, <1>4 DEF vars, rows, IInv, RequestsOK, RowsOK, RestOK, RuleTargetsExist
<1> QED BY <1>1, <1>2, <1>3, <1>4 DEF Next

LEMMA IInvIsTypeOK == ASSUME IInv PROVE TypeOK
<1>1. RequestsOK /\ RowsOK /\ RestOK
  BY DEF IInv
<1>2. ASSUME NEW q \in Requests
      PROVE  /\ req[q].todo \in Seq(Steps)
             /\ req[q].id \in Groups \cup {Nobody} /\ req[q].pool \in Pools \cup {Nobody}
             /\ req[q].rule \in Rules \cup {Nobody} /\ req[q].row \in Row
             /\ req[q].plan \in Lists
  BY <1>1 DEF RequestsOK, Request, AnyRequest
<1>3. ASSUME NEW l \in Lists, NEW g \in DOMAIN l PROVE g \in Groups /\ l[g] \subseteq Groups \ {g}
  BY <1>3 DEF Lists
<1>4. DOMAIN req = Requests
  BY <1>1 DEF RequestsOK
<1> QED BY <1>1, <1>2, <1>3, <1>4 DEF TypeOK, RowsOK, RestOK

LEMMA Inductive == Spec => []IInv
  BY InitIInv, NextIInv, PTL DEF Spec

(* Every row, rule and request keeps its type; PROXY is never deleted, and *)
(* no list syncRoutingPolicyGroups computes names the group it is for.     *)
THEOREM TypeCorrect == Spec => []TypeOK
  BY Inductive, IInvIsTypeOK, PTL

(* However deletions, rule edits, syncs and requests cut off overlap, a    *)
(* rule's target exists: the foreign key decides what the checks before it *)
(* read too early.                                                         *)
THEOREM RuleTargetsExistHolds == Spec => []RuleTargetsExist
<1>1. IInv => RuleTargetsExist
  BY DEF IInv
<1> QED BY <1>1, Inductive, PTL

-----------------------------------------------------------------------------
(* The lists of groups as sets of rows: what stays of ListsStaySound when  *)
(* the order of a list is forgotten.                                       *)
Present(gs) == {g \in Groups : gs[g] # Nobody}
SoundOn(p, gs, S) ==
    /\ \A g \in S : gs[g].members \subseteq Present(gs)
    /\ p => \A C \in SUBSET S : C # {} => \E g \in C : gs[g].members \cap C = {}
Whole(gs) == SoundOn(plain, gs, Present(gs))

LEMMA ListOfASet == ASSUME NEW S, IsFiniteSet(S) PROVE Members(SetToSeq(S)) = S
<1> DEFINE n == Cardinality(S)
           f == SetToSeq(S)
<1>1. n \in Nat /\ ExistsBijection(1..n, S)
  BY FS_CardinalityType
<1>2. \E h \in [1..n -> S] : IsInjective(h)
  BY <1>1 DEF ExistsBijection, Bijection, Injection
<1>3. f \in [1..n -> S] /\ IsInjective(f)
  <2>1. f = CHOOSE h \in [1..n -> S] : IsInjective(h)
    BY DEF SetToSeq
  <2> QED BY <1>2, <2>1
<1>4. f \in Injection(1..n, S)
  BY <1>3 DEF Injection
<1>5. IsFiniteSet(1..n) /\ Cardinality(1..n) = n
  BY <1>1, FS_Interval
<1> HIDE DEF f
<1>6. f \in Surjection(1..n, S)
  BY <1>4, <1>5, FS_Injection
<1>7. \A s \in S : \E i \in 1..n : f[i] = s
  BY <1>6 DEF Surjection
<1>8. DOMAIN f = 1..n /\ \A i \in 1..n : f[i] \in S
  BY <1>3
<1>9. Members(f) = S
  BY <1>7, <1>8 DEF Members
<1> QED BY <1>9 DEF f

LEMMA ListedMembers ==
  ASSUME IsFiniteSet(Custom), NEW gs \in [Groups -> Row \cup {Nobody}]
  PROVE  /\ DOMAIN References(gs) = Present(gs)
         /\ \A g \in Present(gs) : Members(References(gs)[g]) = gs[g].members
<1>1. DOMAIN References(gs) = Present(gs)
  BY DEF References, Present
<1>2. ASSUME NEW g \in Present(gs) PROVE Members(References(gs)[g]) = gs[g].members
  <2>1. gs[g].members \in SUBSET Groups
    BY DEF Present, Row
  <2>2. IsFiniteSet(Groups)
    BY FS_AddElement DEF Groups
  <2>3. IsFiniteSet(gs[g].members)
    BY <2>1, <2>2, FS_Subset
  <2>4. References(gs)[g] = SetToSeq(gs[g].members)
    BY DEF References, Present
  <2> QED BY <2>3, <2>4, ListOfASet
<1> QED BY <1>1, <1>2

LEMMA SoundLists ==
  ASSUME IsFiniteSet(Custom), NEW gs \in [Groups -> Row \cup {Nobody}]
  PROVE  /\ Whole(gs) => Closed(References(gs)) /\ (plain => Acyclic(References(gs)))
         /\ Sound(gs) => Whole(gs)
<1>1. /\ DOMAIN References(gs) = Present(gs)
      /\ \A g \in Present(gs) : Members(References(gs)[g]) = gs[g].members
  BY ListedMembers
<1>2. Closed(References(gs)) <=> \A g \in Present(gs) : gs[g].members \subseteq Present(gs)
  BY <1>1 DEF Closed
<1>3. Acyclic(References(gs))
        <=> \A C \in SUBSET Present(gs) : C # {} => \E g \in C : gs[g].members \cap C = {}
  <2>1. ASSUME NEW C \in SUBSET Present(gs)
        PROVE  (\E g \in C : Members(References(gs)[g]) \cap C = {})
                 <=> (\E g \in C : gs[g].members \cap C = {})
    BY <1>1
  <2> QED BY <1>1, <2>1 DEF Acyclic, AcyclicOn
<1> QED BY <1>2, <1>3 DEF Whole, SoundOn, Sound

-----------------------------------------------------------------------------
(* The calls of a request come in an order of which each relies on some.   *)
First(r) == IF r.todo = <<>> THEN "none" ELSE Head(r.todo)
Follows(a, b) ==
    /\ a \in {"delete", "deletePool"} => b = "syncRead"
    /\ a = "syncRead" <=> b = "syncWrite"
    /\ b = "targets" => a = "parents"
    /\ b = "delete" => a = "targets"
    /\ b = "deletePool" => a = "poolParents"
    /\ b = "insert" => a \in {"graph", "syncWrite"}
    /\ b = "update" => a \in {"graph", "pools"}
    /\ b = "pools" => a = "graph"
Unfinished == {"syncRead", "delete", "deletePool"}
Chain(s) ==
    /\ \A i \in 1..(Len(s) - 1) : Follows(s[i], s[i + 1])
    /\ s # <<>> => s[Len(s)] \notin Unfinished
(* A group is created with no list of its own. *)
Blank(s) ==
    \/ \E i \in 1..Len(s) : s[i] \in {"link", "insertBoth"}
    \/ \E i \in 1..(Len(s) - 1) : s[i] = "syncWrite" /\ s[i + 1] = "insert"
Orderly(r) ==
    /\ Chain(r.todo)
    /\ Blank(r.todo) => r.row.members = {}
    /\ r.todo = <<>> => r = Idle
AllOrderly == \A q \in Requests : Orderly(req[q])

LEMMA ChainTail ==
  ASSUME NEW s \in Seq(Steps), s # <<>>, Chain(s)
  PROVE  /\ Chain(Tail(s))
         /\ IF Len(s) = 1 THEN Head(s) \notin Unfinished /\ Tail(s) = <<>>
            ELSE Tail(s) # <<>> /\ Follows(Head(s), Head(Tail(s)))
         /\ Blank(Tail(s)) => Blank(s)
<1> DEFINE n == Len(s)
           t == Tail(s)
<1> HIDE DEF Steps
<1>1. n \in Nat \ {0} /\ t \in Seq(Steps) /\ Len(t) = n - 1 /\ s \in Seq(Steps)
  OBVIOUS
<1>2. \A i \in 1..(n - 1) : t[i] = s[i + 1]
  OBVIOUS
<1>3. Head(s) = s[1]
  OBVIOUS
<1>4. t # <<>> => Head(t) = t[1]
  OBVIOUS
<1>5. t = <<>> <=> n = 1
  BY <1>1
<1> HIDE DEF n, t
<1>6. \A i \in 1..(n - 2) : Follows(t[i], t[i + 1])
  <2> TAKE i \in 1..(n - 2)
  <2>1. i \in 1..(n - 1) /\ i + 1 \in 1..(n - 1)
    BY <1>1
  <2>2. Follows(s[i + 1], s[(i + 1) + 1])
    BY <2>1 DEF Chain, n
  <2> QED BY <1>2, <2>1, <2>2
<1>7. t # <<>> => t[Len(t)] \notin Unfinished
  <2> SUFFICES ASSUME t # <<>> PROVE t[Len(t)] \notin Unfinished
    OBVIOUS
  <2>1. n - 1 \in 1..(n - 1) /\ (n - 1) + 1 = n
    BY <1>1, <1>5
  <2>2. t[n - 1] = s[n]
    BY <1>2, <2>1
  <2> QED BY <1>1, <2>2 DEF Chain, n
<1>8. Chain(t)
  <2>1. Len(t) - 1 = n - 2
    BY <1>1
  <2> QED BY <1>6, <1>7, <2>1 DEF Chain
<1>9. CASE n = 1
  <2>1. Head(s) \notin Unfinished
    BY <1>3, <1>9 DEF Chain, n
  <2>2. t = <<>>
    BY <1>5, <1>9
  <2>3. ~ Blank(t)
    BY <1>1, <1>9 DEF Blank
  <2> QED BY <1>8, <1>9, <2>1, <2>2, <2>3 DEF n, t
<1>10. CASE n # 1
  <2>1. 1 \in 1..(n - 1) /\ 1 + 1 = 2
    BY <1>1, <1>10
  <2>2. Follows(s[1], s[2]) /\ t[1] = s[2]
    BY <1>2, <2>1 DEF Chain, n
  <2>3. ASSUME Blank(t) PROVE Blank(s)
    <3>1. CASE \E i \in 1..Len(t) : t[i] \in {"link", "insertBoth"}
      <4>1. PICK i \in 1..(n - 1) : t[i] \in {"link", "insertBoth"}
        BY <1>1, <3>1
      <4>2. i + 1 \in 1..n /\ s[i + 1] \in {"link", "insertBoth"}
        BY <1>1, <1>2, <4>1
      <4> QED BY <4>2 DEF Blank, n
    <3>2. CASE \E i \in 1..(Len(t) - 1) : t[i] = "syncWrite" /\ t[i + 1] = "insert"
      <4>1. PICK i \in 1..(n - 2) : t[i] = "syncWrite" /\ t[i + 1] = "insert"
        BY <1>1, <3>2
      <4>2. i + 1 \in 1..(n - 1) /\ i \in 1..(n - 1)
        BY <1>1, <4>1
      <4>3. s[i + 1] = "syncWrite" /\ s[(i + 1) + 1] = "insert"
        BY <1>2, <4>1, <4>2
      <4> QED BY <4>2, <4>3 DEF Blank, n
    <3> QED BY <2>3, <3>1, <3>2 DEF Blank
  <2> QED BY <1>3, <1>4, <1>5, <1>8, <1>10, <2>2, <2>3 DEF n, t
<1> QED BY <1>9, <1>10

(* Sequences spelled out. *)
LEMMA SameList ==
  ASSUME NEW S, NEW s \in Seq(S), NEW t \in Seq(S), Len(s) = Len(t),
         \A i \in 1..Len(s) : s[i] = t[i]
  PROVE  s = t
  OBVIOUS

LEMMA NothingAdded ==
  /\ \A a : <<>> \o <<a>> = <<a>> /\ <<a>> \o <<>> = <<a>>
  /\ <<>> \o <<>> = <<>>
<1>1. ASSUME NEW S, NEW s \in Seq(S) PROVE <<>> \o s = s /\ s \o <<>> = s
  OBVIOUS
<1>2. ASSUME NEW a PROVE <<>> \o <<a>> = <<a>> /\ <<a>> \o <<>> = <<a>>
  <2>1. <<a>> \in Seq({a})
    OBVIOUS
  <2> QED BY <1>1, <2>1
<1>3. <<>> \in Seq({})
  OBVIOUS
<1> QED BY <1>1, <1>2, <1>3

LEMMA OneAndOne ==
  ASSUME NEW a, NEW b
  PROVE  <<a>> \o <<b>> = <<a, b>>
<1> DEFINE S == {a, b}
<1>1. <<a>> \o <<b>> \in Seq(S) /\ <<a, b>> \in Seq(S)
  OBVIOUS
<1>2. /\ Len(<<a>> \o <<b>>) = Len(<<a, b>>)
      /\ \A i \in 1..2 : (<<a>> \o <<b>>)[i] = <<a, b>>[i]
  OBVIOUS
<1> HIDE DEF S
<1> QED BY <1>1, <1>2, SameList

LEMMA OneAndTwo ==
  ASSUME NEW a, NEW b, NEW c
  PROVE  <<a>> \o <<b, c>> = <<a, b, c>>
<1> DEFINE S == {a, b, c}
<1>1. <<a>> \o <<b, c>> \in Seq(S) /\ <<a, b, c>> \in Seq(S)
  OBVIOUS
<1>2. /\ Len(<<a>> \o <<b, c>>) = Len(<<a, b, c>>)
      /\ \A i \in 1..3 : (<<a>> \o <<b, c>>)[i] = <<a, b, c>>[i]
  OBVIOUS
<1> HIDE DEF S
<1> QED BY <1>1, <1>2, SameList

LEMMA TwoAndOne ==
  ASSUME NEW a, NEW b, NEW c
  PROVE  <<a, b>> \o <<c>> = <<a, b, c>>
<1> DEFINE S == {a, b, c}
<1>1. <<a, b>> \o <<c>> \in Seq(S) /\ <<a, b, c>> \in Seq(S)
  OBVIOUS
<1>2. /\ Len(<<a, b>> \o <<c>>) = Len(<<a, b, c>>)
      /\ \A i \in 1..3 : (<<a, b>> \o <<c>>)[i] = <<a, b, c>>[i]
  OBVIOUS
<1> HIDE DEF S
<1> QED BY <1>1, <1>2, SameList

LEMMA TwoAndTwo ==
  ASSUME NEW a, NEW b, NEW c, NEW d
  PROVE  <<a, b>> \o <<c, d>> = <<a, b, c, d>>
<1> DEFINE S == {a, b, c, d}
<1>1. <<a, b>> \o <<c, d>> \in Seq(S) /\ <<a, b, c, d>> \in Seq(S)
  OBVIOUS
<1>2. /\ Len(<<a, b>> \o <<c, d>>) = Len(<<a, b, c, d>>)
      /\ \A i \in 1..4 : (<<a, b>> \o <<c, d>>)[i] = <<a, b, c, d>>[i]
  OBVIOUS
<1> HIDE DEF S
<1> QED BY <1>1, <1>2, SameList

LEMMA ThreeAndTwo ==
  ASSUME NEW a, NEW b, NEW c, NEW d, NEW e
  PROVE  <<a, b, c>> \o <<d, e>> = <<a, b, c, d, e>>
<1> DEFINE S == {a, b, c, d, e}
<1>1. <<a, b, c>> \o <<d, e>> \in Seq(S) /\ <<a, b, c, d, e>> \in Seq(S)
  OBVIOUS
<1>2. /\ Len(<<a, b, c>> \o <<d, e>>) = Len(<<a, b, c, d, e>>)
      /\ \A i \in 1..5 : (<<a, b, c>> \o <<d, e>>)[i] = <<a, b, c, d, e>>[i]
  OBVIOUS
<1> HIDE DEF S
<1> QED BY <1>1, <1>2, SameList

(* What each kind of request is to do. *)
LEMMA Todos ==
  /\ <<"pools", "graph", "insert">> \o Sync
       = <<"pools", "graph", "insert", "syncRead", "syncWrite">>
  /\ <<"parents", "targets", "delete">> \o Sync
       = <<"parents", "targets", "delete", "syncRead", "syncWrite">>
  /\ <<"insertPool">> \o Sync = <<"insertPool", "syncRead", "syncWrite">>
  /\ <<"poolParents", "deletePool">> \o Sync
       = <<"poolParents", "deletePool", "syncRead", "syncWrite">>
  /\ \A s : Sync \o <<s>> = <<"syncRead", "syncWrite", s>>
  /\ <<"deleteRule">> \o Sync = <<"deleteRule", "syncRead", "syncWrite">>
  /\ \A s : Sync \o <<"target", s>> = <<"syncRead", "syncWrite", "target", s>>
<1>1. /\ <<"pools", "graph", "insert">> \o Sync
           = <<"pools", "graph", "insert", "syncRead", "syncWrite">>
      /\ <<"parents", "targets", "delete">> \o Sync
           = <<"parents", "targets", "delete", "syncRead", "syncWrite">>
  BY ThreeAndTwo, Zenon DEF Sync
<1>2. /\ <<"insertPool">> \o Sync = <<"insertPool", "syncRead", "syncWrite">>
      /\ <<"deleteRule">> \o Sync = <<"deleteRule", "syncRead", "syncWrite">>
  BY OneAndTwo, Zenon DEF Sync
<1>3. <<"poolParents", "deletePool">> \o Sync
        = <<"poolParents", "deletePool", "syncRead", "syncWrite">>
  BY TwoAndTwo, Zenon DEF Sync
<1>4. \A s : Sync \o <<s>> = <<"syncRead", "syncWrite", s>>
  BY TwoAndOne, Zenon DEF Sync
<1>5. \A s : Sync \o <<"target", s>> = <<"syncRead", "syncWrite", "target", s>>
  BY TwoAndTwo, Zenon DEF Sync
<1> QED BY <1>1, <1>2, <1>3, <1>4, <1>5

-----------------------------------------------------------------------------
(* What a request that no other one meets has found out, at its next call. *)
Checked(r) ==
    \/ First(r) \in {"insert", "update"}
    \/ First(r) = "pools" /\ r.todo[2] = "update"
Sure(r) ==
    /\ IF First(r) \in {"syncRead", "syncWrite"}
         THEN SoundOn(plain, groups, Existing \ Routing) ELSE Whole(groups)
    /\ Checked(r) => Whole([groups EXCEPT ![r.id] = r.row])
    /\ First(r) \in {"targets", "delete"} => Parents(r.id) = {}
    /\ First(r) = "deletePool" => \A g \in Dedicated(r.pool) : Parents(g) = {}
    /\ First(r) = "syncWrite" => r.plan = [g \in Routing |-> Resolved(g)]
Alone(q) == \A p \in Requests \ {q} : req[p] = Idle
OneByOne ==
    calm => /\ \A q \in Requests : req[q] = Idle \/ Alone(q)
            /\ \A q \in Requests : Alone(q) => Sure(req[q])
            /\ Quiet => Whole(groups)
ProxyRow == groups[Proxy].enabled /\ groups[Proxy].pools = {}
ListsInv == AllOrderly /\ ProxyRow /\ OneByOne

LEMMA SureStays ==
  ASSUME NEW r, Sure(r), UNCHANGED <<groups, plain>> PROVE Sure(r)'
<1>1. Existing' = Existing /\ Routing' = Routing /\ Outlets' = Outlets
  BY DEF Existing, Routing, Outlets
<1>2. SoundOn(plain, groups, Existing \ Routing) => SoundOn(plain, groups, Existing \ Routing)'
  BY <1>1 DEF SoundOn, Present
<1>3. Whole(groups) => Whole(groups)'
  BY DEF Whole, SoundOn, Present
<1>4. Whole([groups EXCEPT ![r.id] = r.row]) => Whole([groups EXCEPT ![r.id] = r.row])'
  BY DEF Whole, SoundOn, Present
<1>5. \A g : Parents(g)' = Parents(g)
  BY <1>1 DEF Parents, Managed
<1>6. Dedicated(r.pool)' = Dedicated(r.pool)
  BY <1>1 DEF Dedicated
<1>7. [g \in Routing |-> Resolved(g)]' = [g \in Routing |-> Resolved(g)]
  BY <1>1 DEF Resolved
<1>8. /\ IF First(r) \in {"syncRead", "syncWrite"}
           THEN SoundOn(plain, groups, Existing \ Routing)' ELSE Whole(groups)'
      /\ Checked(r) => Whole([groups EXCEPT ![r.id] = r.row])'
      /\ First(r) \in {"targets", "delete"} => Parents(r.id)' = {}
      /\ First(r) = "deletePool" => \A g \in Dedicated(r.pool)' : Parents(g)' = {}
      /\ First(r) = "syncWrite" => r.plan = [g \in Routing |-> Resolved(g)]'
  BY <1>2, <1>3, <1>4, <1>5, <1>6, <1>7 DEF Sure
<1> QED BY <1>8 DEF Sure

LEMMA IdleIsSure == Sure(Idle) <=> Whole(groups)
  BY DEF Sure, First, Checked, Idle

LEMMA IdleIsOrderly == Orderly(Idle) /\ Idle.todo = <<>>
<1>1. Idle.todo = <<>> /\ Len(<<>>) = 0
  BY DEF Idle
<1>2. Chain(<<>>) /\ ~ Blank(<<>>)
  BY DEF Chain, Blank
<1> QED BY <1>1, <1>2 DEF Orderly

(* A step of one request, when the others are idle. *)
LEMMA StepOfOne ==
  ASSUME RequestsOK, ListsInv, NEW q \in Requests, NEW r,
         req' = [req EXCEPT ![q] = r], calm' => calm /\ Alone(q),
         Orderly(r), calm' => Sure(r)', ProxyRow'
  PROVE  ListsInv'
<1>1. req'[q] = r /\ \A p \in Requests \ {q} : req'[p] = req[p]
  BY DEF RequestsOK
<1>2. AllOrderly'
  BY <1>1 DEF AllOrderly, ListsInv
<1>3. ASSUME calm' PROVE \A p \in Requests \ {q} : req'[p] = Idle
  BY <1>1, <1>3 DEF Alone
<1>4. ASSUME calm', NEW p \in Requests PROVE req'[p] = Idle \/ Alone(p)'
  BY <1>3, <1>4 DEF Alone
<1>5. ASSUME calm', NEW p \in Requests, Alone(p)' PROVE Sure(req[p])'
  <2>1. CASE p = q
    <3>1. req[p]' = r
      BY <1>1, <2>1
    <3>2. Sure(r)'
      BY <1>5
    <3> QED BY <3>1, <3>2 DEF Sure
  <2>2. CASE p # q
    <3>1. r = Idle /\ req'[p] = Idle
      BY <1>1, <1>3, <1>5, <2>2 DEF Alone
    <3> QED BY <1>5, <3>1 DEF Sure
  <2> QED BY <2>1, <2>2
<1>6. ASSUME Quiet' PROVE Whole(groups)'
  <2>1. calm' /\ r = Idle
    BY <1>1, <1>6 DEF Quiet
  <2> QED BY <2>1, IdleIsSure DEF Sure, First, Idle
<1> QED BY <1>2, <1>4, <1>5, <1>6 DEF ListsInv, OneByOne

(* Requests as they begin. *)
Opening == {"pools", "graph", "parents", "insertPool", "poolParents", "link", "deleteRule",
            "syncRead"}

LEMMA WholeIsSettled == ASSUME Whole(groups) PROVE SoundOn(plain, groups, Existing \ Routing)
  BY DEF Whole, SoundOn, Present, Existing

LEMMA OpensSure ==
  ASSUME Whole(groups), NEW r, First(r) \in Opening, First(r) = "pools" => r.todo[2] # "update"
  PROVE  Sure(r)
  BY WholeIsSettled DEF Sure, Checked, Opening

LEMMA Starts ==
  ASSUME RequestsOK, ListsInv, NEW q \in Requests, req[q] = Idle, NEW op, NEW r,
         Begin(q, op, r), Orderly(r), Whole(groups) => Sure(r)
  PROVE  ListsInv'
<1>1. /\ req' = [req EXCEPT ![q] = r] /\ UNCHANGED <<groups, plain>>
      /\ calm' => calm /\ Alone(q)
  BY DEF Begin, Alone, rows
<1>2. ASSUME calm' PROVE Sure(r)'
  <2>1. Quiet
    BY <1>1, <1>2 DEF Alone, Quiet
  <2>2. Whole(groups)
    BY <1>1, <1>2, <2>1 DEF ListsInv, OneByOne
  <2> QED BY <1>1, <2>2, SureStays
<1>3. ProxyRow'
  BY <1>1 DEF ListsInv, ProxyRow
<1> QED BY <1>1, <1>2, <1>3, StepOfOne

LEMMA BlankStart ==
  ASSUME NEW r, Chain(r.todo), r.todo # <<>>, Blank(r.todo) => r.row.members = {}
  PROVE  Orderly(r)
  BY DEF Orderly

LEMMA CreateStarts ==
  ASSUME RequestsOK, ListsInv, NEW q \in Requests, req[q] = Idle, NEW g, NEW row,
         CreateGroup(q, g, row)
  PROVE  ListsInv'
<1> DEFINE todo == <<"pools", "graph", "insert", "syncRead", "syncWrite">>
           r == [Idle EXCEPT !.id = g, !.row = row, !.todo = todo]
<1>1. Begin(q, "create", r)
  BY Todos DEF CreateGroup
<1>2. r.todo = todo
  BY DEF Idle
<1>3. /\ Chain(todo) /\ todo # <<>> /\ ~ Blank(todo)
      /\ Head(todo) = "pools" /\ todo[2] = "graph"
  BY DEF Chain, Follows, Unfinished, Blank
<1> HIDE DEF todo, r
<1>4. Orderly(r)
  BY <1>2, <1>3, BlankStart
<1>5. Whole(groups) => Sure(r)
  BY <1>2, <1>3, OpensSure DEF First, Opening
<1> QED BY <1>1, <1>4, <1>5, Starts

LEMMA DeleteStarts ==
  ASSUME RequestsOK, ListsInv, NEW q \in Requests, req[q] = Idle, NEW g, DeleteGroup(q, g)
  PROVE  ListsInv'
<1> DEFINE todo == <<"parents", "targets", "delete", "syncRead", "syncWrite">>
           r == [Idle EXCEPT !.id = g, !.todo = todo]
<1>1. Begin(q, "delete", r)
  BY Todos DEF DeleteGroup
<1>2. r.todo = todo
  BY DEF Idle
<1>3. Chain(todo) /\ todo # <<>> /\ ~ Blank(todo) /\ Head(todo) = "parents"
  BY DEF Chain, Follows, Unfinished, Blank
<1> HIDE DEF todo, r
<1>4. Orderly(r)
  BY <1>2, <1>3, BlankStart
<1>5. Whole(groups) => Sure(r)
  BY <1>2, <1>3, OpensSure DEF First, Opening
<1> QED BY <1>1, <1>4, <1>5, Starts

LEMMA PoolStarts ==
  ASSUME RequestsOK, ListsInv, NEW q \in Requests, req[q] = Idle, NEW c,
         CreatePool(q, c) \/ DeletePool(q, c)
  PROVE  ListsInv'
<1> DEFINE added == <<"insertPool", "syncRead", "syncWrite">>
           gone == <<"poolParents", "deletePool", "syncRead", "syncWrite">>
           r(todo) == [Idle EXCEPT !.pool = c, !.todo = todo]
<1>1. Begin(q, "pool", r(added)) \/ Begin(q, "unpool", r(gone))
  BY Todos DEF CreatePool, DeletePool
<1>2. r(added).todo = added /\ r(gone).todo = gone
  BY DEF Idle
<1>3. /\ Chain(added) /\ added # <<>> /\ ~ Blank(added) /\ Head(added) = "insertPool"
      /\ Chain(gone) /\ gone # <<>> /\ ~ Blank(gone) /\ Head(gone) = "poolParents"
  BY DEF Chain, Follows, Unfinished, Blank
<1> HIDE DEF added, gone, r
<1>4. Orderly(r(added)) /\ Orderly(r(gone))
  BY <1>2, <1>3, BlankStart
<1>5. Whole(groups) => Sure(r(added)) /\ Sure(r(gone))
  BY <1>2, <1>3, OpensSure DEF First, Opening
<1> QED BY <1>1, <1>4, <1>5, Starts

LEMMA BothStarts ==
  ASSUME RequestsOK, ListsInv, NEW q \in Requests, req[q] = Idle, NEW c, NEW g, NEW enabled,
         CreateBoth(q, c, g, enabled)
  PROVE  ListsInv'
<1> DEFINE todo == <<"syncRead", "syncWrite", "insertBoth">>
           row == [NoRow EXCEPT !.enabled = enabled, !.pools = {c}]
           r == [Idle EXCEPT !.pool = c, !.id = g, !.todo = todo, !.row = row]
<1>1. Begin(q, "both", r)
  BY Todos DEF CreateBoth
<1>2. r.todo = todo /\ r.row = row /\ row.members = {}
  BY DEF Idle, NoRow
<1>3. Chain(todo) /\ todo # <<>> /\ Head(todo) = "syncRead"
  BY DEF Chain, Follows, Unfinished
<1> HIDE DEF todo, r, row
<1>4. Orderly(r)
  BY <1>2, <1>3, BlankStart
<1>5. Whole(groups) => Sure(r)
  BY <1>2, <1>3, OpensSure DEF First, Opening
<1> QED BY <1>1, <1>4, <1>5, Starts

LEMMA RelinkStarts ==
  ASSUME RequestsOK, ListsInv, NEW q \in Requests, req[q] = Idle, NEW c, NEW enabled,
         UpdateBoth(q, c, enabled)
  PROVE  ListsInv'
<1> DEFINE todo == <<"link">>
           row == [NoRow EXCEPT !.enabled = enabled, !.pools = {c}]
           r == [Idle EXCEPT !.pool = c, !.todo = todo, !.row = row]
<1>1. Begin(q, "relink", r)
  BY DEF UpdateBoth
<1>2. r.todo = todo /\ r.row = row /\ row.members = {}
  BY DEF Idle, NoRow
<1>3. Chain(todo) /\ todo # <<>> /\ Head(todo) = "link"
  BY DEF Chain, Follows, Unfinished
<1> HIDE DEF todo, r, row
<1>4. Orderly(r)
  BY <1>2, <1>3, BlankStart
<1>5. Whole(groups) => Sure(r)
  BY <1>2, <1>3, OpensSure DEF First, Opening
<1> QED BY <1>1, <1>4, <1>5, Starts

LEMMA UnruleStarts ==
  ASSUME RequestsOK, ListsInv, NEW q \in Requests, req[q] = Idle, NEW rule, DeleteRule(q, rule)
  PROVE  ListsInv'
<1> DEFINE todo == <<"deleteRule", "syncRead", "syncWrite">>
           r == [Idle EXCEPT !.rule = rule, !.todo = todo]
<1>1. Begin(q, "unrule", r)
  BY Todos DEF DeleteRule
<1>2. r.todo = todo
  BY DEF Idle
<1>3. Chain(todo) /\ todo # <<>> /\ ~ Blank(todo) /\ Head(todo) = "deleteRule"
  BY DEF Chain, Follows, Unfinished, Blank
<1> HIDE DEF todo, r
<1>4. Orderly(r)
  BY <1>2, <1>3, BlankStart
<1>5. Whole(groups) => Sure(r)
  BY <1>2, <1>3, OpensSure DEF First, Opening
<1> QED BY <1>1, <1>4, <1>5, Starts

LEMMA RuleStarts ==
  ASSUME RequestsOK, ListsInv, NEW q \in Requests, req[q] = Idle, NEW rule,
         EditRule(q, rule) \/ \E g \in Groups : WriteRule(q, rule, g)
  PROVE  ListsInv'
<1> DEFINE edit == <<"syncRead", "syncWrite", "updateRule">>
           write(s) == <<"syncRead", "syncWrite", "target", s>>
           r(id, todo) == [Idle EXCEPT !.rule = rule, !.id = id, !.todo = todo]
<1>1. \/ Begin(q, "rule", r(target[rule], edit))
      \/ \E g \in Groups : \/ Begin(q, "rule", r(g, write("insertRule")))
                           \/ Begin(q, "rule", r(g, write("updateRule")))
  BY Todos DEF EditRule, WriteRule
<1>2. \A id, todo : r(id, todo).todo = todo
  BY DEF Idle
<1>3. Chain(edit) /\ edit # <<>> /\ ~ Blank(edit) /\ Head(edit) = "syncRead"
  BY DEF Chain, Follows, Unfinished, Blank
<1>4. ASSUME NEW s \in {"insertRule", "updateRule"}
      PROVE  Chain(write(s)) /\ write(s) # <<>> /\ ~ Blank(write(s)) /\ Head(write(s)) = "syncRead"
  BY DEF Chain, Follows, Unfinished, Blank
<1> HIDE DEF edit, write, r
<1> DEFINE Good(todo) == todo \in {edit, write("insertRule"), write("updateRule")}
<1>5. ASSUME NEW id, NEW todo, Good(todo)
      PROVE  Orderly(r(id, todo)) /\ (Whole(groups) => Sure(r(id, todo)))
  <2>1. Chain(todo) /\ todo # <<>> /\ ~ Blank(todo) /\ Head(todo) = "syncRead"
    BY <1>3, <1>4, <1>5
  <2>2. Orderly(r(id, todo))
    BY <1>2, <2>1, BlankStart
  <2> QED BY <1>2, <2>1, <2>2, OpensSure DEF First, Opening
<1>6. ASSUME NEW op, NEW id, NEW todo, Good(todo), Begin(q, op, r(id, todo)) PROVE ListsInv'
  BY <1>5, <1>6, Starts
<1> QED BY <1>1, <1>6

(* An edit that does not name the list keeps the list that was there. *)
LEMMA SameMembers ==
  ASSUME NEW gs \in [Groups -> Row \cup {Nobody}], Whole(gs), NEW g \in Groups, gs[g] # Nobody,
         NEW row \in Row, row.members = gs[g].members
  PROVE  Whole([gs EXCEPT ![g] = row])
<1> DEFINE new == [gs EXCEPT ![g] = row]
<1>1. /\ \A h \in Groups : new[h] # Nobody <=> gs[h] # Nobody
      /\ \A h \in Present(gs) : new[h].members = gs[h].members
  BY NobodyIsNoRow DEF Present
<1> HIDE DEF new
<1>2. Present(new) = Present(gs)
  BY <1>1 DEF Present
<1>3. \A h \in Present(gs) : new[h].members \subseteq Present(gs)
  BY <1>1 DEF Whole, SoundOn
<1>4. ASSUME plain, NEW C \in SUBSET Present(gs), C # {}
      PROVE  \E h \in C : new[h].members \cap C = {}
  <2>1. PICK h \in C : gs[h].members \cap C = {}
    BY <1>4 DEF Whole, SoundOn
  <2> QED BY <1>1, <2>1
<1>5. Whole(new)
  BY <1>2, <1>3, <1>4 DEF Whole, SoundOn
<1> QED BY <1>5 DEF new

LEMMA UpdateStarts ==
  ASSUME RequestsOK, RowsOK, ListsInv, NEW q \in Requests, req[q] = Idle, NEW g \in Custom,
         NEW row \in Row, NEW named, UpdateGroup(q, g, row, named)
  PROVE  ListsInv'
<1> DEFINE new == [f \in DOMAIN row |-> IF f \in named THEN row[f] ELSE groups[g][f]]
           both == <<"graph", "pools", "update", "syncRead", "syncWrite">>
           list == <<"graph", "update", "syncRead", "syncWrite">>
           nodes == <<"pools", "update", "syncRead", "syncWrite">>
           none == <<"update", "syncRead", "syncWrite">>
           r(todo) == [Idle EXCEPT !.id = g, !.row = new, !.todo = todo]
<1>1. \/ Begin(q, "update", r(both)) \/ Begin(q, "update", r(list))
      \/ /\ "members" \notin named
         /\ Begin(q, "update", r(nodes)) \/ Begin(q, "update", r(none))
  <2> DEFINE first == IF "members" \in named THEN <<"graph">> ELSE <<>>
             second == IF "pools" \in named THEN <<"pools">> ELSE <<>>
             todo == (first \o second) \o <<"update">> \o Sync
  <2>1. Begin(q, "update", r(todo))
    BY DEF UpdateGroup
  <2>2. CASE "members" \in named /\ "pools" \in named
    <3>1. first = <<"graph">> /\ second = <<"pools">>
      BY <2>2
    <3>2. first \o second = <<"graph", "pools">>
      BY <3>1, OneAndOne, Zenon
    <3> HIDE DEF first, second
    <3>3. (first \o second) \o <<"update">> = <<"graph", "pools", "update">>
      BY <3>2, TwoAndOne
    <3>4. todo = both
      BY <3>3, ThreeAndTwo DEF Sync
    <3> HIDE DEF todo, both
    <3> QED BY <2>1, <3>4
  <2>3. CASE "members" \in named /\ "pools" \notin named
    <3>1. first = <<"graph">> /\ second = <<>>
      BY <2>3
    <3>2. first \o second = <<"graph">>
      BY <3>1, NothingAdded, Zenon
    <3> HIDE DEF first, second
    <3>3. (first \o second) \o <<"update">> = <<"graph", "update">>
      BY <3>2, OneAndOne
    <3>4. todo = list
      BY <3>3, TwoAndTwo DEF Sync
    <3> HIDE DEF todo, list
    <3> QED BY <2>1, <3>4
  <2>4. CASE "members" \notin named /\ "pools" \in named
    <3>1. first = <<>> /\ second = <<"pools">>
      BY <2>4
    <3>2. first \o second = <<"pools">>
      BY <3>1, NothingAdded, Zenon
    <3> HIDE DEF first, second
    <3>3. (first \o second) \o <<"update">> = <<"pools", "update">>
      BY <3>2, OneAndOne
    <3>4. todo = nodes
      BY <3>3, TwoAndTwo DEF Sync
    <3> HIDE DEF todo, nodes
    <3> QED BY <2>1, <2>4, <3>4
  <2>5. CASE "members" \notin named /\ "pools" \notin named
    <3>1. first = <<>> /\ second = <<>>
      BY <2>5
    <3>2. todo = none
      BY <3>1, NothingAdded, OneAndTwo, Zenon DEF Sync
    <3> QED BY <2>1, <2>5, <3>2
  <2> QED BY <2>2, <2>3, <2>4, <2>5
<1>2. \A todo : r(todo).todo = todo /\ r(todo).id = g /\ r(todo).row = new
  BY DEF Idle
<1>3. /\ Chain(both) /\ both # <<>> /\ ~ Blank(both) /\ Head(both) = "graph"
      /\ Chain(list) /\ list # <<>> /\ ~ Blank(list) /\ Head(list) = "graph"
      /\ Chain(nodes) /\ nodes # <<>> /\ ~ Blank(nodes) /\ Head(nodes) = "pools"
      /\ Chain(none) /\ none # <<>> /\ ~ Blank(none) /\ Head(none) = "update"
  BY DEF Chain, Follows, Unfinished, Blank
<1>4. ASSUME "members" \notin named, Whole(groups) PROVE Whole([groups EXCEPT ![g] = new])
  <2>1. g \in Groups /\ groups[g] # Nobody /\ groups \in [Groups -> Row \cup {Nobody}]
    BY DEF Groups, RowsOK, UpdateGroup
  <2>2. new \in Row /\ new.members = groups[g].members
    BY <1>4, <2>1 DEF Row
  <2> HIDE DEF new
  <2> QED BY <1>4, <2>1, <2>2, SameMembers
<1> HIDE DEF both, list, nodes, none, new, r
<1>5. \A todo \in {both, list, nodes, none} : Orderly(r(todo))
  BY <1>2, <1>3, BlankStart
<1>6. Whole(groups) => Sure(r(both)) /\ Sure(r(list))
  BY <1>2, <1>3, OpensSure DEF First, Opening
<1>7. "members" \notin named /\ Whole(groups) => Sure(r(nodes)) /\ Sure(r(none))
  BY <1>2, <1>3, <1>4 DEF First, Sure
<1> QED BY <1>1, <1>5, <1>6, <1>7, Starts

LEMMA AskedKeepsLists ==
  ASSUME IInv, ListsInv, NEW q \in Requests, Asked(q) PROVE ListsInv'
<1>1. RequestsOK /\ RowsOK /\ req[q] = Idle
  BY DEF IInv, Asked
<1> QED BY <1>1, CreateStarts, UpdateStarts, DeleteStarts, PoolStarts, BothStarts, RelinkStarts,
           UnruleStarts, RuleStarts DEF Asked

-----------------------------------------------------------------------------
(* What a call leaves of the request that made it. *)
After(r) == IF Len(r.todo) = 1 THEN Idle ELSE [r EXCEPT !.todo = Tail(@)]

LEMMA AfterFacts ==
  ASSUME NEW r \in Request, r.todo # <<>>, Orderly(r)
  PROVE  /\ Orderly(After(r))
         /\ \/ After(r) = Idle /\ First(r) \notin Unfinished
            \/ /\ After(r).id = r.id /\ After(r).pool = r.pool /\ After(r).row = r.row
               /\ After(r).plan = r.plan /\ After(r).todo = Tail(r.todo)
               /\ Follows(First(r), First(After(r))) /\ First(After(r)) = r.todo[2]
<1> DEFINE s == r.todo
<1>1. s \in Seq(Steps) /\ s # <<>> /\ Chain(s)
  BY DEF Request, AnyRequest, Orderly
<1>2. First(r) = Head(s)
  BY DEF First
<1>3. /\ Chain(Tail(s))
      /\ IF Len(s) = 1 THEN Head(s) \notin Unfinished /\ Tail(s) = <<>>
         ELSE Tail(s) # <<>> /\ Follows(Head(s), Head(Tail(s)))
      /\ Blank(Tail(s)) => Blank(s)
  BY <1>1, ChainTail
<1>4. CASE Len(s) = 1
  BY <1>2, <1>3, <1>4, IdleIsOrderly DEF After
<1>5. CASE Len(s) # 1
  <2> DEFINE n == [r EXCEPT !.todo = Tail(s)]
  <2>1. After(r) = n
    BY <1>5 DEF After
  <2>2. /\ n.id = r.id /\ n.pool = r.pool /\ n.row = r.row /\ n.plan = r.plan
        /\ n.todo = Tail(s)
    BY DEF Request, AnyRequest
  <2>3. Head(Tail(s)) = s[2]
    <3> HIDE DEF s, Steps
    <3>1. Tail(s) # <<>>
      BY <1>3, <1>5
    <3> QED BY <1>1, <3>1
  <2> HIDE DEF n
  <2>4. Orderly(n)
    BY <1>3, <1>5, <2>2 DEF Orderly
  <2>5. First(n) = Head(Tail(s))
    BY <1>3, <1>5, <2>2 DEF First
  <2> QED BY <1>2, <1>3, <1>5, <2>1, <2>2, <2>3, <2>4, <2>5
<1> QED BY <1>4, <1>5

LEMMA Takes ==
  ASSUME RequestsOK, ListsInv, NEW q \in Requests, req[q].todo # <<>>, NEW r,
         req' = [req EXCEPT ![q] = r], calm' = calm, ProxyRow', Orderly(r),
         calm /\ Sure(req[q]) => Sure(r)'
  PROVE  ListsInv'
<1>1. req[q] # Idle
  BY IdleIsOrderly
<1>2. ASSUME calm PROVE Alone(q) /\ Sure(req[q])
  BY <1>1, <1>2 DEF ListsInv, OneByOne
<1> QED BY <1>2, StepOfOne

(* A call that leaves the rows alone. *)
LEMMA Reads ==
  ASSUME RequestsOK, ListsInv, NEW q \in Requests, req[q].todo # <<>>, NEW r,
         req' = [req EXCEPT ![q] = r], UNCHANGED <<groups, plain, calm>>, Orderly(r),
         Sure(req[q]) => Sure(r)
  PROVE  ListsInv'
<1>1. ProxyRow'
  BY DEF ListsInv, ProxyRow
<1>2. Sure(r) => Sure(r)'
  BY SureStays
<1> QED BY <1>1, <1>2, Takes

LEMMA ReadSure ==
  ASSUME NEW o, NEW r, Sure(o), First(o) \notin {"syncRead", "syncWrite"},
         \/ r = Idle
         \/ /\ Follows(First(o), First(r)) /\ First(r) = o.todo[2]
            /\ r.id = o.id /\ r.pool = o.pool /\ r.row = o.row
            /\ First(o) = "graph" => Whole([groups EXCEPT ![o.id] = o.row])
            /\ First(o) = "parents" => Parents(o.id) = {}
            /\ First(o) = "poolParents" => \A g \in Dedicated(o.pool) : Parents(g) = {}
  PROVE  Sure(r)
<1>1. Whole(groups) /\ SoundOn(plain, groups, Existing \ Routing)
  BY WholeIsSettled DEF Sure
<1>2. CASE r = Idle
  BY <1>1, <1>2, IdleIsSure
<1>3. CASE r # Idle
  <2>1. Checked(r) => Whole([groups EXCEPT ![r.id] = r.row])
    BY <1>3 DEF Checked, Follows, Sure
  <2>2. First(r) \in {"targets", "delete"} => Parents(r.id) = {}
    BY <1>3 DEF Follows, Sure
  <2>3. First(r) = "deletePool" => \A g \in Dedicated(r.pool) : Parents(g) = {}
    BY <1>3 DEF Follows
  <2>4. First(r) # "syncWrite"
    BY <1>3 DEF Follows
  <2> QED BY <1>1, <2>1, <2>2, <2>3, <2>4 DEF Sure
<1> QED BY <1>2, <1>3

LEMMA ChecksKeepLists ==
  ASSUME IInv, ListsInv, IsFiniteSet(Custom), NEW q \in Requests,
         \/ CheckPools(q) \/ CheckGraph(q) \/ FindParents(q) \/ FindTargets(q)
         \/ FindPoolParents(q) \/ CheckTarget(q) \/ InsertPool(q)
         \/ InsertRule(q) \/ StoreRule(q) \/ RemoveRule(q)
  PROVE  ListsInv'
<1> DEFINE o == req[q]
           Gone == req' = [req EXCEPT ![q] = Idle]
           Goes == req' = [req EXCEPT ![q] = After(o)]
<1>1. RequestsOK /\ RowsOK /\ o \in Request /\ Orderly(o)
  BY DEF IInv, RequestsOK, ListsInv, AllOrderly
<1>2. UNCHANGED <<groups, plain, calm>> /\ o.todo # <<>>
  BY DEF CheckPools, CheckGraph, FindParents, FindTargets, FindPoolParents, CheckTarget,
         InsertPool, InsertRule, StoreRule, RemoveRule, rows, At
<1>3. First(o) \notin {"syncRead", "syncWrite"}
  BY DEF CheckPools, CheckGraph, FindParents, FindTargets, FindPoolParents, CheckTarget,
         InsertPool, InsertRule, StoreRule, RemoveRule, At, First
<1>4. \/ Gone
      \/ /\ Goes
         /\ First(o) = "graph" => Sound([groups EXCEPT ![o.id] = o.row])
         /\ First(o) = "parents" => Parents(o.id) = {}
         /\ First(o) = "poolParents" => \A g \in Dedicated(o.pool) : Parents(g) = {}
  <2>1. Answer(q) <=> Gone
    BY DEF Answer
  <2>2. Continue(q, o) <=> Goes
    BY DEF Continue, After
  <2> HIDE DEF Gone, Goes
  <2>3. CASE CheckPools(q)
    BY <2>1, <2>2, <2>3 DEF CheckPools, At, First
  <2>4. CASE CheckGraph(q)
    BY <2>1, <2>2, <2>4 DEF CheckGraph, At, First
  <2>5. CASE FindParents(q)
    BY <2>1, <2>2, <2>5 DEF FindParents, At, First
  <2>6. CASE FindTargets(q)
    BY <2>1, <2>2, <2>6 DEF FindTargets, At, First
  <2>7. CASE FindPoolParents(q)
    BY <2>1, <2>2, <2>7 DEF FindPoolParents, At, First
  <2>8. CASE CheckTarget(q)
    BY <2>1, <2>2, <2>8 DEF CheckTarget, At, First
  <2>9. CASE InsertPool(q)
    BY <2>1, <2>2, <2>9 DEF InsertPool, At, First
  <2>10. CASE InsertRule(q) \/ StoreRule(q)
    BY <2>1, <2>2, <2>10 DEF InsertRule, StoreRule, At, First
  <2>11. CASE RemoveRule(q)
    BY <2>1, <2>2, <2>11 DEF RemoveRule, At, First
  <2> QED BY <2>3, <2>4, <2>5, <2>6, <2>7, <2>8, <2>9, <2>10, <2>11
<1>5. First(o) = "graph" /\ Sound([groups EXCEPT ![o.id] = o.row])
        => Whole([groups EXCEPT ![o.id] = o.row])
  <2>1. groups \in [Groups -> Row \cup {Nobody}] /\ o.row \in Row
    BY <1>1 DEF RowsOK, Request, AnyRequest
  <2>2. [groups EXCEPT ![o.id] = o.row] \in [Groups -> Row \cup {Nobody}]
    BY <2>1
  <2> QED BY <2>2, SoundLists
<1>6. CASE Gone
  <2>1. Orderly(Idle) /\ (Sure(o) => Sure(Idle))
    BY <1>3, IdleIsOrderly, ReadSure
  <2> QED BY <1>1, <1>2, <1>6, <2>1, Reads
<1>7. CASE ~ Gone
  <2> DEFINE r == After(o)
  <2>1. /\ Orderly(r)
        /\ \/ r = Idle
           \/ /\ r.id = o.id /\ r.pool = o.pool /\ r.row = o.row
              /\ Follows(First(o), First(r)) /\ First(r) = o.todo[2]
    BY <1>1, <1>2, AfterFacts
  <2>2. req' = [req EXCEPT ![q] = r]
    BY <1>4, <1>7
  <2> HIDE DEF r
  <2>3. Sure(o) => Sure(r)
    BY <1>3, <1>4, <1>5, <1>7, <2>1, ReadSure
  <2> QED BY <1>1, <1>2, <2>1, <2>2, <2>3, Reads
<1> QED BY <1>6, <1>7

LEMMA LinkKeepsLists ==
  ASSUME IInv, ListsInv, NEW q \in Requests, FindLinked(q) PROVE ListsInv'
<1> DEFINE o == req[q]
           last == IF Dedicated(o.pool) = {} THEN "insert" ELSE "updateLinked"
           todo == <<"syncRead", "syncWrite", last>>
<1>1. RequestsOK /\ o \in Request /\ Orderly(o)
  BY DEF IInv, RequestsOK, ListsInv, AllOrderly
<1>2. UNCHANGED <<groups, plain, calm>> /\ o.todo # <<>> /\ First(o) = "link"
  BY DEF FindLinked, rows, At, First
<1>3. PICK g \in Custom : req' = [req EXCEPT ![q].id = g, ![q].todo = todo]
  BY Todos DEF FindLinked
<1>4. o.row.members = {}
  <2>1. o.todo \in Seq(Steps) /\ o.todo # <<>> /\ Head(o.todo) = "link"
    BY <1>1, <1>2 DEF Request, AnyRequest, First
  <2>2. 1 \in 1..Len(o.todo) /\ o.todo[1] = "link"
    <3> HIDE DEF Steps, o
    <3> QED BY <2>1
  <2> QED BY <1>1, <2>2 DEF Orderly, Blank
<1>5. Chain(todo) /\ todo # <<>> /\ Head(todo) = "syncRead"
  BY DEF Chain, Follows, Unfinished
<1> HIDE DEF todo
<1> DEFINE r == [o EXCEPT !.id = g, !.todo = todo]
<1>6. r.todo = todo /\ r.row = o.row
  BY <1>1 DEF Request, AnyRequest
<1>7. req' = [req EXCEPT ![q] = r]
  BY <1>3
<1> HIDE DEF r
<1>8. Orderly(r)
  BY <1>4, <1>5, <1>6 DEF Orderly
<1>9. Sure(o) => Sure(r)
  <2>1. Sure(o) => Whole(groups)
    BY <1>2 DEF Sure
  <2>2. First(r) = "syncRead"
    BY <1>5, <1>6 DEF First
  <2> QED BY <2>1, <2>2, OpensSure DEF Opening
<1> QED BY <1>1, <1>2, <1>7, <1>8, <1>9, Reads

LEMMA SyncReadKeepsLists ==
  ASSUME IInv, ListsInv, NEW q \in Requests, SyncRead(q) PROVE ListsInv'
<1> DEFINE plan == [g \in Routing |-> Resolved(g)]
           o == [req[q] EXCEPT !.plan = plan]
           r == After(o)
<1>1. RequestsOK /\ req[q] \in Request /\ Orderly(req[q])
  BY DEF IInv, RequestsOK, ListsInv, AllOrderly
<1>2. UNCHANGED <<groups, plain, calm>> /\ req[q].todo # <<>> /\ First(req[q]) = "syncRead"
  BY DEF SyncRead, rows, At, First
<1>3. plan \in Lists
  BY PlanIsLists
<1> HIDE DEF plan
<1>4. /\ o \in AnyRequest /\ o.todo = req[q].todo /\ o.row = req[q].row /\ o.plan = plan
      /\ o.id = req[q].id /\ o.pool = req[q].pool
  BY <1>1, <1>3 DEF Request, AnyRequest
<1>5. req' = [req EXCEPT ![q] = r]
  BY DEF SyncRead, Continue, After, plan
<1> HIDE DEF o
<1>6. o \in Request /\ Orderly(o) /\ First(o) = "syncRead" /\ o.todo # <<>>
  BY <1>1, <1>2, <1>4 DEF Request, Orderly, First
<1>7. Orderly(r) /\ r.plan = plan /\ First(r) = "syncWrite"
  BY <1>4, <1>6, AfterFacts DEF Unfinished, Follows
<1> HIDE DEF r
<1>8. Sure(req[q]) => Sure(r)
  BY <1>2, <1>7 DEF Sure, Checked, plan
<1> QED BY <1>1, <1>2, <1>5, <1>7, <1>8, Reads

-----------------------------------------------------------------------------
(* The calls that write rows. *)
LEMMA WriteSure ==
  ASSUME NEW o, NEW r, Whole(groups)',
         First(o) \in {"insert", "update", "insertBoth", "updateLinked", "syncWrite"},
         r = Idle \/ Follows(First(o), First(r)),
         First(r) = "insert" => Whole([groups EXCEPT ![r.id] = r.row])'
  PROVE  Sure(r)'
<1>1. SoundOn(plain, groups, Existing \ Routing)'
  BY DEF Whole, SoundOn, Present, Existing
<1>2. First(Idle) = "none"
  BY DEF First, Idle
<1>3. First(r) \notin {"update", "pools", "targets", "delete", "deletePool", "syncWrite"}
  BY <1>2 DEF Follows
<1> QED BY <1>1, <1>3 DEF Sure, Checked

LEMMA ListsWritten ==
  ASSUME IInv, ListsInv, NEW q \in Requests, req[q].todo # <<>>, NEW o \in Request,
         o.todo = req[q].todo, o.id = req[q].id, o.row = req[q].row, Orderly(o),
         First(o) \in {"insert", "update", "insertBoth", "updateLinked", "syncWrite"},
         Continue(q, o), calm' = calm, ProxyRow', Sure(req[q]) => Whole(groups)',
         /\ First(o) = "syncWrite" /\ Sure(req[q]) /\ o.row.members = {}
         => Whole([groups EXCEPT ![o.id] = o.row])'
  PROVE  ListsInv'
<1>1. PICK r : r = After(o)
  OBVIOUS
<1>2. /\ Orderly(r)
      /\ \/ r = Idle
         \/ /\ r.id = o.id /\ r.row = o.row
            /\ Follows(First(o), First(r)) /\ First(r) = o.todo[2] /\ r.todo = Tail(o.todo)
  BY <1>1, AfterFacts
<1>3. req' = [req EXCEPT ![q] = r]
  BY <1>1 DEF Continue, After
<1>4. ASSUME Sure(req[q]), First(r) = "insert"
      PROVE  Whole([groups EXCEPT ![r.id] = r.row])'
  <2>1. First(Idle) = "none"
    BY DEF First, Idle
  <2>2. /\ r.id = o.id /\ r.row = o.row /\ First(o) = "syncWrite"
        /\ o.todo[2] = "insert" /\ r.todo = Tail(o.todo) /\ r.todo # <<>>
    BY <1>2, <1>4, <2>1 DEF Follows, First
  <2>3. o.row.members = {}
    <3>1. o.todo \in Seq(Steps) /\ o.todo # <<>> /\ Tail(o.todo) # <<>>
      BY <2>2 DEF Request, AnyRequest
    <3>2. 1 \in 1..(Len(o.todo) - 1) /\ Head(o.todo) = o.todo[1]
      <4> HIDE DEF Steps
      <4> QED BY <3>1
    <3>3. o.todo[1] = "syncWrite" /\ o.todo[1 + 1] = "insert"
      BY <2>2, <3>1, <3>2 DEF First
    <3>4. Blank(o.todo)
      BY <3>2, <3>3 DEF Blank
    <3> QED BY <3>4 DEF Orderly
  <2> QED BY <1>4, <2>2, <2>3
<1>5. Sure(req[q]) => Sure(r)'
  BY <1>2, <1>4, WriteSure
<1>6. RequestsOK
  BY DEF IInv
<1> QED BY <1>2, <1>3, <1>5, <1>6, Takes

LEMMA StoredIsWhole ==
  ASSUME NEW gs, Store(gs), Whole(gs) PROVE Whole(groups)'
  BY DEF Store, Whole, SoundOn, Present

LEMMA BlankAdds ==
  ASSUME NEW p, NEW gs \in [Groups -> Row \cup {Nobody}], SoundOn(p, gs, Present(gs)),
         NEW g, NEW row \in Row, row.members = {}
  PROVE  SoundOn(p, [gs EXCEPT ![g] = row], Present([gs EXCEPT ![g] = row]))
<1> DEFINE new == [gs EXCEPT ![g] = row]
<1>1. \A h \in Groups : new[h] = IF h = g THEN row ELSE gs[h]
  OBVIOUS
<1> HIDE DEF new
<1>2. Present(gs) \subseteq Present(new) /\ Present(new) \subseteq Present(gs) \cup {g}
  BY <1>1, NobodyIsNoRow DEF Present
<1>3. \A h \in Present(new) : new[h].members \subseteq Present(new)
  BY <1>1, <1>2 DEF SoundOn, Present
<1>4. ASSUME p, NEW C \in SUBSET Present(new), C # {} PROVE \E h \in C : new[h].members \cap C = {}
  <2>1. CASE g \in C
    BY <1>1, <2>1 DEF Present
  <2>2. CASE g \notin C
    <3>1. C \in SUBSET Present(gs)
      BY <1>2, <2>2
    <3>2. PICK h \in C : gs[h].members \cap C = {}
      BY <1>4, <3>1 DEF SoundOn
    <3>3. new[h] = gs[h]
      BY <1>1, <2>2, <3>1 DEF Present
    <3> QED BY <3>2, <3>3
  <2> QED BY <2>1, <2>2
<1>5. SoundOn(p, new, Present(new))
  BY <1>3, <1>4 DEF SoundOn
<1> QED BY <1>5 DEF new

(* A sync from sound groups with nodes leaves all groups sound. *)
LEMMA SyncedIsWhole ==
  ASSUME RowsOK, ProxyRow, SoundOn(plain, groups, Existing \ Routing),
         NEW plan, plan = [g \in Routing |-> Resolved(g)],
         Store([g \in Groups |-> IF g \in DOMAIN plan /\ groups[g] # Nobody
                                 THEN [groups[g] EXCEPT !.members = plan[g]]
                                 ELSE groups[g]])
  PROVE  Whole(groups)'
<1>1. groups \in [Groups -> Row \cup {Nobody}] /\ Proxy \in Existing
  BY DEF RowsOK, Groups, Existing
<1>2. \A g \in Groups :
        groups'[g] = IF g \in Routing THEN [groups[g] EXCEPT !.members = Outlets \ {g}]
                     ELSE groups[g]
  BY DEF Store, Resolved, Routing, Existing
<1>3. ASSUME NEW g \in Routing
      PROVE  /\ groups'[g].members = Outlets \ {g} /\ groups'[g] \in Row
             /\ groups[g].pools = {}
  <2>1. groups[g] \in Row /\ Outlets \subseteq Groups /\ groups[g].pools = {} /\ g \in Groups
    BY <1>1 DEF Routing, Existing, Outlets, IsRouting
  <2> QED BY <1>2, <2>1 DEF Row
<1>4. Present(groups') = Existing
  BY <1>2, <1>3, NobodyIsNoRow DEF Present, Existing, Routing
<1>5. ASSUME NEW g \in Existing PROVE groups'[g].members \subseteq Existing
  <2>1. CASE g \in Routing
    BY <1>3, <2>1 DEF Outlets
  <2>2. CASE g \notin Routing
    BY <1>2, <2>2 DEF SoundOn, Existing, Present
  <2> QED BY <2>1, <2>2
<1>6. Proxy \in Routing
  BY <1>1 DEF ProxyRow, Routing, IsRouting
<1>7. ASSUME plain', NEW h \in Outlets \ {Proxy} PROVE groups'[h].members = {}
  <2>1. h \in Existing /\ groups[h].pools # {}
    BY DEF Outlets, IsOutlet
  <2>2. h \notin Routing
    BY <2>1 DEF Routing, IsRouting
  <2>3. h \in Groups /\ groups'[h] = groups[h] /\ groups[h] # Nobody
    BY <1>2, <2>1, <2>2 DEF Existing
  <2>4. groups'[h] = Nobody \/ groups'[h].pools = {} \/ groups'[h].members = {}
    BY <1>7, <2>3 DEF Store
  <2> QED BY <2>1, <2>3, <2>4
<1>8. plain' => plain
  BY DEF Store
<1>9. ASSUME plain', NEW C \in SUBSET Existing, C # {}
      PROVE  \E g \in C : groups'[g].members \cap C = {}
  <2>1. CASE C \cap Routing = {}
    <3>1. PICK g \in C : groups[g].members \cap C = {}
      BY <1>8, <1>9, <2>1 DEF SoundOn
    <3>2. groups'[g] = groups[g]
      BY <1>2, <2>1 DEF Existing
    <3> QED BY <3>1, <3>2
  <2>2. CASE \E h \in C : h \in Outlets \ {Proxy}
    BY <1>7, <1>9, <2>2
  <2>3. CASE C \cap Routing # {} /\ \A h \in C : h \notin Outlets \ {Proxy}
    <3>1. CASE Proxy \in C
      BY <1>3, <1>6, <2>3, <3>1
    <3>2. CASE Proxy \notin C
      BY <1>3, <2>3, <3>2
    <3> QED BY <3>1, <3>2
  <2> QED BY <2>1, <2>2, <2>3
<1> QED BY <1>4, <1>5, <1>9 DEF Whole, SoundOn

(* PROXY keeps what the sync reads of it: it is never written as a group   *)
(* of the operator.                                                        *)
LEMMA OwnedIsCustom ==
  ASSUME RequestsOK, NEW q \in Requests, NEW s \in Owned, At(q, s) PROVE req[q].id # Proxy
  BY NextCall DEF May

LEMMA OneRowWritten ==
  ASSUME IInv, ListsInv, NEW id, id # Proxy, NEW row, Store([groups EXCEPT ![id] = row])
  PROVE  ProxyRow'
  BY DEF Store, ProxyRow, ListsInv, IInv, RowsOK, Groups

LEMMA NothingWritten == ASSUME ListsInv, Store(groups) PROVE ProxyRow'
  BY DEF Store, ProxyRow, ListsInv

LEMMA HeadOfTodo ==
  ASSUME RequestsOK, NEW q \in Requests, NEW s, At(q, s)
  PROVE  1 \in 1..Len(req[q].todo) /\ req[q].todo[1] = s /\ First(req[q]) = s
<1>1. req[q].todo \in Seq(Steps) /\ req[q].todo # <<>> /\ Head(req[q].todo) = s
  BY DEF RequestsOK, Request, AnyRequest, At
<1>2. ASSUME NEW t \in Seq(Steps), t # <<>> PROVE 1 \in 1..Len(t) /\ t[1] = Head(t)
  <2> HIDE DEF Steps
  <2> QED BY <1>2
<1> QED BY <1>1, <1>2 DEF First

LEMMA RowWritesKeepLists ==
  ASSUME IInv, ListsInv, NEW q \in Requests, InsertGroup(q) \/ StoreGroup(q) \/ InsertBoth(q)
  PROVE  ListsInv'
<1> DEFINE o == req[q]
           gs == [groups EXCEPT ![o.id] = o.row]
<1>1. /\ RequestsOK /\ RowsOK /\ o \in Request /\ Orderly(o) /\ o.row \in Row
      /\ groups \in [Groups -> Row \cup {Nobody}]
  BY DEF IInv, RequestsOK, RowsOK, ListsInv, AllOrderly, Request, AnyRequest
<1>2. /\ o.todo # <<>> /\ calm' = calm /\ Continue(q, o)
      /\ First(o) \in {"insert", "update", "insertBoth"}
      /\ o.id # Proxy
  BY <1>1, OwnedIsCustom
  DEF InsertGroup, StoreGroup, InsertBoth, At, First, Owned
<1>3. CASE Store(groups)
  <2>1. Sure(o) => Whole(groups)'
    BY <1>2, <1>3, StoredIsWhole DEF Sure
  <2>2. ProxyRow'
    BY <1>3, NothingWritten
  <2> QED BY <1>1, <1>2, <2>1, <2>2, ListsWritten
<1>4. CASE Store(gs)
  <2>1. ASSUME Sure(o) PROVE Whole(gs)
    <3>1. CASE First(o) \in {"insert", "update"}
      BY <2>1, <3>1 DEF Sure, Checked
    <3>2. CASE First(o) = "insertBoth"
      <4>1. 1 \in 1..Len(o.todo) /\ o.todo[1] = "insertBoth"
        BY <1>1, <1>2, <3>2, HeadOfTodo DEF At, First
      <4>2. o.row.members = {}
        BY <1>1, <4>1 DEF Orderly, Blank
      <4>3. Whole(groups)
        BY <2>1, <3>2 DEF Sure
      <4> HIDE DEF o
      <4> QED BY <1>1, <4>2, <4>3, BlankAdds DEF Whole
    <3> QED BY <1>2, <3>1, <3>2
  <2>2. ProxyRow'
    BY <1>2, <1>4, OneRowWritten
  <2>3. Sure(o) => Whole(groups)'
    <3> HIDE DEF gs, o
    <3> QED BY <1>4, <2>1, StoredIsWhole
  <2> QED BY <1>1, <1>2, <2>2, <2>3, ListsWritten
<1> QED BY <1>3, <1>4 DEF InsertGroup, StoreGroup, InsertBoth

LEMMA LinkWritesKeepLists ==
  ASSUME IInv, ListsInv, NEW q \in Requests, StoreLinked(q) PROVE ListsInv'
<1> DEFINE o == req[q]
           g == o.id
           gs == [groups EXCEPT ![g].enabled = o.row.enabled, ![g].pools = o.row.pools]
           row == [groups[g] EXCEPT !.enabled = o.row.enabled, !.pools = o.row.pools]
<1>1. /\ RequestsOK /\ RowsOK /\ o \in Request /\ Orderly(o) /\ o.row \in Row
      /\ groups \in [Groups -> Row \cup {Nobody}]
  BY DEF IInv, RequestsOK, RowsOK, ListsInv, AllOrderly, Request, AnyRequest
<1>2. /\ o.todo # <<>> /\ calm' = calm /\ Continue(q, o) /\ First(o) = "updateLinked"
      /\ g # Proxy /\ Store(IF groups[g] = Nobody THEN groups ELSE gs)
  BY <1>1, OwnedIsCustom DEF StoreLinked, At, First, Owned
<1>3. CASE groups[g] = Nobody \/ g \notin Groups
  <2>1. gs = groups \/ groups[g] = Nobody
    BY <1>1, <1>3
  <2>2. Store(groups)
    <3> HIDE DEF gs, g
    <3> QED BY <1>2, <2>1
  <2>3. Sure(o) => Whole(groups)'
    BY <1>2, <2>2, StoredIsWhole DEF Sure
  <2>4. ProxyRow'
    BY <2>2, NothingWritten
  <2> QED BY <1>1, <1>2, <2>3, <2>4, ListsWritten
<1>4. CASE groups[g] # Nobody /\ g \in Groups
  <2>1. row \in Row /\ row.members = groups[g].members
    BY <1>1, <1>4 DEF Row
  <2>2. gs = [groups EXCEPT ![g] = row]
    BY <1>1, <1>4
  <2> HIDE DEF gs, row
  <2>3. Store([groups EXCEPT ![g] = row])
    BY <1>2, <1>4, <2>2
  <2>4. Whole(groups) => Whole([groups EXCEPT ![g] = row])
    BY <1>1, <1>4, <2>1, SameMembers
  <2>5. Sure(o) => Whole(groups)'
    BY <1>2, <2>3, <2>4, StoredIsWhole DEF Sure
  <2>6. ProxyRow'
    BY <1>2, <2>3, OneRowWritten
  <2> QED BY <1>1, <1>2, <2>5, <2>6, ListsWritten
<1> QED BY <1>3, <1>4

LEMMA SyncWriteKeepsLists ==
  ASSUME IInv, ListsInv, NEW q \in Requests, SyncWrite(q) PROVE ListsInv'
<1> DEFINE plan == req[q].plan
           gs == [g \in Groups |-> IF g \in DOMAIN plan /\ groups[g] # Nobody
                                   THEN [groups[g] EXCEPT !.members = plan[g]]
                                   ELSE groups[g]]
<1>0. PICK o : o = [req[q] EXCEPT !.plan = <<>>]
  OBVIOUS
<1>1. /\ RequestsOK /\ RowsOK /\ req[q] \in Request /\ Orderly(req[q]) /\ ProxyRow
      /\ groups \in [Groups -> Row \cup {Nobody}]
  BY DEF IInv, RequestsOK, RowsOK, ListsInv, AllOrderly
<1>2. /\ req[q].todo # <<>> /\ calm' = calm /\ First(req[q]) = "syncWrite"
      /\ Store(gs) /\ Continue(q, o)
  BY <1>0 DEF SyncWrite, At, First
<1>3. /\ o \in AnyRequest /\ o.todo = req[q].todo /\ o.row = req[q].row
      /\ o.id = req[q].id /\ o.pool = req[q].pool
  BY <1>0, <1>1, NoLists DEF Request, AnyRequest
<1>4. o.row \in Row
  BY <1>3 DEF AnyRequest
<1>5. o \in Request /\ Orderly(o) /\ First(o) = "syncWrite"
  <2>1. o.todo # <<>>
    BY <1>2, <1>3
  <2> QED BY <1>1, <1>2, <1>3, <2>1 DEF Request, Orderly, First
<1>6. Sure(req[q]) => Whole(groups)'
  <2>1. Sure(req[q]) => /\ SoundOn(plain, groups, Existing \ Routing)
                        /\ plan = [g \in Routing |-> Resolved(g)]
    BY <1>2 DEF Sure
  <2> HIDE DEF plan
  <2> QED BY <1>1, <1>2, <2>1, SyncedIsWhole
<1>7. groups' \in [Groups -> Row \cup {Nobody}]
  <2>1. Kept
    BY SyncKeepsRows
  <2> QED BY <2>1 DEF Kept, RowsOK
<1>8. ASSUME Sure(req[q]), o.row.members = {} PROVE Whole([groups EXCEPT ![o.id] = o.row])'
  <2>1. SoundOn(plain', groups', Present(groups'))
    BY <1>6, <1>8 DEF Whole, SoundOn, Present
  <2>2. SoundOn(plain', [groups' EXCEPT ![o.id] = o.row],
                Present([groups' EXCEPT ![o.id] = o.row]))
    BY <1>4, <1>7, <1>8, <2>1, BlankAdds
  <2> QED BY <2>2 DEF Whole, SoundOn, Present
<1>9. ProxyRow'
  <2>1. Proxy \in Groups /\ groups[Proxy] \in Row
    BY <1>1 DEF Groups, RowsOK
  <2>2. groups'[Proxy].enabled = groups[Proxy].enabled /\ groups'[Proxy].pools = groups[Proxy].pools
    BY <1>2, <2>1 DEF Store, Row
  <2> QED BY <1>1, <2>2 DEF ProxyRow
<1> QED BY <1>2, <1>3, <1>5, <1>6, <1>8, <1>9, ListsWritten

-----------------------------------------------------------------------------
(* Deletions leave lists that name a deleted group only where the sync     *)
(* that follows writes them anew.                                          *)
LEMMA RemovedIsSettled ==
  ASSUME RowsOK, NEW gs, Store(Removed(gs)), Whole(groups), \A g \in gs : Parents(g) = {}
  PROVE  SoundOn(plain, groups, Existing \ Routing)'
<1>1. /\ \A g \in Groups : groups'[g] = IF g \in gs THEN Nobody ELSE groups[g]
      /\ plain' => plain
  BY DEF Store, Removed
<1>2. Existing' = Existing \ gs
  BY <1>1 DEF Existing
<1>3. (Existing \ Routing)' = (Existing \ Routing) \ gs
  BY <1>1, <1>2 DEF Routing, Existing
<1>4. \A h \in (Existing \ Routing) \ gs : groups'[h] = groups[h]
  BY <1>1 DEF Existing
<1>5. ASSUME NEW h \in (Existing \ Routing) \ gs PROVE groups[h].members \subseteq Existing \ gs
  <2>1. groups[h].members \subseteq Existing
    BY DEF Whole, SoundOn, Present, Existing
  <2>2. \A g \in gs : g \notin groups[h].members
    BY DEF Parents, Managed
  <2> QED BY <2>1, <2>2
<1>6. ASSUME plain', NEW C \in SUBSET ((Existing \ Routing) \ gs), C # {}
      PROVE  \E h \in C : groups'[h].members \cap C = {}
  <2>1. PICK h \in C : groups[h].members \cap C = {}
    BY <1>1, <1>6 DEF Whole, SoundOn, Present, Existing
  <2> QED BY <1>4, <2>1
<1>7. Present(groups') = Existing'
  BY DEF Present, Existing
<1> QED BY <1>2, <1>3, <1>4, <1>5, <1>6, <1>7 DEF SoundOn

LEMMA DeletionsKeepLists ==
  ASSUME IInv, ListsInv, NEW q \in Requests, RemoveGroup(q) \/ RemovePool(q) PROVE ListsInv'
<1> DEFINE gs == IF RemoveGroup(q) THEN {req[q].id} ELSE Dedicated(req[q].pool)
<1>1. PICK o : o = req[q]
  OBVIOUS
<1>2. /\ RequestsOK /\ RowsOK /\ o \in Request /\ Orderly(o) /\ ProxyRow
  BY <1>1 DEF IInv, RequestsOK, ListsInv, AllOrderly
<1>3. /\ o.todo # <<>> /\ calm' = calm /\ First(o) \in {"delete", "deletePool"}
      /\ \/ Store(Removed(gs)) /\ Continue(q, o)
         \/ UNCHANGED rows /\ Answer(q)
  <2>1. CASE RemoveGroup(q)
    BY <1>1, <2>1 DEF RemoveGroup, At, First
  <2>2. CASE ~ RemoveGroup(q)
    BY <1>1, <2>2 DEF RemovePool, At, First
  <2> QED BY <2>1, <2>2
<1>4. Proxy \notin gs
  BY <1>2, OwnedIsCustom DEF RemoveGroup, Dedicated, Owned
<1>5. Sure(o) => Whole(groups) /\ \A g \in gs : Parents(g) = {}
  BY <1>1, <1>3 DEF Sure, RemoveGroup, RemovePool, At, First
<1> HIDE DEF gs
<1>6. CASE UNCHANGED rows /\ Answer(q)
  <2>1. req' = [req EXCEPT ![q] = Idle] /\ UNCHANGED <<groups, plain, calm>>
    BY <1>3, <1>6 DEF Answer, rows
  <2>2. Sure(o) => Sure(Idle)
    BY <1>5, IdleIsSure
  <2> QED BY <1>1, <1>2, <1>3, <2>1, <2>2, IdleIsOrderly, Reads
<1>7. CASE Store(Removed(gs)) /\ Continue(q, o)
  <2>1. PICK r : r = After(o)
    OBVIOUS
  <2>2. Orderly(r) /\ First(r) = "syncRead"
    BY <1>2, <1>3, <2>1, AfterFacts DEF Follows, Unfinished
  <2>3. req' = [req EXCEPT ![q] = r]
    BY <1>7, <2>1 DEF Continue, After
  <2>4. ASSUME Sure(o) PROVE Sure(r)'
    <3>1. SoundOn(plain, groups, Existing \ Routing)'
      BY <1>2, <1>5, <1>7, <2>4, RemovedIsSettled
    <3> QED BY <2>2, <3>1 DEF Sure, Checked
  <2>5. ProxyRow'
    BY <1>2, <1>4, <1>7 DEF Store, Removed, ProxyRow, Groups
  <2> QED BY <1>1, <1>2, <1>3, <2>2, <2>3, <2>4, <2>5, Takes
<1> QED BY <1>3, <1>6, <1>7

-----------------------------------------------------------------------------
LEMMA InitLists == ASSUME Init PROVE ListsInv
<1>1. /\ groups = [g \in Groups |-> IF g = Proxy THEN [NoRow EXCEPT !.enabled = TRUE] ELSE Nobody]
      /\ \A q \in Requests : req[q] = Idle
  BY DEF Init
<1>2. Proxy \in Groups /\ groups[Proxy] = [NoRow EXCEPT !.enabled = TRUE]
  BY <1>1 DEF Groups
<1>3. groups[Proxy].enabled /\ groups[Proxy].pools = {} /\ groups[Proxy].members = {}
  BY <1>2 DEF NoRow
<1>4. \A g \in Present(groups) : g = Proxy
  BY <1>1 DEF Present
<1>5. Whole(groups)
  BY <1>3, <1>4 DEF Whole, SoundOn
<1> QED BY <1>1, <1>3, <1>5, IdleIsOrderly, IdleIsSure DEF ListsInv, AllOrderly, ProxyRow, OneByOne

LEMMA NextLists ==
  ASSUME IsFiniteSet(Custom), IInv, ListsInv, [Next]_vars PROVE ListsInv'
<1>1. ASSUME NEW q \in Requests, Asked(q) PROVE ListsInv'
  BY <1>1, AskedKeepsLists
<1>2. ASSUME NEW q \in Requests, Call(q) PROVE ListsInv'
  BY <1>2, ChecksKeepLists, RowWritesKeepLists, DeletionsKeepLists, LinkKeepsLists,
     LinkWritesKeepLists, SyncReadKeepsLists, SyncWriteKeepsLists DEF Call
<1>3. ASSUME NEW q \in Requests, Die(q) PROVE ListsInv'
  <2>1. req' = [req EXCEPT ![q] = Idle] /\ UNCHANGED <<groups, plain>> /\ ~ calm'
    BY <1>3 DEF Die, Answer, rows
  <2>2. ProxyRow' /\ AllOrderly'
    BY <2>1, IdleIsOrderly DEF ListsInv, ProxyRow, AllOrderly, IInv, RequestsOK
  <2> QED BY <2>1, <2>2 DEF ListsInv, OneByOne
<1>4. CASE UNCHANGED vars
  <2>1. UNCHANGED <<groups, plain, calm, req>>
    BY <1>4 DEF vars, rows
  <2>2. ASSUME NEW q \in Requests, Alone(q)', calm' PROVE Sure(req[q])'
    <3>1. Alone(q) /\ calm
      BY <2>1, <2>2 DEF Alone
    <3>2. PICK r : r = req[q]
      OBVIOUS
    <3>3. Sure(r)'
      BY <2>1, <3>1, <3>2, SureStays DEF ListsInv, OneByOne
    <3> QED BY <2>1, <3>2, <3>3 DEF Sure
  <2>3. Quiet' => Whole(groups)'
    BY <2>1 DEF ListsInv, OneByOne, Quiet, Whole, SoundOn, Present
  <2>4. AllOrderly' /\ ProxyRow'
    BY <2>1 DEF ListsInv, AllOrderly, ProxyRow
  <2>5. calm' => \A q \in Requests : req'[q] = Idle \/ Alone(q)'
    BY <2>1 DEF ListsInv, OneByOne, Alone
  <2> QED BY <2>2, <2>3, <2>4, <2>5 DEF ListsInv, OneByOne
<1> QED BY <1>1, <1>2, <1>3, <1>4 DEF Next

(* As long as requests come one after the other and run to their end,      *)
(* every list the store is left with names groups that exist, and none     *)
(* leads back to where it started unless a group ever had both nodes and a *)
(* list of its own.  A workspace holds finitely many groups.               *)
THEOREM ListsStaySoundHolds == ASSUME IsFiniteSet(Custom) PROVE Spec => []ListsStaySound
<1>1. IInv /\ ListsInv => ListsStaySound
  <2> SUFFICES ASSUME IInv, ListsInv, Quiet
               PROVE  Closed(References(groups)) /\ (plain => Acyclic(References(groups)))
    BY DEF ListsStaySound
  <2>1. Whole(groups)
    BY DEF ListsInv, OneByOne, Quiet
  <2>2. groups \in [Groups -> Row \cup {Nobody}]
    BY DEF IInv, RowsOK
  <2> QED BY <2>1, <2>2, SoundLists
<1>2. IInv /\ ListsInv /\ [Next]_vars => ListsInv'
  BY NextLists
<1> QED BY <1>1, <1>2, Inductive, InitLists, PTL DEF Spec
=============================================================================
