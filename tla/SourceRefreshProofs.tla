------------------------- MODULE SourceRefreshProofs -------------------------
(***************************************************************************)
(* For any sources, requests, contents and node ids: the types and keys of *)
(* the tables, and what a refresh that nothing overlapped leaves behind,   *)
(* in the rows of a source, and in the node groups and rule sets that      *)
(* follow it.                                                              *)
(***************************************************************************)
EXTENDS SourceRefresh, SourceFollowers, RowListsProofs

-----------------------------------------------------------------------------
Parsed == [name : Names, key : Keys]
IdsOf(rs) == {r.id : r \in rs}
Keyed(rs) == \A r, o \in rs : r.id = o.id => r = o

(* A request in flight is about a source; what it has read has one row for *)
(* every id, and what it applies is some content.                          *)
Steps == {"idle", "load", "fetch", "diff", "apply", "error", "fulfilled", "rejected",
          "tally", "count"}
Task == [pc : Steps, src : Sources \cup {Nobody}, body : Contents \cup {<<>>},
         seen : SUBSET Columns, total : 0..Cardinality(Ids)]
Knows(n) ==
    /\ n.pc # "idle" => n.src \in Sources
    /\ Keyed(n.seen)
    /\ n.pc = "apply" => n.body \in Contents
TasksOK == task \in [Tasks -> Task] /\ \A t \in Tasks : Knows(task[t])

(* The cron refreshes only sources of its present batch. *)
CronOwns == \A s \in Sources : task[s].pc # "idle" => s \in cron.batch
CronOK == cron \in [todo : SUBSET Sources, batch : SUBSET Sources] /\ CronOwns

(* A row that was not added by hand comes from some content. *)
RowsAreServed == \A r \in nodes : ~r.manual => r.name \in Names /\ r.key \in Keys
RowsOK ==
    /\ source \in [Sources -> {"absent", "live", "gone"}]
    /\ due \in [Sources -> BOOLEAN]
    /\ failed \in [Sources -> BOOLEAN]
    /\ count \in [Sources -> 0..Cardinality(Ids)]
    /\ nodes \subseteq Row /\ Keyed(nodes)
    /\ \A r \in nodes : source[r.src] = "live"
    /\ RowsAreServed

BoundsOK == deaths \in 0..MaxDeaths /\ edits \in 0..MaxEdits

RefreshInv == RowsOK /\ TasksOK /\ CronOK /\ BoundsOK

-----------------------------------------------------------------------------
(* Finite sets: a largest natural number; sets whose members are told      *)
(* apart by their ids.                                                     *)
LEMMA LargestExists ==
  ASSUME NEW S, IsFiniteSet(S), S # {}, S \subseteq Nat
  PROVE  \E x \in S : \A y \in S : y <= x
<1> DEFINE Topped(T) == \E x \in T : \A y \in T : y <= x
           Bad == {T \in SUBSET S : T # {} /\ ~Topped(T)}
<1>1. SUFFICES ASSUME Bad # {} PROVE FALSE
  <2>1. S \notin Bad BY <1>1
  <2> QED BY <2>1
<1>2. FiniteSubsetsOf(S) = SUBSET S
  BY FS_FiniteSubsetsOfFinite
<1>3. IsWellFoundedOn(StrictSubsetOrdering(S), FiniteSubsetsOf(S))
  BY FS_StrictSubsetOrderingWellFounded
<1>4. PICK T \in Bad : \A U \in Bad : ~(<<U, T>> \in StrictSubsetOrdering(S))
  <2>1. Bad \subseteq FiniteSubsetsOf(S) BY <1>2
  <2> HIDE DEF Bad
  <2> QED BY <1>1, <1>3, <2>1, WFMin
<1>5. PICK x \in T : TRUE
  OBVIOUS
<1>6. T \ {x} # {}
  <2>1. SUFFICES ASSUME T = {x} PROVE FALSE OBVIOUS
  <2>2. x \in Nat OBVIOUS
  <2> QED BY <2>1, <2>2
<1>7. T \ {x} \notin Bad
  <2>1. <<T \ {x}, T>> \in StrictSubsetOrdering(S)
    BY <1>5 DEF StrictSubsetOrdering
  <2> HIDE DEF Bad
  <2> QED BY <1>4, <2>1
<1>8. PICK y \in T \ {x} : \A z \in T \ {x} : z <= y
  BY <1>6, <1>7
<1>9. x \in Nat /\ y \in Nat /\ \A z \in T : z \in Nat
  OBVIOUS
<1>10. CASE x <= y
  BY <1>8, <1>9, <1>10
<1>11. CASE y <= x
  <2>1. \A z \in T : z <= x
    BY <1>8, <1>9, <1>11
  <2> QED BY <2>1
<1> QED BY <1>9, <1>10, <1>11

LEMMA CountedByIds ==
  ASSUME NEW S, Keyed(S), IsFiniteSet(IdsOf(S))
  PROVE  /\ IsFiniteSet(S) /\ Cardinality(S) = Cardinality(IdsOf(S))
         /\ Cardinality(S) \in Nat
<1> DEFINE f == [r \in S |-> r.id]
<1>1. f \in Injection(S, IdsOf(S))
  BY DEF Injection, IsInjective, IdsOf, Keyed
<1>2. f \in Surjection(S, IdsOf(S))
  BY DEF Surjection, IdsOf
<1>3. IsFiniteSet(S) /\ Cardinality(S) = Cardinality(IdsOf(S))
  BY <1>1, <1>2, FS_Injection
<1> QED BY <1>3, FS_CardinalityType

(* So many ids are given out as there are things that get one.             *)
LEMMA GivenOut ==
  ASSUME NEW D, IsFiniteSet(D), NEW T, NEW f \in [D -> T],
         \A i, j \in D : f[i] = f[j] => i = j
  PROVE  /\ IsFiniteSet({f[i] : i \in D})
         /\ Cardinality({f[i] : i \in D}) = Cardinality(D)
<1>1. f \in [D -> {f[i] : i \in D}]
  OBVIOUS
<1>2. f \in Surjection(D, {f[i] : i \in D})
  BY <1>1 DEF Surjection
<1>3. f \in Injection(D, {f[i] : i \in D})
  BY <1>1 DEF Injection, IsInjective
<1> QED BY <1>2, <1>3, FS_Surjection

-----------------------------------------------------------------------------
(* The difference of rows and content.                                     *)
LEMMA PlacesAreNumbers ==
  ASSUME NEW T, NEW body \in Seq(T)
  PROVE  /\ \A i \in DOMAIN body : body[i] \in T
         /\ Firsts(body) \subseteq DOMAIN body /\ DOMAIN body \subseteq Nat
         /\ IsFiniteSet(Firsts(body))
         /\ \A i, j \in Firsts(body) : body[i].key = body[j].key => i = j
<1>1. DOMAIN body = 1..Len(body) /\ Len(body) \in Nat
  OBVIOUS
<1>2. \A i \in DOMAIN body : body[i] \in T
  OBVIOUS
<1>3. Firsts(body) \subseteq DOMAIN body
  BY DEF Firsts
<1>4. IsFiniteSet(Firsts(body))
  <2>1. IsFiniteSet(1..Len(body))
    <3>1. 1 \in Int /\ Len(body) \in Int BY <1>1
    <3> QED BY <3>1, FS_Interval
  <2>2. Firsts(body) \in SUBSET (1..Len(body))
    BY <1>1, <1>3
  <2> QED BY <2>1, <2>2, FS_Subset
<1>5. ASSUME NEW i \in Firsts(body), NEW j \in Firsts(body), body[i].key = body[j].key PROVE i = j
  <2>1. i \in 1..Len(body) /\ j \in 1..Len(body)
    BY <1>1, <1>3
  <2>2. ~(i < j) /\ ~(j < i)
    BY <1>5, <2>1 DEF Firsts
  <2> QED BY <2>1, <2>2
<1> QED BY <1>1, <1>2, <1>3, <1>4, <1>5

(* A parsed node takes over one row at most; the one with its key if there *)
(* is any.                                                                 *)
LEMMA OneMatch ==
  ASSUME NEW seen, NEW byKey \in ByKey(seen), NEW body, NEW i
  PROVE  /\ Match(seen, byKey, body, i) \subseteq seen
         /\ \A r, o \in Match(seen, byKey, body, i) : r = o
         /\ (\E r \in seen : r.key = body[i].key) =>
              \E r \in seen : r.key = body[i].key /\ Match(seen, byKey, body, i) = {r}
<1>1. /\ DOMAIN byKey = {r.key : r \in seen}
      /\ \A k \in DOMAIN byKey : byKey[k] \in seen /\ byKey[k].key = k
  BY DEF ByKey
<1>2. CASE body[i].key \in DOMAIN byKey
  BY <1>1, <1>2 DEF Match
<1>3. CASE body[i].key \notin DOMAIN byKey
  BY <1>1, <1>3 DEF Match, ByUniqueName
<1> QED BY <1>2, <1>3

(* Every row that is not removed is taken over by a parsed node; a row has *)
(* the name and key of a writer, or else of all nodes that take it over.   *)
LEMMA KeptIsMatched ==
  ASSUME NEW seen, NEW byKey \in ByKey(seen), NEW body,
         NEW r \in seen \ Removed(seen, byKey, body)
  PROVE  /\ \E i \in Firsts(body) : r \in Match(seen, byKey, body, i)
         /\ Writers(seen, byKey, body, r) = {} =>
              \E i \in Firsts(body) : r \in Match(seen, byKey, body, i) /\ r.key = body[i].key
<1>1. PICK i \in Firsts(body) : r \in Match(seen, byKey, body, i)
  BY DEF Removed
<1>2. ASSUME Writers(seen, byKey, body, r) = {} PROVE r.key = body[i].key
  BY <1>1, <1>2 DEF Writers
<1> QED BY <1>1, <1>2

(* The last of several writers of a row is one of them.                    *)
LEMMA LastWriterWrites ==
  ASSUME NEW T, NEW seen, NEW byKey, NEW body \in Seq(T), NEW r,
         Writers(seen, byKey, body, r) # {}
  PROVE  LastWriter(seen, byKey, body, r) \in Writers(seen, byKey, body, r)
<1> DEFINE W == Writers(seen, byKey, body, r)
<1>1. W \subseteq Firsts(body)
  BY DEF Writers
<1>2. IsFiniteSet(W) /\ W \subseteq Nat
  BY <1>1, PlacesAreNumbers, FS_Subset
<1> HIDE DEF W
<1>3. \E i \in W : \A j \in W : j <= i
  <2>1. W # {} BY DEF W
  <2> QED BY <1>2, <2>1, LargestExists
<1> QED BY <1>3 DEF W, LastWriter
-----------------------------------------------------------------------------
(* The batch of a refresh: what Apply writes, part by part.                *)
Written(seen, byKey, body) == {r \in seen : Writers(seen, byKey, body, r) # {}}
Update(seen, byKey, body, r) ==
    IF \E o \in Written(seen, byKey, body) : o.id = r.id
    THEN LET o == CHOOSE o \in Written(seen, byKey, body) : o.id = r.id
         IN  WriteNode(r, body[LastWriter(seen, byKey, body, o)])
    ELSE r
RemovedIds(seen, byKey, body) == IdsOf(Removed(seen, byKey, body))
Updated(seen, byKey, body) ==
    {Update(seen, byKey, body, r) : r \in {n \in nodes : n.id \notin RemovedIds(seen, byKey, body)}}
Inserted(s, body, added, id) ==
    {[id |-> id[i], src |-> s, name |-> body[i].name, key |-> body[i].key,
      enabled |-> TRUE, manual |-> FALSE] : i \in added}
Fresh(added) ==
    {f \in [added -> FreeIds] :
        /\ \A i, j \in added : i < j => f[i] < f[j]
        /\ \A n \in FreeIds, i \in added : n <= f[i] => \E j \in added : f[j] = n}

Ends(t) == Settle(t, "fulfilled") \/ Reject(t)
Stores(t, byKey, id) ==
    LET s == task[t].src
        seen == task[t].seen
        body == task[t].body
    IN /\ nodes' = Updated(seen, byKey, body) \cup Inserted(s, body, Added(seen, byKey, body), id)
       /\ count' = [count EXCEPT ![s] = NodeCount(seen, byKey, body)]
       /\ due' = [due EXCEPT ![s] = FALSE]
       /\ failed' = [failed EXCEPT ![s] = FALSE]

LEMMA ApplyWrites ==
  ASSUME NEW t, Apply(t)
  PROVE  /\ task[t].pc = "apply" /\ Ends(t) /\ UNCHANGED <<source, cron, deaths, edits>>
         /\ \/ ~Insertable(task[t].src) /\ UNCHANGED <<nodes, count, due, failed>>
            \/ /\ Insertable(task[t].src)
               /\ \E byKey \in ByKey(task[t].seen) :
                    \E id \in Fresh(Added(task[t].seen, byKey, task[t].body)) : Stores(t, byKey, id)
<1>1. task[t].pc = "apply" /\ UNCHANGED <<source, cron, deaths, edits>>
  BY DEF Apply
<1>2. CASE Insertable(task[t].src)
  <2>1. \E byKey \in ByKey(task[t].seen) :
          \E id \in Fresh(Added(task[t].seen, byKey, task[t].body)) :
            Stores(t, byKey, id) /\ Ends(t)
    BY <1>2 DEF Apply, Stores, Fresh, Updated, Update, Written, Inserted, RemovedIds, IdsOf, Ends
  <2> QED BY <1>1, <1>2, <2>1
<1>3. CASE ~Insertable(task[t].src)
  <2>1. Ends(t) /\ UNCHANGED <<nodes, count, due, failed>>
    BY <1>3 DEF Apply, Ends
  <2> QED BY <1>1, <1>3, <2>1
<1> QED BY <1>2, <1>3
-----------------------------------------------------------------------------
(* Steps that touch one part of the invariant only.                        *)
LEMMA IdsAreCounted == Cardinality(Ids) \in Nat /\ 0 \in 0..Cardinality(Ids)
<1>1. Cardinality(Ids) \in Nat
  BY FS_CardinalityType, ConstantsAssumption
<1> QED BY <1>1

LEMMA RowsStay == ASSUME RowsOK, UNCHANGED rows PROVE RowsOK'
  BY DEF RowsOK, rows, RowsAreServed, Keyed

LEMMA IdleIsTask ==
  /\ Idle \in Task /\ Knows(Idle) /\ Idle.pc = "idle"
  /\ \A step \in Steps \ {"apply"}, s \in Sources :
       [Idle EXCEPT !.pc = step, !.src = s] \in Task /\ Knows([Idle EXCEPT !.pc = step, !.src = s])
<1>1. Idle \in Task
  BY IdsAreCounted DEF Idle, Task, Steps
<1>2. Knows(Idle)
  BY DEF Knows, Idle, Keyed
<1>3. ASSUME NEW step \in Steps \ {"apply"}, NEW s \in Sources
      PROVE [Idle EXCEPT !.pc = step, !.src = s] \in Task /\ Knows([Idle EXCEPT !.pc = step, !.src = s])
  <2>1. [Idle EXCEPT !.pc = step, !.src = s] \in Task
    BY <1>1 DEF Task
  <2>2. Knows([Idle EXCEPT !.pc = step, !.src = s])
    BY <1>1, <1>2 DEF Knows, Task
  <2> QED BY <2>1, <2>2
<1> QED BY <1>1, <1>2, <1>3 DEF Idle

(* One task goes on; the cron does not.                                    *)
LEMMA OneTaskMoves ==
  ASSUME RefreshInv, NEW t \in Tasks, NEW n \in Task, Knows(n),
         task' = [task EXCEPT ![t] = n], cron' = cron,
         t \in Sources /\ n.pc # "idle" => task[t].pc # "idle"
  PROVE  TasksOK' /\ CronOK'
<1>1. task \in [Tasks -> Task] /\ \A u \in Tasks : Knows(task[u])
  BY DEF TasksOK, RefreshInv
<1>2. task' \in [Tasks -> Task] /\ \A u \in Tasks : Knows(task'[u])
  BY <1>1
<1>3. TasksOK'
  BY <1>2 DEF TasksOK, Knows, Keyed
<1>4. \A s \in Sources : task'[s].pc # "idle" => task[s].pc # "idle"
  BY <1>1 DEF Tasks
<1>5. CronOK'
  BY <1>4 DEF CronOK, CronOwns, RefreshInv
<1> QED BY <1>3, <1>5

LEMMA TasksStay == ASSUME RefreshInv, UNCHANGED <<task, cron>> PROVE TasksOK' /\ CronOK'
  BY DEF TasksOK, CronOK, CronOwns, Knows, Keyed, RefreshInv

LEMMA BoundsStay == ASSUME RefreshInv, UNCHANGED <<deaths, edits>> PROVE BoundsOK'
  BY DEF BoundsOK, RefreshInv

-----------------------------------------------------------------------------
LEMMA RefreshBegins == ASSUME Init PROVE RefreshInv
<1>1. RowsOK
  BY IdsAreCounted DEF Init, RowsOK, RowsAreServed, Keyed
<1>2. TasksOK
  BY IdleIsTask DEF Init, TasksOK
<1>3. CronOK
  BY DEF Init, CronOK, CronOwns, Idle, Tasks
<1>4. BoundsOK
  BY ConstantsAssumption DEF Init, BoundsOK
<1> QED BY <1>1, <1>2, <1>3, <1>4 DEF RefreshInv

(* How a task ends its call.                                               *)
LEMMA TaskEnds ==
  ASSUME RefreshInv, NEW t \in Tasks, task[t].pc # "idle", cron' = cron,
         Settle(t, "fulfilled") \/ Settle(t, "rejected") \/ Reject(t)
  PROVE  TasksOK' /\ CronOK'
<1>1. task[t].src \in Sources
  BY DEF TasksOK, Knows, RefreshInv
<1>2. \E n \in Task : Knows(n) /\ task' = [task EXCEPT ![t] = n]
  <2>1. CASE Settle(t, "fulfilled")
    BY <2>1, IdleIsTask DEF Settle, Steps
  <2>2. CASE Settle(t, "rejected")
    BY <2>2, IdleIsTask DEF Settle, Steps
  <2>3. CASE Reject(t)
    BY <2>3, <1>1, IdleIsTask DEF Reject, Steps
  <2> QED BY <2>1, <2>2, <2>3
<1> QED BY <1>2, OneTaskMoves

(* A task goes to a step in which it applies nothing.                      *)
LEMMA TaskGoesOn ==
  ASSUME RefreshInv, NEW t \in Tasks, task[t].pc # "idle", cron' = cron,
         NEW n \in Task, task' = [task EXCEPT ![t] = n],
         n.src = task[t].src, Keyed(n.seen), n.pc = "apply" => n.body \in Contents
  PROVE  TasksOK' /\ CronOK'
<1>1. Knows(n)
  BY DEF TasksOK, Knows, RefreshInv
<1> QED BY <1>1, OneTaskMoves
-----------------------------------------------------------------------------
(* What a refresh reads.                                                   *)
LEMMA ReadIsKeyed ==
  ASSUME RowsOK, NEW s
  PROVE  Read(RowsOf(s)) \in SUBSET Columns /\ Keyed(Read(RowsOf(s)))
<1>1. \A r \in RowsOf(s) : r \in nodes /\ ~r.manual
  BY DEF RowsOf
<1>2. \A r \in RowsOf(s) : [id |-> r.id, name |-> r.name, key |-> r.key] \in Columns
  BY <1>1 DEF RowsOK, Row, RowsAreServed, Columns
<1>3. ASSUME NEW c \in Read(RowsOf(s)), NEW d \in Read(RowsOf(s)), c.id = d.id PROVE c = d
  <2>1. PICK r \in RowsOf(s) : c = [id |-> r.id, name |-> r.name, key |-> r.key]
    BY DEF Read
  <2>2. PICK o \in RowsOf(s) : d = [id |-> o.id, name |-> o.name, key |-> o.key]
    BY DEF Read
  <2>3. r = o
    BY <2>1, <2>2, <1>1, <1>3 DEF RowsOK, Keyed
  <2> QED BY <2>1, <2>2, <2>3
<1> QED BY <1>2, <1>3 DEF Read, Keyed

LEMMA NodesAreFew ==
  ASSUME RowsOK, NEW S \in SUBSET nodes
  PROVE  IsFiniteSet(S) /\ Cardinality(S) \in 0..Cardinality(Ids)
<1>1. Keyed(S) /\ IdsOf(S) \in SUBSET Ids
  BY DEF RowsOK, Keyed, IdsOf, Row
<1>2. IsFiniteSet(IdsOf(S)) /\ Cardinality(IdsOf(S)) <= Cardinality(Ids)
  BY <1>1, ConstantsAssumption, FS_Subset
<1>3. IsFiniteSet(S) /\ Cardinality(S) = Cardinality(IdsOf(S)) /\ Cardinality(S) \in Nat
  BY <1>1, <1>2, CountedByIds
<1> QED BY <1>2, <1>3, IdsAreCounted

-----------------------------------------------------------------------------
(* One action at a time.                                                   *)
LEMMA CreateKeeps ==
  ASSUME RefreshInv, NEW q \in Requests, NEW s \in Sources, Create(q, s)
  PROVE  RefreshInv'
<1>1. RowsOK'
  BY DEF Create, RowsOK, RowsAreServed, Keyed, Row, RefreshInv
<1>2. TasksOK' /\ CronOK'
  <2>1. PICK n \in Task : n = [Idle EXCEPT !.pc = "load", !.src = s] /\ Knows(n)
    BY IdleIsTask DEF Steps
  <2>2. task' = [task EXCEPT ![q] = n] /\ cron' = cron /\ q \in Tasks /\ q \notin Sources
    BY <2>1, ConstantsAssumption DEF Create, Tasks
  <2> QED BY <2>1, <2>2, OneTaskMoves
<1> QED BY <1>1, <1>2, BoundsStay DEF Create, RefreshInv

LEMMA BeginKeeps ==
  ASSUME RefreshInv, NEW q \in Requests, NEW s \in Sources, Refresh(q, s)
  PROVE  RefreshInv'
<1>1. RowsOK'
  BY RowsStay DEF Refresh, RefreshInv
<1>2. TasksOK' /\ CronOK'
  <2>1. PICK n \in Task : n = [Idle EXCEPT !.pc = "load", !.src = s] /\ Knows(n)
    BY IdleIsTask DEF Steps
  <2>2. task' = [task EXCEPT ![q] = n] /\ cron' = cron /\ q \in Tasks /\ q \notin Sources
    BY <2>1, ConstantsAssumption DEF Refresh, Tasks
  <2> QED BY <2>1, <2>2, OneTaskMoves
<1> QED BY <1>1, <1>2, BoundsStay DEF Refresh, RefreshInv

LEMMA LoadKeeps ==
  ASSUME RefreshInv, NEW t \in Tasks, Load(t) PROVE RefreshInv'
<1>1. RowsOK'
  BY RowsStay DEF Load, RefreshInv
<1>2. task[t].pc = "load" /\ cron' = cron /\ task[t] \in Task /\ Knows(task[t])
  BY DEF Load, TasksOK, RefreshInv
<1>3. CASE Settle(t, "rejected")
  <2> QED BY <1>1, <1>2, <1>3, TaskEnds, BoundsStay DEF Load, RefreshInv
<1>4. CASE GoTo(t, "fetch")
  <2>1. [task[t] EXCEPT !.pc = "fetch"] \in Task
    BY <1>2 DEF Task, Steps
  <2>2. PICK n \in Task : n = [task[t] EXCEPT !.pc = "fetch"]
    BY <2>1
  <2>3. task' = [task EXCEPT ![t] = n] /\ n.src = task[t].src /\ Keyed(n.seen) /\ n.pc # "apply"
    BY <2>2, <1>2, <1>4 DEF GoTo, Knows, Task
  <2>4. TasksOK' /\ CronOK'
    BY <2>3, <1>2, TaskGoesOn
  <2> QED BY <1>1, <2>4, BoundsStay DEF Load, RefreshInv
<1> QED BY <1>3, <1>4 DEF Load

LEMMA FetchKeeps ==
  ASSUME RefreshInv, NEW t \in Tasks, Fetch(t) PROVE RefreshInv'
<1>1. RowsOK'
  BY RowsStay DEF Fetch, RefreshInv
<1>2. task[t].pc = "fetch" /\ cron' = cron /\ task[t] \in Task /\ Knows(task[t])
  BY DEF Fetch, TasksOK, RefreshInv
<1>3. CASE Reject(t)
  <2> QED BY <1>1, <1>2, <1>3, TaskEnds, BoundsStay DEF Fetch, RefreshInv
<1>4. ASSUME NEW c \in Contents, task' = [task EXCEPT ![t].pc = "diff", ![t].body = c]
      PROVE RefreshInv'
  <2>1. [task[t] EXCEPT !.pc = "diff", !.body = c] \in Task
    BY <1>2 DEF Task, Steps
  <2>2. PICK n \in Task : n = [task[t] EXCEPT !.pc = "diff", !.body = c]
    BY <2>1
  <2>3. task' = [task EXCEPT ![t] = n]
    BY <2>2, <1>4 DEF TasksOK, RefreshInv
  <2>4. n.src = task[t].src /\ Keyed(n.seen) /\ n.pc # "apply"
    BY <2>2, <1>2 DEF Knows, Task
  <2>5. TasksOK' /\ CronOK'
    BY <2>3, <2>4, <1>2, TaskGoesOn
  <2> QED BY <1>1, <2>5, BoundsStay DEF Fetch, RefreshInv
<1> QED BY <1>3, <1>4 DEF Fetch

LEMMA ReadKeeps ==
  ASSUME RefreshInv, NEW t \in Tasks, ReadNodes(t) PROVE RefreshInv'
<1>1. RowsOK /\ RowsOK'
  BY RowsStay DEF ReadNodes, RefreshInv
<1>2. task[t].pc = "diff" /\ cron' = cron /\ task[t] \in Task /\ Knows(task[t])
  BY DEF ReadNodes, TasksOK, RefreshInv
<1>3. CASE task[t].body = <<>>
  <2>1. Reject(t)
    BY <1>3 DEF ReadNodes
  <2> QED BY <1>1, <1>2, <2>1, TaskEnds, BoundsStay DEF ReadNodes, RefreshInv
<1>4. CASE task[t].body # <<>>
  <2>1. PICK S \in SUBSET Columns : S = Read(RowsOf(task[t].src)) /\ Keyed(S)
    BY <1>1, ReadIsKeyed
  <2>2. [task[t] EXCEPT !.pc = "apply", !.seen = S] \in Task
    BY <1>2 DEF Task, Steps
  <2>3. PICK n \in Task : n = [task[t] EXCEPT !.pc = "apply", !.seen = S]
    BY <2>2
  <2>4. task' = [task EXCEPT ![t].pc = "apply", ![t].seen = S]
    BY <2>1, <1>4 DEF ReadNodes
  <2>5. task' = [task EXCEPT ![t] = n]
    BY <2>3, <2>4 DEF TasksOK, RefreshInv
  <2>6. n.src = task[t].src /\ n.seen = S /\ n.body \in Contents
    BY <2>3, <1>2, <1>4 DEF Task
  <2>7. TasksOK' /\ CronOK'
    BY <2>1, <2>5, <2>6, <1>2, TaskGoesOn
  <2> QED BY <1>1, <2>7, BoundsStay DEF ReadNodes, RefreshInv
<1> QED BY <1>3, <1>4
-----------------------------------------------------------------------------
(* The batch of a refresh.                                                 *)
LEMMA UpdateKeeps ==
  ASSUME NEW seen, NEW byKey, NEW body \in Seq(Parsed), NEW r \in Row
  PROVE  LET u == Update(seen, byKey, body, r) IN
         /\ u \in Row /\ u.id = r.id /\ u.src = r.src /\ u.enabled = r.enabled /\ u.manual = r.manual
         /\ u = r \/ (u.name \in Names /\ u.key \in Keys)
<1>1. CASE \E o \in Written(seen, byKey, body) : o.id = r.id
  <2> DEFINE o == CHOOSE o \in Written(seen, byKey, body) : o.id = r.id
             i == LastWriter(seen, byKey, body, o)
  <2>1. o \in Written(seen, byKey, body)
    BY <1>1
  <2>2. i \in Writers(seen, byKey, body, o)
    BY <2>1, LastWriterWrites DEF Written
  <2>3. i \in DOMAIN body
    BY <2>2 DEF Writers, Firsts
  <2>4. body[i] \in Parsed
    BY <2>3, PlacesAreNumbers
  <2>5. Update(seen, byKey, body, r) = WriteNode(r, body[i])
    BY <1>1 DEF Update
  <2> HIDE DEF i
  <2> QED BY <2>4, <2>5 DEF WriteNode, Row, Parsed
<1>2. CASE ~\E o \in Written(seen, byKey, body) : o.id = r.id
  BY <1>2 DEF Update
<1> QED BY <1>1, <1>2

LEMMA FreshIsFree ==
  ASSUME NEW added \in SUBSET Nat, NEW id \in Fresh(added)
  PROVE  /\ id \in [added -> FreeIds]
         /\ \A i \in added : id[i] \in Ids /\ id[i] \notin IdsOf(nodes)
         /\ \A i, j \in added : id[i] = id[j] => i = j
<1>1. id \in [added -> FreeIds] /\ \A i, j \in added : i < j => id[i] < id[j]
  BY DEF Fresh
<1>2. \A n \in FreeIds : n \in Ids /\ n \notin IdsOf(nodes) /\ n \in Nat
  BY ConstantsAssumption DEF FreeIds, IdsOf
<1>3. ASSUME NEW i \in added, NEW j \in added, id[i] = id[j] PROVE i = j
  <2>1. i \in Nat /\ j \in Nat /\ id[i] \in Nat /\ id[j] \in Nat
    BY <1>1, <1>2
  <2>2. ~(i < j) /\ ~(j < i)
    BY <1>1, <1>3, <2>1
  <2> QED BY <2>1, <2>2
<1> QED BY <1>1, <1>2, <1>3

(* A refresh that applies: what it has read and what it got.               *)
LEMMA Applying ==
  ASSUME RefreshInv, NEW t \in Tasks, task[t].pc = "apply"
  PROVE  /\ task[t].src \in Sources /\ task[t].body \in Seq(Parsed)
         /\ task[t].seen \in SUBSET Columns /\ Keyed(task[t].seen)
<1>1. task[t] \in Task /\ Knows(task[t])
  BY DEF RefreshInv, TasksOK
<1> QED BY <1>1, ContentsAssumption DEF Knows, Task, Parsed

LEMMA AddedAreFirsts ==
  ASSUME NEW seen, NEW byKey, NEW body \in Seq(Parsed)
  PROVE  /\ Added(seen, byKey, body) \subseteq Firsts(body)
         /\ Added(seen, byKey, body) \in SUBSET Nat
         /\ IsFiniteSet(Added(seen, byKey, body))
         /\ \A i \in Added(seen, byKey, body) : body[i].name \in Names /\ body[i].key \in Keys
<1>1. Added(seen, byKey, body) \in SUBSET Firsts(body)
  BY DEF Added
<1>2. IsFiniteSet(Added(seen, byKey, body))
  BY <1>1, PlacesAreNumbers, FS_Subset
<1>3. \A i \in Firsts(body) : i \in Nat /\ body[i] \in Parsed
  BY PlacesAreNumbers
<1> QED BY <1>1, <1>2, <1>3 DEF Parsed

(* The rows after the batch: a row of before, or one with a new id.        *)
LEMMA RowsAfter ==
  ASSUME RefreshInv, NEW t \in Tasks, task[t].pc = "apply", NEW byKey,
         NEW id \in Fresh(Added(task[t].seen, byKey, task[t].body)), Stores(t, byKey, id),
         NEW x \in nodes'
  PROVE  \/ \E r \in nodes : /\ r.id \notin RemovedIds(task[t].seen, byKey, task[t].body)
                            /\ x = Update(task[t].seen, byKey, task[t].body, r)
         \/ \E i \in Added(task[t].seen, byKey, task[t].body) :
              x = [id |-> id[i], src |-> task[t].src, name |-> task[t].body[i].name,
                   key |-> task[t].body[i].key, enabled |-> TRUE, manual |-> FALSE]
  BY DEF Stores, Updated, Inserted

LEMMA BatchKeepsIds ==
  ASSUME RefreshInv, NEW t \in Tasks, task[t].pc = "apply", NEW byKey,
         NEW id \in Fresh(Added(task[t].seen, byKey, task[t].body)), Stores(t, byKey, id)
  PROVE  Keyed(nodes)'
<1> DEFINE seen == task[t].seen
           body == task[t].body
           added == Added(seen, byKey, body)
           New(i) == [id |-> id[i], src |-> task[t].src, name |-> body[i].name,
                      key |-> body[i].key, enabled |-> TRUE, manual |-> FALSE]
<1>1. body \in Seq(Parsed) /\ added \in SUBSET Nat
  BY Applying, AddedAreFirsts
<1>2. \A r \in nodes : Update(seen, byKey, body, r).id = r.id
  BY <1>1, UpdateKeeps DEF RefreshInv, RowsOK
<1>3. /\ \A i \in added : id[i] \notin IdsOf(nodes)
      /\ \A i, j \in added : id[i] = id[j] => i = j
  BY <1>1, FreshIsFree
<1>4. \A x \in nodes' : \/ \E r \in nodes : x = Update(seen, byKey, body, r)
                        \/ \E i \in added : x = New(i)
  BY RowsAfter
<1> HIDE DEF added
<1>5. SUFFICES ASSUME NEW x \in nodes', NEW y \in nodes', x.id = y.id PROVE x = y
  BY DEF Keyed
<1>6. CASE \E r \in nodes : x = Update(seen, byKey, body, r)
  <2>1. PICK r \in nodes : x = Update(seen, byKey, body, r)
    BY <1>6
  <2>2. CASE \E o \in nodes : y = Update(seen, byKey, body, o)
    <3>1. PICK o \in nodes : y = Update(seen, byKey, body, o)
      BY <2>2
    <3>2. r = o
      BY <2>1, <3>1, <1>2, <1>5 DEF RefreshInv, RowsOK, Keyed
    <3> QED BY <2>1, <3>1, <3>2
  <2>3. CASE \E i \in added : y = New(i)
    <3>1. PICK i \in added : y = New(i)
      BY <2>3
    <3> QED BY <2>1, <3>1, <1>2, <1>3, <1>5 DEF IdsOf
  <2> QED BY <2>2, <2>3, <1>4
<1>7. CASE \E i \in added : x = New(i)
  <2>1. PICK i \in added : x = New(i)
    BY <1>7
  <2>2. CASE \E o \in nodes : y = Update(seen, byKey, body, o)
    <3>1. PICK o \in nodes : y = Update(seen, byKey, body, o)
      BY <2>2
    <3> QED BY <2>1, <3>1, <1>2, <1>3, <1>5 DEF IdsOf
  <2>3. CASE \E j \in added : y = New(j)
    <3>1. PICK j \in added : y = New(j)
      BY <2>3
    <3>2. i = j
      BY <2>1, <3>1, <1>3, <1>5
    <3> QED BY <2>1, <3>1, <3>2
  <2> QED BY <2>2, <2>3, <1>4
<1> QED BY <1>4, <1>6, <1>7

(* The count that a refresh stores is that of a set of ids.                *)
LEMMA CountIsOfIds ==
  ASSUME RefreshInv, NEW t \in Tasks, task[t].pc = "apply", NEW byKey,
         NEW id \in Fresh(Added(task[t].seen, byKey, task[t].body))
  PROVE  LET seen == task[t].seen
             body == task[t].body
             ids == IdsOf(seen \ Removed(seen, byKey, body)) \cup {id[i] : i \in Added(seen, byKey, body)}
         IN  /\ ids \in SUBSET Ids /\ IsFiniteSet(ids)
             /\ NodeCount(seen, byKey, body) = Cardinality(ids)
<1> DEFINE seen == task[t].seen
           body == task[t].body
           gone == Removed(seen, byKey, body)
           added == Added(seen, byKey, body)
           kept == IdsOf(seen \ gone)
           new == {id[i] : i \in added}
<1>1. /\ body \in Seq(Parsed) /\ seen \in SUBSET Columns /\ Keyed(seen)
      /\ added \in SUBSET Nat /\ IsFiniteSet(added)
  BY Applying, AddedAreFirsts
<1>2. gone \subseteq seen
  BY DEF Removed
<1>3. /\ id \in [added -> FreeIds] /\ \A i \in added : id[i] \in Ids
      /\ \A i, j \in added : id[i] = id[j] => i = j
  BY <1>1, FreshIsFree
<1>4. FreeIds \cap IdsOf(seen) = {}
  BY DEF FreeIds, IdsOf
<1> HIDE DEF gone, added, seen, body
<1>5. IdsOf(seen) \in SUBSET Ids /\ kept \in SUBSET Ids /\ IdsOf(gone) \in SUBSET Ids /\ new \in SUBSET Ids
  BY <1>1, <1>2, <1>3 DEF IdsOf, Columns
<1>6. IsFiniteSet(IdsOf(seen)) /\ IsFiniteSet(kept) /\ IsFiniteSet(IdsOf(gone)) /\ IsFiniteSet(new)
  BY <1>5, ConstantsAssumption, FS_Subset
<1>7. Keyed(seen \ gone) /\ Keyed(gone)
  BY <1>1, <1>2 DEF Keyed
<1>8. /\ IsFiniteSet(seen) /\ IsFiniteSet(gone) /\ Cardinality(seen) \in Nat /\ Cardinality(gone) \in Nat
      /\ IsFiniteSet(seen \ gone) /\ Cardinality(seen \ gone) = Cardinality(kept)
      /\ Cardinality(kept) \in Nat
  BY <1>1, <1>6, <1>7, CountedByIds
<1>9. Cardinality(seen) = Cardinality(seen \ gone) + Cardinality(gone)
  <2>1. Cardinality((seen \ gone) \cup gone)
          = Cardinality(seen \ gone) + Cardinality(gone) - Cardinality((seen \ gone) \cap gone)
    BY <1>8, FS_Union
  <2>2. (seen \ gone) \cup gone = seen /\ (seen \ gone) \cap gone = {}
    BY <1>2
  <2>3. Cardinality((seen \ gone) \cap gone) = 0
    BY <2>2, FS_EmptySet
  <2>4. Cardinality(seen) = Cardinality(seen \ gone) + Cardinality(gone) - 0
    BY <2>1, <2>2, <2>3
  <2> QED BY <2>4, <1>8
<1>10. Cardinality(new) = Cardinality(added) /\ Cardinality(new) \in Nat
  <2>1. Cardinality(new) = Cardinality(added)
    <3>1. IsFiniteSet(added) /\ id \in [added -> FreeIds] /\ \A i, j \in added : id[i] = id[j] => i = j
      BY <1>1, <1>3
    <3> QED BY ONLY <3>1, GivenOut
  <2> QED BY <2>1, <1>6, FS_CardinalityType
<1>11. Cardinality(kept \cup new) = Cardinality(kept) + Cardinality(new) /\ IsFiniteSet(kept \cup new)
  <2>1. kept \cap new = {}
    BY <1>2, <1>3, <1>4 DEF IdsOf
  <2>2. /\ Cardinality(kept \cup new) = Cardinality(kept) + Cardinality(new) - Cardinality(kept \cap new)
        /\ IsFiniteSet(kept \cup new)
    BY <1>6, FS_Union
  <2>3. Cardinality(kept \cap new) = 0
    BY <2>1, FS_EmptySet
  <2>4. Cardinality(kept \cup new) = Cardinality(kept) + Cardinality(new) - 0
    BY <2>2, <2>3
  <2> QED BY <2>2, <2>4, <1>8, <1>10
<1>12. NodeCount(seen, byKey, body) = Cardinality(seen) - Cardinality(gone) + Cardinality(added)
  BY DEF NodeCount, gone, added
<1>13. NodeCount(seen, byKey, body) = Cardinality(kept \cup new)
  BY <1>8, <1>9, <1>10, <1>11, <1>12
<1> QED BY <1>5, <1>11, <1>13 DEF seen, body, gone, added
LEMMA BatchKeepsRows ==
  ASSUME RefreshInv, NEW t \in Tasks, task[t].pc = "apply", NEW byKey,
         Insertable(task[t].src), source' = source,
         NEW id \in Fresh(Added(task[t].seen, byKey, task[t].body)), Stores(t, byKey, id)
  PROVE  RowsOK'
<1> DEFINE s == task[t].src
           seen == task[t].seen
           body == task[t].body
           added == Added(seen, byKey, body)
<1>1. /\ s \in Sources /\ source[s] = "live" /\ body \in Seq(Parsed) /\ added \in SUBSET Nat
      /\ \A i \in added : body[i].name \in Names /\ body[i].key \in Keys
  BY Applying, AddedAreFirsts DEF Insertable
<1>2. \A i \in added : id[i] \in Ids
  BY <1>1, FreshIsFree
<1>3. ASSUME NEW x \in nodes'
      PROVE x \in Row /\ source[x.src] = "live" /\ (~x.manual => x.name \in Names /\ x.key \in Keys)
  <2>1. CASE \E r \in nodes : x = Update(seen, byKey, body, r)
    <3>1. PICK r \in nodes : x = Update(seen, byKey, body, r)
      BY <2>1
    <3>2. r \in Row /\ source[r.src] = "live" /\ (~r.manual => r.name \in Names /\ r.key \in Keys)
      BY DEF RefreshInv, RowsOK, RowsAreServed
    <3>3. /\ x \in Row /\ x.src = r.src /\ x.manual = r.manual
          /\ x = r \/ (x.name \in Names /\ x.key \in Keys)
      BY <3>1, <3>2, <1>1, UpdateKeeps
    <3> QED BY <3>2, <3>3
  <2>2. CASE \E i \in added :
               x = [id |-> id[i], src |-> s, name |-> body[i].name, key |-> body[i].key,
                    enabled |-> TRUE, manual |-> FALSE]
    BY <2>2, <1>1, <1>2 DEF Row
  <2> QED BY <2>1, <2>2, RowsAfter
<1>4. NodeCount(seen, byKey, body) \in 0..Cardinality(Ids)
  <2>1. PICK ids \in SUBSET Ids : IsFiniteSet(ids) /\ NodeCount(seen, byKey, body) = Cardinality(ids)
    BY CountIsOfIds
  <2>2. Cardinality(ids) \in Nat /\ Cardinality(ids) <= Cardinality(Ids)
    BY <2>1, FS_Subset, FS_CardinalityType, ConstantsAssumption
  <2> QED BY <2>1, <2>2, IdsAreCounted
<1>5. /\ count' \in [Sources -> 0..Cardinality(Ids)]
      /\ due' \in [Sources -> BOOLEAN] /\ failed' \in [Sources -> BOOLEAN]
  <2> DEFINE n == NodeCount(seen, byKey, body)
  <2>1. /\ count' = [count EXCEPT ![s] = n]
        /\ due' = [due EXCEPT ![s] = FALSE] /\ failed' = [failed EXCEPT ![s] = FALSE]
    BY DEF Stores
  <2> HIDE DEF n, s
  <2> QED BY <2>1, <1>4 DEF RefreshInv, RowsOK, n
<1>6. Keyed(nodes')
  BY BatchKeepsIds DEF Keyed
<1>7. nodes' \subseteq Row /\ (\A r \in nodes' : source[r.src] = "live") /\ RowsAreServed'
  BY <1>3 DEF RowsAreServed
<1>8. source' \in [Sources -> {"absent", "live", "gone"}]
  BY DEF RefreshInv, RowsOK
<1> QED BY <1>5, <1>6, <1>7, <1>8 DEF RowsOK, Keyed

LEMMA ApplyKeeps ==
  ASSUME RefreshInv, NEW t \in Tasks, Apply(t) PROVE RefreshInv'
<1>1. task[t].pc = "apply" /\ Ends(t) /\ UNCHANGED <<source, cron, deaths, edits>>
  BY ApplyWrites
<1>2. TasksOK' /\ CronOK'
  <2>1. task[t].pc # "idle" /\ cron' = cron
    BY <1>1
  <2> QED BY <1>1, <2>1, TaskEnds DEF Ends
<1>3. RowsOK'
  <2>1. CASE UNCHANGED <<nodes, count, due, failed>>
    BY <1>1, <2>1, RowsStay DEF RefreshInv, rows
  <2>2. CASE /\ Insertable(task[t].src)
             /\ \E byKey \in ByKey(task[t].seen) :
                  \E id \in Fresh(Added(task[t].seen, byKey, task[t].body)) : Stores(t, byKey, id)
    BY <1>1, <2>2, BatchKeepsRows
  <2> QED BY <2>1, <2>2, ApplyWrites
<1> QED BY <1>1, <1>2, <1>3, BoundsStay DEF RefreshInv

LEMMA RecordKeeps ==
  ASSUME RefreshInv, NEW q \in Requests, RecordError(q) PROVE RefreshInv'
<1>1. q \in Tasks /\ task[q].pc = "error" /\ task[q].src \in Sources
  BY DEF RecordError, Tasks, RefreshInv, TasksOK, Knows
<1>2. RowsOK'
  BY <1>1 DEF RecordError, RefreshInv, RowsOK, RowsAreServed, Keyed
<1>3. TasksOK' /\ CronOK'
  BY <1>1, IdleIsTask, OneTaskMoves DEF RecordError
<1> QED BY <1>2, <1>3, BoundsStay DEF RecordError, RefreshInv

LEMMA CountKeeps ==
  ASSUME RefreshInv, NEW q \in Requests, CountNodes(q) PROVE RefreshInv'
<1>1. q \in Tasks /\ task[q].pc = "tally" /\ task[q] \in Task /\ Knows(task[q]) /\ cron' = cron
  BY DEF CountNodes, Tasks, RefreshInv, TasksOK
<1>2. RowsOK /\ RowsOK'
  BY RowsStay DEF CountNodes, RefreshInv
<1>3. PICK k \in 0..Cardinality(Ids) : k = Cardinality({r \in nodes : r.src = task[q].src})
  BY <1>2, NodesAreFew
<1>4. [task[q] EXCEPT !.pc = "count", !.total = k] \in Task
  BY <1>1 DEF Task, Steps
<1>5. PICK n \in Task : n = [task[q] EXCEPT !.pc = "count", !.total = k]
  BY <1>4
<1>6. task' = [task EXCEPT ![q].pc = "count", ![q].total = k]
  BY <1>3 DEF CountNodes
<1>7. task' = [task EXCEPT ![q] = n] /\ n.src = task[q].src /\ Keyed(n.seen) /\ n.pc # "apply"
  BY <1>1, <1>5, <1>6 DEF Knows, Task, RefreshInv, TasksOK
<1>8. TasksOK' /\ CronOK'
  BY <1>1, <1>7, TaskGoesOn
<1> QED BY <1>2, <1>8, BoundsStay DEF CountNodes, RefreshInv

LEMMA StoreKeeps ==
  ASSUME RefreshInv, NEW q \in Requests, StoreCount(q) PROVE RefreshInv'
<1>1. q \in Tasks /\ task[q].pc = "count" /\ task[q] \in Task /\ task[q].src \in Sources
  BY DEF StoreCount, Tasks, RefreshInv, TasksOK, Knows
<1>2. task[q].total \in 0..Cardinality(Ids)
  BY <1>1 DEF Task
<1>3. RowsOK'
  BY <1>1, <1>2 DEF StoreCount, RefreshInv, RowsOK, RowsAreServed, Keyed
<1>4. TasksOK' /\ CronOK'
  BY <1>1, IdleIsTask, OneTaskMoves DEF StoreCount
<1> QED BY <1>3, <1>4, BoundsStay DEF StoreCount, RefreshInv

-----------------------------------------------------------------------------
(* Nodes added, removed and switched; sources deleted and due.             *)
LEMMA TallyKeeps ==
  ASSUME RefreshInv, NEW q \in Requests, NEW s \in Sources, task[q].pc = "idle", Tally(q, s), cron' = cron
  PROVE  TasksOK' /\ CronOK'
<1>1. PICK n \in Task : n = [Idle EXCEPT !.pc = "tally", !.src = s] /\ Knows(n)
  BY IdleIsTask DEF Steps
<1>2. task' = [task EXCEPT ![q] = n] /\ q \in Tasks /\ q \notin Sources
  BY <1>1, ConstantsAssumption DEF Tally, Tasks
<1> QED BY <1>1, <1>2, OneTaskMoves

LEMMA EditKeeps == ASSUME RefreshInv, Edit, deaths' = deaths PROVE BoundsOK'
  BY ConstantsAssumption DEF RefreshInv, BoundsOK, Edit

LEMMA AddKeeps ==
  ASSUME RefreshInv, NEW q \in Requests, NEW s \in Sources, AddNode(q, s) PROVE RefreshInv'
<1>1. PICK new : /\ \E id \in FreeIds :
                      new = [id |-> id, src |-> s, name |-> Nobody, key |-> Nobody,
                             enabled |-> TRUE, manual |-> TRUE]
                 /\ nodes' = nodes \cup {new}
  BY DEF AddNode
<1>2. \A id \in FreeIds : id \in Ids /\ \A r \in nodes : r.id # id
  BY DEF FreeIds
<1>3. new \in Row /\ new.src = s /\ new.manual /\ \A r \in nodes : r.id # new.id
  BY <1>1, <1>2 DEF Row
<1>4. nodes' \subseteq Row /\ Keyed(nodes')
  BY <1>1, <1>3 DEF RefreshInv, RowsOK, Keyed
<1>5. RowsAreServed' /\ \A r \in nodes' : source[r.src] = "live"
  BY <1>1, <1>3 DEF RefreshInv, RowsOK, RowsAreServed, AddNode
<1>6. RowsOK'
  BY <1>4, <1>5 DEF RefreshInv, RowsOK, AddNode, Keyed
<1>7. TasksOK' /\ CronOK'
  BY TallyKeeps DEF AddNode
<1> QED BY <1>6, <1>7, EditKeeps DEF AddNode, RefreshInv

LEMMA RemoveKeeps ==
  ASSUME RefreshInv, NEW q \in Requests, NEW r \in nodes, RemoveNode(q, r) PROVE RefreshInv'
<1>1. RowsOK'
  BY DEF RemoveNode, RefreshInv, RowsOK, RowsAreServed, Keyed
<1>2. r.src \in Sources
  BY DEF RefreshInv, RowsOK, Row
<1>3. TasksOK' /\ CronOK'
  BY <1>2, TallyKeeps DEF RemoveNode
<1> QED BY <1>1, <1>3, BoundsStay DEF RemoveNode, RefreshInv

LEMMA SwitchKeeps ==
  ASSUME RefreshInv, NEW r \in nodes, SwitchNode(r) PROVE RefreshInv'
<1>1. PICK o : o = [r EXCEPT !.enabled = ~@]
  OBVIOUS
<1>2. nodes' = (nodes \ {r}) \cup {o}
  BY <1>1 DEF SwitchNode
<1>3. /\ o \in Row /\ o.id = r.id /\ o.src = r.src /\ o.manual = r.manual
      /\ o.name = r.name /\ o.key = r.key
  BY <1>1 DEF RefreshInv, RowsOK, Row
<1>4. RowsOK'
  BY <1>2, <1>3 DEF SwitchNode, RefreshInv, RowsOK, RowsAreServed, Keyed
<1> QED BY <1>4, TasksStay, EditKeeps DEF SwitchNode, RefreshInv

LEMMA DeleteKeeps ==
  ASSUME RefreshInv, NEW s \in Sources, DeleteSource(s) PROVE RefreshInv'
<1>1. RowsOK'
  BY DEF DeleteSource, RefreshInv, RowsOK, RowsAreServed, Keyed, Row
<1> QED BY <1>1, TasksStay, BoundsStay DEF DeleteSource, RefreshInv

LEMMA ExpireKeeps ==
  ASSUME RefreshInv, NEW s \in Sources, Expire(s) PROVE RefreshInv'
<1>1. RowsOK'
  BY DEF Expire, RefreshInv, RowsOK, RowsAreServed, Keyed
<1> QED BY <1>1, TasksStay, BoundsStay DEF Expire, RefreshInv

-----------------------------------------------------------------------------
(* The cron, and invocations that are cut off.                             *)
LEMMA DiesKeeps ==
  ASSUME RefreshInv, NEW q \in Requests, RequestDies(q) PROVE RefreshInv'
<1>1. RowsOK'
  BY RowsStay DEF RequestDies, RefreshInv
<1>2. TasksOK' /\ CronOK'
  BY IdleIsTask, OneTaskMoves DEF RequestDies, Tasks
<1>3. BoundsOK'
  BY ConstantsAssumption DEF RequestDies, RefreshInv, BoundsOK
<1> QED BY <1>1, <1>2, <1>3 DEF RefreshInv

LEMMA TickKeeps == ASSUME RefreshInv, Tick PROVE RefreshInv'
<1>1. RowsOK'
  BY RowsStay DEF Tick, RefreshInv
<1>2. TasksOK' /\ CronOK'
  BY DEF Tick, RefreshInv, TasksOK, CronOK, CronOwns, Knows, Keyed, Due
<1> QED BY <1>1, <1>2, BoundsStay DEF Tick, RefreshInv

(* Every task but those of some sources stays as it was.                   *)
LEMMA CronMoves ==
  ASSUME RefreshInv, NEW S \in SUBSET Sources, NEW f \in [S -> Task], \A s \in S : Knows(f[s]),
         task' = [t \in Tasks |-> IF t \in S THEN f[t] ELSE task[t]]
  PROVE  TasksOK'
<1>1. task' \in [Tasks -> Task] /\ \A u \in Tasks : Knows(task'[u])
  BY DEF RefreshInv, TasksOK
<1> QED BY <1>1 DEF TasksOK, Knows, Keyed

LEMMA StartKeeps == ASSUME RefreshInv, StartBatch PROVE RefreshInv'
<1>1. PICK batch : /\ batch = {s \in cron.todo : Cardinality({r \in cron.todo : r < s}) < Concurrency}
                   /\ cron.batch = {} /\ cron' = [todo |-> cron.todo \ batch, batch |-> batch]
                   /\ task' = [t \in Tasks |->
                                 IF t \in batch THEN [Idle EXCEPT !.pc = "load", !.src = t] ELSE task[t]]
  BY DEF StartBatch
<1>2. batch \in SUBSET Sources /\ cron'.batch = batch /\ cron' \in [todo : SUBSET Sources, batch : SUBSET Sources]
  BY <1>1 DEF RefreshInv, CronOK
<1>3. PICK f : f = [t \in batch |-> [Idle EXCEPT !.pc = "load", !.src = t]]
  OBVIOUS
<1>4. f \in [batch -> Task] /\ \A s \in batch : Knows(f[s])
  BY <1>2, <1>3, IdleIsTask DEF Steps
<1>5. task' = [t \in Tasks |-> IF t \in batch THEN f[t] ELSE task[t]]
  BY <1>1, <1>3
<1>6. TasksOK'
  BY <1>2, <1>4, <1>5, CronMoves
<1>7. \A s \in Sources : task'[s].pc # "idle" => s \in batch
  BY <1>1, <1>5 DEF RefreshInv, CronOK, CronOwns, Tasks
<1>8. CronOK'
  BY <1>2, <1>7 DEF CronOK, CronOwns
<1>9. RowsOK'
  BY RowsStay DEF StartBatch, RefreshInv
<1> QED BY <1>6, <1>8, <1>9, BoundsStay DEF StartBatch, RefreshInv

LEMMA ResultKeeps ==
  ASSUME RefreshInv, NEW s \in Sources, TakeResult(s) PROVE RefreshInv'
<1>1. RowsOK'
  BY DEF TakeResult, RefreshInv, RowsOK, RowsAreServed, Keyed
<1>2. task' = [task EXCEPT ![s] = Idle] /\ cron' = [cron EXCEPT !.batch = @ \ {s}]
  BY DEF TakeResult, AfterResult
<1>3. task' \in [Tasks -> Task] /\ \A u \in Tasks : Knows(task'[u])
  BY <1>2, IdleIsTask DEF RefreshInv, TasksOK
<1>4. TasksOK'
  BY <1>3 DEF TasksOK, Knows, Keyed
<1>5. CronOK'
  BY <1>2, IdleIsTask DEF RefreshInv, TasksOK, CronOK, CronOwns, Tasks
<1> QED BY <1>1, <1>4, <1>5, BoundsStay DEF TakeResult, RefreshInv

LEMMA CronDiesKeeps == ASSUME RefreshInv, CronDies PROVE RefreshInv'
<1>1. task' = [t \in Tasks |-> IF t \in Sources THEN Idle ELSE task[t]]
  BY DEF CronDies
<1>2. TasksOK'
  <2>1. PICK f : f = [t \in Sources |-> Idle]
    OBVIOUS
  <2>2. /\ f \in [Sources -> Task] /\ \A s \in Sources : Knows(f[s])
        /\ task' = [t \in Tasks |-> IF t \in Sources THEN f[t] ELSE task[t]]
    BY <1>1, <2>1, IdleIsTask
  <2> QED BY <2>2, CronMoves
<1>3. CronOK'
  BY <1>1, IdleIsTask DEF CronDies, CronOK, CronOwns, Tasks
<1>4. RowsOK'
  BY RowsStay DEF CronDies, RefreshInv
<1>5. BoundsOK'
  BY ConstantsAssumption DEF CronDies, RefreshInv, BoundsOK
<1> QED BY <1>2, <1>3, <1>4, <1>5 DEF RefreshInv

LEMMA RefreshKeeps == ASSUME RefreshInv, [Next]_vars PROVE RefreshInv'
<1>1. CASE UNCHANGED vars
  BY <1>1, RowsStay, TasksStay, BoundsStay DEF vars, rows, RefreshInv
<1>2. ASSUME NEW t \in Tasks, Step(t) PROVE RefreshInv'
  BY <1>2, LoadKeeps, FetchKeeps, ReadKeeps, ApplyKeeps DEF Step
<1>3. ASSUME NEW q \in Requests,
             \/ \E s \in Sources : Create(q, s) \/ Refresh(q, s) \/ AddNode(q, s)
             \/ \E r \in nodes : RemoveNode(q, r)
             \/ Answer(q) \/ RequestDies(q)
      PROVE RefreshInv'
  <2>1. q \in Tasks
    BY DEF Tasks
  <2> QED BY <1>2, <1>3, <2>1, CreateKeeps, BeginKeeps, AddKeeps, RemoveKeeps, RecordKeeps, CountKeeps,
             StoreKeeps, DiesKeeps DEF Answer
<1>4. ASSUME NEW s \in Sources, Step(s) \/ DeleteSource(s) \/ Expire(s) PROVE RefreshInv'
  <2>1. s \in Tasks
    BY DEF Tasks
  <2> QED BY <1>2, <1>4, <2>1, DeleteKeeps, ExpireKeeps
<1>5. CASE (\E r \in nodes : SwitchNode(r)) \/ Cron \/ CronDies
  BY <1>5, SwitchKeeps, TickKeeps, StartKeeps, ResultKeeps, CronDiesKeeps DEF Cron
<1> QED BY <1>1, <1>3, <1>4, <1>5 DEF Next

LEMMA RefreshStaysWell == Spec => []RefreshInv
  BY RefreshBegins, RefreshKeeps, PTL DEF Spec

(* The tables keep their types and keys however refreshes, edits and       *)
(* deletions overlap and are cut off: the id of a node is its own, a node  *)
(* has a source that is there, and no count exceeds the ids there are.     *)
THEOREM TypeCorrect == Spec => []TypeOK
<1>1. RefreshInv => TypeOK
  BY DEF RefreshInv, TypeOK, RowsOK, TasksOK, CronOK, BoundsOK, Task, Steps, Keyed
<1> QED BY <1>1, RefreshStaysWell, PTL

-----------------------------------------------------------------------------
(* A refresh that was alone.  Only the batch of a task takes it out of its *)
(* last step, unless it is cut off.                                        *)
LEMMA LoneApplies ==
  ASSUME RefreshInv, [Next]_vars, NEW t \in Tasks, NEW s \in Sources, Alone(t, s)
  PROVE  Apply(t)
<1>1. task[t].pc = "apply" /\ task'[t].pc # "apply" /\ deaths' = deaths
  BY DEF Alone, Applies
<1>2. task \in [Tasks -> Task] /\ task'[t] # task[t] /\ deaths \in Nat
  BY <1>1, ConstantsAssumption DEF RefreshInv, TasksOK, BoundsOK
<1>3. ASSUME NEW u \in Tasks, u # t, Step(u) PROVE FALSE
  BY <1>2, <1>3 DEF Step, Load, Fetch, ReadNodes, Apply, GoTo, Settle, Reject
<1>4. ASSUME Load(t) \/ Fetch(t) \/ ReadNodes(t) PROVE FALSE
  BY <1>1, <1>4 DEF Load, Fetch, ReadNodes
<1>5. ASSUME NEW q \in Requests,
             \/ \E z \in Sources : Create(q, z) \/ Refresh(q, z) \/ AddNode(q, z)
             \/ \E r \in nodes : RemoveNode(q, r)
             \/ RecordError(q) \/ CountNodes(q) \/ StoreCount(q) \/ RequestDies(q)
      PROVE FALSE
  <2>1. CASE q = t
    <3>1. task[q].pc = "apply"
      BY <1>1, <2>1
    <3>2. ~RecordError(q) /\ ~CountNodes(q) /\ ~StoreCount(q)
      BY <3>1 DEF RecordError, CountNodes, StoreCount
    <3>3. ~RequestDies(q)
      BY <1>1, <1>2 DEF RequestDies
    <3>4. \A z \in Sources : ~Create(q, z) /\ ~Refresh(q, z) /\ ~AddNode(q, z)
      BY <3>1 DEF Create, Refresh, AddNode
    <3>5. \A r \in nodes : ~RemoveNode(q, r)
      BY <3>1 DEF RemoveNode
    <3> QED BY <1>5, <3>2, <3>3, <3>4, <3>5
  <2>2. CASE q # t
    BY <1>2, <1>5, <2>2
       DEF Create, Refresh, AddNode, RemoveNode, RecordError, CountNodes, StoreCount, RequestDies, Tally
  <2> QED BY <2>1, <2>2
<1>6. ASSUME (\E z \in Sources : DeleteSource(z) \/ Expire(z)) \/ (\E r \in nodes : SwitchNode(r)) \/ Tick
             \/ UNCHANGED vars
      PROVE FALSE
  BY <1>2, <1>6 DEF DeleteSource, Expire, SwitchNode, Tick, vars
<1>7. ~StartBatch
  <2>1. SUFFICES ASSUME StartBatch PROVE FALSE
    OBVIOUS
  <2>2. cron.batch = {} /\ t \in Sources
    BY <1>2, <2>1 DEF StartBatch, RefreshInv, CronOK
  <2> QED BY <1>1, <2>2 DEF RefreshInv, CronOK, CronOwns
<1>8. ASSUME NEW z \in Sources, TakeResult(z) PROVE FALSE
  <2>1. z = t
    BY <1>2, <1>8 DEF TakeResult
  <2>2. task[z].pc \in {"fulfilled", "rejected"}
    BY <1>8 DEF TakeResult, BatchSettled
  <2> QED BY <1>1, <2>1, <2>2
<1>9. ~CronDies
  BY <1>1, <1>2 DEF CronDies
<1>10. \E u \in Tasks : Step(u)
  BY <1>5, <1>6, <1>7, <1>8, <1>9 DEF Next, Cron, Answer, Tasks
<1> QED BY <1>3, <1>4, <1>10 DEF Step

Col(r) == [id |-> r.id, name |-> r.name, key |-> r.key]

(* The rows it read are the columns of the rows there are.                 *)
LEMMA SeenIsThere ==
  ASSUME RefreshInv, NEW s, NEW seen, seen = Read(RowsOf(s))
  PROVE  /\ \A r \in RowsOf(s) : Col(r) \in seen
         /\ \A o \in seen : \E r \in RowsOf(s) : o = Col(r)
         /\ Keyed(seen) /\ seen \in SUBSET Columns
         /\ \A r, o \in RowsOf(s) : Col(r) = Col(o) => r = o
<1>1. Keyed(seen) /\ seen \in SUBSET Columns
  BY ReadIsKeyed DEF RefreshInv
<1>2. \A r \in RowsOf(s) : Col(r) \in seen
  BY DEF Read, Col
<1>3. \A o \in seen : \E r \in RowsOf(s) : o = Col(r)
  BY DEF Read, Col
<1>4. ASSUME NEW r \in RowsOf(s), NEW o \in RowsOf(s), Col(r) = Col(o) PROVE r = o
  <2>1. r.id = o.id
    BY <1>4 DEF Col
  <2> QED BY <2>1 DEF RefreshInv, RowsOK, Keyed, RowsOf
<1> QED BY <1>1, <1>2, <1>3, <1>4

(* A row that is kept gets the key of a parsed node that takes it over.    *)
LEMMA KeyOfKept ==
  ASSUME RefreshInv, NEW s, NEW seen, seen = Read(RowsOf(s)), NEW byKey \in ByKey(seen),
         NEW body \in Seq(Parsed), NEW r \in RowsOf(s), r.id \notin RemovedIds(seen, byKey, body)
  PROVE  \E i \in Firsts(body) : /\ Col(r) \in Match(seen, byKey, body, i)
                                /\ Update(seen, byKey, body, r).key = body[i].key
<1>1. Col(r) \in seen /\ Col(r).id = r.id /\ Col(r).key = r.key /\ Keyed(seen)
  BY SeenIsThere DEF Col
<1>2. Col(r) \notin Removed(seen, byKey, body)
  BY <1>1 DEF RemovedIds, IdsOf
<1>3. \A o \in Written(seen, byKey, body) : o.id = r.id => o = Col(r)
  BY <1>1 DEF Written, Keyed
<1>4. CASE Writers(seen, byKey, body, Col(r)) # {}
  <2>1. Col(r) \in Written(seen, byKey, body)
    BY <1>1, <1>4 DEF Written
  <2>2. (CHOOSE o \in Written(seen, byKey, body) : o.id = r.id) = Col(r)
    BY <1>1, <1>3, <2>1
  <2>3. PICK i : i = LastWriter(seen, byKey, body, Col(r))
    OBVIOUS
  <2>4. Update(seen, byKey, body, r) = WriteNode(r, body[i])
    BY <1>1, <2>1, <2>2, <2>3 DEF Update
  <2>5. i \in Writers(seen, byKey, body, Col(r))
    BY <1>4, <2>3, LastWriterWrites
  <2>6. i \in Firsts(body) /\ Col(r) \in Match(seen, byKey, body, i)
    BY <2>5 DEF Writers
  <2>7. r \in Row
    BY DEF RowsOf, RefreshInv, RowsOK
  <2>8. WriteNode(r, body[i]).key = body[i].key
    BY <2>7 DEF WriteNode, Row
  <2> QED BY <2>4, <2>6, <2>8
<1>5. CASE Writers(seen, byKey, body, Col(r)) = {}
  <2>1. Col(r) \notin Written(seen, byKey, body)
    BY <1>5 DEF Written
  <2>2. Update(seen, byKey, body, r) = r
    BY <1>3, <2>1 DEF Update
  <2>3. \E i \in Firsts(body) : Col(r) \in Match(seen, byKey, body, i) /\ Col(r).key = body[i].key
    BY <1>1, <1>2, <1>5, KeptIsMatched
  <2> QED BY <1>1, <2>2, <2>3
<1> QED BY <1>4, <1>5

(* What a lone refresh of s did, for the lemmas that follow.               *)
Did(t, s, byKey, id) ==
    /\ task[t].pc = "apply" /\ task[t].src = s /\ task[t].seen = Read(RowsOf(s))
    /\ byKey \in ByKey(task[t].seen)
    /\ id \in Fresh(Added(task[t].seen, byKey, task[t].body))
    /\ Stores(t, byKey, id)
NewRow(t, id, i) ==
    [id |-> id[i], src |-> task[t].src, name |-> task[t].body[i].name,
     key |-> task[t].body[i].key, enabled |-> TRUE, manual |-> FALSE]

LEMMA LoneDid ==
  ASSUME RefreshInv, [Next]_vars, NEW t \in Tasks, NEW s \in Sources, Alone(t, s)
  PROVE  \E byKey, id : Did(t, s, byKey, id)
<1>1. /\ task[t].pc = "apply" /\ task[t].src = s /\ Insertable(task[t].src)
      /\ task[t].seen = Read(RowsOf(s))
  BY DEF Alone, Applies, Insertable
<1>2. Apply(t)
  BY LoneApplies
<1>3. PICK byKey \in ByKey(task[t].seen) :
        \E id \in Fresh(Added(task[t].seen, byKey, task[t].body)) : Stores(t, byKey, id)
  BY <1>1, <1>2, ApplyWrites
<1> QED BY <1>1, <1>3 DEF Did

(* Every row it leaves belongs to one parsed node: a row taken over by it, *)
(* or one added for it.                                                    *)
LEMMA RowsItLeaves ==
  ASSUME RefreshInv, NEW t \in Tasks, NEW s \in Sources, NEW byKey, NEW id, Did(t, s, byKey, id),
         NEW x \in RowsOf(s)'
  PROVE  LET seen == task[t].seen
             body == task[t].body
         IN \E i \in Firsts(body) :
              /\ x.key = body[i].key
              /\ \/ \E r \in RowsOf(s) : /\ x = Update(seen, byKey, body, r) /\ Col(r) \in seen \ Removed(seen, byKey, body)
                                        /\ Col(r) \in Match(seen, byKey, body, i)
                 \/ i \in Added(seen, byKey, body) /\ x = NewRow(t, id, i)
<1> DEFINE seen == task[t].seen
           body == task[t].body
           added == Added(seen, byKey, body)
<1>1. /\ task[t].pc = "apply" /\ task[t].src = s /\ seen = Read(RowsOf(s)) /\ byKey \in ByKey(seen)
      /\ id \in Fresh(added) /\ Stores(t, byKey, id)
  BY DEF Did
<1>2. body \in Seq(Parsed)
  BY <1>1, Applying
<1>3. x \in nodes' /\ x.src = s /\ ~x.manual
  BY DEF RowsOf
<1>4. CASE \E r \in nodes : r.id \notin RemovedIds(seen, byKey, body) /\ x = Update(seen, byKey, body, r)
  <2>1. PICK r \in nodes : r.id \notin RemovedIds(seen, byKey, body) /\ x = Update(seen, byKey, body, r)
    BY <1>4
  <2>2. r \in Row
    BY DEF RefreshInv, RowsOK
  <2>3. x.src = r.src /\ x.manual = r.manual
    BY <1>2, <2>1, <2>2, UpdateKeeps
  <2>4. r \in RowsOf(s)
    BY <1>3, <2>3 DEF RowsOf
  <2>5. Col(r) \in seen /\ Col(r).id = r.id
    BY <1>1, <2>4, SeenIsThere DEF Col
  <2>6. Col(r) \notin Removed(seen, byKey, body)
    BY <2>1, <2>5 DEF RemovedIds, IdsOf
  <2>7. \E i \in Firsts(body) : /\ Col(r) \in Match(seen, byKey, body, i)
                               /\ Update(seen, byKey, body, r).key = body[i].key
    BY <1>1, <1>2, <2>1, <2>4, KeyOfKept
  <2> QED BY <2>1, <2>4, <2>5, <2>6, <2>7
<1>5. CASE \E i \in added : x = NewRow(t, id, i)
  <2>1. PICK i \in added : x = NewRow(t, id, i)
    BY <1>5
  <2>2. i \in Firsts(body) /\ x.key = body[i].key
    BY <2>1, <1>2, AddedAreFirsts DEF NewRow
  <2> QED BY <2>1, <2>2
<1> QED BY <1>1, <1>3, <1>4, <1>5, RowsAfter DEF NewRow

LEMMA KeysAreSettled ==
  ASSUME RefreshInv, NEW t \in Tasks, NEW s \in Sources, NEW byKey, NEW id, Did(t, s, byKey, id),
         NEW x \in RowsOf(s)', NEW y \in RowsOf(s)', x.key = y.key
  PROVE  x = y
<1> DEFINE seen == task[t].seen
           body == task[t].body
           added == Added(seen, byKey, body)
           Taken(z, i, r) == /\ r \in RowsOf(s) /\ z = Update(seen, byKey, body, r)
                             /\ Col(r) \in Match(seen, byKey, body, i)
           Belongs(z, i) == /\ z.key = body[i].key
                            /\ (\E r : Taken(z, i, r)) \/ (i \in added /\ z = NewRow(t, id, i))
<1>1. body \in Seq(Parsed) /\ byKey \in ByKey(seen) /\ seen = Read(RowsOf(s))
  BY Applying DEF Did
<1>2. PICK i \in Firsts(body) : Belongs(x, i)
  BY RowsItLeaves
<1>3. PICK j \in Firsts(body) : Belongs(y, j)
  BY RowsItLeaves
<1>4. i = j
  BY <1>1, <1>2, <1>3, PlacesAreNumbers
<1>5. i \in added => Match(seen, byKey, body, i) = {}
  BY DEF Added
<1>6. \A c, d \in Match(seen, byKey, body, i) : c = d
  BY <1>1, OneMatch
<1>7. \A r, o \in RowsOf(s) : Col(r) = Col(o) => r = o
  BY <1>1, SeenIsThere
<1> HIDE DEF added, seen, body
<1>8. CASE \E r : Taken(x, i, r)
  <2>1. PICK r : Taken(x, i, r)
    BY <1>8
  <2>2. PICK o : Taken(y, i, o)
    BY <1>3, <1>4, <1>5, <2>1
  <2>3. r = o
    BY <1>6, <1>7, <2>1, <2>2
  <2> QED BY <2>1, <2>2, <2>3
<1>9. CASE i \in added /\ x = NewRow(t, id, i)
  <2>1. ~\E o : Taken(y, i, o)
    BY <1>5, <1>9
  <2> QED BY <1>3, <1>4, <1>9, <2>1
<1> QED BY <1>2, <1>8, <1>9

(* The ids of the rows it leaves.                                          *)
LEMMA IdsItLeaves ==
  ASSUME RefreshInv, NEW t \in Tasks, NEW s \in Sources, NEW byKey, NEW id, Did(t, s, byKey, id)
  PROVE  LET seen == task[t].seen
             body == task[t].body
         IN IdsOf(RowsOf(s)') = IdsOf(seen \ Removed(seen, byKey, body))
                                  \cup {id[i] : i \in Added(seen, byKey, body)}
<1> DEFINE seen == task[t].seen
           body == task[t].body
           added == Added(seen, byKey, body)
           gone == Removed(seen, byKey, body)
<1>1. /\ body \in Seq(Parsed) /\ byKey \in ByKey(seen) /\ seen = Read(RowsOf(s)) /\ task[t].src = s
      /\ Stores(t, byKey, id)
  BY Applying DEF Did
<1>2. \A r \in nodes : LET u == Update(seen, byKey, body, r) IN
        u.id = r.id /\ u.src = r.src /\ u.manual = r.manual
  BY <1>1, UpdateKeeps DEF RefreshInv, RowsOK
<1>3. ASSUME NEW x \in RowsOf(s)' PROVE x.id \in IdsOf(seen \ gone) \cup {id[i] : i \in added}
  <2>1. CASE \E r \in RowsOf(s) : x = Update(seen, byKey, body, r) /\ Col(r) \in seen \ gone
    <3>1. PICK r \in RowsOf(s) : x = Update(seen, byKey, body, r) /\ Col(r) \in seen \ gone
      BY <2>1
    <3>2. x.id = r.id /\ Col(r).id = r.id
      BY <3>1, <1>2 DEF RowsOf, Col
    <3> QED BY <3>1, <3>2 DEF IdsOf
  <2>2. CASE \E i \in added : x = NewRow(t, id, i)
    BY <2>2 DEF NewRow
  <2>3. \/ \E r \in RowsOf(s) : x = Update(seen, byKey, body, r) /\ Col(r) \in seen \ gone
        \/ \E i \in added : x = NewRow(t, id, i)
    BY RowsItLeaves
  <2> QED BY <2>1, <2>2, <2>3
<1>4. ASSUME NEW c \in seen \ gone PROVE c.id \in IdsOf(RowsOf(s)')
  <2>1. PICK r \in RowsOf(s) : c = Col(r)
    BY <1>1, SeenIsThere
  <2>2. r \in nodes /\ r.src = s /\ ~r.manual /\ c.id = r.id
    BY <2>1 DEF RowsOf, Col
  <2>3. r.id \notin RemovedIds(seen, byKey, body)
    <3>1. \A d \in gone : d \in seen
      BY DEF Removed
    <3> QED BY <1>1, <2>2, <3>1, SeenIsThere DEF RemovedIds, IdsOf, Keyed
  <2>4. PICK u : u = Update(seen, byKey, body, r)
    OBVIOUS
  <2>5. u \in nodes' /\ u.id = c.id /\ u.src = s /\ ~u.manual
    BY <1>1, <1>2, <2>2, <2>3, <2>4 DEF Stores, Updated
  <2> QED BY <2>5 DEF IdsOf, RowsOf
<1>5. ASSUME NEW i \in added PROVE id[i] \in IdsOf(RowsOf(s)')
  <2>1. NewRow(t, id, i) \in nodes'
    BY <1>1 DEF Stores, Inserted, NewRow
  <2>2. NewRow(t, id, i).src = s /\ ~NewRow(t, id, i).manual /\ NewRow(t, id, i).id = id[i]
    BY <1>1 DEF NewRow
  <2> QED BY <2>1, <2>2 DEF IdsOf, RowsOf
<1> HIDE DEF added, gone, seen, body
<1>6. IdsOf(RowsOf(s)') = IdsOf(seen \ gone) \cup {id[i] : i \in added}
  BY <1>3, <1>4, <1>5 DEF IdsOf
<1> QED BY <1>6 DEF added, gone, seen, body

LEMMA CountIsSettled ==
  ASSUME RefreshInv, NEW t \in Tasks, NEW s \in Sources, NEW byKey, NEW id, Did(t, s, byKey, id)
  PROVE  count'[s] = Cardinality(RowsOf(s)')
<1> DEFINE seen == task[t].seen
           body == task[t].body
           ids == IdsOf(seen \ Removed(seen, byKey, body)) \cup {id[i] : i \in Added(seen, byKey, body)}
<1>1. count' = [count EXCEPT ![s] = NodeCount(seen, byKey, body)]
  BY DEF Did, Stores
<1>2. count'[s] = NodeCount(seen, byKey, body)
  BY <1>1 DEF RefreshInv, RowsOK
<1>3. IsFiniteSet(ids) /\ NodeCount(seen, byKey, body) = Cardinality(ids)
  BY CountIsOfIds DEF Did
<1>4. IdsOf(RowsOf(s)') = ids
  BY IdsItLeaves
<1>5. Keyed(RowsOf(s)')
  BY BatchKeepsIds DEF Did, Keyed, RowsOf
<1>6. Cardinality(RowsOf(s)') = Cardinality(ids)
  BY <1>3, <1>4, <1>5, CountedByIds
<1> QED BY <1>2, <1>3, <1>6

(* A refresh that nothing overlapped leaves as many rows as it reports, no *)
(* key twice and none that was not served.                                 *)
THEOREM LoneRefreshSettlesHolds == Spec => LoneRefreshSettles
<1>1. ASSUME RefreshInv, [Next]_vars, NEW t \in Tasks, NEW s \in Sources, Alone(t, s)
      PROVE  /\ count'[s] = Cardinality(RowsOf(s)')
             /\ \A r, o \in RowsOf(s)' : r.key = o.key => r = o
             /\ \A r \in RowsOf(s)' : \E i \in DOMAIN task[t].body : r.key = task[t].body[i].key
  <2>1. PICK byKey, id : Did(t, s, byKey, id)
    BY <1>1, LoneDid
  <2>2. count'[s] = Cardinality(RowsOf(s)')
    BY <1>1, <2>1, CountIsSettled
  <2>3. \A r, o \in RowsOf(s)' : r.key = o.key => r = o
    BY <1>1, <2>1, KeysAreSettled
  <2>4. \A r \in RowsOf(s)' : \E i \in Firsts(task[t].body) : r.key = task[t].body[i].key
    BY <1>1, <2>1, RowsItLeaves
  <2> QED BY <2>2, <2>3, <2>4 DEF Firsts
<1>2. RefreshInv /\ [Next]_vars =>
        [\A t \in Tasks : \A s \in Sources : Alone(t, s) =>
           /\ count'[s] = Cardinality(RowsOf(s)')
           /\ \A r, o \in RowsOf(s)' : r.key = o.key => r = o
           /\ \A r \in RowsOf(s)' : \E i \in DOMAIN task[t].body : r.key = task[t].body[i].key]_vars
  BY <1>1
<1> QED BY <1>2, RefreshStaysWell, PTL DEF LoneRefreshSettles, Spec

(* The row with the key of a listed connection keeps it, if no node that is *)
(* listed later writes over it.                                            *)
LEMMA KeyRemains ==
  ASSUME RefreshInv, NEW t \in Tasks, NEW s \in Sources, NEW byKey, NEW id, Did(t, s, byKey, id),
         NEW k, \E r \in RowsOf(s) : r.key = k, NEW n \in DOMAIN task[t].body, task[t].body[n].key = k,
         \A o \in task[t].seen : o.key = k => ~Overtaken(t, o)
  PROVE  \E x \in RowsOf(s)' : x.key = k
<1> DEFINE seen == task[t].seen
           body == task[t].body
           same == {i \in 1..Len(body) : body[i].key = k}
<1>1. /\ body \in Seq(Parsed) /\ byKey \in ByKey(seen) /\ seen = Read(RowsOf(s)) /\ task[t].src = s
      /\ Stores(t, byKey, id)
  BY Applying DEF Did
<1>2. PICK i \in Firsts(body) : body[i].key = k /\ \A j \in same : i <= j
  <2>1. Len(body) \in Nat /\ DOMAIN body = 1..Len(body) /\ same \in SUBSET (1..Len(body)) /\ n \in same
    BY <1>1
  <2>2. PICK i \in same : \A j \in same : i <= j
    <3> HIDE DEF same
    <3> QED BY <2>1, FirstIsIn
  <2>3. i \in DOMAIN body /\ body[i].key = k
    BY <2>1
  <2>4. ASSUME NEW j \in 1..(i - 1) PROVE body[j].key # body[i].key
    <3>1. j \in 1..Len(body) /\ j < i
      BY <2>1, <2>3
    <3> QED BY <2>1, <2>2, <2>3, <3>1
  <2> QED BY <2>2, <2>3, <2>4 DEF Firsts
<1>3. PICK o \in seen : o.key = k /\ Match(seen, byKey, body, i) = {o}
  <2>1. \E c \in seen : c.key = body[i].key
    <3>1. PICK r \in RowsOf(s) : r.key = k
      OBVIOUS
    <3>2. Col(r) \in seen /\ Col(r).key = k
      BY <1>1, <3>1, SeenIsThere DEF Col
    <3> QED BY <1>2, <3>2
  <2> QED BY <1>1, <1>2, <2>1, OneMatch
<1>4. PICK r \in RowsOf(s) : o = Col(r)
  BY <1>1, <1>3, SeenIsThere
<1>5. Keyed(seen) /\ r.id = o.id /\ r.key = k /\ r \in nodes /\ r \in Row /\ r.src = s /\ ~r.manual
  <2>1. Keyed(seen)
    BY <1>1, SeenIsThere
  <2>2. r.id = o.id /\ r.key = k
    BY <1>3, <1>4 DEF Col
  <2>3. r \in nodes /\ r.src = s /\ ~r.manual
    BY DEF RowsOf
  <2>4. r \in Row
    BY <2>3 DEF RefreshInv, RowsOK
  <2> QED BY <2>1, <2>2, <2>3, <2>4
<1>6. r.id \notin RemovedIds(seen, byKey, body)
  BY <1>2, <1>3, <1>5 DEF RemovedIds, IdsOf, Removed, Keyed
<1>7. ASSUME NEW j \in Writers(seen, byKey, body, o),
             \A m \in Writers(seen, byKey, body, o) : m <= j
      PROVE  body[j].key = k
  <2>1. /\ j \in Firsts(body) /\ o \in Match(seen, byKey, body, j)
        /\ <<o.name, o.key>> # <<body[j].name, body[j].key>>
    BY <1>7 DEF Writers
  <2>2. CASE body[j].key \in DOMAIN byKey
    <3>1. o = byKey[body[j].key]
      BY <2>1, <2>2 DEF Match
    <3> QED BY <1>1, <1>3, <2>2, <3>1 DEF ByKey
  <2>3. CASE body[j].key \notin DOMAIN byKey
    <3>1. o \in ByUniqueName(seen, body, body[j].name)
      BY <2>1, <2>3 DEF Match
    <3>2. body[j].key \notin {q.key : q \in seen}
      BY <1>1, <2>3 DEF ByKey
    <3>3. body[j].key # k
      BY <1>3, <3>2
    <3>4. i \in Nat /\ j \in Nat /\ i # j /\ i \in DOMAIN body /\ j \in DOMAIN body
      BY <1>1, <1>2, <2>1, <3>3, PlacesAreNumbers
    <3>5. CASE i < j
      <4>1. i \in 1..(j - 1)
        BY <1>1, <3>4, <3>5
      <4> QED BY <1>2, <1>3, <3>1, <3>2, <3>4, <4>1 DEF Overtaken
    <3>6. CASE j < i
      <4>1. o.name = body[j].name /\ body[i].name # body[j].name
        <5>1. o.name = body[j].name
          BY <1>3, <3>1 DEF ByUniqueName
        <5>2. \E m \in DOMAIN body : \A l \in DOMAIN body : body[l].name = body[j].name <=> l = m
          BY <3>1 DEF ByUniqueName
        <5> QED BY <3>4, <5>1, <5>2
      <4>2. i \in Writers(seen, byKey, body, o)
        BY <1>2, <1>3, <4>1 DEF Writers
      <4> QED BY <1>7, <3>4, <3>6, <4>2
    <3> QED BY <3>4, <3>5, <3>6
  <2> QED BY <2>2, <2>3
<1>8. PICK u : u = Update(seen, byKey, body, r)
  OBVIOUS
<1>9. u.key = k
  <2>1. CASE Writers(seen, byKey, body, o) = {}
    <3>1. ~\E w \in Written(seen, byKey, body) : w.id = r.id
      BY <1>5, <2>1, <1>3 DEF Written, Keyed
    <3> QED BY <1>5, <1>8, <3>1 DEF Update
  <2>2. CASE Writers(seen, byKey, body, o) # {}
    <3>1. PICK j \in Writers(seen, byKey, body, o) : \A m \in Writers(seen, byKey, body, o) : m <= j
      <4>1. IsFiniteSet(Writers(seen, byKey, body, o)) /\ Writers(seen, byKey, body, o) \subseteq Nat
        <5>1. Writers(seen, byKey, body, o) \subseteq Firsts(body)
          BY DEF Writers
        <5> QED BY <1>1, <5>1, PlacesAreNumbers, FS_Subset
      <4> QED BY <2>2, <4>1, LargestExists
    <3>2. PICK m : m = LastWriter(seen, byKey, body, o)
      OBVIOUS
    <3>3. /\ m \in Writers(seen, byKey, body, o)
          /\ \A l \in Writers(seen, byKey, body, o) : l <= m
      BY <3>1, <3>2 DEF LastWriter
    <3>4. body[m].key = k
      BY <1>7, <3>3
    <3>5. (CHOOSE w \in Written(seen, byKey, body) : w.id = r.id) = o
      BY <1>3, <1>5, <2>2 DEF Written, Keyed
    <3>6. u = WriteNode(r, body[m])
      BY <1>3, <1>5, <1>8, <2>2, <3>2, <3>5 DEF Update, Written
    <3> QED BY <1>5, <3>4, <3>6 DEF WriteNode, Row
  <2> QED BY <2>1, <2>2
<1>10. u \in nodes' /\ u.src = s /\ ~u.manual
  <2>1. u.src = s /\ ~u.manual
    BY <1>1, <1>5, <1>8, UpdateKeeps
  <2>2. u \in nodes'
    BY <1>1, <1>5, <1>6, <1>8 DEF Stores, Updated
  <2> QED BY <2>1, <2>2
<1> QED BY <1>9, <1>10 DEF RowsOf

(* A connection all of whose rows the operator disabled stays disabled     *)
(* through a refresh that nothing overlapped, whatever the provider does   *)
(* to the names and the order of its nodes, and keeps a row that says so   *)
(* while it is served, unless a node listed later takes that row.          *)
THEOREM DisabledStaysDisabledHolds == Spec => DisabledStaysDisabled
<1>1. ASSUME RefreshInv, [Next]_vars, NEW t \in Tasks, NEW s \in Sources, Alone(t, s), NEW k \in Keys,
             \E r \in RowsOf(s) : r.key = k, \A r \in RowsOf(s) : r.key = k => ~r.enabled,
             NEW x \in RowsOf(s)', x.key = k
      PROVE  ~x.enabled
  <2>1. PICK byKey, id : Did(t, s, byKey, id)
    BY <1>1, LoneDid
  <2> DEFINE seen == task[t].seen
             body == task[t].body
  <2>2. /\ body \in Seq(Parsed) /\ byKey \in ByKey(seen) /\ seen = Read(RowsOf(s))
    BY <1>1, <2>1, Applying DEF Did
  <2>3. PICK i \in Firsts(body) :
          /\ x.key = body[i].key
          /\ \/ \E r \in RowsOf(s) : x = Update(seen, byKey, body, r) /\ Col(r) \in Match(seen, byKey, body, i)
             \/ i \in Added(seen, byKey, body)
    BY <1>1, <2>1, RowsItLeaves
  <2>4. \E c \in seen : c.key = body[i].key
    <3>1. PICK r \in RowsOf(s) : r.key = k
      BY <1>1
    <3>2. Col(r) \in seen /\ Col(r).key = k
      BY <1>1, <2>2, <3>1, SeenIsThere DEF Col
    <3> QED BY <1>1, <2>3, <3>2
  <2>5. PICK c \in seen : c.key = body[i].key /\ Match(seen, byKey, body, i) = {c}
    BY <2>2, <2>4, OneMatch
  <2>6. i \notin Added(seen, byKey, body)
    BY <2>5 DEF Added
  <2>7. PICK r \in RowsOf(s) : x = Update(seen, byKey, body, r) /\ Col(r) \in Match(seen, byKey, body, i)
    BY <2>3, <2>6
  <2>8. Col(r) = c /\ r.key = k
    BY <1>1, <2>3, <2>5, <2>7 DEF Col
  <2>9. r \in Row
    BY <1>1 DEF RowsOf, RefreshInv, RowsOK
  <2>10. x.enabled = r.enabled
    BY <2>2, <2>7, <2>9, UpdateKeeps
  <2> QED BY <1>1, <2>8, <2>10
<1>2. ASSUME RefreshInv, [Next]_vars, NEW t \in Tasks, NEW s \in Sources, Alone(t, s), NEW k \in Keys,
             \E r \in RowsOf(s) : r.key = k, \E i \in DOMAIN task[t].body : task[t].body[i].key = k,
             \A o \in task[t].seen : o.key = k => ~Overtaken(t, o)
      PROVE  \E r \in RowsOf(s)' : r.key = k
  <2>1. PICK byKey, id : Did(t, s, byKey, id)
    BY <1>2, LoneDid
  <2> QED BY <1>2, <2>1, KeyRemains
<1>3. RefreshInv /\ [Next]_vars =>
        [\A t \in Tasks : \A s \in Sources : Alone(t, s) =>
           \A k \in Keys :
             /\ \E r \in RowsOf(s) : r.key = k
             /\ \A r \in RowsOf(s) : r.key = k => ~r.enabled
             => /\ \A r \in RowsOf(s)' : r.key = k => ~r.enabled
                /\ /\ \E i \in DOMAIN task[t].body : task[t].body[i].key = k
                   /\ \A o \in task[t].seen : o.key = k => ~Overtaken(t, o)
                   => \E r \in RowsOf(s)' : r.key = k]_vars
  BY <1>1, <1>2
<1> QED BY <1>3, RefreshStaysWell, PTL DEF DisabledStaysDisabled, Spec

-----------------------------------------------------------------------------
(* Node groups that follow a source: what a text is read as.               *)
ServedNodes == [name : STRING, key : Nat, fault : BOOLEAN]
ServedGroups == [name : STRING, members : Seq(STRING)]

(* Dropping names keeps the order of the groups that are left.             *)
Left(groups, names) == {i \in DOMAIN groups : Range(groups[i].members) \ names # {}}

(* Without keeps the groups with a name left, in their order.              *)
LEMMA WithoutKeepsOrder ==
  ASSUME NEW groups \in Seq(ServedGroups), NEW names
  PROVE  LET rest == Without(groups, names) IN
         /\ rest \in Seq(ServedGroups)
         /\ \E from \in [DOMAIN rest -> Left(groups, names)] :
              /\ Range(from) = Left(groups, names)
              /\ \A i, j \in DOMAIN rest : i < j => from[i] < from[j]
              /\ \A i \in DOMAIN rest :
                   /\ rest[i].name = groups[from[i]].name
                   /\ Range(rest[i].members) = Range(groups[from[i]].members) \ names
<1> DEFINE Short(i) == Where(groups[i].members, LAMBDA name : name \notin names)
           cut == [i \in DOMAIN groups |-> [groups[i] EXCEPT !.members = Short(i)]]
           places == {i \in DOMAIN cut : cut[i].members # <<>>}
           rest == Without(groups, names)
<1>1. Len(groups) \in Nat /\ DOMAIN groups = 1..Len(groups) /\ \A i \in DOMAIN groups : groups[i] \in ServedGroups
  OBVIOUS
<1>2. ASSUME NEW i \in DOMAIN groups
      PROVE  Short(i) \in Seq(STRING) /\ Range(Short(i)) = Range(groups[i].members) \ names
  <2> DEFINE list == groups[i].members
             kept == {n \in DOMAIN list : list[n] \notin names}
  <2>1. list \in Seq(STRING)
    BY <1>1 DEF ServedGroups
  <2>2. IsList(list) /\ ToSet(list) \subseteq STRING
    BY <2>1, SequencesAreLists
  <2>3. Short(i) = Placed(list, kept)
    BY DEF Where
  <2>4. IsList(Placed(list, kept)) /\ ToSet(Placed(list, kept)) = {list[n] : n \in kept}
    <3> HIDE DEF list
    <3> QED BY <2>2, PlacedLists
  <2>5. {list[n] : n \in kept} = Range(list) \ names /\ {list[n] : n \in kept} \subseteq ToSet(list)
    BY DEF Range, ToSet
  <2>6. Range(Short(i)) = ToSet(Short(i))
    BY DEF Range, ToSet
  <2>7. Short(i) \in Seq(STRING)
    <3>1. Short(i) \in Seq(ToSet(Short(i))) /\ ToSet(Short(i)) \subseteq STRING
      BY <2>2, <2>3, <2>4, <2>5 DEF IsList
    <3> HIDE DEF Short
    <3> QED BY <3>1
  <2> QED BY <2>3, <2>4, <2>5, <2>6, <2>7
<1> HIDE DEF Short
<1>3. /\ cut \in [1..Len(groups) -> ServedGroups]
      /\ \A i \in DOMAIN groups : cut[i].name = groups[i].name /\ cut[i].members = Short(i)
  <2>1. ASSUME NEW i \in DOMAIN groups
        PROVE  /\ cut[i] \in ServedGroups
               /\ cut[i].name = groups[i].name /\ cut[i].members = Short(i)
    <3>1. groups[i] \in ServedGroups /\ Short(i) \in Seq(STRING)
      BY <1>1, <1>2
    <3>2. cut[i] = [groups[i] EXCEPT !.members = Short(i)]
      OBVIOUS
    <3> QED BY <3>1, <3>2 DEF ServedGroups
  <2>2. cut = [i \in 1..Len(groups) |-> cut[i]]
    BY <1>1
  <2> HIDE DEF cut
  <2> QED BY <1>1, <2>1, <2>2
<1>5. rest = Placed(cut, places)
  BY DEF Without, Where, Short
<1> HIDE DEF cut
<1>4. cut \in Seq(ServedGroups) /\ DOMAIN cut = DOMAIN groups
  BY <1>1, <1>3
<1>6. places = Left(groups, names)
  <2>1. \A i \in DOMAIN groups : cut[i].members # <<>> <=> Range(cut[i].members) # {}
    <3> TAKE i \in DOMAIN groups
    <3>1. cut[i].members \in Seq(STRING)
      BY <1>2, <1>3
    <3> DEFINE list == cut[i].members
    <3> HIDE DEF list
    <3>2. list \in Seq(STRING)
      BY <3>1 DEF list
    <3>3. list = <<>> => Range(list) = {}
      BY DEF Range
    <3>4. list # <<>> => 1 \in DOMAIN list
      BY <3>2
    <3> QED BY <3>3, <3>4 DEF Range, list
  <2> QED BY <1>2, <1>3, <1>4, <2>1 DEF Left
<1>7. IsList(cut)
  BY <1>4, SequencesAreLists
<1>h. places \in SUBSET DOMAIN cut
  OBVIOUS
<1> HIDE DEF places, rest
<1>8. PICK from \in Seq(places) : /\ Range(from) = places
                                  /\ \A i, j \in DOMAIN from : i < j => from[i] < from[j]
                                  /\ rest = [i \in DOMAIN from |-> cut[from[i]]]
  BY <1>5, <1>7, <1>h, PlacedOrder
<1>9. DOMAIN rest = DOMAIN from /\ from \in [DOMAIN rest -> places] /\ DOMAIN from = 1..Len(from) /\ Len(from) \in Nat
  BY <1>8
<1>10. \A i \in DOMAIN rest : rest[i] = cut[from[i]] /\ from[i] \in DOMAIN groups
  BY <1>4, <1>8, <1>9, <1>h
<1>11. rest \in Seq(ServedGroups)
  <2>1. \A i \in DOMAIN rest : rest[i] \in ServedGroups
    BY <1>1, <1>3, <1>10
  <2>2. rest \in [1..Len(from) -> ServedGroups]
    BY <1>8, <1>9, <2>1
  <2> QED BY <1>9, <2>2
<1>12. \A i \in DOMAIN rest : /\ rest[i].name = groups[from[i]].name
                              /\ Range(rest[i].members) = Range(groups[from[i]].members) \ names
  BY <1>2, <1>3, <1>10
<1> QED BY <1>6, <1>8, <1>9, <1>11, <1>12 DEF rest

(* What the last group of a name lists can be told before other names are  *)
(* dropped.                                                                *)
LEMMA ListedThrough ==
  ASSUME NEW groups \in Seq(ServedGroups), NEW names, NEW others, NEW name
  PROVE  ListedIn(Without(groups, names), others, name) = ListedIn(groups, names \cup others, name)
<1> DEFINE rest == Without(groups, names)
           Having(list, left) == {i \in DOMAIN list : list[i].name = name /\ Range(list[i].members) \ left # {}}
           here == Having(groups, names \cup others)
           there == Having(rest, others)
<1>1. PICK from \in [DOMAIN rest -> Left(groups, names)] :
        /\ Range(from) = Left(groups, names)
        /\ \A i, j \in DOMAIN rest : i < j => from[i] < from[j]
        /\ \A i \in DOMAIN rest :
             /\ rest[i].name = groups[from[i]].name
             /\ Range(rest[i].members) = Range(groups[from[i]].members) \ names
  BY WithoutKeepsOrder
<1>2. /\ \A i \in DOMAIN rest : i \in Nat /\ from[i] \in DOMAIN groups /\ from[i] \in Nat
      /\ \A i \in DOMAIN groups : i \in Nat
  <2>1. rest \in Seq(ServedGroups)
    BY WithoutKeepsOrder
  <2> HIDE DEF rest
  <2> QED BY <1>1, <2>1 DEF Left
<1> HIDE DEF rest
<1>3. \A i \in DOMAIN rest : i \in there <=> from[i] \in here
  BY <1>1, <1>2
<1>4. \A n \in here : \E i \in there : from[i] = n
  <2> TAKE n \in here
  <2>1. n \in Left(groups, names)
    BY DEF Left
  <2>2. PICK i \in DOMAIN rest : from[i] = n
    BY <1>1, <2>1 DEF Range
  <2> QED BY <1>3, <2>2
<1>5. there \subseteq DOMAIN rest /\ here \subseteq DOMAIN groups
  OBVIOUS
<1> HIDE DEF here, there
<1>6. \A i \in there : (\A k \in there : k <= i) <=> (\A m \in here : m <= from[i])
  <2> TAKE i \in there
  <2>1. ASSUME \A k \in there : k <= i, NEW m \in here PROVE m <= from[i]
    <3>1. PICK k \in there : from[k] = m
      BY <1>4
    <3>2. k = i \/ k < i
      BY <1>2, <1>5, <2>1
    <3> QED BY <1>1, <1>2, <1>5, <3>1, <3>2
  <2>2. ASSUME \A m \in here : m <= from[i], NEW k \in there PROVE k <= i
    <3>1. from[k] <= from[i]
      BY <1>3, <1>5, <2>2
    <3>2. ~(i < k)
      BY <1>1, <1>2, <1>5, <3>1
    <3> QED BY <1>2, <1>5, <3>2
  <2> QED BY <2>1, <2>2
<1> DEFINE lastHere == {j \in here : \A k \in here : k <= j}
           lastThere == {j \in there : \A k \in there : k <= j}
<1>7. {Range(rest[i].members) \ others : i \in lastThere} = {Range(groups[n].members) \ (names \cup others) : n \in lastHere}
  <2>1. \A i \in lastThere : from[i] \in lastHere /\ Range(rest[i].members) \ others = Range(groups[from[i]].members) \ (names \cup others)
    BY <1>1, <1>3, <1>5, <1>6
  <2>2. \A n \in lastHere : \E i \in lastThere : from[i] = n
    BY <1>4, <1>6
  <2> HIDE DEF lastHere, lastThere
  <2> QED BY <2>1, <2>2
<1>8. ListedIn(rest, others, name) = UNION {Range(rest[i].members) \ others : i \in lastThere}
  BY DEF ListedIn, there
<1>9. ListedIn(groups, names \cup others, name) = UNION {Range(groups[n].members) \ (names \cup others) : n \in lastHere}
  BY DEF ListedIn, here
<1> QED BY <1>7, <1>8, <1>9 DEF rest

(* The members a refresh looks up are those of the last group of a name.   *)
ListedLast(groups, name) ==
    UNION {Range(groups[i].members) : i \in {n \in DOMAIN groups : groups[n].name = name
             /\ \A j \in DOMAIN groups : j > n => groups[j].name # name}}

(* The last group of a name, once names are dropped, is the last that had any left.*)
LEMMA LastIsListed ==
  ASSUME NEW groups \in Seq(ServedGroups), NEW names, NEW name
  PROVE  ListedLast(Without(groups, names), name) = ListedIn(groups, names, name)
<1> DEFINE rest == Without(groups, names)
<1>1. /\ rest \in Seq(ServedGroups)
      /\ \A i \in DOMAIN rest : Range(rest[i].members) # {}
  BY WithoutKeepsOrder DEF Left
<1>2. ListedIn(rest, {}, name) = ListedIn(groups, names, name)
  <2>1. ListedIn(rest, {}, name) = ListedIn(groups, names \cup {}, name)
    BY ListedThrough
  <2>2. names \cup {} = names
    OBVIOUS
  <2> QED BY <2>1, <2>2
<1> HIDE DEF rest
<1>3. \A i \in DOMAIN rest : i \in Nat
  BY <1>1
<1> DEFINE having == {i \in DOMAIN rest : rest[i].name = name /\ Range(rest[i].members) \ {} # {}}
           last == {n \in DOMAIN rest : rest[n].name = name /\ \A j \in DOMAIN rest : j > n => rest[j].name # name}
<1>4. last = {j \in having : \A k \in having : k <= j}
  <2>1. ASSUME NEW n \in DOMAIN rest PROVE n \in having <=> rest[n].name = name
    BY <1>1
  <2>2. having \subseteq DOMAIN rest
    OBVIOUS
  <2> HIDE DEF having
  <2> QED BY <1>3, <2>1, <2>2
<1>5. ListedIn(rest, {}, name) = UNION {Range(rest[i].members) \ {} : i \in {j \in having : \A k \in having : k <= j}}
  BY DEF ListedIn
<1>6. ListedLast(rest, name) = UNION {Range(rest[i].members) : i \in last}
  BY DEF ListedLast
<1>7. \A i \in last : Range(rest[i].members) \ {} = Range(rest[i].members)
  OBVIOUS
<1> HIDE DEF last, having
<1> QED BY <1>2, <1>4, <1>5, <1>6, <1>7 DEF rest

(* What a refresh takes from a text, and what the text holds.              *)
Texts == [nodes : Seq(ServedNodes), groups : Seq(ServedGroups)]
Usable(text) == {n \in Range(text.nodes) : ~n.fault /\ n.name # "info"}
Unlisted(text) == {n.name : n \in {x \in Range(text.nodes) : x.fault}} \cup {"info"} \cup {"DIRECT"}
Served(n) == \E file \in Files : \E m \in Range(file.nodes) : n.name = m.name /\ n.key = m.key
Understood(body, text) ==
    text # NoText => /\ Range(body.nodes) = Usable(text)
                     /\ \A name : ListedLast(body.groups, name) = ListedIn(text.groups, Unlisted(text), name)

(* UsableContent keeps the usable nodes and what the groups list besides the rest.*)
LEMMA UsableIsLeft ==
  ASSUME NEW parsed \in Texts
  PROVE  /\ UsableContent(parsed) \in Texts
         /\ Range(UsableContent(parsed).nodes) = Usable(parsed)
         /\ \A name : ListedLast(UsableContent(parsed).groups, name)
                        = ListedIn(parsed.groups, {n.name : n \in {x \in Range(parsed.nodes) : Faulty(x)}} \cup InfoNames, name)
<1> DEFINE nodes_ == parsed.nodes
           places == {i \in DOMAIN nodes_ : ~Faulty(nodes_[i])}
           excluded == {n.name : n \in {x \in Range(parsed.nodes) : Faulty(x)}}
           body == UsableContent(parsed)
<1>1. parsed.nodes \in Seq(ServedNodes) /\ parsed.groups \in Seq(ServedGroups)
  BY DEF Texts
<1>2. /\ body = [nodes |-> body.nodes, groups |-> body.groups]
      /\ body.nodes = Placed(nodes_, places) /\ body.groups = Without(parsed.groups, excluded \cup InfoNames)
  BY DEF UsableContent, Where
<1>3. IsList(nodes_) /\ ToSet(nodes_) \subseteq ServedNodes
  BY <1>1, SequencesAreLists
<1>4. IsList(Placed(nodes_, places)) /\ ToSet(Placed(nodes_, places)) = {nodes_[i] : i \in places}
  <2> HIDE DEF nodes_
  <2> QED BY <1>3, PlacedLists
<1>5. {nodes_[i] : i \in places} = Usable(parsed)
  BY DEF Range, Usable, Faulty, InfoNames
<1>6. Range(body.nodes) = Usable(parsed)
  BY <1>2, <1>4, <1>5 DEF Range, ToSet
<1>7. body.nodes \in Seq(ServedNodes)
  <2>1. body.nodes \in Seq(ToSet(body.nodes))
    BY <1>2, <1>4 DEF IsList
  <2>2. ToSet(body.nodes) \subseteq ServedNodes
    <3>1. \A i \in DOMAIN nodes_ : nodes_[i] \in ToSet(nodes_)
      BY DEF ToSet
    <3> HIDE DEF nodes_, body
    <3> QED BY <1>2, <1>3, <1>4, <3>1
  <2> HIDE DEF body
  <2> QED BY <2>1, <2>2
<1>8. body.groups \in Seq(ServedGroups)
  BY <1>1, <1>2, WithoutKeepsOrder
<1>9. \A name : ListedLast(body.groups, name) = ListedIn(parsed.groups, excluded \cup InfoNames, name)
  <2> HIDE DEF excluded, body
  <2> QED BY <1>1, <1>2, LastIsListed
<1>10. body \in Texts
  <2> HIDE DEF body
  <2> QED BY <1>2, <1>7, <1>8 DEF Texts
<1> QED BY <1>6, <1>9, <1>10

(* Whatever the shape, a text is found out and read, or refused.           *)
LEMMA ShapesAreFound ==
  ASSUME NEW text, text.shape \in Shapes \ {"clash json"}, text.nodes # <<>>
  PROVE  text.shape \in FoundBy(DetectFormat(text))
<1>1. CASE text.shape = "clash"
  BY <1>1 DEF DetectFormat, FoundBy
<1>2. CASE text.shape \in {"ini", "server_local"}
  BY <1>2 DEF DetectFormat, FoundBy
<1>3. CASE text.shape = "singbox"
  BY <1>3 DEF DetectFormat, FoundBy
<1>4. CASE text.shape = "links"
  BY <1>4 DEF DetectFormat, FoundBy
<1>5. CASE text.shape = "base64"
  BY <1>5 DEF DetectFormat, FoundBy
<1> QED BY <1>1, <1>2, <1>3, <1>4, <1>5 DEF Shapes

(* What arrives for a refresh is what the text holds for a reader.         *)
LEMMA ArrivalsAreUnderstood ==
  ASSUME NEW arrival \in Arrivals
  PROVE  /\ arrival.body \in Texts /\ arrival.text \in Texts /\ arrival.detects \in BOOLEAN
         /\ \A n \in Range(arrival.body.nodes) : Served(n)
         /\ Understood(arrival.body, arrival.text)
<1>1. PICK file \in Files, shape \in Shapes, format \in SourceFormats \cup {"auto"} :
        arrival = Arrival(file, shape, format)
  BY DEF Arrivals
<1> DEFINE text == TextOf(file, shape)
           parsed == Parse(text, format)
           body == UsableContent(parsed)
           detects == format = "auto" /\ shape # "clash json"
           reader == IF format = "auto" THEN DetectFormat(text) ELSE format
           found == text.shape \in FoundBy(reader)
           whole == [nodes |-> text.nodes, groups |-> text.groups]
<1>2. /\ arrival.body = body /\ arrival.detects = detects
      /\ arrival.text = IF detects \/ body.nodes # <<>> THEN whole ELSE NoText
  BY <1>1 DEF Arrival
<1>3. /\ text.shape = shape /\ text.nodes = file.nodes /\ text.nodes \in Seq(ServedNodes)
      /\ text.groups \in Seq(ServedGroups) /\ (shape \notin Grouped => text.groups = <<>>)
  <2>1. file.nodes \in Seq(ServedNodes) /\ file.groups \in Seq(ServedGroups)
    BY SourceGroupsAssumption DEF ServedNodes, ServedGroups
  <2> QED BY <2>1 DEF TextOf
<1>4. /\ parsed = [nodes |-> parsed.nodes, groups |-> parsed.groups]
      /\ parsed.nodes = IF found THEN text.nodes ELSE <<>>
      /\ parsed.groups = IF found /\ shape \in Grouped THEN Without(text.groups, {"DIRECT"}) ELSE <<>>
  BY <1>3 DEF Parse, ParseGroups
<1> HIDE DEF text, found
<1>5. parsed \in Texts
  <2>1. Without(text.groups, {"DIRECT"}) \in Seq(ServedGroups)
    BY <1>3, WithoutKeepsOrder
  <2>2. parsed.nodes \in Seq(ServedNodes) /\ parsed.groups \in Seq(ServedGroups)
    BY <1>3, <1>4, <2>1
  <2> HIDE DEF parsed
  <2> QED BY <1>4, <2>2 DEF Texts
<1> HIDE DEF parsed
<1>6. /\ body \in Texts /\ Range(body.nodes) = Usable(parsed)
      /\ \A name : ListedLast(body.groups, name)
                     = ListedIn(parsed.groups, {n.name : n \in {x \in Range(parsed.nodes) : Faulty(x)}} \cup InfoNames, name)
  BY <1>5, UsableIsLeft
<1> HIDE DEF body
<1>7. whole \in Texts /\ NoText \in Texts
  BY <1>3 DEF Texts, NoText
<1>8. \A n \in Range(body.nodes) : Served(n)
  <2> SUFFICES ASSUME NEW n \in Usable(parsed) PROVE Served(n)
    BY <1>6
  <2>1. n \in Range(parsed.nodes)
    BY DEF Usable
  <2>2. n \in Range(file.nodes)
    BY <1>3, <1>4, <2>1 DEF Range
  <2> QED BY <2>2 DEF Served
<1>9. ASSUME arrival.text # NoText PROVE parsed.nodes = text.nodes /\ (found \/ text.groups = <<>>) /\ arrival.text = whole
  <2>1. (detects \/ body.nodes # <<>>) /\ arrival.text = whole
    BY <1>2, <1>9
  <2>2. CASE found
    BY <1>4, <2>1, <2>2
  <2>3. CASE ~found /\ detects
    <3>1. reader = DetectFormat(text) /\ shape \in Shapes \ {"clash json"}
      BY <2>3
    <3>2. text.nodes = <<>>
      BY <1>3, <2>3, <3>1, ShapesAreFound DEF found
    <3>3. shape = "base64"
      <4>1. shape \in {"clash", "ini", "server_local", "singbox", "links"} => text.shape \in FoundBy(DetectFormat(text))
        BY <1>3 DEF DetectFormat, FoundBy
      <4> QED BY <2>3, <3>1, <4>1 DEF found, Shapes
    <3>4. text.groups = <<>>
      BY <1>3, <3>3 DEF Grouped
    <3> HIDE DEF whole, detects
    <3> QED BY <1>4, <2>1, <2>3, <3>2, <3>4
  <2>4. CASE ~found /\ ~detects
    <3>0. parsed.nodes = <<>>
      BY <1>4, <2>4
    <3>1. Range(parsed.nodes) = {}
      BY <3>0 DEF Range
    <3>2. Range(body.nodes) = {}
      BY <1>6, <3>1 DEF Usable
    <3>3. body.nodes = <<>>
      <4>1. body.nodes \in Seq(ServedNodes)
        BY <1>6 DEF Texts
      <4> DEFINE list == body.nodes
      <4>2. list # <<>> => 1 \in DOMAIN list
        <5> HIDE DEF list
        <5> QED BY <4>1 DEF list
      <4> QED BY <3>2, <4>2 DEF Range
    <3> QED BY <2>1, <2>4, <3>3
  <2> QED BY <2>2, <2>3, <2>4
<1>10. ASSUME arrival.text # NoText PROVE Understood(body, arrival.text)
  <2>1. parsed.nodes = text.nodes /\ (found \/ text.groups = <<>>) /\ arrival.text = whole
    BY <1>9, <1>10
  <2>2. Range(body.nodes) = Usable(whole)
    BY <1>6, <2>1 DEF Usable
  <2> DEFINE excluded == {n.name : n \in {x \in Range(parsed.nodes) : Faulty(x)}} \cup InfoNames
  <2>3. {"DIRECT"} \cup excluded = Unlisted(whole) /\ Unlisted(whole) = {"DIRECT"} \cup excluded
    <3>1. Range(parsed.nodes) = Range(whole.nodes)
      BY <2>1
    <3>2. \A x : Faulty(x) <=> (x.name = "info" \/ x.fault)
      BY DEF Faulty, InfoNames
    <3>3. excluded = {n.name : n \in {x \in Range(whole.nodes) : x.fault}} \cup {"info"}
      BY <3>1, <3>2 DEF InfoNames
    <3> QED BY <3>3 DEF Unlisted
  <2>4. \A name : ListedIn(parsed.groups, excluded, name) = ListedIn(text.groups, {"DIRECT"} \cup excluded, name)
    <3> TAKE name
    <3>1. CASE parsed.groups = Without(text.groups, {"DIRECT"})
      <4> HIDE DEF excluded
      <4> QED BY <1>3, <3>1, ListedThrough
    <3>2. CASE parsed.groups = <<>> /\ text.groups = <<>>
      BY <3>2 DEF ListedIn
    <3> QED BY <1>3, <1>4, <2>1, <3>1, <3>2
  <2>5. \A name : ListedLast(body.groups, name) = ListedIn(whole.groups, Unlisted(whole), name)
    <3>1. whole.groups = text.groups
      OBVIOUS
    <3> HIDE DEF excluded
    <3>2. \A name : ListedLast(body.groups, name) = ListedIn(parsed.groups, excluded, name)
      BY <1>6 DEF excluded
    <3> QED BY <2>3, <2>4, <3>1, <3>2
  <2> QED BY <2>1, <2>2, <2>5 DEF Understood
<1>11. detects \in BOOLEAN
  OBVIOUS
<1> QED BY <1>2, <1>6, <1>7, <1>8, <1>10, <1>11 DEF Understood

-----------------------------------------------------------------------------
(* The invariant: rows and members are what some text served; a refresh    *)
(* that is alone knows its text and finds the rows as it left them.        *)
GroupRow == [id : RowNumbers, name : STRING, key : Nat, enabled : BOOLEAN]
GroupColumns == [id : RowNumbers, name : STRING, key : Nat]
NamedIds == [id : RowNumbers, name : STRING]
ColumnsOf(rs) == {[id |-> r.id, name |-> r.name, key |-> r.key] : r \in rs}
Lists == UNION {[S -> SUBSET RowNumbers] : S \in SUBSET DOMAIN Follows}
RefreshRecord == [at : {"idle", "diff", "apply", "pools", "ids", "write"}, text : Texts, detects : BOOLEAN,
                  body : Texts, seen : SUBSET GroupColumns, held : Lists, found : SUBSET NamedIds,
                  alone : BOOLEAN]

MembersOK ==
    /\ members = [p \in DOMAIN members |-> members[p]] /\ DOMAIN members \subseteq DOMAIN Follows
    /\ \A p \in DOMAIN members : members[p] \subseteq RowNumbers
GroupRowsOK == groupRows \subseteq GroupRow /\ Keyed(groupRows) /\ \A r \in groupRows : Served(r)
CallOK(n) == n \in RefreshRecord /\ \A m \in Range(n.body.nodes) : Served(m)
CallsOK == refreshes = [c \in RefreshCalls |-> refreshes[c]] /\ \A c \in RefreshCalls : CallOK(refreshes[c])

KeysFit(rs, text) ==
    /\ {r.key : r \in rs} \subseteq {n.key : n \in Usable(text)}
    /\ KeepsNames => {n.key : n \in Usable(text)} \subseteq {r.key : r \in rs}
Settled(n, rs) ==
    n.text # NoText => /\ Usable(n.text) # {} /\ KeysFit(rs, n.text)
                       /\ \A name : ListedLast(n.body.groups, name) = ListedIn(n.text.groups, Unlisted(n.text), name)
GoesAlone(n, rs) ==
    /\ n.at \in {"diff", "apply"} => Understood(n.body, n.text)
    /\ n.at = "apply" => n.body.nodes # <<>> /\ n.seen = ColumnsOf(rs)
    /\ n.at \in {"pools", "ids", "write"} => Settled(n, rs)
    /\ n.at = "write" => \E byName \in IdsByName(rs) : n.found = Range(byName)
LoneOK == \A c \in RefreshCalls : refreshes[c].alone =>
    /\ \A d \in RefreshCalls \ {c} : refreshes[d].at = "idle"
    /\ GoesAlone(refreshes[c], groupRows)
    /\ refreshes[c].at \in {"ids", "write"} => refreshes[c].held = members

Named(rs, names) == {r \in rs : r.name \in names /\ r.enabled}
HasThem(ids, rs, listed) ==
    /\ ids \subseteq {r.id : r \in Named(rs, listed)}
    /\ \A name \in listed : Named(rs, {name}) # {} =>
         Cardinality(ids \cap {r.id : r \in Named(rs, {name})}) = 1
Reported(read, rs, mem) ==
    /\ read.detects => (read.refused <=> Usable(read.text) = {})
    /\ ~read.refused =>
         /\ KeysFit(rs, read.text)
         /\ \A p \in DOMAIN mem : HasThem(mem[p], rs, ListedIn(read.text.groups, Unlisted(read.text), Follows[p]))
ReadingOK == reading.text # NoText => /\ \A c \in RefreshCalls : refreshes[c].at = "idle"
                                      /\ Reported(reading, groupRows, members)

GroupInv == MembersOK /\ GroupRowsOK /\ CallsOK /\ groupSteps \in 0..MaxGroupSteps /\ LoneOK /\ ReadingOK

(* A refresh that is idle is well typed and not alone.                     *)
LEMMA IdleIsCall == CallOK(IdleRefresh) /\ ~IdleRefresh.alone /\ NoText \in Texts
<1>1. NoText \in Texts
  BY DEF NoText, Texts
<1>2. NoHeld \in Lists
  <2>1. NoHeld \in [{} -> SUBSET RowNumbers]
    BY DEF NoHeld
  <2> QED BY <2>1 DEF Lists
<1> QED BY <1>1, <1>2 DEF CallOK, IdleRefresh, RefreshRecord, NoText, Range

(* GroupInit establishes the invariant.                                    *)
LEMMA GroupsBegin == ASSUME GroupInit PROVE GroupInv
<1>1. MembersOK
  BY DEF GroupInit, MembersOK
<1>2. GroupRowsOK
  BY DEF GroupInit, GroupRowsOK, Keyed
<1>3. CallsOK
  BY IdleIsCall DEF GroupInit, CallsOK
<1>4. LoneOK /\ ReadingOK
  BY IdleIsCall DEF GroupInit, LoneOK, ReadingOK, Unfinished
<1> QED BY <1>1, <1>2, <1>3, <1>4, SourceGroupsAssumption DEF GroupInv, GroupInit

(* One refresh moves: no other is alone, and nothing is reported yet.      *)
LEMMA OneMoves ==
  ASSUME GroupInv, NEW c \in RefreshCalls, refreshes[c].at # "idle"
  PROVE  /\ \A d \in RefreshCalls \ {c} : ~refreshes[d].alone
         /\ reading.text = NoText
         /\ refreshes[c].alone => \A d \in RefreshCalls \ {c} : refreshes[d].at = "idle"
BY DEF GroupInv, LoneOK, ReadingOK

(* A step of one refresh keeps the invariant if its record stays sound.    *)
LEMMA RefreshMoves ==
  ASSUME GroupInv, NEW c \in RefreshCalls, refreshes[c].at # "idle", NEW n, CallOK(n), RefreshGoes(c, n),
         n.alone => refreshes[c].alone /\ GoesAlone(n, groupRows'),
         n.alone /\ n.at \in {"ids", "write"} => n.held = members',
         MembersOK', GroupRowsOK', UNCHANGED <<groupSteps, reading>>
  PROVE  GroupInv'
<1>1. /\ refreshes' = [refreshes EXCEPT ![c] = n] /\ refreshes = [d \in RefreshCalls |-> refreshes[d]]
      /\ \A d \in RefreshCalls : CallOK(refreshes[d])
  BY DEF RefreshGoes, GroupInv, CallsOK
<1>2. refreshes'[c] = n /\ \A d \in RefreshCalls \ {c} : refreshes'[d] = refreshes[d]
  BY <1>1
<1>3. CallsOK'
  <2>1. refreshes' = [d \in RefreshCalls |-> refreshes'[d]]
    BY <1>1
  <2> QED BY <1>1, <1>2, <2>1 DEF CallsOK
<1>4. LoneOK'
  <2>1. \A d \in RefreshCalls \ {c} : ~refreshes'[d].alone
    BY <1>2, OneMoves
  <2>2. refreshes'[c].alone => /\ \A d \in RefreshCalls \ {c} : refreshes'[d].at = "idle"
                               /\ GoesAlone(refreshes'[c], groupRows')
                               /\ refreshes'[c].at \in {"ids", "write"} => refreshes'[c].held = members'
    BY <1>2, OneMoves
  <2> QED BY <2>1, <2>2 DEF LoneOK
<1>5. ReadingOK'
  BY OneMoves DEF ReadingOK
<1> QED BY <1>3, <1>4, <1>5 DEF GroupInv

(* A refresh that ends keeps the invariant if its report is true.          *)
LEMMA RefreshStops ==
  ASSUME GroupInv, NEW c \in RefreshCalls, refreshes[c].at # "idle", RefreshGoes(c, IdleRefresh),
         UNCHANGED <<groupRows, groupSteps>>, MembersOK',
         \/ reading' = Unfinished
         \/ refreshes[c].alone /\ (reading'.text # NoText => Reported(reading', groupRows, members'))
  PROVE  GroupInv'
<1>1. /\ refreshes' = [refreshes EXCEPT ![c] = IdleRefresh] /\ refreshes = [d \in RefreshCalls |-> refreshes[d]]
      /\ \A d \in RefreshCalls : CallOK(refreshes[d])
  BY DEF RefreshGoes, GroupInv, CallsOK
<1>2. refreshes'[c] = IdleRefresh /\ \A d \in RefreshCalls \ {c} : refreshes'[d] = refreshes[d]
  BY <1>1
<1>3. CallsOK'
  <2>1. refreshes' = [d \in RefreshCalls |-> refreshes'[d]]
    BY <1>1
  <2> QED BY <1>1, <1>2, <2>1, IdleIsCall DEF CallsOK
<1>4. LoneOK'
  BY <1>2, OneMoves, IdleIsCall DEF LoneOK
<1>5. ReadingOK'
  <2>1. CASE reading' = Unfinished
    BY <2>1 DEF ReadingOK, Unfinished
  <2>2. CASE refreshes[c].alone /\ (reading'.text # NoText => Reported(reading', groupRows, members'))
    <3>1. \A d \in RefreshCalls : refreshes'[d].at = "idle"
      BY <1>2, <2>2, OneMoves DEF IdleRefresh
    <3> QED BY <2>2, <3>1 DEF ReadingOK
  <2> QED BY <2>1, <2>2
<1>6. GroupRowsOK'
  BY DEF GroupInv, GroupRowsOK
<1> QED BY <1>3, <1>4, <1>5, <1>6 DEF GroupInv

(* Nobody is alone any more.                                               *)
LEMMA MetIsCall ==
  ASSUME NEW n, CallOK(n)
  PROVE  CallOK(Met(n)) /\ ~Met(n).alone /\ Met(n).at = n.at
<1>1. n \in RefreshRecord /\ \A m \in Range(n.body.nodes) : Served(m)
  BY DEF CallOK
<1>2. Met(n) \in RefreshRecord /\ Met(n).body = n.body /\ Met(n).alone = FALSE /\ Met(n).at = n.at
  BY <1>1, IdleIsCall DEF Met, RefreshRecord
<1> QED BY <1>1, <1>2 DEF CallOK

(* A refresh begins, alone or disturbing the others.                       *)
LEMMA FetchGroups ==
  ASSUME GroupInv, NEW c \in RefreshCalls, FetchText(c)
  PROVE  GroupInv'
<1>1. PICK arrival \in Arrivals :
        LET begun == [IdleRefresh EXCEPT !.at = "diff", !.alone = TRUE, !.body = arrival.body,
                                         !.detects = arrival.detects, !.text = arrival.text]
        IN  refreshes' = [Disturbed EXCEPT ![c] =
              IF \A d \in RefreshCalls : refreshes[d].at = "idle" THEN begun ELSE Met(begun)]
  BY DEF FetchText
<1> DEFINE begun == [IdleRefresh EXCEPT !.at = "diff", !.alone = TRUE, !.body = arrival.body,
                                        !.detects = arrival.detects, !.text = arrival.text]
<1>2. /\ begun \in RefreshRecord /\ begun.body = arrival.body /\ begun.text = arrival.text
      /\ begun.at = "diff"
  <2>1. NoHeld \in Lists
    BY IdleIsCall DEF CallOK, IdleRefresh, RefreshRecord
  <2> QED BY <2>1, ArrivalsAreUnderstood DEF IdleRefresh, RefreshRecord
<1>3. CallOK(begun) /\ Understood(begun.body, begun.text)
  <2> HIDE DEF begun
  <2> QED BY <1>2, ArrivalsAreUnderstood DEF CallOK
<1> HIDE DEF begun
<1>4. /\ \A d \in RefreshCalls : CallOK(refreshes[d])
      /\ Disturbed = [d \in RefreshCalls |-> Met(refreshes[d])]
  BY DEF GroupInv, CallsOK, Disturbed
<1>5. /\ refreshes'[c] = IF \A d \in RefreshCalls : refreshes[d].at = "idle" THEN begun ELSE Met(begun)
      /\ \A d \in RefreshCalls \ {c} : refreshes'[d] = Met(refreshes[d])
      /\ refreshes' = [d \in RefreshCalls |-> refreshes'[d]]
  BY <1>1, <1>4 DEF begun
<1>6. CallsOK'
  <2>1. \A d \in RefreshCalls : CallOK(refreshes'[d])
    BY <1>3, <1>4, <1>5, MetIsCall
  <2> QED BY <1>5, <2>1 DEF CallsOK
<1>7. LoneOK'
  <2>1. \A d \in RefreshCalls \ {c} : ~refreshes'[d].alone /\ refreshes'[d].at = refreshes[d].at
    BY <1>4, <1>5, MetIsCall
  <2>2. CASE \A d \in RefreshCalls : refreshes[d].at = "idle"
    <3>1. GoesAlone(begun, groupRows')
      BY <1>2, <1>3 DEF GoesAlone
    <3> QED BY <1>2, <1>5, <2>1, <2>2, <3>1 DEF LoneOK
  <2>3. CASE ~\A d \in RefreshCalls : refreshes[d].at = "idle"
    <3>1. ~refreshes'[c].alone
      BY <1>3, <1>5, <2>3, MetIsCall
    <3> QED BY <2>1, <3>1 DEF LoneOK
  <2> QED BY <2>2, <2>3
<1>8. MembersOK' /\ GroupRowsOK' /\ ReadingOK' /\ groupSteps' \in 0..MaxGroupSteps
  <2>1. UNCHANGED <<members, groupRows>> /\ reading' = Unfinished /\ groupSteps < MaxGroupSteps /\ groupSteps' = groupSteps + 1
    BY DEF FetchText
  <2>2. MembersOK' /\ GroupRowsOK'
    BY <2>1 DEF GroupInv, MembersOK, GroupRowsOK
  <2>3. groupSteps' \in 0..MaxGroupSteps
    BY <2>1, SourceGroupsAssumption DEF GroupInv
  <2> QED BY <2>1, <2>2, <2>3 DEF ReadingOK, Unfinished
<1> QED BY <1>6, <1>7, <1>8 DEF GroupInv

(* The operator switches a node, or edits or deletes a node group.         *)
LEMMA EditsGroups == ASSUME GroupInv, EditGroups PROVE GroupInv'
<1>1. /\ refreshes' = [d \in RefreshCalls |-> Met(refreshes[d])] /\ reading' = Unfinished
      /\ groupSteps < MaxGroupSteps /\ groupSteps' = groupSteps + 1
  BY DEF EditGroups, Disturbed
<1>2. CallsOK' /\ LoneOK' /\ ReadingOK'
  <2>1. \A d \in RefreshCalls : refreshes'[d] = Met(refreshes[d]) /\ CallOK(refreshes[d])
    BY <1>1 DEF GroupInv, CallsOK
  <2>2. \A d \in RefreshCalls : CallOK(refreshes'[d]) /\ ~refreshes'[d].alone
    BY <2>1, MetIsCall
  <2>3. refreshes' = [d \in RefreshCalls |-> refreshes'[d]]
    BY <1>1
  <2> QED BY <1>1, <2>2, <2>3 DEF CallsOK, LoneOK, ReadingOK, Unfinished
<1>3. groupSteps' \in 0..MaxGroupSteps
  BY <1>1, SourceGroupsAssumption DEF GroupInv
<1>4. MembersOK' /\ GroupRowsOK'
  <2>0. MembersOK /\ GroupRowsOK
    BY DEF GroupInv
  <2>1. CASE (\E r \in groupRows : groupRows' = (groupRows \ {r}) \cup {[r EXCEPT !.enabled = ~@]}) /\ UNCHANGED members
    <3>1. PICK r \in groupRows : groupRows' = (groupRows \ {r}) \cup {[r EXCEPT !.enabled = ~@]}
      BY <2>1
    <3> DEFINE switched == [r EXCEPT !.enabled = ~@]
    <3>2. /\ switched \in GroupRow /\ switched.id = r.id
          /\ switched.name = r.name /\ switched.key = r.key
      BY <2>0 DEF GroupRowsOK, GroupRow
    <3> HIDE DEF switched
    <3>3. groupRows' = (groupRows \ {r}) \cup {switched}
      BY <3>1 DEF switched
    <3>4. groupRows' \subseteq GroupRow /\ Keyed(groupRows') /\ \A q \in groupRows' : Served(q)
      BY <2>0, <3>2, <3>3 DEF GroupRowsOK, Keyed, Served
    <3> QED BY <2>0, <2>1, <3>4 DEF GroupRowsOK, MembersOK, Keyed
  <2>2. CASE \E p \in DOMAIN members, r \in groupRows : members' = [members EXCEPT ![p] = {r.id}] /\ UNCHANGED groupRows
    <3>1. PICK p \in DOMAIN members, r \in groupRows : members' = [members EXCEPT ![p] = {r.id}] /\ UNCHANGED groupRows
      BY <2>2
    <3>2. r.id \in RowNumbers
      BY <2>0 DEF GroupRowsOK, GroupRow
    <3>3. DOMAIN members' = DOMAIN members /\ \A q \in DOMAIN members : members'[q] = IF q = p THEN {r.id} ELSE members[q]
      BY <2>0, <3>1 DEF MembersOK
    <3>4. members' = [q \in DOMAIN members' |-> members'[q]]
      BY <3>1
    <3> QED BY <2>0, <3>1, <3>2, <3>3, <3>4 DEF MembersOK, GroupRowsOK
  <2>3. CASE \E p \in DOMAIN members : members' = [q \in DOMAIN members \ {p} |-> members[q]] /\ UNCHANGED groupRows
    BY <2>0, <2>3 DEF MembersOK, GroupRowsOK
  <2> QED BY <2>1, <2>2, <2>3 DEF EditGroups
<1> QED BY <1>2, <1>3, <1>4 DEF GroupInv

(* A refresh is cut off.                                                   *)
LEMMA CutsRefresh ==
  ASSUME GroupInv, NEW c \in RefreshCalls, CutOffRefresh(c)
  PROVE  GroupInv'
<1>1. /\ refreshes[c].at # "idle" /\ RefreshGoes(c, IdleRefresh) /\ reading' = Unfinished
      /\ UNCHANGED <<members, groupRows, groupSteps>>
  BY DEF CutOffRefresh, groupStore
<1>2. MembersOK'
  BY <1>1 DEF GroupInv, MembersOK
<1> QED BY <1>1, <1>2, RefreshStops

(* A refresh refuses its text, or reads the rows.                          *)
LEMMA ReadsSource ==
  ASSUME GroupInv, NEW c \in RefreshCalls, ReadSourceRows(c)
  PROVE  GroupInv'
<1>1. /\ refreshes[c].at = "diff" /\ UNCHANGED <<members, groupRows, groupSteps>>
      /\ CallOK(refreshes[c]) /\ refreshes[c] \in RefreshRecord
  BY DEF ReadSourceRows, groupStore, GroupInv, CallsOK, CallOK
<1>2. MembersOK' /\ GroupRowsOK'
  BY <1>1 DEF GroupInv, MembersOK, GroupRowsOK
<1>3. refreshes[c].alone => Understood(refreshes[c].body, refreshes[c].text)
  BY <1>1 DEF GroupInv, LoneOK, GoesAlone
<1>4. CASE refreshes[c].body.nodes = <<>>
  <2>1. RefreshEnds(c, TRUE)
    BY <1>4 DEF ReadSourceRows
  <2>2. /\ RefreshGoes(c, IdleRefresh)
        /\ reading' = IF refreshes[c].alone THEN [text |-> refreshes[c].text, detects |-> refreshes[c].detects, refused |-> TRUE]
                      ELSE Unfinished
    BY <2>1 DEF RefreshEnds
  <2>3. ASSUME refreshes[c].alone, reading'.text # NoText PROVE Reported(reading', groupRows, members')
    <3>1. /\ reading'.text = refreshes[c].text /\ reading'.refused = TRUE
      BY <2>2, <2>3
    <3>2. Range(refreshes[c].body.nodes) = Usable(reading'.text)
      BY <1>3, <2>3, <3>1 DEF Understood
    <3>3. Usable(reading'.text) = {}
      BY <1>4, <3>2 DEF Range
    <3> QED BY <3>1, <3>3 DEF Reported
  <2> QED BY <1>1, <1>2, <2>2, <2>3, RefreshStops
<1>5. CASE refreshes[c].body.nodes # <<>>
  <2> DEFINE n == [refreshes[c] EXCEPT !.at = "apply", !.seen = ColumnsOf(groupRows)]
  <2>1. RefreshGoes(c, n) /\ UNCHANGED reading
    BY <1>5 DEF ReadSourceRows, ColumnsOf
  <2>2. ColumnsOf(groupRows) \subseteq GroupColumns
    BY DEF ColumnsOf, GroupInv, GroupRowsOK, GroupRow, GroupColumns
  <2>3. /\ n \in RefreshRecord /\ n.body = refreshes[c].body /\ n.text = refreshes[c].text /\ n.at = "apply"
        /\ n.seen = ColumnsOf(groupRows) /\ n.alone = refreshes[c].alone
    BY <1>1, <2>2 DEF RefreshRecord
  <2> HIDE DEF n
  <2>4. CallOK(n)
    BY <1>1, <2>3 DEF CallOK
  <2>5. n.alone => refreshes[c].alone /\ GoesAlone(n, groupRows')
    BY <1>1, <1>3, <1>5, <2>3 DEF GoesAlone
  <2> QED BY <1>1, <1>2, <2>1, <2>3, <2>4, <2>5, RefreshMoves
<1> QED BY <1>4, <1>5

(* A refresh reads the node groups, and ends if there is none.             *)
LEMMA ReadsFollowers ==
  ASSUME GroupInv, NEW c \in RefreshCalls, ReadFollowers(c)
  PROVE  GroupInv'
<1>1. /\ refreshes[c].at = "pools" /\ UNCHANGED <<members, groupRows, groupSteps>>
      /\ CallOK(refreshes[c]) /\ refreshes[c] \in RefreshRecord
  BY DEF ReadFollowers, groupStore, GroupInv, CallsOK, CallOK
<1>2. MembersOK' /\ GroupRowsOK'
  BY <1>1 DEF GroupInv, MembersOK, GroupRowsOK
<1>3. refreshes[c].alone => Settled(refreshes[c], groupRows)
  BY <1>1 DEF GroupInv, LoneOK, GoesAlone
<1>4. CASE DOMAIN members = {}
  <2>1. RefreshEnds(c, FALSE)
    BY <1>4 DEF ReadFollowers
  <2>2. /\ RefreshGoes(c, IdleRefresh)
        /\ reading' = IF refreshes[c].alone THEN [text |-> refreshes[c].text, detects |-> refreshes[c].detects, refused |-> FALSE]
                      ELSE Unfinished
    BY <2>1 DEF RefreshEnds
  <2>3. ASSUME refreshes[c].alone, reading'.text # NoText PROVE Reported(reading', groupRows, members')
    <3>1. reading'.text = refreshes[c].text /\ reading'.refused = FALSE
      BY <2>2, <2>3
    <3>2. Usable(reading'.text) # {} /\ KeysFit(groupRows, reading'.text)
      BY <1>3, <2>3, <3>1 DEF Settled
    <3>3. DOMAIN members' = {}
      BY <1>1, <1>4
    <3> QED BY <3>1, <3>2, <3>3 DEF Reported
  <2> QED BY <1>1, <1>2, <2>2, <2>3, RefreshStops
<1>5. CASE DOMAIN members # {}
  <2> DEFINE n == [refreshes[c] EXCEPT !.at = "ids", !.held = members]
  <2>1. RefreshGoes(c, n) /\ UNCHANGED reading
    BY <1>5 DEF ReadFollowers
  <2>5. members \in Lists
    BY DEF GroupInv, MembersOK, Lists
  <2>2. /\ n \in RefreshRecord /\ n.body = refreshes[c].body /\ n.text = refreshes[c].text /\ n.at = "ids"
        /\ n.alone = refreshes[c].alone /\ n.held = members
    BY <1>1, <2>5 DEF RefreshRecord
  <2> HIDE DEF n
  <2>3. CallOK(n)
    BY <1>1, <2>2 DEF CallOK
  <2>4. n.alone => refreshes[c].alone /\ GoesAlone(n, groupRows')
    BY <1>1, <1>3, <2>2 DEF GoesAlone, Settled
  <2>6. n.held = members'
    BY <1>1, <2>2
  <2> QED BY <1>1, <1>2, <2>1, <2>3, <2>4, <2>6, RefreshMoves
<1> QED BY <1>4, <1>5

(* One row that is on for each name, whichever the map keeps.              *)
LEMMA IdsAreOfRows ==
  ASSUME NEW rs \in SUBSET GroupRow, NEW byName \in IdsByName(rs)
  PROVE  /\ Range(byName) \subseteq NamedIds
         /\ \A x \in Range(byName) : \E r \in rs : r.enabled /\ x = [id |-> r.id, name |-> r.name]
         /\ \A x, y \in Range(byName) : x.name = y.name => x = y
         /\ \A r \in rs : r.enabled => \E x \in Range(byName) : x.name = r.name
<1> DEFINE on == {r \in rs : r.enabled}
<1>1. /\ byName \in [{r.name : r \in on} -> {[id |-> r.id, name |-> r.name] : r \in on}]
      /\ \A name \in DOMAIN byName : byName[name].name = name
  BY DEF IdsByName
<1>2. \A x \in Range(byName) : \E name \in DOMAIN byName : x = byName[name]
  BY DEF Range
<1>3. \A x \in Range(byName) : \E r \in on : x = [id |-> r.id, name |-> r.name]
  BY <1>1, <1>2
<1>4. Range(byName) \subseteq NamedIds
  BY <1>3 DEF NamedIds, GroupRow
<1>5. \A x, y \in Range(byName) : x.name = y.name => x = y
  BY <1>1, <1>2
<1>6. ASSUME NEW r \in rs, r.enabled PROVE \E x \in Range(byName) : x.name = r.name
  <2>1. r.name \in DOMAIN byName
    BY <1>1, <1>6
  <2> QED BY <1>1, <2>1 DEF Range
<1> QED BY <1>3, <1>4, <1>5, <1>6

(* A refresh looks up the ids by name.                                     *)
LEMMA ReadsIds ==
  ASSUME GroupInv, NEW c \in RefreshCalls, ReadIds(c)
  PROVE  GroupInv'
<1>1. /\ refreshes[c].at = "ids" /\ UNCHANGED <<members, groupRows, groupSteps, reading>>
      /\ CallOK(refreshes[c]) /\ refreshes[c] \in RefreshRecord
  BY DEF ReadIds, groupStore, GroupInv, CallsOK, CallOK
<1>2. MembersOK' /\ GroupRowsOK'
  BY <1>1 DEF GroupInv, MembersOK, GroupRowsOK
<1>3. refreshes[c].alone => Settled(refreshes[c], groupRows)
  BY <1>1 DEF GroupInv, LoneOK, GoesAlone
<1>4. PICK byName \in IdsByName(groupRows) :
        RefreshGoes(c, [refreshes[c] EXCEPT !.at = "write", !.found = Range(byName)])
  BY DEF ReadIds
<1> DEFINE n == [refreshes[c] EXCEPT !.at = "write", !.found = Range(byName)]
<1>5. Range(byName) \subseteq NamedIds
  BY IdsAreOfRows DEF GroupInv, GroupRowsOK
<1>6. /\ n \in RefreshRecord /\ n.body = refreshes[c].body /\ n.text = refreshes[c].text /\ n.at = "write"
      /\ n.alone = refreshes[c].alone /\ n.found = Range(byName) /\ n.held = refreshes[c].held
  BY <1>1, <1>5 DEF RefreshRecord
<1>7. RefreshGoes(c, n)
  BY <1>4
<1> HIDE DEF n
<1>8. CallOK(n)
  BY <1>1, <1>6 DEF CallOK
<1>9. n.alone => refreshes[c].alone /\ GoesAlone(n, groupRows')
  BY <1>1, <1>3, <1>6 DEF GoesAlone, Settled
<1>10. n.alone => n.held = members'
  BY <1>1, <1>6 DEF GroupInv, LoneOK
<1> QED BY <1>1, <1>2, <1>7, <1>8, <1>9, <1>10, RefreshMoves

(* The rows found by name are those that are on, one for each name.        *)
LEMMA FoundAreThere ==
  ASSUME NEW rs \in SUBSET GroupRow, Keyed(rs), NEW byName \in IdsByName(rs), NEW listed
  PROVE  HasThem({r.id : r \in {x \in Range(byName) : x.name \in listed}}, rs, listed)
<1> DEFINE found == Range(byName)
           ids == {r.id : r \in {x \in found : x.name \in listed}}
<1>1. /\ \A x \in found : \E r \in rs : r.enabled /\ x = [id |-> r.id, name |-> r.name]
      /\ \A x, y \in found : x.name = y.name => x = y
      /\ \A r \in rs : r.enabled => \E x \in found : x.name = r.name
  BY IdsAreOfRows
<1> HIDE DEF found
<1>2. ids \subseteq {r.id : r \in Named(rs, listed)}
  BY <1>1 DEF Named
<1>3. ASSUME NEW name \in listed, Named(rs, {name}) # {}
      PROVE  Cardinality(ids \cap {r.id : r \in Named(rs, {name})}) = 1
  <2>1. PICK x \in found : x.name = name
    BY <1>1, <1>3 DEF Named
  <2>2. PICK r \in rs : r.enabled /\ x = [id |-> r.id, name |-> r.name]
    BY <1>1, <2>1
  <2>3. x.id \in ids /\ x.id \in {q.id : q \in Named(rs, {name})}
    BY <2>1, <2>2 DEF Named
  <2>4. ASSUME NEW i \in ids, i \in {q.id : q \in Named(rs, {name})} PROVE i = x.id
    <3>1. PICK y \in found : y.name \in listed /\ i = y.id
      BY <2>4
    <3>2. PICK q \in rs : q.name = name /\ i = q.id
      BY <2>4 DEF Named
    <3>3. PICK o \in rs : y = [id |-> o.id, name |-> o.name]
      BY <1>1, <3>1
    <3>4. o = q
      BY <3>1, <3>2, <3>3 DEF Keyed
    <3>5. y = x
      BY <1>1, <2>1, <3>1, <3>2, <3>3, <3>4
    <3> QED BY <3>1, <3>5
  <2> HIDE DEF ids
  <2>5. ids \cap {q.id : q \in Named(rs, {name})} = {x.id}
    BY <2>3, <2>4
  <2> QED BY <2>5, FS_Singleton
<1> QED BY <1>2, <1>3 DEF HasThem, found

(* A refresh stores the members of every node group.                       *)
LEMMA WritesFollowers ==
  ASSUME GroupInv, NEW c \in RefreshCalls, WriteFollowers(c)
  PROVE  GroupInv'
<1>1. /\ refreshes[c].at = "write" /\ UNCHANGED <<groupRows, groupSteps>>
      /\ RefreshEnds(c, FALSE)
      /\ CallOK(refreshes[c]) /\ refreshes[c] \in RefreshRecord
  BY DEF WriteFollowers, GroupInv, CallsOK, CallOK
<1> DEFINE next == [p \in DOMAIN members |-> MembersFor(Follows[p], refreshes[c])]
<1>9. PICK skipped \in SUBSET {p \in DOMAIN members : p \in DOMAIN refreshes[c].held
                                                     /\ refreshes[c].held[p] = next[p]} :
        members' = [p \in DOMAIN members |-> IF p \in skipped THEN members[p] ELSE next[p]]
  BY DEF WriteFollowers
<1>10. /\ DOMAIN members' = DOMAIN members
       /\ \A p \in DOMAIN members : members'[p] \in {members[p], MembersFor(Follows[p], refreshes[c])}
  BY <1>9
<1>11. ASSUME refreshes[c].alone, NEW p \in DOMAIN members
       PROVE  members'[p] = MembersFor(Follows[p], refreshes[c])
  <2>1. refreshes[c].held = members
    BY <1>1, <1>11 DEF GroupInv, LoneOK
  <2> QED BY <1>9, <1>11, <2>1
<1> HIDE DEF next
<1>2. ASSUME NEW name
      PROVE  MembersFor(name, refreshes[c])
               = {r.id : r \in {x \in refreshes[c].found : x.name \in ListedLast(refreshes[c].body.groups, name)}}
  <2> DEFINE groups == refreshes[c].body.groups
             last == {i \in DOMAIN groups : groups[i].name = name
                                              /\ \A j \in DOMAIN groups : j > i => groups[j].name # name}
  <2>1. \A x : x \in ListedLast(groups, name) <=> \E i \in last : x \in Range(groups[i].members)
    <3>1. ListedLast(groups, name) = UNION {Range(groups[i].members) : i \in last}
      BY DEF ListedLast
    <3> HIDE DEF last
    <3> QED BY <3>1
  <2>2. MembersFor(name, refreshes[c]) = {r.id : r \in {x \in refreshes[c].found : \E i \in last : x.name \in Range(groups[i].members)}}
    BY DEF MembersFor
  <2> HIDE DEF last, groups
  <2> QED BY <2>1, <2>2 DEF groups
<1>3. MembersOK'
  <2>1. \A p \in DOMAIN members : MembersFor(Follows[p], refreshes[c]) \subseteq RowNumbers
    BY <1>1, <1>2 DEF RefreshRecord, NamedIds
  <2>2. \A p \in DOMAIN members' : members'[p] \subseteq RowNumbers
    BY <1>10, <2>1 DEF GroupInv, MembersOK
  <2>3. members' = [p \in DOMAIN members' |-> members'[p]]
    BY <1>9
  <2> QED BY <1>10, <2>2, <2>3 DEF GroupInv, MembersOK
<1>4. refreshes[c].alone => /\ Settled(refreshes[c], groupRows)
                            /\ \E byName \in IdsByName(groupRows) : refreshes[c].found = Range(byName)
  BY <1>1 DEF GroupInv, LoneOK, GoesAlone
<1>5. /\ RefreshGoes(c, IdleRefresh)
      /\ reading' = IF refreshes[c].alone THEN [text |-> refreshes[c].text, detects |-> refreshes[c].detects, refused |-> FALSE]
                    ELSE Unfinished
  BY <1>1 DEF RefreshEnds
<1>6. ASSUME refreshes[c].alone, reading'.text # NoText PROVE Reported(reading', groupRows, members')
  <2>1. reading'.text = refreshes[c].text /\ reading'.refused = FALSE
    BY <1>5, <1>6
  <2>2. /\ Usable(reading'.text) # {} /\ KeysFit(groupRows, reading'.text)
        /\ \A name : ListedLast(refreshes[c].body.groups, name)
                       = ListedIn(reading'.text.groups, Unlisted(reading'.text), name)
    BY <1>4, <1>6, <2>1 DEF Settled
  <2>3. PICK byName \in IdsByName(groupRows) : refreshes[c].found = Range(byName)
    BY <1>4, <1>6
  <2>4. ASSUME NEW p \in DOMAIN members'
        PROVE  HasThem(members'[p], groupRows, ListedIn(reading'.text.groups, Unlisted(reading'.text), Follows[p]))
    <3> DEFINE listed == ListedLast(refreshes[c].body.groups, Follows[p])
    <3>1. members'[p] = {r.id : r \in {x \in Range(byName) : x.name \in listed}}
      BY <1>2, <1>6, <1>10, <1>11, <2>3
    <3>2. groupRows \in SUBSET GroupRow /\ Keyed(groupRows)
      BY DEF GroupInv, GroupRowsOK
    <3>3. HasThem(members'[p], groupRows, listed)
      <4> HIDE DEF listed
      <4> QED BY <3>1, <3>2, FoundAreThere
    <3> QED BY <2>2, <3>3
  <2> QED BY <2>1, <2>2, <2>4 DEF Reported
<1> QED BY <1>1, <1>3, <1>5, <1>6, RefreshStops

(* The batch of a refresh, with numbers nobody knows.                      *)
NewNumber(free, added, i) ==
    Arranged(free, {p \in free \X free : p[1] < p[2]})[Cardinality({j \in added : j <= i})]

(* The ids of new rows are free, and no two are the same.                  *)
LEMMA NumbersAreNew ==
  ASSUME NEW free \in SUBSET Nat, IsFiniteSet(free), NEW added \in SUBSET Nat, IsFiniteSet(added),
         Cardinality(free) >= Cardinality(added)
  PROVE  /\ \A i \in added : NewNumber(free, added, i) \in free
         /\ \A i, j \in added : NewNumber(free, added, i) = NewNumber(free, added, j) => i = j
<1> DEFINE before == {p \in free \X free : p[1] < p[2]}
           ids == Arranged(free, before)
           upto(i) == {j \in added : j <= i}
<1>1. StrictOrder(free, before)
  <2>1. \A x, y : <<x, y>> \in before <=> x \in free /\ y \in free /\ x < y
    OBVIOUS
  <2>2. before \subseteq free \X free /\ \A x \in free : x \in Int
    OBVIOUS
  <2> HIDE DEF before
  <2> QED BY <2>1, <2>2 DEF StrictOrder
<1>2. /\ IsInjective(ids) /\ DOMAIN ids = 1..Cardinality(free)
      /\ \A n \in DOMAIN ids : ids[n] \in free
  <2>1. ids \in Seq(free) /\ IsInjective(ids)
    <3> HIDE DEF before
    <3> QED BY <1>1, ArrangedLists
  <2>2. DOMAIN ids = 1..Cardinality(free)
    BY DEF Arranged
  <2>3. \A n \in DOMAIN ids : ids[n] \in free
    <3> HIDE DEF ids
    <3> QED BY <2>1
  <2> QED BY <2>1, <2>2, <2>3
<1>3. Cardinality(free) \in Nat /\ Cardinality(added) \in Nat
  BY FS_CardinalityType
<1>4. ASSUME NEW i \in added
      PROVE  /\ IsFiniteSet(upto(i)) /\ Cardinality(upto(i)) \in 1..Cardinality(added)
             /\ i \in upto(i)
  <2>1. upto(i) \in SUBSET added /\ i \in upto(i)
    OBVIOUS
  <2> HIDE DEF upto
  <2>2. IsFiniteSet(upto(i)) /\ Cardinality(upto(i)) <= Cardinality(added)
    BY <2>1, FS_Subset
  <2>3. Cardinality(upto(i)) \in Nat /\ Cardinality(upto(i)) # 0
    BY <2>1, <2>2, FS_CardinalityType, FS_EmptySet
  <2> QED BY <1>3, <2>1, <2>2, <2>3
<1>5. ASSUME NEW i \in added, NEW j \in added, i < j PROVE Cardinality(upto(i)) # Cardinality(upto(j))
  <2>0. \A n \in added : n \in Nat
    OBVIOUS
  <2>m. \A n : (n \in upto(i) <=> n \in added /\ n <= i) /\ (n \in upto(j) <=> n \in added /\ n <= j)
    OBVIOUS
  <2>1. upto(i) \in SUBSET upto(j) /\ j \in upto(j) /\ j \notin upto(i)
    <3> HIDE DEF upto
    <3>0. i \in Nat /\ j \in Nat
      BY <2>0
    <3>1. ASSUME NEW n \in upto(i) PROVE n \in upto(j)
      <4>1. n \in added /\ n <= i
        BY <2>m
      <4>2. n <= j
        BY <1>5, <2>0, <3>0, <4>1
      <4> QED BY <2>m, <4>1, <4>2
    <3>2. j \in upto(j) /\ j \notin upto(i)
      BY <1>5, <2>0, <2>m
    <3> QED BY <3>1, <3>2
  <2>2. IsFiniteSet(upto(j))
    BY <1>4
  <2> HIDE DEF upto
  <2> QED BY <2>1, <2>2, FS_Subset
<1>6. \A i \in added : NewNumber(free, added, i) = ids[Cardinality(upto(i))]
  BY DEF NewNumber
<1>7. \A i \in added : Cardinality(upto(i)) \in DOMAIN ids
  <2> TAKE i \in added
  <2>1. Cardinality(upto(i)) \in 1..Cardinality(added)
    BY <1>4
  <2> HIDE DEF upto, ids
  <2> QED BY <1>2, <1>3, <2>1
<1>8. \A i, j \in added : Cardinality(upto(i)) = Cardinality(upto(j)) => i = j
  <2> TAKE i, j \in added
  <2>1. i \in Nat /\ j \in Nat
    OBVIOUS
  <2> HIDE DEF upto
  <2> QED BY <1>5, <2>1
<1> HIDE DEF ids, upto, before
<1>9. \A i \in added : NewNumber(free, added, i) \in free
  BY <1>2, <1>6, <1>7
<1>10. \A i, j \in added : NewNumber(free, added, i) = NewNumber(free, added, j) => i = j
  BY <1>2, <1>6, <1>7, <1>8 DEF IsInjective
<1> QED BY <1>9, <1>10

(* What it writes over a row, as in SourceRefresh.                         *)
LEMMA GroupRowUpdated ==
  ASSUME NEW seen, NEW byKey, NEW body \in Seq(ServedNodes), NEW r \in GroupRow
  PROVE  LET u == Update(seen, byKey, body, r) IN
         /\ u \in GroupRow /\ u.id = r.id
         /\ u = r \/ \E i \in DOMAIN body : u.name = body[i].name /\ u.key = body[i].key
<1>1. CASE \E o \in Written(seen, byKey, body) : o.id = r.id
  <2> DEFINE o == CHOOSE o \in Written(seen, byKey, body) : o.id = r.id
             i == LastWriter(seen, byKey, body, o)
  <2>1. o \in Written(seen, byKey, body)
    BY <1>1
  <2>2. i \in Writers(seen, byKey, body, o)
    BY <2>1, LastWriterWrites DEF Written
  <2>3. i \in DOMAIN body
    BY <2>2 DEF Writers, Firsts
  <2>4. body[i] \in ServedNodes
    BY <2>3, PlacesAreNumbers
  <2>5. Update(seen, byKey, body, r) = WriteNode(r, body[i])
    BY <1>1 DEF Update
  <2> HIDE DEF i
  <2>6. /\ WriteNode(r, body[i]) \in GroupRow /\ WriteNode(r, body[i]).id = r.id
        /\ WriteNode(r, body[i]).name = body[i].name /\ WriteNode(r, body[i]).key = body[i].key
    BY <2>4 DEF WriteNode, GroupRow, ServedNodes
  <2> QED BY <2>3, <2>5, <2>6
<1>2. CASE ~\E o \in Written(seen, byKey, body) : o.id = r.id
  BY <1>2 DEF Update
<1> QED BY <1>1, <1>2

(* The rows after the batch.                                               *)
NewGroupRow(body, id, i) == [id |-> id[i], name |-> body[i].name, key |-> body[i].key, enabled |-> TRUE]
Rewritten(rs, seen, byKey, body, id) ==
    {Update(seen, byKey, body, r) : r \in {n \in rs : n.id \notin RemovedIds(seen, byKey, body)}}
      \cup {NewGroupRow(body, id, i) : i \in Added(seen, byKey, body)}

(* The batch rewrites the rows it has read and adds the rest.              *)
LEMMA TextIsApplied ==
  ASSUME GroupInv, NEW c \in RefreshCalls, ApplyText(c)
  PROVE  LET seen == refreshes[c].seen
             body == refreshes[c].body.nodes
         IN \E byKey \in ByKey(seen) : \E id :
              /\ groupRows' = Rewritten(groupRows, seen, byKey, body, id)
              /\ \A i \in Added(seen, byKey, body) : id[i] \in RowNumbers /\ id[i] \notin IdsOf(groupRows)
              /\ \A i, j \in Added(seen, byKey, body) : id[i] = id[j] => i = j
<1> DEFINE seen == refreshes[c].seen
           body == refreshes[c].body.nodes
           known == {r.id : r \in groupRows} \cup (UNION {members[p] : p \in DOMAIN members})
                      \cup (UNION {{r.id : r \in refreshes[d].seen \cup refreshes[d].found} : d \in RefreshCalls})
           free == RowNumbers \ known
<1>1. PICK byKey \in ByKey(seen) :
        /\ Cardinality(free) >= Cardinality(Added(seen, byKey, body))
        /\ groupRows' = {Update(seen, byKey, body, r) : r \in {n \in groupRows : n.id \notin RemovedIds(seen, byKey, body)}}
                          \cup {[id |-> NewNumber(free, Added(seen, byKey, body), i), name |-> body[i].name,
                                 key |-> body[i].key, enabled |-> TRUE] : i \in Added(seen, byKey, body)}
  BY DEF ApplyText, Update, Written, RemovedIds, IdsOf, NewNumber
<1> DEFINE added == Added(seen, byKey, body)
           id == [i \in added |-> NewNumber(free, added, i)]
<1>2. body \in Seq(ServedNodes)
  BY DEF GroupInv, CallsOK, CallOK, RefreshRecord, Texts
<1>3. free \in SUBSET Nat /\ IsFiniteSet(free) /\ free \subseteq RowNumbers /\ \A n \in free : n \notin IdsOf(groupRows)
  <2>1. free \in SUBSET RowNumbers
    OBVIOUS
  <2>2. \A n \in free : n \notin IdsOf(groupRows)
    BY DEF IdsOf
  <2> HIDE DEF free
  <2> QED BY <2>1, <2>2, SourceGroupsAssumption, FS_Subset
<1>4. added \in SUBSET Nat /\ IsFiniteSet(added)
  <2>1. /\ Firsts(body) \subseteq DOMAIN body /\ DOMAIN body \subseteq Nat /\ IsFiniteSet(Firsts(body))
    BY <1>2, PlacesAreNumbers
  <2>2. added \in SUBSET Firsts(body)
    BY DEF Added
  <2> HIDE DEF added, body
  <2> QED BY <2>1, <2>2, FS_Subset
<1> HIDE DEF free
<1>5. /\ \A i \in added : NewNumber(free, added, i) \in free
      /\ \A i, j \in added : NewNumber(free, added, i) = NewNumber(free, added, j) => i = j
  <2>1. Cardinality(free) >= Cardinality(added)
    BY <1>1
  <2> HIDE DEF added
  <2> QED BY <1>3, <1>4, <2>1, NumbersAreNew
<1>6. \A i \in added : id[i] = NewNumber(free, added, i)
  OBVIOUS
<1>7. groupRows' = Rewritten(groupRows, seen, byKey, body, id)
  <2>1. {NewGroupRow(body, id, i) : i \in added}
          = {[id |-> NewNumber(free, added, i), name |-> body[i].name, key |-> body[i].key, enabled |-> TRUE] : i \in added}
    <3> HIDE DEF id, added
    <3> QED BY <1>6 DEF NewGroupRow
  <2> HIDE DEF id
  <2> QED BY <1>1, <2>1 DEF Rewritten
<1> HIDE DEF id, added
<1>8. \A i \in added : id[i] \in RowNumbers /\ id[i] \notin IdsOf(groupRows)
  BY <1>3, <1>5, <1>6
<1>9. \A i, j \in added : id[i] = id[j] => i = j
  BY <1>5, <1>6
<1> HIDE DEF seen, body
<1>10. \E k \in ByKey(seen) : \E d :
         /\ groupRows' = Rewritten(groupRows, seen, k, body, d)
         /\ \A i \in Added(seen, k, body) : d[i] \in RowNumbers /\ d[i] \notin IdsOf(groupRows)
         /\ \A i, j \in Added(seen, k, body) : d[i] = d[j] => i = j
  BY <1>1, <1>7, <1>8, <1>9 DEF added
<1> QED BY <1>10 DEF seen, body

(* The batch keeps the rows well typed, keyed by id and served.            *)
LEMMA BatchKeepsGroupRows ==
  ASSUME GroupInv, NEW c \in RefreshCalls, ApplyText(c)
  PROVE  GroupRowsOK'
<1> DEFINE seen == refreshes[c].seen
           body == refreshes[c].body.nodes
<1>1. PICK byKey \in ByKey(seen) : \E id :
        /\ groupRows' = Rewritten(groupRows, seen, byKey, body, id)
        /\ \A i \in Added(seen, byKey, body) : id[i] \in RowNumbers /\ id[i] \notin IdsOf(groupRows)
        /\ \A i, j \in Added(seen, byKey, body) : id[i] = id[j] => i = j
  BY TextIsApplied
<1>2. PICK id :
        /\ groupRows' = Rewritten(groupRows, seen, byKey, body, id)
        /\ \A i \in Added(seen, byKey, body) : id[i] \in RowNumbers /\ id[i] \notin IdsOf(groupRows)
        /\ \A i, j \in Added(seen, byKey, body) : id[i] = id[j] => i = j
  BY <1>1
<1>3. body \in Seq(ServedNodes) /\ \A m \in Range(body) : Served(m)
  BY DEF GroupInv, CallsOK, CallOK, RefreshRecord, Texts
<1>4. /\ Added(seen, byKey, body) \subseteq DOMAIN body
      /\ \A i \in DOMAIN body : body[i] \in ServedNodes /\ Served(body[i])
  BY <1>3, PlacesAreNumbers DEF Added, Firsts, Range
<1>5. GroupRowsOK
  BY DEF GroupInv
<1> HIDE DEF seen, body
<1>6. ASSUME NEW r \in groupRows
      PROVE  /\ Update(seen, byKey, body, r) \in GroupRow /\ Update(seen, byKey, body, r).id = r.id
             /\ Served(Update(seen, byKey, body, r))
  <2>1. r \in GroupRow /\ Served(r)
    BY <1>5 DEF GroupRowsOK
  <2> DEFINE u == Update(seen, byKey, body, r)
  <2>2. /\ u \in GroupRow /\ u.id = r.id
        /\ u = r \/ \E i \in DOMAIN body : u.name = body[i].name /\ u.key = body[i].key
    BY <1>3, <2>1, GroupRowUpdated
  <2> HIDE DEF u
  <2>3. Served(u)
    BY <1>4, <2>1, <2>2 DEF Served
  <2> QED BY <2>2, <2>3 DEF u
<1>7. ASSUME NEW i \in Added(seen, byKey, body)
      PROVE  /\ NewGroupRow(body, id, i) \in GroupRow /\ NewGroupRow(body, id, i).id = id[i]
             /\ Served(NewGroupRow(body, id, i))
  BY <1>2, <1>4 DEF NewGroupRow, GroupRow, ServedNodes, Served
<1>8. \A x \in groupRows' : \/ \E r \in groupRows : x = Update(seen, byKey, body, r)
                            \/ \E i \in Added(seen, byKey, body) : x = NewGroupRow(body, id, i)
  BY <1>2 DEF Rewritten
<1>9. groupRows' \subseteq GroupRow /\ \A x \in groupRows' : Served(x)
  BY <1>6, <1>7, <1>8
<1>10. ASSUME NEW x \in groupRows', NEW y \in groupRows', x.id = y.id PROVE x = y
  <2>1. CASE \E r \in groupRows : x = Update(seen, byKey, body, r)
    <3>1. PICK r \in groupRows : x = Update(seen, byKey, body, r)
      BY <2>1
    <3>2. CASE \E q \in groupRows : y = Update(seen, byKey, body, q)
      <4>1. PICK q \in groupRows : y = Update(seen, byKey, body, q)
        BY <3>2
      <4>2. r = q
        BY <1>5, <1>6, <1>10, <3>1, <4>1 DEF GroupRowsOK, Keyed
      <4> QED BY <3>1, <4>1, <4>2
    <3>3. CASE \E i \in Added(seen, byKey, body) : y = NewGroupRow(body, id, i)
      BY <1>2, <1>6, <1>7, <1>10, <3>1, <3>3 DEF IdsOf
    <3> QED BY <1>8, <3>2, <3>3
  <2>2. CASE \E i \in Added(seen, byKey, body) : x = NewGroupRow(body, id, i)
    <3>1. PICK i \in Added(seen, byKey, body) : x = NewGroupRow(body, id, i)
      BY <2>2
    <3>2. CASE \E q \in groupRows : y = Update(seen, byKey, body, q)
      BY <1>2, <1>6, <1>7, <1>10, <3>1, <3>2 DEF IdsOf
    <3>3. CASE \E j \in Added(seen, byKey, body) : y = NewGroupRow(body, id, j)
      BY <1>2, <1>7, <1>10, <3>1, <3>3
    <3> QED BY <1>8, <3>2, <3>3
  <2> QED BY <1>8, <2>1, <2>2
<1> QED BY <1>9, <1>10 DEF GroupRowsOK, Keyed

(* The columns it has read, of rows nobody has changed since.              *)
Column(r) == [id |-> r.id, name |-> r.name, key |-> r.key]

(* What is read of the rows tells them apart by id.                        *)
LEMMA ColumnsAreOfRows ==
  ASSUME NEW rs, Keyed(rs)
  PROVE  /\ Keyed(ColumnsOf(rs)) /\ \A r \in rs : Column(r) \in ColumnsOf(rs)
         /\ \A o \in ColumnsOf(rs) : \E r \in rs : o = Column(r)
<1>1. ColumnsOf(rs) = {Column(r) : r \in rs}
  BY DEF ColumnsOf, Column
<1>2. \A r \in rs : Column(r).id = r.id
  BY DEF Column
<1> QED BY <1>1, <1>2 DEF Keyed

(* What becomes of the key of a row it keeps.                              *)
LEMMA KeyOfRow ==
  ASSUME NEW rs \in SUBSET GroupRow, Keyed(rs), NEW byKey \in ByKey(ColumnsOf(rs)),
         NEW body \in Seq(ServedNodes), NEW r \in rs
  PROVE  LET seen == ColumnsOf(rs)
             writers == Writers(seen, byKey, body, Column(r))
         IN  /\ writers = {} => Update(seen, byKey, body, r) = r
             /\ writers # {} => \E i \in writers : Update(seen, byKey, body, r).key = body[i].key
<1> DEFINE seen == ColumnsOf(rs)
<1>1. Column(r) \in seen /\ Column(r).id = r.id /\ \A o \in seen : o.id = r.id => o = Column(r)
  <2>1. Column(r) \in seen /\ Keyed(seen)
    BY ColumnsAreOfRows
  <2>2. Column(r).id = r.id
    BY DEF Column
  <2> QED BY <2>1, <2>2 DEF Keyed
<1> HIDE DEF seen
<1>2. \A o \in Written(seen, byKey, body) : o.id = r.id => o = Column(r)
  BY <1>1 DEF Written
<1>3. CASE Writers(seen, byKey, body, Column(r)) # {}
  <2>1. Column(r) \in Written(seen, byKey, body)
    BY <1>1, <1>3 DEF Written
  <2>2. (CHOOSE o \in Written(seen, byKey, body) : o.id = r.id) = Column(r)
    BY <1>1, <1>2, <2>1
  <2>3. PICK i : i = LastWriter(seen, byKey, body, Column(r))
    OBVIOUS
  <2>4. Update(seen, byKey, body, r) = WriteNode(r, body[i])
    BY <1>1, <2>1, <2>2, <2>3 DEF Update
  <2>5. i \in Writers(seen, byKey, body, Column(r))
    BY <1>3, <2>3, LastWriterWrites
  <2>6. WriteNode(r, body[i]).key = body[i].key
    BY DEF WriteNode, GroupRow
  <2> QED BY <1>3, <2>4, <2>5, <2>6 DEF seen
<1>4. CASE Writers(seen, byKey, body, Column(r)) = {}
  <2>1. Column(r) \notin Written(seen, byKey, body)
    BY <1>4 DEF Written
  <2> QED BY <1>2, <1>4, <2>1 DEF Update, seen
<1> QED BY <1>3, <1>4 DEF seen

(* Every row it leaves has the key of a parsed node.                       *)
LEMMA KeysAreServed ==
  ASSUME NEW rs \in SUBSET GroupRow, Keyed(rs), NEW byKey \in ByKey(ColumnsOf(rs)),
         NEW body \in Seq(ServedNodes), NEW id, NEW x \in Rewritten(rs, ColumnsOf(rs), byKey, body, id)
  PROVE  \E i \in DOMAIN body : x.key = body[i].key
<1> DEFINE seen == ColumnsOf(rs)
<1>0. Firsts(body) \subseteq DOMAIN body
  BY DEF Firsts
<1>1. CASE \E r \in rs : r.id \notin RemovedIds(seen, byKey, body) /\ x = Update(seen, byKey, body, r)
  <2>1. PICK r \in rs : r.id \notin RemovedIds(seen, byKey, body) /\ x = Update(seen, byKey, body, r)
    BY <1>1
  <2>2. Column(r) \in seen \ Removed(seen, byKey, body)
    <3>1. Column(r) \in seen /\ Column(r).id = r.id
      BY ColumnsAreOfRows DEF Column
    <3> HIDE DEF seen
    <3> QED BY <2>1, <3>1 DEF RemovedIds, IdsOf
  <2>3. CASE Writers(seen, byKey, body, Column(r)) = {}
    <3>1. x = r
      BY <2>1, <2>3, KeyOfRow
    <3>2. \E i \in Firsts(body) : Column(r).key = body[i].key
      BY <2>2, <2>3, KeptIsMatched
    <3> QED BY <1>0, <3>1, <3>2 DEF Column
  <2>4. CASE Writers(seen, byKey, body, Column(r)) # {}
    <3>1. \E i \in Writers(seen, byKey, body, Column(r)) : x.key = body[i].key
      BY <2>1, <2>4, KeyOfRow
    <3> QED BY <1>0, <3>1 DEF Writers
  <2> QED BY <2>3, <2>4
<1>2. CASE \E i \in Added(seen, byKey, body) : x = NewGroupRow(body, id, i)
  BY <1>0, <1>2 DEF Added, NewGroupRow
<1> QED BY <1>1, <1>2 DEF Rewritten

(* While connections keep their names, no two parsed nodes take one row.   *)
LEMMA OneTakesARow ==
  ASSUME KeepsNames, NEW seen, \A o \in seen : Served(o), NEW byKey \in ByKey(seen),
         NEW body \in Seq(ServedNodes), \A m \in Range(body) : Served(m),
         NEW o, NEW i \in Firsts(body), NEW j \in Firsts(body),
         o \in Match(seen, byKey, body, i), o \in Match(seen, byKey, body, j)
  PROVE  i = j
<1>1. /\ o \in seen /\ DOMAIN byKey = {r.key : r \in seen}
      /\ \A k \in DOMAIN byKey : byKey[k] \in seen /\ byKey[k].key = k
  BY OneMatch DEF ByKey
<1>2. /\ i \in DOMAIN body /\ j \in DOMAIN body
      /\ \A n, m \in Firsts(body) : body[n].key = body[m].key => n = m
  BY PlacesAreNumbers
<1>3. Served(o) /\ Served(body[i]) /\ Served(body[j])
  BY <1>1, <1>2 DEF Range
<1>4. \A n, m : Served(n) /\ Served(m) /\ n.key = m.key => n.name = m.name
  <2> SUFFICES ASSUME NEW n, NEW m, Served(n), Served(m), n.key = m.key PROVE n.name = m.name
    OBVIOUS
  <2>1. PICK file \in Files : \E a \in Range(file.nodes) : n.name = a.name /\ n.key = a.key
    BY DEF Served
  <2>2. PICK a \in Range(file.nodes) : n.name = a.name /\ n.key = a.key
    BY <2>1
  <2>3. PICK other \in Files : \E b \in Range(other.nodes) : m.name = b.name /\ m.key = b.key
    BY DEF Served
  <2>4. PICK b \in Range(other.nodes) : m.name = b.name /\ m.key = b.key
    BY <2>3
  <2>5. a.key = b.key => a.name = b.name
    BY DEF KeepsNames
  <2> QED BY <2>2, <2>4, <2>5
<1> DEFINE ByName(n) == /\ o.name = body[n].name
                        /\ \E a \in DOMAIN body : \A b \in DOMAIN body : body[b].name = body[n].name <=> b = a
<1>5. \A n \in {i, j} : o.key = body[n].key \/ ByName(n)
  <2> SUFFICES ASSUME NEW n \in {i, j} PROVE o.key = body[n].key \/ ByName(n)
    OBVIOUS
  <2>1. CASE body[n].key \in DOMAIN byKey
    BY <1>1, <2>1 DEF Match
  <2>2. CASE body[n].key \notin DOMAIN byKey
    <3>1. o \in ByUniqueName(seen, body, body[n].name)
      BY <2>2 DEF Match
    <3>2. o.name = body[n].name
      BY <1>1, <3>1 DEF ByUniqueName
    <3> QED BY <3>1, <3>2 DEF ByUniqueName
  <2> QED BY <2>1, <2>2
<1>6. o.name = body[i].name /\ o.name = body[j].name
  BY <1>3, <1>4, <1>5
<1>7. CASE o.key = body[i].key /\ o.key = body[j].key
  BY <1>2, <1>7
<1>8. CASE ByName(i) \/ ByName(j)
  BY <1>2, <1>6, <1>8
<1> QED BY <1>5, <1>7, <1>8

(* Then every connection of the text has a row.                            *)
LEMMA ConnectionsHaveRows ==
  ASSUME KeepsNames, NEW rs \in SUBSET GroupRow, Keyed(rs), \A r \in rs : Served(r),
         NEW byKey \in ByKey(ColumnsOf(rs)),
         NEW body \in Seq(ServedNodes), \A m \in Range(body) : Served(m), NEW id, NEW n \in DOMAIN body
  PROVE  \E x \in Rewritten(rs, ColumnsOf(rs), byKey, body, id) : x.key = body[n].key
<1> DEFINE seen == ColumnsOf(rs)
           same == {i \in 1..Len(body) : body[i].key = body[n].key}
<1>1. PICK i \in Firsts(body) : body[i].key = body[n].key
  <2>1. Len(body) \in Nat /\ DOMAIN body = 1..Len(body) /\ same \in SUBSET (1..Len(body)) /\ n \in same
    OBVIOUS
  <2>2. PICK i \in same : \A j \in same : i <= j
    <3> HIDE DEF same
    <3> QED BY <2>1, FirstIsIn
  <2>3. i \in DOMAIN body /\ body[i].key = body[n].key
    BY <2>1
  <2>4. ASSUME NEW j \in 1..(i - 1) PROVE body[j].key # body[i].key
    <3>1. j \in 1..Len(body) /\ j < i
      BY <2>1, <2>3
    <3> QED BY <2>1, <2>2, <2>3, <3>1
  <2> QED BY <2>3, <2>4 DEF Firsts
<1>2. /\ Keyed(seen) /\ \A r \in rs : Column(r) \in seen
      /\ \A o \in seen : \E r \in rs : o = Column(r)
  BY ColumnsAreOfRows
<1>b. byKey \in ByKey(seen)
  OBVIOUS
<1>3. \A o \in seen : Served(o)
  BY <1>2 DEF Served, Column
<1> HIDE DEF seen, same
<1>4. CASE Match(seen, byKey, body, i) = {}
  <2>1. i \in Added(seen, byKey, body)
    BY <1>4 DEF Added
  <2>2. NewGroupRow(body, id, i) \in Rewritten(rs, seen, byKey, body, id) /\ NewGroupRow(body, id, i).key = body[i].key
    BY <2>1 DEF Rewritten, NewGroupRow
  <2> QED BY <1>1, <2>2 DEF seen
<1>5. CASE Match(seen, byKey, body, i) # {}
  <2>1. PICK o \in seen : o \in Match(seen, byKey, body, i)
    BY <1>5, <1>b, OneMatch
  <2>2. PICK r \in rs : o = Column(r)
    BY <1>2
  <2>3. o \notin Removed(seen, byKey, body) /\ o.id = r.id
    BY <2>1, <2>2 DEF Removed, Column
  <2>4. r.id \notin RemovedIds(seen, byKey, body)
    BY <1>2, <2>1, <2>3 DEF RemovedIds, IdsOf, Removed, Keyed
  <2>5. \A j \in Writers(seen, byKey, body, o) : j = i
    <3> SUFFICES ASSUME NEW j \in Writers(seen, byKey, body, o) PROVE j = i
      OBVIOUS
    <3>1. j \in Firsts(body) /\ o \in Match(seen, byKey, body, j)
      BY DEF Writers
    <3> QED BY <1>3, <1>b, <2>1, <3>1, OneTakesARow
  <2>6. Update(seen, byKey, body, r).key = body[i].key
    <3>1. CASE Writers(seen, byKey, body, o) = {}
      <4>1. o.key = body[i].key
        BY <2>1, <3>1 DEF Writers
      <4>2. Update(seen, byKey, body, r) = r
        BY <2>2, <3>1, KeyOfRow DEF seen
      <4> QED BY <2>2, <4>1, <4>2 DEF Column
    <3>2. CASE Writers(seen, byKey, body, o) # {}
      <4>1. \E j \in Writers(seen, byKey, body, o) : Update(seen, byKey, body, r).key = body[j].key
        BY <2>2, <3>2, KeyOfRow DEF seen
      <4> QED BY <2>5, <4>1
    <3> QED BY <3>1, <3>2
  <2>7. Update(seen, byKey, body, r) \in Rewritten(rs, seen, byKey, body, id)
    BY <2>4 DEF Rewritten
  <2> QED BY <1>1, <2>6, <2>7 DEF seen
<1> QED BY <1>4, <1>5

(* A text without its nodes is a text.                                     *)
LEMMA NodesCanBeCleared ==
  ASSUME NEW t \in Texts
  PROVE  LET b == [t EXCEPT !.nodes = <<>>]
         IN  b \in Texts /\ b.nodes = <<>> /\ b.groups = t.groups
<1> DEFINE none == <<>>
           b == [t EXCEPT !.nodes = none]
<1>1. none \in Seq(ServedNodes)
  OBVIOUS
<1> HIDE DEF none
<1>2. /\ b = [nodes |-> none, groups |-> t.groups] /\ t.groups \in Seq(ServedGroups)
  BY DEF Texts
<1> HIDE DEF b
<1>3. b \in Texts /\ b.nodes = none /\ b.groups = t.groups
  BY <1>1, <1>2 DEF Texts
<1> QED BY <1>3 DEF b, none

(* A refresh writes its batch.                                             *)
LEMMA AppliesText ==
  ASSUME GroupInv, NEW c \in RefreshCalls, ApplyText(c)
  PROVE  GroupInv'
<1>1. /\ refreshes[c].at = "apply" /\ UNCHANGED <<members, groupSteps, reading>>
      /\ RefreshGoes(c, [refreshes[c] EXCEPT !.at = "pools", !.seen = {},
                                             !.body = [refreshes[c].body EXCEPT !.nodes = <<>>]])
      /\ CallOK(refreshes[c]) /\ refreshes[c] \in RefreshRecord
  BY DEF ApplyText, GroupInv, CallsOK, CallOK
<1> DEFINE n == [refreshes[c] EXCEPT !.at = "pools", !.seen = {},
                                !.body = [refreshes[c].body EXCEPT !.nodes = <<>>]]
           old == refreshes[c].body
           text == refreshes[c].text
<1>2. MembersOK' /\ GroupRowsOK'
  BY <1>1, BatchKeepsGroupRows DEF GroupInv, MembersOK
<1>3. /\ n \in RefreshRecord /\ n.body.nodes = <<>> /\ n.body.groups = old.groups /\ n.text = text
      /\ n.at = "pools" /\ n.alone = refreshes[c].alone
  <2> DEFINE body == [old EXCEPT !.nodes = <<>>]
  <2>1. body \in Texts /\ body.nodes = <<>> /\ body.groups = old.groups
    <3>1. old \in Texts
      BY <1>1 DEF RefreshRecord
    <3> HIDE DEF old
    <3> QED BY <3>1, NodesCanBeCleared
  <2>2. n = [refreshes[c] EXCEPT !.at = "pools", !.seen = {}, !.body = body]
    OBVIOUS
  <2> HIDE DEF n, body
  <2>3. n.body = body
    BY <1>1, <2>2 DEF RefreshRecord
  <2> QED BY <1>1, <2>1, <2>2, <2>3 DEF RefreshRecord
<1> HIDE DEF n
<1>4. CallOK(n)
  BY <1>3 DEF CallOK, Range
<1>5. ASSUME refreshes[c].alone, text # NoText PROVE Settled(n, groupRows')
  <2>1. /\ Understood(old, text) /\ old.nodes # <<>> /\ refreshes[c].seen = ColumnsOf(groupRows)
    BY <1>1, <1>5 DEF GroupInv, LoneOK, GoesAlone
  <2>2. /\ Range(old.nodes) = Usable(text)
        /\ \A name : ListedLast(old.groups, name) = ListedIn(text.groups, Unlisted(text), name)
    BY <1>5, <2>1 DEF Understood
  <2>3. old.nodes \in Seq(ServedNodes) /\ \A m \in Range(old.nodes) : Served(m)
    BY <1>1 DEF CallOK, RefreshRecord, Texts
  <2>4. Usable(text) # {}
    <3> DEFINE list == old.nodes
    <3> HIDE DEF list
    <3>1. list \in Seq(ServedNodes) /\ list # <<>>
      BY <2>1, <2>3 DEF list
    <3>2. 1 \in DOMAIN list
      BY <3>1
    <3> QED BY <2>2, <3>2 DEF Range, list
  <2>5. /\ groupRows \in SUBSET GroupRow /\ Keyed(groupRows) /\ \A r \in groupRows : Served(r)
    BY DEF GroupInv, GroupRowsOK
  <2>6. PICK byKey \in ByKey(ColumnsOf(groupRows)) : \E id :
          groupRows' = Rewritten(groupRows, ColumnsOf(groupRows), byKey, old.nodes, id)
    BY <2>1, TextIsApplied
  <2>7. PICK id : groupRows' = Rewritten(groupRows, ColumnsOf(groupRows), byKey, old.nodes, id)
    BY <2>6
  <2> HIDE DEF old, text
  <2>8. {r.key : r \in groupRows'} \subseteq {m.key : m \in Usable(text)}
    <3>1. \A x \in groupRows' : \E i \in DOMAIN old.nodes : x.key = old.nodes[i].key
      BY <2>3, <2>5, <2>7, KeysAreServed
    <3>2. \A i \in DOMAIN old.nodes : old.nodes[i] \in Usable(text)
      BY <2>2 DEF Range
    <3> QED BY <3>1, <3>2
  <2>9. ASSUME KeepsNames PROVE {m.key : m \in Usable(text)} \subseteq {r.key : r \in groupRows'}
    <3>1. \A i \in DOMAIN old.nodes : \E x \in groupRows' : x.key = old.nodes[i].key
      BY <2>3, <2>5, <2>7, <2>9, ConnectionsHaveRows
    <3>2. \A m \in Usable(text) : \E i \in DOMAIN old.nodes : m = old.nodes[i]
      BY <2>2 DEF Range
    <3> QED BY <3>1, <3>2
  <2> QED BY <1>3, <2>2, <2>4, <2>8, <2>9 DEF Settled, KeysFit
<1>6. n.alone => refreshes[c].alone /\ GoesAlone(n, groupRows')
  <2>1. CASE text # NoText
    BY <1>3, <1>5, <2>1 DEF GoesAlone
  <2>2. CASE text = NoText
    BY <1>3, <2>2 DEF GoesAlone, Settled
  <2> QED BY <2>1, <2>2
<1>7. RefreshGoes(c, n)
  BY <1>1 DEF n
<1> QED BY <1>1, <1>2, <1>3, <1>4, <1>6, <1>7, RefreshMoves

(* Every step keeps the invariant.                                         *)
LEMMA GroupsKeep == ASSUME GroupInv, [GroupNext]_groupVars PROVE GroupInv'
<1>1. CASE EditGroups
  BY <1>1, EditsGroups
<1>2. CASE \E c \in RefreshCalls : \/ FetchText(c) \/ ReadSourceRows(c) \/ ApplyText(c)
                                   \/ ReadFollowers(c) \/ ReadIds(c) \/ WriteFollowers(c) \/ CutOffRefresh(c)
  BY <1>2, FetchGroups, ReadsSource, AppliesText, ReadsFollowers, ReadsIds, WritesFollowers, CutsRefresh
<1>3. CASE UNCHANGED groupVars
  <2>1. UNCHANGED <<members, groupRows, refreshes, groupSteps, reading>>
    BY <1>3 DEF groupVars
  <2> QED BY <2>1 DEF GroupInv, MembersOK, GroupRowsOK, CallsOK, LoneOK, ReadingOK
<1> QED BY <1>1, <1>2, <1>3 DEF GroupNext

GroupSpec == GroupInit /\ [][GroupNext]_groupVars

(* The invariant holds in every behaviour.                                 *)
LEMMA GroupsStayWell == GroupSpec => []GroupInv
<1> QED BY GroupsBegin, GroupsKeep, PTL DEF GroupSpec

(* The types of rows and members, and of where each refresh is, under any  *)
(* overlap.                                                                *)
THEOREM GroupTypesHold == GroupSpec => []GroupTypes
<1>1. GroupInv => GroupTypes
  BY DEF GroupInv, MembersOK, GroupRowsOK, CallsOK, CallOK, RefreshRecord, GroupRow, Keyed, GroupTypes
<1> QED BY <1>1, GroupsStayWell, PTL

(* Whatever overlapped before, a refresh that ran alone has read its text  *)
(* for what it holds and left rows and node groups as the text says:       *)
(* applyParsedSourceContent and syncImportedSourceNodeGroups.              *)
THEOREM SourceGroupsFollowHolds == GroupSpec => []SourceGroupsFollow
<1>1. ASSUME GroupInv PROVE SourceGroupsFollow
  <2>1. reading.text # NoText => Reported(reading, groupRows, members)
    BY <1>1 DEF GroupInv, ReadingOK
  <2> DEFINE text == reading.text
             faulty == {n.name : n \in {x \in Range(text.nodes) : x.fault}} \cup {"info"}
  <2>2. /\ Usable(text) = {n \in Range(text.nodes) : ~n.fault /\ n.name # "info"}
        /\ Unlisted(text) = faulty \cup {"DIRECT"}
    BY DEF Usable, Unlisted
  <2> QED BY <2>1, <2>2 DEF SourceGroupsFollow, Reported, KeysFit, HasThem, Named
<1> QED BY <1>1, GroupsStayWell, PTL

-----------------------------------------------------------------------------
(***************************************************************************)
(* Rule sets linked to a source.  A call that has run alone so far is the  *)
(* only one, and what it read is still so.                                 *)
Found == UNION {[K -> ProviderUrls] : K \in SUBSET ProviderKeys}
LinkedRowMaps == UNION {[I -> LinkedRow] : I \in SUBSET LinkedIds}
LinkCall == [at : {"idle", "candidates", "insert", "rows", "write"}, id : LinkedIds \cup {0},
             key : ProviderKeys \cup {"none"}, found : Found, rows : LinkedRowMaps, alone : BOOLEAN]
LinkedContents == [there : BOOLEAN, entries : UNION {[K -> Entry] : K \in SUBSET ProviderKeys}]
ToBeInserted(call) == call.at = "insert" => call.id \in LinkedIds /\ call.key \in DOMAIN call.found
LinkOnCourse(call) ==
    call.alone => /\ call.at \in {"rows", "write"} => call.found = Discover(content.entries)
                  /\ call.at = "write" => call.rows = linkedRows

LinkRowsOK == content \in LinkedContents /\ linkedRows \in LinkedRowMaps
OneRowEach == \A i, j \in DOMAIN linkedRows : linkedRows[i].key = linkedRows[j].key => i = j
LinkCallsOK ==
    /\ linkCalls \in [LinkCalls -> LinkCall]
    /\ \A c \in LinkCalls : ToBeInserted(linkCalls[c]) /\ LinkOnCourse(linkCalls[c])
    /\ \A c, d \in LinkCalls : linkCalls[c].alone /\ d # c => linkCalls[d].at = "idle" /\ ~linkCalls[d].alone
LinkInv == LinkRowsOK /\ LinkCallsOK /\ LinkedRowsFollow

-----------------------------------------------------------------------------
LEMMA LinkedRowMapFacts ==
    /\ NoEntry \in Found /\ NoEntry \in LinkedRowMaps /\ DOMAIN NoEntry = {}
    /\ NoEntry \in UNION {[K -> Entry] : K \in SUBSET ProviderKeys}
    /\ \A f \in Found : DOMAIN f \subseteq ProviderKeys /\ \A k \in DOMAIN f : f[k] \in ProviderUrls
    /\ \A f \in LinkedRowMaps : DOMAIN f \subseteq LinkedIds /\ \A i \in DOMAIN f : f[i] \in LinkedRow
    /\ \A I \in SUBSET LinkedIds : \A f \in [I -> LinkedRow] : f \in LinkedRowMaps
<1>1. NoEntry \in [{} -> ProviderUrls] /\ NoEntry \in [{} -> LinkedRow] /\ NoEntry \in [{} -> Entry] /\ DOMAIN NoEntry = {}
  BY DEF NoEntry
<1>2. {} \in SUBSET ProviderKeys /\ {} \in SUBSET LinkedIds
  OBVIOUS
<1>3. NoEntry \in Found /\ NoEntry \in LinkedRowMaps /\ NoEntry \in UNION {[K -> Entry] : K \in SUBSET ProviderKeys}
  <2> HIDE DEF NoEntry
  <2> QED BY <1>1, <1>2 DEF Found, LinkedRowMaps
<1>4. ASSUME NEW f \in Found PROVE DOMAIN f \subseteq ProviderKeys /\ \A k \in DOMAIN f : f[k] \in ProviderUrls
  <2>1. PICK K \in SUBSET ProviderKeys : f \in [K -> ProviderUrls]
    BY DEF Found
  <2> QED BY <2>1
<1>5. ASSUME NEW f \in LinkedRowMaps PROVE DOMAIN f \subseteq LinkedIds /\ \A i \in DOMAIN f : f[i] \in LinkedRow
  <2>1. PICK I \in SUBSET LinkedIds : f \in [I -> LinkedRow]
    BY DEF LinkedRowMaps
  <2> QED BY <2>1
<1>6. \A I \in SUBSET LinkedIds : \A f \in [I -> LinkedRow] : f \in LinkedRowMaps
  BY DEF LinkedRowMaps
<1> QED BY <1>1, <1>3, <1>4, <1>5, <1>6

LEMMA IdleLinkIsCall ==
    IdleLink \in LinkCall /\ IdleLink.at = "idle" /\ ~IdleLink.alone /\ ToBeInserted(IdleLink) /\ LinkOnCourse(IdleLink)
<1>1. IdleLink \in LinkCall /\ IdleLink.at = "idle" /\ ~IdleLink.alone
  BY LinkedRowMapFacts DEF IdleLink, LinkCall
<1> QED BY <1>1 DEF ToBeInserted, LinkOnCourse

(* What a source offers is what may be fetched of its content.             *)
LEMMA DiscoverFinds ==
  ASSUME NEW K \in SUBSET ProviderKeys, NEW entries \in [K -> Entry]
  PROVE  /\ Discover(entries) \in Found
         /\ \A k : k \in DOMAIN Discover(entries) <=>
                     k \in K /\ entries[k].http /\ ~entries[k].mrsClassical /\ entries[k].safeUrl
         /\ \A k \in DOMAIN Discover(entries) : Discover(entries)[k] = entries[k].url
<1> DEFINE J == {j \in DOMAIN entries : entries[j].http /\ ~entries[j].mrsClassical /\ entries[j].safeUrl}
           f == [k \in J |-> entries[k].url]
<1>1. Discover(entries) = f
  BY DEF Discover
<1>2. J \in SUBSET ProviderKeys /\ f \in [J -> ProviderUrls]
  BY DEF Entry
<1>3. f \in Found
  <2> HIDE DEF f, J
  <2> QED BY <1>2 DEF Found
<1> QED BY <1>1, <1>3

(* A call that goes on, or ends; the last of these conditions is about the *)
(* rows it leaves.                                                         *)
LEMMA LinkCallMoves ==
  ASSUME LinkInv, NEW c \in LinkCalls, linkCalls[c].at # "idle", NEW r \in LinkCall, LinkGoes(c, r),
         content' = content, ToBeInserted(r), LinkOnCourse(linkCalls[c])', r.alone => linkCalls[c].alone
  PROVE  LinkCallsOK'
<1>0. LinkCallsOK
  BY DEF LinkInv
<1>1. /\ linkCalls' = [linkCalls EXCEPT ![c] = r] /\ linkCalls'[c] = r
      /\ \A d \in LinkCalls \ {c} : linkCalls'[d] = linkCalls[d] /\ ~linkCalls[d].alone
  BY <1>0 DEF LinkGoes, LinkCallsOK
<1>2. linkCalls' \in [LinkCalls -> LinkCall]
  BY <1>0, <1>1 DEF LinkCallsOK
<1>3. \A d \in LinkCalls : ToBeInserted(linkCalls'[d])
  BY <1>0, <1>1 DEF LinkCallsOK
<1>4. \A d \in LinkCalls : LinkOnCourse(linkCalls[d])'
  BY <1>1 DEF LinkOnCourse
<1>5. \A e, d \in LinkCalls : linkCalls'[e].alone /\ d # e => linkCalls'[d].at = "idle" /\ ~linkCalls'[d].alone
  BY <1>0, <1>1 DEF LinkCallsOK
<1> QED BY <1>2, <1>3, <1>4, <1>5 DEF LinkCallsOK, ToBeInserted

LEMMA LinkEnds ==
  ASSUME LinkInv, NEW c \in LinkCalls, linkCalls[c].at # "idle", LinkGoes(c, IdleLink), content' = content
  PROVE  LinkCallsOK'
<1>1. linkCalls'[c] = IdleLink
  BY DEF LinkInv, LinkCallsOK, LinkGoes
<1>2. LinkOnCourse(linkCalls[c])'
  BY <1>1, IdleLinkIsCall DEF LinkOnCourse
<1> QED BY <1>2, IdleLinkIsCall, LinkCallMoves

LEMMA NothingFollowed ==
  ASSUME LinkInv, ~followed', linkedRows' = linkedRows
  PROVE  LinkedRowsFollow'
BY DEF LinkInv, LinkedRowsFollow

LEMMA StartLinkKeeps == ASSUME LinkInv, NEW c \in LinkCalls, StartLink(c) PROVE LinkInv'
<1>0. LinkRowsOK /\ LinkCallsOK
  BY DEF LinkInv
<1>1. c \notin InLink /\ ~followed' /\ content' = content /\ linkedRows' = linkedRows
  BY DEF StartLink, linkStore
<1>2. PICK id \in LinkedIds \cup {0}, k \in ProviderKeys :
        linkCalls' = [OthersDisturbed EXCEPT ![c] = [IdleLink EXCEPT !.at = "candidates", !.id = id,
           !.key = IF id = 0 THEN "none" ELSE k, !.alone = (InLink = {})]]
  BY DEF StartLink
<1> DEFINE key == IF id = 0 THEN "none" ELSE k
           alone == InLink = {}
           r == [IdleLink EXCEPT !.at = "candidates", !.id = id, !.key = key, !.alone = alone]
<1>3. key \in ProviderKeys \cup {"none"} /\ alone \in BOOLEAN
  OBVIOUS
<1> HIDE DEF key, alone
<1>4. r \in LinkCall /\ r.at = "candidates" /\ r.alone = alone
  BY <1>3, IdleLinkIsCall DEF LinkCall
<1>5. linkCalls'[c] = r
  BY <1>2 DEF OthersDisturbed, key, alone
<1>6. ASSUME NEW d \in LinkCalls \ {c}
      PROVE linkCalls'[d] \in LinkCall /\ ~linkCalls'[d].alone /\ linkCalls'[d].at = linkCalls[d].at
            /\ ToBeInserted(linkCalls'[d])
  <2>1. linkCalls'[d] = [linkCalls[d] EXCEPT !.alone = FALSE]
    BY <1>2 DEF OthersDisturbed
  <2>2. linkCalls[d] \in LinkCall /\ ToBeInserted(linkCalls[d])
    BY <1>0 DEF LinkCallsOK
  <2> QED BY <2>1, <2>2 DEF LinkCall, ToBeInserted
<1> HIDE DEF r
<1>7. linkCalls' \in [LinkCalls -> LinkCall]
  <2>1. linkCalls' = [d \in LinkCalls |-> linkCalls'[d]]
    BY <1>2 DEF OthersDisturbed
  <2> QED BY <1>4, <1>5, <1>6, <2>1
<1>8. \A d \in LinkCalls : ToBeInserted(linkCalls'[d]) /\ LinkOnCourse(linkCalls[d])'
  BY <1>4, <1>5, <1>6 DEF ToBeInserted, LinkOnCourse
<1>9. \A e, d \in LinkCalls : linkCalls'[e].alone /\ d # e => linkCalls'[d].at = "idle" /\ ~linkCalls'[d].alone
  BY <1>4, <1>5, <1>6 DEF InLink, alone
<1>10. LinkCallsOK'
  BY <1>7, <1>8, <1>9 DEF LinkCallsOK, ToBeInserted
<1> QED BY <1>0, <1>1, <1>10, NothingFollowed DEF LinkInv, LinkRowsOK

LEMMA ListCandidatesKeeps == ASSUME LinkInv, NEW c \in LinkCalls, ListCandidates(c) PROVE LinkInv'
<1>0. LinkRowsOK /\ LinkCallsOK /\ linkCalls \in [LinkCalls -> LinkCall] /\ linkCalls[c] \in LinkCall
  BY DEF LinkInv, LinkCallsOK
<1> DEFINE found == Discover(content.entries)
           call == linkCalls[c]
           at == IF call.id = 0 THEN "rows" ELSE "insert"
           r == [call EXCEPT !.at = at, !.found = found]
<1>1. call.at = "candidates" /\ ~followed' /\ content' = content /\ linkedRows' = linkedRows
  BY DEF ListCandidates, linkStore
<1>2. found \in Found
  BY <1>0, DiscoverFinds DEF LinkRowsOK, LinkedContents
<1> HIDE DEF found
<1>3. LinkCallsOK'
  <2>1. CASE LinkGoes(c, IdleLink)
    BY <1>1, <2>1, LinkEnds
  <2>2. CASE LinkGoes(c, r) /\ (call.id = 0 \/ call.key \in DOMAIN found)
    <3>1. /\ r \in LinkCall /\ r.at = at /\ r.found = found /\ r.id = call.id /\ r.key = call.key /\ r.alone = call.alone
      BY <1>0, <1>2 DEF LinkCall
    <3> HIDE DEF r
    <3>2. ToBeInserted(r)
      BY <1>0, <2>2, <3>1 DEF ToBeInserted, LinkCall
    <3>3. linkCalls'[c] = r
      BY <1>0, <2>2 DEF LinkGoes
    <3>4. LinkOnCourse(linkCalls[c])'
      BY <1>1, <3>1, <3>3 DEF LinkOnCourse, found
    <3> QED BY <1>1, <2>2, <3>1, <3>2, <3>4, LinkCallMoves
  <2> QED BY <2>1, <2>2 DEF ListCandidates, found
<1> QED BY <1>0, <1>1, <1>3, NothingFollowed DEF LinkInv, LinkRowsOK

(* One row per source and key.                                             *)
LEMMA InsertLinkedKeeps == ASSUME LinkInv, NEW c \in LinkCalls, InsertLinked(c) PROVE LinkInv'
<1>0. LinkRowsOK /\ LinkCallsOK /\ linkCalls \in [LinkCalls -> LinkCall] /\ linkCalls[c] \in LinkCall
      /\ LinkedRowsFollow /\ ToBeInserted(linkCalls[c])
  BY DEF LinkInv, LinkCallsOK
<1> DEFINE call == linkCalls[c]
           row == [key |-> call.key, url |-> call.found[call.key], missing |-> FALSE]
<1>1. call.at = "insert" /\ LinkGoes(c, IdleLink) /\ ~followed' /\ content' = content
  BY DEF InsertLinked
<1>2. LinkCallsOK'
  BY <1>1, LinkEnds
<1>3. CASE linkedRows' = linkedRows
  BY <1>0, <1>1, <1>2, <1>3, NothingFollowed DEF LinkInv, LinkRowsOK
<1>4. CASE /\ \A i \in DOMAIN linkedRows : linkedRows[i].key # call.key
           /\ linkedRows' = [i \in DOMAIN linkedRows \cup {call.id} |-> IF i = call.id THEN row ELSE linkedRows[i]]
  <2>1. row \in LinkedRow /\ row.key = call.key /\ call.id \in LinkedIds
    BY <1>0, <1>1, LinkedRowMapFacts DEF ToBeInserted, LinkCall, LinkedRow
  <2> HIDE DEF row
  <2>2. DOMAIN linkedRows \subseteq LinkedIds /\ \A i \in DOMAIN linkedRows : linkedRows[i] \in LinkedRow
    BY <1>0, LinkedRowMapFacts DEF LinkRowsOK
  <2>3. linkedRows' \in LinkedRowMaps
    <3>1. linkedRows' \in [DOMAIN linkedRows \cup {call.id} -> LinkedRow]
      BY <1>4, <2>1, <2>2
    <3>2. DOMAIN linkedRows \cup {call.id} \in SUBSET LinkedIds
      BY <2>1, <2>2
    <3> QED BY <3>1, <3>2, LinkedRowMapFacts
  <2>4. OneRowEach'
    BY <1>0, <1>4, <2>1 DEF OneRowEach, LinkedRowsFollow
  <2> QED BY <1>0, <1>1, <1>2, <2>3, <2>4 DEF LinkInv, LinkRowsOK, LinkedRowsFollow, OneRowEach
<1> QED BY <1>3, <1>4 DEF InsertLinked

LEMMA ReadLinkedRowsKeeps == ASSUME LinkInv, NEW c \in LinkCalls, ReadLinkedRows(c) PROVE LinkInv'
<1>0. LinkRowsOK /\ LinkCallsOK /\ linkCalls \in [LinkCalls -> LinkCall] /\ linkCalls[c] \in LinkCall
      /\ LinkOnCourse(linkCalls[c])
  BY DEF LinkInv, LinkCallsOK
<1> DEFINE call == linkCalls[c]
           r == [call EXCEPT !.at = "write", !.rows = linkedRows]
<1>1. call.at = "rows" /\ LinkGoes(c, r) /\ ~followed' /\ content' = content /\ linkedRows' = linkedRows
  BY DEF ReadLinkedRows, linkStore
<1>2. r \in LinkCall /\ r.at = "write" /\ r.rows = linkedRows /\ r.found = call.found /\ r.alone = call.alone
  BY <1>0 DEF LinkCall, LinkRowsOK
<1> HIDE DEF r
<1>3. linkCalls'[c] = r
  BY <1>0, <1>1 DEF LinkGoes
<1>4. ToBeInserted(r) /\ LinkOnCourse(linkCalls[c])'
  BY <1>0, <1>1, <1>2, <1>3 DEF ToBeInserted, LinkOnCourse
<1>5. LinkCallsOK'
  BY <1>1, <1>2, <1>4, LinkCallMoves
<1> QED BY <1>0, <1>1, <1>5, NothingFollowed DEF LinkInv, LinkRowsOK

LEMMA UpToDateIsRow ==
  ASSUME NEW row \in LinkedRow, NEW found \in Found
  PROVE  /\ UpToDate(row, found) \in LinkedRow /\ UpToDate(row, found).key = row.key
         /\ UpToDate(row, found).missing = (row.key \notin DOMAIN found)
         /\ row.key \in DOMAIN found => UpToDate(row, found).url = found[row.key]
<1>1. CASE row.key \in DOMAIN found
  BY <1>1, LinkedRowMapFacts DEF UpToDate, LinkedRow
<1>2. CASE row.key \notin DOMAIN found
  BY <1>2 DEF UpToDate, LinkedRow
<1> QED BY <1>1, <1>2

LEMMA WriteLinkedRowsKeeps == ASSUME LinkInv, NEW c \in LinkCalls, WriteLinkedRows(c) PROVE LinkInv'
<1>0. LinkRowsOK /\ LinkCallsOK /\ linkCalls \in [LinkCalls -> LinkCall] /\ linkCalls[c] \in LinkCall
      /\ LinkOnCourse(linkCalls[c]) /\ LinkedRowsFollow
  BY DEF LinkInv, LinkCallsOK
<1> DEFINE call == linkCalls[c]
           changed == {i \in DOMAIN call.rows : UpToDate(call.rows[i], call.found) # call.rows[i]}
<1>1. /\ call.at = "write" /\ LinkGoes(c, IdleLink) /\ followed' = call.alone /\ content' = content
      /\ linkedRows' = [i \in DOMAIN linkedRows |->
            IF i \in changed THEN UpToDate(linkedRows[i], call.found) ELSE linkedRows[i]]
  BY DEF WriteLinkedRows
<1>2. LinkCallsOK'
  BY <1>1, LinkEnds
<1>3. /\ call.found \in Found
      /\ DOMAIN linkedRows \subseteq LinkedIds /\ \A i \in DOMAIN linkedRows : linkedRows[i] \in LinkedRow
  BY <1>0, LinkedRowMapFacts DEF LinkRowsOK, LinkCall
<1>4. \A i \in DOMAIN linkedRows : linkedRows'[i] \in LinkedRow /\ linkedRows'[i].key = linkedRows[i].key
  BY <1>1, <1>3, UpToDateIsRow
<1>5. linkedRows' \in LinkedRowMaps
  <2>1. linkedRows' \in [DOMAIN linkedRows -> LinkedRow]
    BY <1>1, <1>4
  <2> QED BY <1>3, <2>1, LinkedRowMapFacts
<1>6. OneRowEach'
  BY <1>0, <1>1, <1>4 DEF OneRowEach, LinkedRowsFollow
<1>7. ASSUME call.alone, NEW i \in DOMAIN linkedRows
      PROVE  LET row == linkedRows'[i]
                 usable == \E k \in DOMAIN content.entries :
                             /\ k = row.key /\ content.entries[k].http
                             /\ content.entries[k].safeUrl /\ ~content.entries[k].mrsClassical
             IN row.missing = ~usable /\ (usable => row.url = content.entries[row.key].url)
  <2>1. call.found = Discover(content.entries) /\ call.rows = linkedRows
    BY <1>0, <1>1, <1>7 DEF LinkOnCourse
  <2>2. linkedRows'[i] = UpToDate(linkedRows[i], call.found)
    BY <1>1, <1>7, <2>1
  <2>3. PICK K \in SUBSET ProviderKeys : content.entries \in [K -> Entry]
    BY <1>0 DEF LinkRowsOK, LinkedContents
  <2> DEFINE row == linkedRows'[i]
             key == linkedRows[i].key
             entries == content.entries
  <2>4. /\ row.key = key /\ row.missing = (key \notin DOMAIN call.found)
        /\ key \in DOMAIN call.found => row.url = call.found[key]
    BY <1>3, <1>7, <2>2, UpToDateIsRow
  <2>5. /\ key \in DOMAIN call.found <=> key \in K /\ entries[key].http /\ ~entries[key].mrsClassical /\ entries[key].safeUrl
        /\ key \in DOMAIN call.found => call.found[key] = entries[key].url
    BY <2>1, <2>3, DiscoverFinds
  <2>6. DOMAIN entries = K
    BY <2>3
  <2> QED BY <2>4, <2>5, <2>6
<1>8. LinkedRowsFollow'
  BY <1>1, <1>6, <1>7 DEF LinkedRowsFollow, OneRowEach
<1> QED BY <1>0, <1>1, <1>2, <1>5, <1>8 DEF LinkInv, LinkRowsOK

(* The content changes, or the operator edits a linked rule set.           *)
LEMMA LinkDisturbed ==
  ASSUME LinkInv, linkCalls' = OthersDisturbed
  PROVE  LinkCallsOK'
<1>1. ASSUME NEW d \in LinkCalls
      PROVE linkCalls'[d] \in LinkCall /\ ~linkCalls'[d].alone /\ ToBeInserted(linkCalls'[d])
  <2>1. linkCalls'[d] = [linkCalls[d] EXCEPT !.alone = FALSE]
    BY DEF OthersDisturbed
  <2>2. linkCalls[d] \in LinkCall /\ ToBeInserted(linkCalls[d])
    BY DEF LinkInv, LinkCallsOK
  <2> QED BY <2>1, <2>2 DEF LinkCall, ToBeInserted
<1>2. linkCalls' \in [LinkCalls -> LinkCall]
  BY <1>1 DEF OthersDisturbed
<1> QED BY <1>1, <1>2 DEF LinkCallsOK, LinkOnCourse, ToBeInserted

LEMMA ContentChangesKeeps == ASSUME LinkInv, ContentChanges PROVE LinkInv'
<1>0. LinkRowsOK /\ LinkedRowsFollow
  BY DEF LinkInv
<1>1. LinkCallsOK' /\ ~followed'
  BY LinkDisturbed DEF ContentChanges
<1> DEFINE EntryMaps == UNION {[K -> Entry] : K \in SUBSET ProviderKeys}
<1>2. content.there \in BOOLEAN /\ content.entries \in EntryMaps /\ NoEntry \in EntryMaps /\ NoEntry \in LinkedRowMaps
  BY <1>0, LinkedRowMapFacts DEF LinkRowsOK, LinkedContents
<1>3. CASE \E k \in ProviderKeys, entry \in Entry :
             /\ content' = [there |-> content.there, entries |-> [j \in DOMAIN content.entries \cup {k} |->
                          IF j = k THEN entry ELSE content.entries[j]]]
             /\ UNCHANGED linkedRows
  <2>1. PICK k \in ProviderKeys, entry \in Entry :
             /\ content' = [there |-> content.there, entries |-> [j \in DOMAIN content.entries \cup {k} |->
                          IF j = k THEN entry ELSE content.entries[j]]]
             /\ UNCHANGED linkedRows
    BY <1>3
  <2>2. PICK K \in SUBSET ProviderKeys : content.entries \in [K -> Entry]
    BY <1>2
  <2> DEFINE entries == [j \in K \cup {k} |-> IF j = k THEN entry ELSE content.entries[j]]
  <2>3. entries \in [K \cup {k} -> Entry] /\ K \cup {k} \in SUBSET ProviderKeys
    BY <2>2
  <2>4. content' = [there |-> content.there, entries |-> entries]
    BY <2>1, <2>2
  <2> HIDE DEF entries
  <2>5. entries \in EntryMaps
    BY <2>3
  <2>6. content' \in LinkedContents
    BY <1>2, <2>4, <2>5 DEF LinkedContents
  <2> QED BY <1>0, <1>1, <2>1, <2>6, NothingFollowed DEF LinkInv, LinkRowsOK
<1>4. CASE content' = [content EXCEPT !.entries = NoEntry] /\ UNCHANGED linkedRows
  <2>1. content' \in LinkedContents
    BY <1>0, <1>2, <1>4 DEF LinkRowsOK, LinkedContents
  <2> QED BY <1>0, <1>1, <1>4, <2>1, NothingFollowed DEF LinkInv, LinkRowsOK
<1>5. CASE content' = [there |-> FALSE, entries |-> NoEntry] /\ linkedRows' = NoEntry
  <2>1. content' \in LinkedContents /\ linkedRows' \in LinkedRowMaps
    BY <1>2, <1>5 DEF LinkedContents
  <2>2. LinkedRowsFollow'
    BY <1>1, <1>5, LinkedRowMapFacts DEF LinkedRowsFollow
  <2> QED BY <1>1, <2>1, <2>2 DEF LinkInv, LinkRowsOK
<1> QED BY <1>3, <1>4, <1>5 DEF ContentChanges

LEMMA EditLinkedKeeps == ASSUME LinkInv, EditLinked PROVE LinkInv'
<1>0. LinkRowsOK /\ LinkedRowsFollow
  BY DEF LinkInv
<1>1. LinkCallsOK' /\ ~followed' /\ content' = content
  BY LinkDisturbed DEF EditLinked
<1>2. DOMAIN linkedRows \subseteq LinkedIds /\ \A i \in DOMAIN linkedRows : linkedRows[i] \in LinkedRow
  BY <1>0, LinkedRowMapFacts DEF LinkRowsOK
<1>3. /\ DOMAIN linkedRows' \subseteq DOMAIN linkedRows /\ linkedRows' \in [DOMAIN linkedRows' -> LinkedRow]
      /\ \A j \in DOMAIN linkedRows' : linkedRows'[j].key = linkedRows[j].key
  <2>1. PICK i \in DOMAIN linkedRows :
         \/ \E url \in ProviderUrls : linkedRows' = [linkedRows EXCEPT ![i].url = url]
         \/ linkedRows' = [j \in DOMAIN linkedRows \ {i} |-> linkedRows[j]]
    BY DEF EditLinked
  <2>2. ASSUME NEW url \in ProviderUrls, linkedRows' = [linkedRows EXCEPT ![i].url = url]
        PROVE  \A j \in DOMAIN linkedRows : linkedRows'[j] \in LinkedRow /\ linkedRows'[j].key = linkedRows[j].key
    <3>1. linkedRows'[i] = [linkedRows[i] EXCEPT !.url = url] /\ linkedRows[i] \in LinkedRow
      BY <1>2, <2>2
    <3>2. linkedRows'[i] \in LinkedRow /\ linkedRows'[i].key = linkedRows[i].key
      BY <3>1 DEF LinkedRow
    <3> QED BY <1>2, <2>2, <3>2
  <2>3. CASE \E url \in ProviderUrls : linkedRows' = [linkedRows EXCEPT ![i].url = url]
    BY <2>2, <2>3
  <2>4. CASE linkedRows' = [j \in DOMAIN linkedRows \ {i} |-> linkedRows[j]]
    BY <1>2, <2>4
  <2> QED BY <2>1, <2>3, <2>4
<1>4. linkedRows' \in LinkedRowMaps
  <2>1. DOMAIN linkedRows' \in SUBSET LinkedIds
    BY <1>2, <1>3
  <2> QED BY <1>3, <2>1, LinkedRowMapFacts
<1>5. LinkedRowsFollow'
  BY <1>0, <1>1, <1>3 DEF LinkedRowsFollow
<1> QED BY <1>0, <1>1, <1>4, <1>5 DEF LinkInv, LinkRowsOK

LEMMA LinkBegins == LinkInit => LinkInv
<1> SUFFICES ASSUME LinkInit PROVE LinkInv
  OBVIOUS
<1>1. content \in LinkedContents /\ linkedRows \in LinkedRowMaps /\ DOMAIN linkedRows = {} /\ ~followed
  BY LinkedRowMapFacts DEF LinkInit, LinkedContents
<1>2. LinkCallsOK
  BY IdleLinkIsCall DEF LinkInit, LinkCallsOK
<1> QED BY <1>1, <1>2 DEF LinkInv, LinkRowsOK, LinkedRowsFollow

LEMMA LinkKeeps == LinkInv /\ [LinkNext]_linkVars => LinkInv'
<1> SUFFICES ASSUME LinkInv, [LinkNext]_linkVars PROVE LinkInv'
  OBVIOUS
<1>1. CASE UNCHANGED linkVars
  <2>1. LinkRowsOK' /\ LinkedRowsFollow'
    BY <1>1 DEF LinkInv, LinkRowsOK, LinkedRowsFollow, linkVars
  <2>2. LinkCallsOK'
    BY <1>1 DEF LinkInv, LinkCallsOK, ToBeInserted, LinkOnCourse, linkVars
  <2> QED BY <2>1, <2>2 DEF LinkInv
<1>2. ASSUME NEW c \in LinkCalls, CutOffLink(c) PROVE LinkInv'
  <2>1. linkCalls[c].at # "idle" /\ LinkGoes(c, IdleLink) /\ ~followed' /\ content' = content /\ linkedRows' = linkedRows
    BY <1>2 DEF CutOffLink, InLink, linkStore
  <2>2. LinkCallsOK'
    BY <2>1, LinkEnds
  <2> QED BY <2>1, <2>2, NothingFollowed DEF LinkInv, LinkRowsOK
<1> QED BY <1>1, <1>2, StartLinkKeeps, ListCandidatesKeeps, InsertLinkedKeeps, ReadLinkedRowsKeeps,
           WriteLinkedRowsKeeps, ContentChangesKeeps, EditLinkedKeeps DEF LinkNext

(* syncSourceRemoteRuleSets: however refreshes, edits and links overlapped *)
(* before, a sync that runs alone leaves every linked rule set at what its *)
(* provider says, and marked missing exactly if the content has none; and  *)
(* no two rule sets are ever linked to one provider.                       *)
THEOREM LinkedRowsFollowHolds == LinkSpec => []LinkedRowsFollow
<1>1. LinkInv => LinkedRowsFollow
  BY DEF LinkInv
<1> QED BY <1>1, LinkBegins, LinkKeeps, PTL DEF LinkSpec

(* The content, the rows and the calls keep their types.                   *)
THEOREM LinkTypesHold == LinkSpec => []LinkTypes
<1> DEFINE Counted == contents \in 0..MaxContents /\ followed \in BOOLEAN
<1>1. LinkInit => Counted
  <2> SUFFICES ASSUME LinkInit PROVE Counted
    OBVIOUS
  <2>1. contents = 0 /\ followed \in BOOLEAN
    BY Zenon DEF LinkInit
  <2> QED BY <2>1, LinkedRuleSetsAssumption
<1>2. LinkInv /\ Counted /\ [LinkNext]_linkVars => Counted'
  <2> SUFFICES ASSUME LinkInv, Counted, [LinkNext]_linkVars PROVE Counted'
    OBVIOUS
  <2>1. ASSUME NEW c \in LinkCalls, WriteLinkedRows(c) PROVE Counted'
    <3>1. linkCalls[c].alone \in BOOLEAN
      BY <2>1 DEF LinkInv, LinkCallsOK, LinkCall
    <3> QED BY <2>1, <3>1 DEF WriteLinkedRows
  <2>2. CASE ContentChanges \/ EditLinked
    <3>1. contents < MaxContents /\ contents' = contents + 1
      BY <2>2 DEF ContentChanges, EditLinked
    <3>2. followed' \in BOOLEAN
      BY <2>2, Zenon DEF ContentChanges, EditLinked
    <3> QED BY <3>1, <3>2, LinkedRuleSetsAssumption
  <2>3. ASSUME NEW c \in LinkCalls,
               StartLink(c) \/ ListCandidates(c) \/ InsertLinked(c) \/ ReadLinkedRows(c) \/ CutOffLink(c)
        PROVE Counted'
    BY <2>3 DEF StartLink, ListCandidates, InsertLinked, ReadLinkedRows, CutOffLink, linkStore
  <2> QED BY <2>1, <2>2, <2>3 DEF LinkNext, linkVars
<1>3. LinkInv /\ Counted => LinkTypes
  BY LinkedRowMapFacts DEF LinkInv, LinkRowsOK, LinkCallsOK, LinkCall, LinkedContents, LinkTypes
<1> QED BY <1>1, <1>2, <1>3, LinkBegins, LinkKeeps, PTL DEF LinkSpec

-----------------------------------------------------------------------------
(* What is linked to a source, side by side: a step is one of the rule     *)
(* sets or one of the node groups.                                         *)
FollowersSpec ==
    /\ LinkInit /\ GroupInit
    /\ [][\/ LinkNext /\ UNCHANGED groupVars
          \/ GroupNext /\ UNCHANGED linkVars]_<<linkVars, groupVars>>

(* After any overlap of syncs, refreshes and edits, what ran alone last    *)
(* leaves the linked rule sets and the node groups of a source at what its *)
(* content says: syncSourceRemoteRuleSets, syncImportedSourceNodeGroups.   *)
THEOREM FollowersFollowHolds == FollowersSpec => []FollowersFollow
<1>1. FollowersSpec => LinkSpec /\ GroupSpec
  <2>1. ASSUME [\/ LinkNext /\ UNCHANGED groupVars
                \/ GroupNext /\ UNCHANGED linkVars]_<<linkVars, groupVars>>
        PROVE  [LinkNext]_linkVars /\ [GroupNext]_groupVars
    BY <2>1
  <2> QED BY <2>1, PTL DEF FollowersSpec, LinkSpec, GroupSpec
<1> QED BY <1>1, LinkedRowsFollowHolds, SourceGroupsFollowHolds, PTL DEF FollowersFollow
=============================================================================
