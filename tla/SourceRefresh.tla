---------------------------- MODULE SourceRefresh ----------------------------
(***************************************************************************)
(* Subscription sources and their nodes: created and refreshed by requests *)
(* and by the cron trigger, deleted, with nodes that the operator disables *)
(* or adds by hand.  A refresh reads the row, fetches the URL, reads the   *)
(* nodes, and applies the difference in one batch; every database call and *)
(* the fetch is one action, so refreshes of one source can overlap.        *)
(***************************************************************************)
EXTENDS NodeDiff

CONSTANTS
    Sources,      \* subscription sources (type 'url'), in the order of created_at
    Requests,     \* slots for requests in flight
    Nobody,       \* no source
    Contents,     \* what the provider may serve: sequences of parsed nodes
    Ids,          \* node ids; those no row and no request knows are fresh
    Concurrency,  \* AUTO_REFRESH_CONCURRENCY
    MaxDeaths,    \* bound: how often an invocation is cut off
    MaxEdits      \* bound: how often the operator edits nodes

ASSUME ConstantsAssumption ==
    /\ Sources \subseteq Nat /\ Sources \cap Requests = {} /\ Nobody \notin Sources
    /\ Ids \subseteq Nat /\ IsFiniteSet(Ids)
    /\ Concurrency \in Nat \ {0} /\ MaxDeaths \in Nat /\ MaxEdits \in Nat

VARIABLES
    source,   \* sources: "absent", "live", "gone"
    due,      \* last_updated is NULL or older than the interval
    failed,   \* last_refresh_error IS NOT NULL
    count,    \* node_count
    nodes,    \* the rows of nodes
    task,     \* requests, and the refreshes of the cron (named by their source)
    cron,     \* the scheduled invocation
    deaths,   \* bounded by MaxDeaths
    edits     \* bounded by MaxEdits

vars == <<source, due, failed, count, nodes, task, cron, deaths, edits>>

-----------------------------------------------------------------------------
Names == UNION {{c[i].name : i \in DOMAIN c} : c \in Contents}
Keys == UNION {{c[i].key : i \in DOMAIN c} : c \in Contents}
ASSUME ContentsAssumption == \A c \in Contents : c \in Seq([name : Names, key : Keys])

(* A node added by hand is not part of any content. *)
Row == [id : Ids, src : Sources, name : Names \cup {Nobody}, key : Keys \cup {Nobody},
        enabled : BOOLEAN, manual : BOOLEAN]
Tasks == Requests \cup Sources

RowsOf(s) == {r \in nodes : r.src = s /\ ~r.manual}

(* What a refresh uses of the rows it reads. *)
Columns == [id : Ids, name : Names, key : Keys]
Read(rs) == {[id |-> r.id, name |-> r.name, key |-> r.key] : r \in rs}

Idle == [pc |-> "idle", src |-> Nobody, body |-> <<>>, seen |-> {}, total |-> 0]

(* The types, and the keys of the tables: the id of a node is its own, and *)
(* its source is there, though refreshes of it may be waiting for the      *)
(* provider when it is deleted.                                            *)
TypeOK ==
    /\ source \in [Sources -> {"absent", "live", "gone"}]
    /\ due \in [Sources -> BOOLEAN]
    /\ failed \in [Sources -> BOOLEAN]
    /\ count \in [Sources -> 0..Cardinality(Ids)]
    /\ nodes \subseteq Row
    /\ \A r, q \in nodes : r.id = q.id => r = q
    /\ \A r \in nodes : source[r.src] = "live"
    /\ task \in [Tasks -> [pc : {"idle", "load", "fetch", "diff", "apply", "error",
                                 "fulfilled", "rejected", "tally", "count"},
                           src : Sources \cup {Nobody}, body : Contents \cup {<<>>},
                           seen : SUBSET Columns, total : 0..Cardinality(Ids)]]
    /\ cron \in [todo : SUBSET Sources, batch : SUBSET Sources]
    /\ deaths \in 0..MaxDeaths
    /\ edits \in 0..MaxEdits

Init ==
    /\ source = [s \in Sources |-> "absent"]
    /\ due = [s \in Sources |-> FALSE]
    /\ failed = [s \in Sources |-> FALSE]
    /\ count = [s \in Sources |-> 0]
    /\ nodes = {}
    /\ task = [t \in Tasks |-> Idle]
    /\ cron = [todo |-> {}, batch |-> {}]
    /\ deaths = 0
    /\ edits = 0

rows == <<source, due, failed, count, nodes>>

(* Ids are random UUIDs and only compared for equality, so the least free   *)
(* ones stand for all.                                                     *)
FreeIds == Ids \ ({r.id : r \in nodes} \cup UNION {{r.id : r \in task[t].seen} : t \in Tasks})

GoTo(t, step) == task' = [task EXCEPT ![t].pc = step]

-----------------------------------------------------------------------------
(* POST /sources, which refreshes at once, and POST /sources/:id/refresh. *)
Create(q, s) ==
    /\ task[q].pc = "idle" /\ source[s] = "absent"
    /\ \A r \in Sources : r < s => source[r] # "absent"
    /\ source' = [source EXCEPT ![s] = "live"]
    /\ due' = [due EXCEPT ![s] = TRUE]
    /\ task' = [task EXCEPT ![q] = [Idle EXCEPT !.pc = "load", !.src = s]]
    /\ UNCHANGED <<failed, count, nodes, cron, deaths, edits>>

Refresh(q, s) ==
    /\ task[q].pc = "idle" /\ source[s] = "live"
    /\ task' = [task EXCEPT ![q] = [Idle EXCEPT !.pc = "load", !.src = s]]
    /\ UNCHANGED <<rows, cron, deaths, edits>>

(* How a refresh ends: a request answers, a task of the cron settles. *)
Settle(t, outcome) ==
    task' = [task EXCEPT ![t] = IF t \in Sources THEN [Idle EXCEPT !.pc = outcome, !.src = t]
                                ELSE Idle]
(* A request records the error itself, the cron after the whole batch. *)
Reject(t) ==
    task' = [task EXCEPT ![t] = [Idle EXCEPT !.pc = IF t \in Sources THEN "rejected" ELSE "error",
                                             !.src = task[t].src]]

(* refreshSourceById, call by call.  A missing row is answered with 404,   *)
(* which a request does not record.                                        *)
Load(t) ==
    /\ task[t].pc = "load"
    /\ IF source[task[t].src] = "live" THEN GoTo(t, "fetch") ELSE Settle(t, "rejected")
    /\ UNCHANGED <<rows, cron, deaths, edits>>

(* The provider may serve anything at any time, or fail; so may the calls  *)
(* that then cache the content and update the rule sets linked to the      *)
(* source, which change nothing that is modelled here.                     *)
Fetch(t) ==
    /\ task[t].pc = "fetch"
    /\ \/ Reject(t)
       \/ \E c \in Contents : task' = [task EXCEPT ![t].pc = "diff", ![t].body = c]
    /\ UNCHANGED <<rows, cron, deaths, edits>>

(* applyParsedSourceContent: content without usable nodes is refused, or   *)
(* the rows of the source are read.                                        *)
ReadNodes(t) ==
    /\ task[t].pc = "diff"
    /\ IF task[t].body = <<>> THEN Reject(t)
       ELSE task' = [task EXCEPT ![t].pc = "apply", ![t].seen = Read(RowsOf(task[t].src))]
    /\ UNCHANGED <<rows, cron, deaths, edits>>

(* nodes.source_id references sources. *)
InsertableSlipUnchecked(s) == TRUE

Insertable(s) == source[s] = "live"

(* Its batch.  Updates and deletions name ids that may be gone by now; an  *)
(* insert for a deleted source fails, and with it the whole batch.  The    *)
(* groups and defaults that are synchronised afterwards may still fail.    *)
Apply(t) ==
    LET s == task[t].src
        seen == task[t].seen
        body == task[t].body
    IN
    /\ task[t].pc = "apply"
    /\ \E byKey \in ByKey(seen) :
         LET added == Added(seen, byKey, body)
             removed == {r.id : r \in Removed(seen, byKey, body)}
             written == {r \in seen : Writers(seen, byKey, body, r) # {}}
             update(r) ==
                 IF \E o \in written : o.id = r.id
                 THEN LET o == CHOOSE o \in written : o.id = r.id
                      IN  WriteNode(r, body[LastWriter(seen, byKey, body, o)])
                 ELSE r
             fresh == {f \in [added -> FreeIds] :
                          /\ \A i, j \in added : i < j => f[i] < f[j]
                          /\ \A n \in FreeIds, i \in added : n <= f[i] => \E j \in added : f[j] = n}
         IN
         IF Insertable(s)
         THEN \E id \in fresh :
                 /\ nodes' = {update(r) : r \in {n \in nodes : n.id \notin removed}}
                       \cup {[id |-> id[i], src |-> s, name |-> body[i].name,
                              key |-> body[i].key, enabled |-> TRUE, manual |-> FALSE] :
                                 i \in added}
                 /\ count' = [count EXCEPT ![s] = NodeCount(seen, byKey, body)]
                 /\ due' = [due EXCEPT ![s] = FALSE]
                 /\ failed' = [failed EXCEPT ![s] = FALSE]
                 /\ Settle(t, "fulfilled") \/ Reject(t)
         ELSE /\ IF added = {} THEN Settle(t, "fulfilled") ELSE Reject(t)
              /\ UNCHANGED <<nodes, count, due, failed, edits>>
    /\ UNCHANGED <<source, cron, deaths, edits>>

(* recordSourceRefreshError, for a request. *)
RecordError(q) ==
    LET s == task[q].src IN
    /\ task[q].pc = "error"
    /\ failed' = [failed EXCEPT ![s] = @ \/ source[s] = "live"]
    /\ task' = [task EXCEPT ![q] = Idle]
    /\ UNCHANGED <<source, due, count, nodes, cron, deaths, edits>>

-----------------------------------------------------------------------------
(* refreshDueSources: the due sources are read once, then refreshed in     *)
(* batches; when a whole batch has settled its errors are recorded one by  *)
(* one.                                                                    *)
Due == {s \in Sources : source[s] = "live" /\ due[s]}

Tick ==
    /\ cron.todo = {} /\ cron.batch = {}
    /\ cron' = [cron EXCEPT !.todo = Due]
    /\ cron' # cron
    /\ UNCHANGED <<rows, task, deaths, edits>>

(* The next sources in the order of the query. *)
StartBatch ==
    LET batch == {s \in cron.todo : Cardinality({r \in cron.todo : r < s}) < Concurrency} IN
    /\ cron.batch = {} /\ cron.todo # {}
    /\ cron' = [todo |-> cron.todo \ batch, batch |-> batch]
    /\ task' = [t \in Tasks |->
                   IF t \in batch THEN [Idle EXCEPT !.pc = "load", !.src = t] ELSE task[t]]
    /\ UNCHANGED <<rows, deaths, edits>>

BatchSettled == \A s \in cron.batch : task[s].pc \in {"fulfilled", "rejected"}

AfterResultSlipStops(s) ==
    cron' = IF task[s].pc = "rejected" THEN [todo |-> {}, batch |-> cron.batch \ {s}]
            ELSE [cron EXCEPT !.batch = @ \ {s}]

AfterResult(s) == cron' = [cron EXCEPT !.batch = @ \ {s}]

TakeResult(s) ==
    /\ s \in cron.batch /\ BatchSettled
    /\ failed' = [failed EXCEPT ![s] =
           @ \/ (task[s].pc = "rejected" /\ source[s] = "live")]
    /\ AfterResult(s)
    /\ task' = [task EXCEPT ![s] = Idle]
    /\ UNCHANGED <<source, due, count, nodes, deaths, edits>>

-----------------------------------------------------------------------------
(* DELETE /sources/:id: the last batch of deleteSourceById. *)
DeleteSource(s) ==
    /\ source[s] = "live"
    /\ source' = [source EXCEPT ![s] = "gone"]
    /\ nodes' = {r \in nodes : r.src # s}
    /\ UNCHANGED <<due, failed, count, task, cron, deaths, edits>>

Edit == edits < MaxEdits /\ edits' = edits + 1

(* What the operator does to nodes; a node added by hand is removed at    *)
(* most once, so removing needs no bound of its own.                       *)
(* PUT /nodes/:id of a node that is not manual changes nothing but 'enabled'. *)
SwitchNode(r) ==
    /\ Edit
    /\ r \in nodes
    /\ nodes' = (nodes \ {r}) \cup {[r EXCEPT !.enabled = ~@]}
    /\ UNCHANGED <<source, due, failed, count, task, cron, deaths>>

(* POST /nodes with a sourceId, DELETE /nodes/:id: the row, then           *)
(* updateSourceNodeCount, which counts the rows in a call of its own.      *)
Tally(q, s) == task' = [task EXCEPT ![q] = [Idle EXCEPT !.pc = "tally", !.src = s]]

AddNode(q, s) ==
    /\ Edit
    /\ task[q].pc = "idle" /\ source[s] = "live"
    /\ \E id \in FreeIds :
         nodes' = nodes \cup {[id |-> id, src |-> s, name |-> Nobody, key |-> Nobody,
                              enabled |-> TRUE, manual |-> TRUE]}
    /\ Tally(q, s)
    /\ UNCHANGED <<source, due, failed, count, cron, deaths>>

RemoveNode(q, r) ==
    /\ task[q].pc = "idle" /\ r \in nodes /\ r.manual
    /\ nodes' = nodes \ {r}
    /\ Tally(q, r.src)
    /\ UNCHANGED <<source, due, failed, count, cron, deaths, edits>>

CountNodes(q) ==
    /\ task[q].pc = "tally"
    /\ task' = [task EXCEPT ![q].pc = "count",
                    ![q].total = Cardinality({r \in nodes : r.src = task[q].src})]
    /\ UNCHANGED <<rows, cron, deaths, edits>>

StoreCount(q) ==
    LET s == task[q].src IN
    /\ task[q].pc = "count"
    /\ count' = [count EXCEPT ![s] = IF source[s] = "live" THEN task[q].total ELSE @]
    /\ task' = [task EXCEPT ![q] = Idle]
    /\ UNCHANGED <<source, due, failed, nodes, cron, deaths, edits>>

-----------------------------------------------------------------------------
(* The refresh interval passes. *)
Expire(s) ==
    /\ source[s] = "live" /\ ~due[s]
    /\ due' = [due EXCEPT ![s] = TRUE]
    /\ UNCHANGED <<source, failed, count, nodes, task, cron, deaths, edits>>

(* An invocation is cut off: a request, or the cron with all it started. *)
RequestDies(q) ==
    /\ deaths < MaxDeaths /\ task[q].pc # "idle"
    /\ task' = [task EXCEPT ![q] = Idle]
    /\ deaths' = deaths + 1
    /\ UNCHANGED <<rows, cron, edits>>

CronDies ==
    /\ deaths < MaxDeaths /\ cron.todo \cup cron.batch # {}
    /\ cron' = [todo |-> {}, batch |-> {}]
    /\ task' = [t \in Tasks |-> IF t \in Sources THEN Idle ELSE task[t]]
    /\ deaths' = deaths + 1
    /\ UNCHANGED <<rows, edits>>

-----------------------------------------------------------------------------
Step(t) == Load(t) \/ Fetch(t) \/ ReadNodes(t) \/ Apply(t)

Answer(q) == Step(q) \/ RecordError(q) \/ CountNodes(q) \/ StoreCount(q)

Cron == Tick \/ StartBatch \/ \E s \in Sources : TakeResult(s)

Next ==
    \/ \E q \in Requests :
         \/ \E s \in Sources : Create(q, s) \/ Refresh(q, s) \/ AddNode(q, s)
         \/ \E r \in nodes : RemoveNode(q, r)
         \/ Answer(q) \/ RequestDies(q)
    \/ \E s \in Sources : Step(s) \/ DeleteSource(s) \/ Expire(s)
    \/ \E r \in nodes : SwitchNode(r)
    \/ Cron \/ CronDies

Spec == Init /\ [][Next]_vars

(* Refreshes that started go on, and the cron trigger keeps firing. *)
FairSpec ==
    /\ Spec
    /\ \A s \in Sources : WF_vars(Step(s))
    /\ WF_vars(Cron)

-----------------------------------------------------------------------------
(* Task t applies its difference, and to rows nobody changed meanwhile. *)
Applies(t, s) ==
    /\ task[t].pc = "apply" /\ task'[t].pc # "apply" /\ task[t].src = s
    /\ source[s] = "live"
Alone(t, s) == Applies(t, s) /\ task[t].seen = Read(RowsOf(s)) /\ deaths' = deaths

(* Nodes and summary are written together: a refresh that was alone leaves *)
(* as many rows as it reports, no key twice and none that was not served,  *)
(* whatever overlapping refreshes left before it.                          *)
LoneRefreshSettles ==
    [][\A t \in Tasks : \A s \in Sources : Alone(t, s) =>
         /\ count'[s] = Cardinality(RowsOf(s)')
         /\ \A r, o \in RowsOf(s)' : r.key = o.key => r = o
         /\ \A r \in RowsOf(s)' : \E i \in DOMAIN task[t].body : r.key = task[t].body[i].key]_vars

(* Row o, read by task t, goes to another connection: a node listed after  *)
(* the one with its key has its name, and a key that no row has.           *)
Overtaken(t, o) ==
    LET body == task[t].body IN
    \E j \in DOMAIN body :
        /\ \E i \in 1..(j - 1) : body[i].key = o.key
        /\ body[j].key \notin {q.key : q \in task[t].seen}
        /\ o \in ByUniqueName(task[t].seen, body, body[j].name)

(* A connection that the operator disabled is not enabled by a refresh,    *)
(* however the provider renames or reorders its nodes: its rows are off    *)
(* afterwards and, as long as the provider serves it, it has one, so that  *)
(* the next refresh finds it off again.  What is not served loses its row, *)
(* and what is Overtaken loses it though it is served (the corner of       *)
(* ServedNodesStay): either comes back enabled with a later refresh.       *)
DisabledStaysDisabled ==
    [][\A t \in Tasks : \A s \in Sources : Alone(t, s) =>
         \A k \in Keys :
             /\ \E r \in RowsOf(s) : r.key = k
             /\ \A r \in RowsOf(s) : r.key = k => ~r.enabled
             => /\ \A r \in RowsOf(s)' : r.key = k => ~r.enabled
                /\ /\ \E i \in DOMAIN task[t].body : task[t].body[i].key = k
                   /\ \A o \in task[t].seen : o.key = k => ~Overtaken(t, o)
                   => \E r \in RowsOf(s)' : r.key = k]_vars

(* Neither an earlier failure of its own, nor the failure of another       *)
(* source, nor a cut-off invocation keeps a due source waiting for ever:   *)
(* the cron trigger carries a refresh of it through.                       *)
DueIsServed ==
    \A s \in Sources : (source[s] = "live" /\ due[s])
        ~> (source[s] # "live" \/ ~due[s] \/ task[s].pc \in {"fulfilled", "rejected"})

(* A stored connection that is still served keeps its row: only those "not *)
(* in new set" are removed.                                                *)
ServedNodesStay ==
    [][\A t \in Tasks : \A s \in Sources : Alone(t, s) =>
         \A r \in RowsOf(s) :
             (\E i \in DOMAIN task[t].body : task[t].body[i].key = r.key)
             => \E q \in RowsOf(s)' : q.key = r.key]_vars
=============================================================================
