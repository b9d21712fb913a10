------------------------------ MODULE RuleList ------------------------------
(***************************************************************************)
(* The order of the rules of a workspace: routes/rules.ts, and the         *)
(* statement with which an import adds rules.  A call is a sequence of     *)
(* database calls; other calls run between two of them.  The target of a   *)
(* rule is in PolicyGroups.                                                *)
(***************************************************************************)
EXTENDS Integers, FiniteSets, Sequences

CONSTANTS
    RuleIds,      \* the ids that newId may return
    ListCalls,    \* requests that may be in flight together
    MaxListCalls  \* bound on the requests that arrive

ASSUME RuleListAssumption ==
    MaxListCalls \in Nat /\ IsFiniteSet(RuleIds)

VARIABLES
    rules,     \* the rows of the workspace, by id
    listCalls, \* what each request holds between two database calls
    listClock, \* now(): ticks once per request
    asked      \* what the requests asked for, while they came one by one

listVars == <<rules, listCalls, listClock, asked>>

(* enabled is the integer column, of which an export wants the value 1. *)
Rule == [order : Int, enabled : Nat, born : Nat, imported : BOOLEAN]

Call == [op : {"none", "reorder", "create", "batch", "import", "toggle", "edit", "delete"},
         step : {"arrived", "read"}, ids : Seq(RuleIds), seen : Int, row : Rule,
         ts : Nat, lone : BOOLEAN]

NoRule == [order |-> 0, enabled |-> 1, born |-> 0, imported |-> FALSE]
NoCall == [op |-> "none", step |-> "arrived", ids |-> <<>>, seen |-> 0, row |-> NoRule,
           ts |-> 0, lone |-> TRUE]

RangeOf(s) == {s[i] : i \in DOMAIN s}
Named(s) == \A i, j \in DOMAIN s : s[i] = s[j] => i = j

(* ORDER BY sort_order ASC, created_at ASC *)
ListedBefore(id, other) ==
    \/ rules[id].order < rules[other].order
    \/ rules[id].order = rules[other].order /\ rules[id].born < rules[other].born

(* WHERE enabled = 1: the rules an export reads. *)
Exported == {id \in DOMAIN rules : rules[id].enabled = 1}

MaxOrder ==
    IF DOMAIN rules = {} THEN -1
    ELSE CHOOSE n \in {rules[id].order : id \in DOMAIN rules} :
            \A id \in DOMAIN rules : rules[id].order <= n

ListInit ==
    /\ rules = [id \in {} |-> NoRule]
    /\ listCalls = [c \in ListCalls |-> NoCall]
    /\ listClock = 0
    /\ asked = [known |-> TRUE, list |-> <<>>]

-----------------------------------------------------------------------------
Busy == {c \in ListCalls : listCalls[c].op # "none"}

(* A request arrives; it is alone until another one is in flight with it. *)
ArriveAtList(c, op, ids) ==
    /\ c \notin Busy /\ listClock < MaxListCalls
    /\ listClock' = listClock + 1
    /\ listCalls' = [d \in ListCalls |->
         IF d = c THEN [NoCall EXCEPT !.op = op, !.ids = ids, !.ts = listClock + 1,
                                      !.lone = (Busy = {})]
         ELSE [listCalls[d] EXCEPT !.lone = FALSE]]
    /\ UNCHANGED <<rules, asked>>

LeaveList(c) == listCalls' = [listCalls EXCEPT ![c] = NoCall]

(* The list after a request that ran alone; unknown after one that did not. *)
Asks(c, list, always) ==
    asked' = IF listCalls[c].lone /\ (asked.known \/ always) THEN [known |-> TRUE, list |-> list]
             ELSE [known |-> FALSE, list |-> <<>>]

(* The list of asked without an id that is in it. *)
AskedBut(id) ==
    LET k == CHOOSE i \in DOMAIN asked.list : asked.list[i] = id
    IN [i \in 1..(Len(asked.list) - 1) |-> asked.list[IF i < k THEN i ELSE i + 1]]

Reads(c, op) == listCalls[c].op = op /\ listCalls[c].step = "arrived"
Writes(c, op) == listCalls[c].op = op /\ listCalls[c].step = "read"

(* The request saw nothing to do, or nothing it may do, and wrote nothing. *)
Refused(c) == LeaveList(c) /\ UNCHANGED <<rules, listClock, asked>>

IdsOf(c) == RangeOf(listCalls[c].ids)

-----------------------------------------------------------------------------
(* POST /reorder: the ids must be all the current ones, each once. *)
CheckReorder(c) ==
    /\ Reads(c, "reorder")
    /\ IF IdsOf(c) = DOMAIN rules /\ listCalls[c].ids # <<>>
         THEN /\ listCalls' = [listCalls EXCEPT ![c].step = "read"]
              /\ UNCHANGED <<rules, listClock, asked>>
         ELSE Refused(c)

ReorderedSlipFromOne(ids) ==
    [id \in DOMAIN rules |->
        IF id \in RangeOf(ids) /\ id # ids[1]
          THEN [rules[id] EXCEPT !.order = (CHOOSE i \in DOMAIN ids : ids[i] = id) - 1]
          ELSE rules[id]]

(* One UPDATE per id; a row that is gone by now matches nothing. *)
Reordered(ids) ==
    [id \in DOMAIN rules |->
        IF id \in RangeOf(ids)
          THEN [rules[id] EXCEPT !.order = (CHOOSE i \in DOMAIN ids : ids[i] = id) - 1]
          ELSE rules[id]]

WriteReorder(c) ==
    /\ Writes(c, "reorder")
    /\ rules' = Reordered(listCalls[c].ids)
    /\ Asks(c, listCalls[c].ids, TRUE)
    /\ LeaveList(c) /\ UNCHANGED listClock

(* SELECT MAX(sort_order), before the insert of one rule or of several. *)
ReadMax(c) ==
    /\ \E op \in {"create", "batch", "import"} : Reads(c, op)
    /\ listCalls' = [listCalls EXCEPT ![c].step = "read", ![c].seen = MaxOrder]
    /\ UNCHANGED <<rules, listClock, asked>>

AddedRules(rows) ==
    [id \in DOMAIN rules \cup DOMAIN rows |-> IF id \in DOMAIN rows THEN rows[id] ELSE rules[id]]

PositionSlipSame(c, i) == listCalls[c].seen + 1

Position(c, i) == listCalls[c].seen + i

(* POST / and POST /batch: positions after the largest one read before. *)
InsertRules(c) ==
    /\ Writes(c, "create") \/ Writes(c, "batch")
    /\ LET ids == listCalls[c].ids
           row(i) == [NoRule EXCEPT !.order = Position(c, i), !.born = listCalls[c].ts]
       IN /\ rules' = AddedRules([id \in RangeOf(ids) |-> row(CHOOSE i \in DOMAIN ids : ids[i] = id)])
          /\ Asks(c, asked.list \o ids, FALSE)
    /\ LeaveList(c) /\ UNCHANGED listClock

(* importStructuredSourceContent: the order is bound where the statement   *)
(* has its placeholder for enabled, and sort_order is the literal 1.       *)
InsertImported(c) ==
    /\ Writes(c, "import")
    /\ LET ids == listCalls[c].ids
           row(i) == [order |-> 1, enabled |-> listCalls[c].seen + i, born |-> listCalls[c].ts,
                      imported |-> TRUE]
       IN rules' = AddedRules([id \in RangeOf(ids) |-> row(CHOOSE i \in DOMAIN ids : ids[i] = id)])
    /\ asked' = [known |-> FALSE, list |-> <<>>]
    /\ LeaveList(c) /\ UNCHANGED listClock

(* PUT /batch-enabled: refused unless every id is there; then one UPDATE. *)
CheckToggle(c) ==
    /\ Reads(c, "toggle")
    /\ IF IdsOf(c) \subseteq DOMAIN rules
         THEN /\ listCalls' = [listCalls EXCEPT ![c].step = "read"]
              /\ UNCHANGED <<rules, listClock, asked>>
         ELSE Refused(c)

WriteToggle(c) ==
    /\ Writes(c, "toggle")
    /\ \E on \in {0, 1} :
         rules' = [id \in DOMAIN rules |->
                     IF id \in IdsOf(c) THEN [rules[id] EXCEPT !.enabled = on] ELSE rules[id]]
    /\ LeaveList(c) /\ UNCHANGED <<listClock, asked>>

(* PUT /:id reads the row, and writes every column back that the body      *)
(* leaves out; here the body has neither order nor enabled.                *)
ReadEdited(c) ==
    /\ Reads(c, "edit")
    /\ IF IdsOf(c) \subseteq DOMAIN rules
         THEN /\ listCalls' = [listCalls EXCEPT ![c].step = "read",
                                                ![c].row = rules[listCalls[c].ids[1]]]
              /\ UNCHANGED <<rules, listClock, asked>>
         ELSE Refused(c)

WriteEdited(c) ==
    /\ Writes(c, "edit")
    /\ rules' = [id \in DOMAIN rules |->
                   IF id \in IdsOf(c)
                     THEN [rules[id] EXCEPT !.order = listCalls[c].row.order,
                                            !.enabled = listCalls[c].row.enabled]
                     ELSE rules[id]]
    /\ Asks(c, asked.list, FALSE)
    /\ LeaveList(c) /\ UNCHANGED listClock

(* DELETE /:id *)
CheckDelete(c) ==
    /\ Reads(c, "delete")
    /\ IF IdsOf(c) \subseteq DOMAIN rules
         THEN /\ listCalls' = [listCalls EXCEPT ![c].step = "read"]
              /\ UNCHANGED <<rules, listClock, asked>>
         ELSE Refused(c)

WriteDelete(c) ==
    /\ Writes(c, "delete")
    /\ rules' = [id \in DOMAIN rules \ IdsOf(c) |-> rules[id]]
    /\ Asks(c, AskedBut(listCalls[c].ids[1]), FALSE)
    /\ LeaveList(c) /\ UNCHANGED listClock

(* The invocation ends between two database calls. *)
DropListCall(c) ==
    /\ c \in Busy
    /\ LeaveList(c) /\ UNCHANGED <<rules, listClock, asked>>

-----------------------------------------------------------------------------
(* New ids are fresh: neither stored nor taken by a request in flight. *)
FreshIds == RuleIds \ (DOMAIN rules \cup UNION {IdsOf(c) : c \in Busy})

IdLists == {s \in UNION {[1..n -> RuleIds] : n \in 1..Cardinality(RuleIds)} : Named(s)}

ListArrivals(c) ==
    \/ \E ids \in IdLists : ArriveAtList(c, "reorder", ids)
    \/ \E id \in FreshIds : ArriveAtList(c, "create", <<id>>)
    \/ \E ids \in IdLists :
         /\ RangeOf(ids) \subseteq FreshIds /\ Len(ids) = 2
         /\ ArriveAtList(c, "batch", ids) \/ ArriveAtList(c, "import", ids)
    \/ \E id \in DOMAIN rules, op \in {"toggle", "edit", "delete"} : ArriveAtList(c, op, <<id>>)

ListNext ==
    \E c \in ListCalls :
        \/ ListArrivals(c) \/ DropListCall(c)
        \/ CheckReorder(c) \/ WriteReorder(c)
        \/ ReadMax(c) \/ InsertRules(c) \/ InsertImported(c)
        \/ CheckToggle(c) \/ WriteToggle(c)
        \/ ReadEdited(c) \/ WriteEdited(c)
        \/ CheckDelete(c) \/ WriteDelete(c)

ListSpec == ListInit /\ [][ListNext]_listVars

-----------------------------------------------------------------------------
ListTypes ==
    /\ DOMAIN rules \subseteq RuleIds /\ rules \in [DOMAIN rules -> Rule]
    /\ listCalls \in [ListCalls -> Call]
    /\ listClock \in 0..MaxListCalls
    /\ asked \in [known : BOOLEAN, list : Seq(RuleIds)]

(* As long as requests come one by one, the list is what they asked for:   *)
(* new rules last and in their order, a reordered list as it was sent, and *)
(* no two rules in an order left to chance.  Whatever an import, or        *)
(* requests in flight together, left behind, one reorder that runs alone   *)
(* puts right.                                                             *)
ListIsAsAsked ==
    asked.known =>
        /\ DOMAIN rules = RangeOf(asked.list) /\ Named(asked.list)
        /\ \A i, j \in DOMAIN asked.list : i < j => ListedBefore(asked.list[i], asked.list[j])

(* A rule that an import adds is enabled: the next export reads it. *)
ImportedRulesAreExported ==
    [][\A id \in DOMAIN rules' \ DOMAIN rules :
         rules'[id].imported => id \in Exported']_listVars
=============================================================================
