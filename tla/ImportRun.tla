------------------------------ MODULE ImportRun ------------------------------
(***************************************************************************)
(* The life of an import run: POST /sources/import creates a clipboard     *)
(* source together with a source_import_runs row, stores the raw content,  *)
(* inserts the nodes, applies the rules of the file and completes the run; *)
(* the node and the rule phase can be retried separately; a run left       *)
(* 'running' by a request that died is recovered as 'partial' after ten    *)
(* minutes; undoing a run deletes its source and everything it brought.    *)
(*                                                                         *)
(* A request is a sequence of awaited database calls.  Each call is one    *)
(* action; between two of them any other request may run.  db.batch is one *)
(* transaction.  A run and its source are created together and identify    *)
(* each other, so both are indexed by Runs.                                *)
(***************************************************************************)
EXTENDS FiniteSets

CONSTANTS
    Runs,       \* imports that may be made: a run and the source it creates
    Requests,   \* slots for requests in flight at the same time
    Rules,      \* rules of the operator that every imported file also names
    Groups,     \* policy groups a rule can send traffic to
    Nobody,     \* not a run: the target of a rule was chosen by the operator
    Wants,      \* Wants[r][k]: the group the file of run r names for rule k
    NodeRuns,   \* runs whose content has usable proxy nodes
    NewOnly,    \* runs made with nodeImportMode 'new-only'
    Faults,     \* a request may die between two calls, a late write may fail
    SlowRequests, \* a request may outlive STALE_SOURCE_IMPORT_RUN_MS
    UndoAnytime   \* an undo may be in flight together with other requests
                  \* for the same run

ASSUME ConstantsAssumption ==
    /\ Nobody \notin Runs
    /\ Groups # {}
    /\ Wants \in [Runs -> [Rules -> Groups]]
    /\ NodeRuns \subseteq Runs
    /\ NewOnly \subseteq NodeRuns
    /\ {Faults, SlowRequests, UndoAnytime} \subseteq BOOLEAN

VARIABLES
    \* source_import_runs
    status, refreshError, structuredError, structuredChanges,
    aged,       \* COALESCE(completed_at, created_at) is over ten minutes old
    \* sources, nodes, rules
    source, stored, nodes, marked, target,
    \* history: which run set the target of a rule, and what it replaced
    credit, replaced,
    \* history: the rule phase was asked for; it was carried out
    asked, ruled,
    req         \* what each request in flight is doing

runVars == <<status, refreshError, structuredError, structuredChanges, aged>>
dataVars == <<source, stored, nodes, marked, target>>
history == <<credit, replaced, asked, ruled>>
vars == <<runVars, dataVars, history, req>>

-----------------------------------------------------------------------------
Status == {"none", "running", "success", "partial", "undone"}
NoError == "none"
(* The texts the code stores in refresh_error; structured_error has one. *)
RefreshErrors == {NoError, "parsing or persistence failed",
                  "did not complete", "node import failed"}

(* StructuredImportUndoChange: the rule, its group before and after. *)
Change == [rule : Rules, before : Groups, applied : Groups]

ImportSteps == {"store", "nodes", "plan", "write", "finish"}
RetrySteps == ImportSteps \cup {"fail"}
Request == [op : {"none", "import", "nodeRetry", "ruleRetry", "undo"},
            pc : RetrySteps \cup
                 {"idle", "read", "content", "claim", "lookup", "changes", "delete"},
            run : Runs \cup {Nobody},
            seenRefresh : RefreshErrors, seenStructured : BOOLEAN,
            seenChanges : SUBSET Change, nodesFailed : BOOLEAN, rulesFailed : BOOLEAN,
            wantsRules : BOOLEAN, plan : SUBSET Change]

Idle == [op |-> "none", pc |-> "idle", run |-> Nobody,
         seenRefresh |-> NoError, seenStructured |-> FALSE,
         seenChanges |-> {}, nodesFailed |-> FALSE, rulesFailed |-> FALSE,
         wantsRules |-> FALSE, plan |-> {}]

TypeOK ==
    /\ status \in [Runs -> Status]
    /\ refreshError \in [Runs -> RefreshErrors]
    /\ structuredError \in [Runs -> BOOLEAN]
    /\ structuredChanges \in [Runs -> SUBSET Change]
    /\ aged \in [Runs -> BOOLEAN]
    /\ source \in [Runs -> {"absent", "live", "gone"}]
    /\ stored \in [Runs -> BOOLEAN]
    /\ nodes \in [Runs -> BOOLEAN]
    /\ marked \in [Runs -> BOOLEAN]
    /\ target \in [Rules -> Groups]
    /\ credit \in [Rules -> Runs \cup {Nobody}]
    /\ replaced \in [Rules -> Groups]
    /\ asked \in [Runs -> BOOLEAN]
    /\ ruled \in [Runs -> BOOLEAN]
    /\ req \in [Requests -> Request]

Init ==
    /\ status = [r \in Runs |-> "none"]
    /\ refreshError = [r \in Runs |-> NoError]
    /\ structuredError = [r \in Runs |-> FALSE]
    /\ structuredChanges = [r \in Runs |-> {}]
    /\ aged = [r \in Runs |-> FALSE]
    /\ source = [r \in Runs |-> "absent"]
    /\ stored = [r \in Runs |-> FALSE]
    /\ nodes = [r \in Runs |-> FALSE]
    /\ marked = [r \in Runs |-> FALSE]
    /\ target \in [Rules -> Groups]
    /\ credit = [k \in Rules |-> Nobody]
    /\ replaced = target
    /\ asked = [r \in Runs |-> FALSE]
    /\ ruled = [r \in Runs |-> FALSE]
    /\ req = [q \in Requests |-> Idle]

(* Request q holds run r: it created the run, or its claim succeeded. *)
Works(q, r) == req[q].run = r /\ req[q].pc \in RetrySteps

GoTo(q, step) == req' = [req EXCEPT ![q].pc = step]
Done(q) == req' = [req EXCEPT ![q] = Idle]
At(q, ops, step) == req[q].op \in ops /\ req[q].pc = step

-----------------------------------------------------------------------------
(* Slips, here and below: a definition as a plausible mistake would have    *)
(* it, to test that the properties notice; no specification uses them.     *)
StaleSlipAge(r) == status[r] = "running"
StaleSlipFirstAttempt(r) == status[r] = "running" /\ aged[r] /\ refreshError[r] # NoError

(* recoverStaleSourceImportRuns: the first call of the history listing, of *)
(* the retries, of their previews and of the undo.                         *)
Stale(r) == status[r] = "running" /\ aged[r]

RecoverStale ==
    /\ status' = [r \in Runs |-> IF Stale(r) THEN "partial" ELSE status[r]]
    /\ refreshError' = [r \in Runs |->
         IF Stale(r) /\ ~structuredError[r] /\ refreshError[r] = NoError
         THEN "did not complete" ELSE refreshError[r]]
    /\ aged' = [r \in Runs |-> aged[r] /\ ~Stale(r)]
    /\ UNCHANGED <<structuredError, structuredChanges>>

ListImports ==
    /\ RecoverStale
    /\ UNCHANGED <<dataVars, history, req>>

(* Ten minutes pass for a run that is still 'running'. *)
Age(r) ==
    /\ status[r] = "running" /\ ~aged[r]
    /\ SlowRequests \/ \A q \in Requests : ~Works(q, r)
    /\ aged' = [aged EXCEPT ![r] = TRUE]
    /\ UNCHANGED <<status, refreshError, structuredError, structuredChanges,
                   dataVars, history, req>>

-----------------------------------------------------------------------------
(* POST /sources/import: the source and the run are inserted in one batch. *)
Import(q, r, wantsRules) ==
    /\ req[q].pc = "idle" /\ source[r] = "absent"
    /\ source' = [source EXCEPT ![r] = "live"]
    /\ status' = [status EXCEPT ![r] = "running"]
    /\ aged' = [aged EXCEPT ![r] = FALSE]
    /\ asked' = [asked EXCEPT ![r] = wantsRules]
    /\ req' = [req EXCEPT ![q] = [Idle EXCEPT !.op = "import", !.pc = "store",
                                     !.run = r, !.wantsRules = wantsRules]]
    /\ UNCHANGED <<refreshError, structuredError, structuredChanges, stored, nodes,
                   marked, target, credit, replaced, ruled>>

(* cacheFetchedSourceContent, or persistStructuredOnlySourceContent for a  *)
(* file without nodes whose rules are wanted: the raw content is kept      *)
(* before anything is parsed.  Without the source the UPDATE does nothing. *)
StoreContent(q) ==
    LET r == req[q].run IN
    /\ At(q, {"import", "nodeRetry"}, "store")
    /\ stored' = [stored EXCEPT ![r] = @ \/ source[r] = "live"]
    /\ GoTo(q, IF r \notin NodeRuns /\ req[q].wantsRules THEN "plan" ELSE "nodes")
    /\ UNCHANGED <<runVars, source, nodes, marked, target, history>>

AfterNodesSlipForgets(q, failed) ==
    req' = [req EXCEPT ![q].pc = IF req[q].op = "import" /\ req[q].wantsRules
                                 THEN "plan" ELSE "finish"]

AfterNodes(q, failed) ==
    req' = [req EXCEPT
        ![q].nodesFailed = failed,
        ![q].pc = CASE req[q].op = "nodeRetry" /\ failed -> "fail"
                    [] req[q].op = "import" /\ req[q].wantsRules -> "plan"
                    [] OTHER -> "finish"]

(* applyParsedSourceContent: the nodes and the summary of the source in    *)
(* one batch.  nodes.source_id is a foreign key, so an insert for a        *)
(* deleted source fails; a later call of the pipeline may still throw.     *)
ApplyNodes(q) ==
    LET r == req[q].run IN
    /\ At(q, {"import", "nodeRetry"}, "nodes")
    /\ r \in NodeRuns /\ source[r] = "live"
    /\ nodes' = [nodes EXCEPT ![r] = TRUE]
    /\ \/ AfterNodes(q, FALSE)
       \/ AfterNodes(q, TRUE)
    /\ UNCHANGED <<runVars, source, stored, marked, target, history>>

(* A retry in 'new-only' mode may find every node elsewhere already. *)
ApplyNoNewNodes(q) ==
    /\ At(q, {"nodeRetry"}, "nodes")
    /\ req[q].run \in NewOnly
    /\ AfterNodes(q, FALSE)
    /\ UNCHANGED <<runVars, dataVars, history>>

(* No usable node, a deleted source or a database error. *)
ApplyNodesFails(q) ==
    /\ At(q, {"import", "nodeRetry"}, "nodes")
    /\ AfterNodes(q, TRUE)
    /\ UNCHANGED <<runVars, dataVars, history>>

-----------------------------------------------------------------------------
(* buildStructuredImportPlan: reads the rules and keeps, for the conflicts *)
(* the request resolves with 'use-imported', the group to be replaced.     *)
PlanRules(q) ==
    LET r == req[q].run IN
    /\ At(q, {"import", "ruleRetry"}, "plan")
    /\ \E resolved \in SUBSET {k \in Rules : target[k] # Wants[r][k]} :
         req' = [req EXCEPT
             ![q].plan = {[rule |-> k, before |-> target[k], applied |-> Wants[r][k]] :
                              k \in resolved},
             ![q].pc = "write"]
    /\ UNCHANGED <<runVars, dataVars, history>>

ApplicableSlipUnguarded(plan) == plan

(* The updates of the plan whose rule still has the group that was read. *)
Applicable(plan) == {c \in plan : target[c.rule] = c.before}

(* importStructuredSourceContent: one batch inserts the new rules under    *)
(* the marker of the source and applies the guarded updates; only those    *)
(* that changed a row are recorded for the undo.                           *)
WriteRules(q) ==
    LET r == req[q].run
        applied == Applicable(req[q].plan)
        hit == {c.rule : c \in applied}
    IN
    /\ At(q, {"import", "ruleRetry"}, "write")
    /\ marked' = [marked EXCEPT ![r] = TRUE]
    /\ target' = [k \in Rules |-> IF k \in hit THEN Wants[r][k] ELSE target[k]]
    /\ credit' = [k \in Rules |-> IF k \in hit THEN r ELSE credit[k]]
    /\ replaced' = [k \in Rules |-> IF k \in hit THEN target[k] ELSE replaced[k]]
    /\ ruled' = [ruled EXCEPT ![r] = TRUE]
    /\ req' = [req EXCEPT ![q].plan = applied, ![q].pc = "finish"]
    /\ UNCHANGED <<runVars, source, stored, nodes, asked>>

RulesFailSlipForgets(q) ==
    /\ At(q, {"import"}, "plan") \/ At(q, {"import"}, "write")
    /\ req' = [req EXCEPT ![q].plan = {}, ![q].pc = "finish"]
    /\ UNCHANGED <<runVars, dataVars, history>>

(* The plan or the batch fails: nothing is written. *)
RulesFail(q) ==
    /\ \/ At(q, {"import", "ruleRetry"}, "plan")
       \/ At(q, {"import", "ruleRetry"}, "write")
    /\ req' = [req EXCEPT ![q].plan = {}, ![q].rulesFailed = TRUE,
                   ![q].pc = IF req[q].op = "ruleRetry" THEN "fail" ELSE "finish"]
    /\ UNCHANGED <<runVars, dataVars, history>>

-----------------------------------------------------------------------------
HistoryErrorSlipRaw(q) == IF req[q].nodesFailed THEN "the thrown message" ELSE NoError

(* What the history keeps of a failed node phase: a fixed text. *)
HistoryError(q) ==
    IF req[q].nodesFailed THEN "parsing or persistence failed" ELSE NoError

(* completeSourceImportRun: writes the row whatever its status is by now. *)
FinishImport(q) ==
    LET r == req[q].run
        failed == req[q].nodesFailed \/ req[q].rulesFailed
    IN
    /\ At(q, {"import"}, "finish")
    /\ status' = [status EXCEPT ![r] = IF failed THEN "partial" ELSE "success"]
    /\ refreshError' = [refreshError EXCEPT ![r] = HistoryError(q)]
    /\ structuredError' = [structuredError EXCEPT ![r] = req[q].rulesFailed]
    /\ structuredChanges' = [structuredChanges EXCEPT ![r] = req[q].plan]
    /\ aged' = [aged EXCEPT ![r] = FALSE]
    /\ Done(q)
    /\ UNCHANGED <<dataVars, history>>

(* The retries write their result only WHERE status = 'running'. *)
StillRunning(r) == status[r] = "running"

FinishNodeRetry(q) ==
    LET r == req[q].run IN
    /\ At(q, {"nodeRetry"}, "finish")
    /\ IF StillRunning(r)
       THEN /\ status' = [status EXCEPT ![r] =
                   IF req[q].seenStructured THEN "partial" ELSE "success"]
            /\ refreshError' = [refreshError EXCEPT ![r] = NoError]
            /\ aged' = [aged EXCEPT ![r] = FALSE]
       ELSE UNCHANGED <<status, refreshError, aged>>
    /\ Done(q)
    /\ UNCHANGED <<structuredError, structuredChanges, dataVars, history>>

(* The recorded changes become those read before the claim and the new. *)
FinishRuleRetry(q) ==
    LET r == req[q].run IN
    /\ At(q, {"ruleRetry"}, "finish")
    /\ IF StillRunning(r)
       THEN /\ status' = [status EXCEPT ![r] =
                   IF req[q].seenRefresh # NoError THEN "partial" ELSE "success"]
            /\ structuredError' = [structuredError EXCEPT ![r] = FALSE]
            /\ structuredChanges' = [structuredChanges EXCEPT ![r] =
                   req[q].seenChanges \cup req[q].plan]
            /\ aged' = [aged EXCEPT ![r] = FALSE]
       ELSE UNCHANGED <<status, structuredError, structuredChanges, aged>>
    /\ Done(q)
    /\ UNCHANGED <<refreshError, dataVars, history>>

(* The catch of a retry; also WHERE status = 'running'. *)
FailRetry(q) ==
    LET r == req[q].run IN
    /\ At(q, {"nodeRetry", "ruleRetry"}, "fail")
    /\ status' = [status EXCEPT ![r] = IF StillRunning(r) THEN "partial" ELSE @]
    /\ refreshError' = [refreshError EXCEPT ![r] =
           IF StillRunning(r) /\ req[q].op = "nodeRetry"
           THEN "node import failed" ELSE @]
    /\ structuredError' = [structuredError EXCEPT ![r] =
           @ \/ (StillRunning(r) /\ req[q].op = "ruleRetry")]
    /\ aged' = [aged EXCEPT ![r] = @ /\ ~StillRunning(r)]
    /\ Done(q)
    /\ UNCHANGED <<structuredChanges, dataVars, history>>

(* The final UPDATE of a retry throws, which its catch handles. *)
FinishFails(q) ==
    /\ Faults
    /\ At(q, {"nodeRetry", "ruleRetry"}, "finish")
    /\ GoTo(q, "fail")
    /\ UNCHANGED <<runVars, dataVars, history>>

-----------------------------------------------------------------------------
(* What the operator is assumed to respect unless UndoAnytime. *)
MayUndo(r) == UndoAnytime \/ \A p \in Requests : req[p].run # r
MayRetry(r) == UndoAnytime \/ \A p \in Requests : req[p].run = r => req[p].op # "undo"

(* POST .../nodes/retry, .../structured/retry, .../undo: recovery first. *)
Begin(q, r, op) ==
    /\ req[q].pc = "idle" /\ source[r] # "absent"
    /\ IF op = "undo" THEN MayUndo(r) ELSE MayRetry(r)
    /\ RecoverStale
    /\ req' = [req EXCEPT ![q] =
           [Idle EXCEPT !.op = op, !.pc = "read", !.run = r]]
    /\ UNCHANGED <<dataVars, history>>

NodeRetryable(r) == /\ status[r] = "partial" /\ refreshError[r] # NoError
                    /\ source[r] = "live"
RuleRetryable(r) == /\ status[r] = "partial" /\ structuredError[r]
                    /\ source[r] = "live"

(* The run is read; a run that cannot be retried is answered with 409. *)
ReadRun(q) ==
    LET r == req[q].run IN
    /\ At(q, {"nodeRetry", "ruleRetry"}, "read")
    /\ IF IF req[q].op = "nodeRetry" THEN NodeRetryable(r) ELSE RuleRetryable(r)
       THEN req' = [req EXCEPT ![q].pc = "content",
                        ![q].seenRefresh = refreshError[r],
                        ![q].seenStructured = structuredError[r],
                        ![q].seenChanges = structuredChanges[r]]
       ELSE Done(q)
    /\ UNCHANGED <<runVars, dataVars, history>>

(* The stored content is read; a node retry needs a usable node in it. *)
ReadContent(q) ==
    LET r == req[q].run IN
    /\ At(q, {"nodeRetry", "ruleRetry"}, "content")
    /\ IF /\ source[r] = "live" /\ stored[r]
          /\ req[q].op = "nodeRetry" => r \in NodeRuns
       THEN GoTo(q, "claim")
       ELSE Done(q)
    /\ UNCHANGED <<runVars, dataVars, history>>

ClaimableSlipStatus(q, r) ==
    IF req[q].op = "nodeRetry" THEN refreshError[r] = req[q].seenRefresh
    ELSE structuredError[r]

(* The claim compares the error text that was read, not the other error. *)
Claimable(q, r) ==
    /\ status[r] = "partial"
    /\ IF req[q].op = "nodeRetry" THEN refreshError[r] = req[q].seenRefresh
       ELSE structuredError[r]

Claim(q) ==
    LET r == req[q].run IN
    /\ At(q, {"nodeRetry", "ruleRetry"}, "claim")
    /\ IF Claimable(q, r)
       THEN /\ status' = [status EXCEPT ![r] = "running"]
            /\ aged' = [aged EXCEPT ![r] = FALSE]
            /\ GoTo(q, IF req[q].op = "nodeRetry" THEN "store" ELSE "plan")
       ELSE /\ Done(q)
            /\ UNCHANGED <<status, aged>>
    /\ UNCHANGED <<refreshError, structuredError, structuredChanges,
                   dataVars, history>>

-----------------------------------------------------------------------------
(* POST .../undo reads the run; DELETE /sources/:id starts at the lookup. *)
ReadUndo(q) ==
    LET r == req[q].run IN
    /\ At(q, {"undo"}, "read")
    /\ IF status[r] # "undone" /\ source[r] = "live" THEN GoTo(q, "lookup")
       ELSE Done(q)
    /\ UNCHANGED <<runVars, dataVars, history>>

DeleteSource(q, r) ==
    /\ req[q].pc = "idle" /\ source[r] = "live" /\ MayUndo(r)
    /\ req' = [req EXCEPT ![q] =
           [Idle EXCEPT !.op = "undo", !.pc = "lookup", !.run = r]]
    /\ UNCHANGED <<runVars, dataVars, history>>

(* deleteSourceById, its first call. *)
Lookup(q) ==
    /\ At(q, {"undo"}, "lookup")
    /\ IF source[req[q].run] = "live" THEN GoTo(q, "changes") ELSE Done(q)
    /\ UNCHANGED <<runVars, dataVars, history>>

(* Its second call collects the changes of the source's runs. *)
ReadChanges(q) ==
    LET r == req[q].run IN
    /\ At(q, {"undo"}, "changes")
    /\ req' = [req EXCEPT ![q].pc = "delete",
           ![q].plan = IF source[r] = "live" /\ status[r] # "undone"
                       THEN structuredChanges[r] ELSE {}]
    /\ UNCHANGED <<runVars, dataVars, history>>

UndoSlipKeepsRules(q) ==
    LET r == req[q].run IN
    /\ At(q, {"undo"}, "delete")
    /\ nodes' = [nodes EXCEPT ![r] = FALSE]
    /\ source' = [source EXCEPT ![r] = "gone"]
    /\ status' = [status EXCEPT ![r] = IF source[r] = "live" THEN "undone" ELSE @]
    /\ Done(q)
    /\ UNCHANGED <<refreshError, structuredError, structuredChanges, aged, stored,
                   marked, target, history>>

(* Its batch: restore what still has the applied group, drop the marked    *)
(* rules, the nodes and the source, and mark the runs of the source.       *)
Undo(q) ==
    LET r == req[q].run
        restored == {c \in req[q].plan : target[c.rule] = c.applied}
        before(k) == (CHOOSE c \in restored : c.rule = k).before
    IN
    /\ At(q, {"undo"}, "delete")
    /\ target' = [k \in Rules |->
           IF \E c \in restored : c.rule = k THEN before(k) ELSE target[k]]
    /\ credit' = [k \in Rules |->
           IF \E c \in restored : c.rule = k THEN Nobody ELSE credit[k]]
    /\ marked' = [marked EXCEPT ![r] = FALSE]
    /\ nodes' = [nodes EXCEPT ![r] = FALSE]
    /\ stored' = [stored EXCEPT ![r] = FALSE]
    /\ source' = [source EXCEPT ![r] = "gone"]
    /\ status' = [status EXCEPT ![r] = IF source[r] = "live" THEN "undone" ELSE @]
    /\ Done(q)
    /\ UNCHANGED <<refreshError, structuredError, structuredChanges, aged,
                   replaced, asked, ruled>>

(* PUT /rules/:id: the operator sends a rule somewhere else. *)
EditRule(k, g) ==
    /\ target[k] # g
    /\ target' = [target EXCEPT ![k] = g]
    /\ credit' = [credit EXCEPT ![k] = Nobody]
    /\ UNCHANGED <<runVars, source, stored, nodes, marked, replaced, asked, ruled, req>>

(* The invocation is cut off between two calls. *)
Die(q) ==
    /\ Faults
    /\ req[q].pc # "idle"
    /\ Done(q)
    /\ UNCHANGED <<runVars, dataVars, history>>

-----------------------------------------------------------------------------
Step(q) ==
    \/ StoreContent(q) \/ ApplyNodes(q) \/ ApplyNoNewNodes(q) \/ ApplyNodesFails(q)
    \/ PlanRules(q) \/ WriteRules(q) \/ RulesFail(q)
    \/ FinishImport(q) \/ FinishNodeRetry(q) \/ FinishRuleRetry(q)
    \/ FailRetry(q) \/ FinishFails(q)
    \/ ReadRun(q) \/ ReadContent(q) \/ Claim(q)
    \/ ReadUndo(q) \/ Lookup(q) \/ ReadChanges(q) \/ Undo(q)

Arrive(q) == \E r \in Runs :
    \/ \E wantsRules \in BOOLEAN : Import(q, r, wantsRules)
    \/ \E op \in {"nodeRetry", "ruleRetry", "undo"} : Begin(q, r, op)
    \/ DeleteSource(q, r)

Next ==
    \/ \E q \in Requests : Arrive(q) \/ Step(q) \/ Die(q)
    \/ ListImports
    \/ \E r \in Runs : Age(r)
    \/ \E k \in Rules, g \in Groups : EditRule(k, g)

Spec == Init /\ [][Next]_vars

(***************************************************************************)
(* A request that arrived runs on, time passes, and somebody keeps opening *)
(* the import history, which is where stale runs are recovered.            *)
(***************************************************************************)
FairSpec ==
    /\ Spec
    /\ \A q \in Requests : WF_vars(Step(q))
    /\ \A r \in Runs : WF_vars(Age(r))
    /\ WF_vars(ListImports)

-----------------------------------------------------------------------------
Live(r) == source[r] = "live"
Completed(r) == status[r] \in {"success", "partial"}

(* No two requests ever hold the same run: the import, the retries'        *)
(* compare-and-set claims and the recovery of stale runs hand it over.     *)
OneWorker ==
    \A p, q \in Requests : \A r \in Runs : Works(p, r) /\ Works(q, r) => p = q

(* What a run's request holds is shown as 'running' until it is undone,    *)
(* so that no retry is offered meanwhile.                                  *)
WorkIsVisible ==
    \A q \in Requests : \A r \in Runs :
        Works(q, r) => status[r] \in {"running", "undone"}

(* A completed run without a node error has its nodes, whoever wrote the   *)
(* row last, unless 'new-only' left nothing to add.                        *)
NodesAsReported ==
    \A r \in Runs :
        Live(r) /\ Completed(r) /\ refreshError[r] = NoError /\ r \in NodeRuns
            => nodes[r] \/ r \in NewOnly

(* A run reported as completed carried out its rule phase if that was      *)
(* asked for.                                                              *)
RulesAsReported ==
    \A r \in Runs : Live(r) /\ status[r] = "success" /\ asked[r] => ruled[r]

(* A partial run names the phase that failed, which is what the history    *)
(* shows and what the two retry buttons depend on.                         *)
PartialNamesItsError ==
    \A r \in Runs : Live(r) /\ status[r] = "partial"
        => refreshError[r] # NoError \/ structuredError[r]

(* Nothing of an undone run is left, though an undo may come while others  *)
(* are at work on the run: its batch takes the nodes and the marked rules, *)
(* no node returns, and rules return only by the hand of a request that    *)
(* held the run when it was undone.  Once no request holds it the run      *)
(* stays clean: retries that read it before the undo bring nothing back.   *)
Clean(r) == source[r] = "gone" /\ ~nodes[r] /\ ~marked[r] /\ \A q \in Requests : ~Works(q, r)

UndoneIsClean ==
    [][\A r \in Runs :
         /\ Live(r) /\ source'[r] = "gone" => ~nodes'[r] /\ ~marked'[r]
         /\ source[r] = "gone" => ~nodes'[r]
         /\ Clean(r) => Clean(r)']_vars

(* Undoing a run gives every rule whose group the run set, and nobody      *)
(* changed since, the group it had before.                                 *)
UndoRestores ==
    [][\A r \in Runs : \A k \in Rules :
         Live(r) /\ source'[r] = "gone" /\ credit[k] = r => target'[k] = replaced[k]]_vars

(* Once a run is undone nobody claims it again, though a late import may   *)
(* have overwritten its status.                                            *)
NoClaimAfterUndo ==
    [][\A r \in Runs : source[r] = "gone" /\ status[r] # "running"
         => status'[r] # "running"]_vars

(* A run does not stay 'running' for ever, even if its request died.       *)
RunsSettle == \A r \in Runs : (status[r] = "running") ~> (status[r] # "running")
=============================================================================
