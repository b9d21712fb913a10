--------------------------- MODULE ImportRunProofs ---------------------------
(***************************************************************************)
(* Proofs about ImportRun for any set of runs, requests, rules and groups: *)
(*  - type correctness, with or without faults;                            *)
(*  - for requests that do not outlive the ten minutes after which a run   *)
(*    counts as stale, that a run is never held by two requests;           *)
(*  - what a completed run reports of its nodes and of its rules;          *)
(*  - that an undone run is clean, is not claimed again, and gave the      *)
(*    rules their groups back.                                             *)
(* Each theorem names the assumptions it needs on Faults, SlowRequests and *)
(* UndoAnytime; no theorem limits the number of runs or requests.          *)
(*                                                                         *)
(* And about ImportPlan, for any file, workspace and number of edits: an   *)
(* import that is undone leaves no trace, and one that nobody edits beside *)
(* does what it reports.                                                   *)
(***************************************************************************)
EXTENDS ImportRun, ImportPlan, RowListsProofs

(* A request in flight is about one of the runs. *)
RunKnown == \A q \in Requests : req[q].pc # "idle" => req[q].run \in Runs

TypeInv == TypeOK /\ RunKnown

(* TypeInv in three parts: the runs, the data with its history, requests. *)
RunTypes ==
    /\ status \in [Runs -> Status]
    /\ refreshError \in [Runs -> RefreshErrors]
    /\ structuredError \in [Runs -> BOOLEAN]
    /\ structuredChanges \in [Runs -> SUBSET Change]
    /\ aged \in [Runs -> BOOLEAN]
DataTypes ==
    /\ source \in [Runs -> {"absent", "live", "gone"}]
    /\ stored \in [Runs -> BOOLEAN]
    /\ nodes \in [Runs -> BOOLEAN]
    /\ marked \in [Runs -> BOOLEAN]
    /\ target \in [Rules -> Groups]
    /\ credit \in [Rules -> Runs \cup {Nobody}]
    /\ replaced \in [Rules -> Groups]
    /\ asked \in [Runs -> BOOLEAN]
    /\ ruled \in [Runs -> BOOLEAN]
RequestTypes == req \in [Requests -> Request] /\ RunKnown

LEMMA TypeParts == TypeInv <=> RunTypes /\ DataTypes /\ RequestTypes
BY DEF TypeInv, TypeOK, RunTypes, DataTypes, RequestTypes

LEMMA IdleIsRequest == Idle \in Request
BY DEF Idle, Request, RetrySteps, ImportSteps, RefreshErrors, NoError

-----------------------------------------------------------------------------
(* Every action keeps the types, whatever the constants are. *)
LEMMA InitType == Init => TypeInv
<1> SUFFICES ASSUME Init PROVE TypeInv
  OBVIOUS
<1>1. TypeOK
  BY ConstantsAssumption, IdleIsRequest
  DEF Init, TypeOK, Status, RefreshErrors, NoError, Change
<1>2. RunKnown
  BY DEF Init, RunKnown, Idle
<1> QED
  BY <1>1, <1>2 DEF TypeInv

(* What a step does to req: one request changes and stays a request about  *)
(* a known run.                                                            *)
LEMMA OneRequestChanges ==
  ASSUME RequestTypes, NEW q \in Requests, NEW new \in Request,
         req' = [req EXCEPT ![q] = new],
         new.pc # "idle" => new.run \in Runs
  PROVE  RequestTypes'
BY DEF RequestTypes, RunKnown

(* A request that moves on, changes what it remembers, or ends. *)
LEMMA MovingOn ==
  ASSUME RequestTypes, NEW q \in Requests, req[q].pc # "idle",
         NEW step \in RetrySteps \cup {"content", "claim", "lookup", "changes", "delete"},
         GoTo(q, step)
  PROVE  RequestTypes'
<1> DEFINE new == [req[q] EXCEPT !.pc = step]
<1>1. new \in Request /\ new.run = req[q].run
  BY DEF RequestTypes, Request, RetrySteps, ImportSteps
<1>2. req' = [req EXCEPT ![q] = new]
  BY DEF GoTo
<1>3. req[q].run \in Runs
  BY DEF RequestTypes, RunKnown
<1> QED
  BY <1>1, <1>2, <1>3, OneRequestChanges

LEMMA Ending ==
  ASSUME RequestTypes, NEW q \in Requests, Done(q)
  PROVE  RequestTypes'
<1> Idle.pc = "idle"
  BY DEF Idle
<1> QED
  BY IdleIsRequest, OneRequestChanges DEF Done

LEMMA NodesAnswered ==
  ASSUME RequestTypes, NEW q \in Requests, req[q].pc # "idle",
         NEW failed \in BOOLEAN, AfterNodes(q, failed)
  PROVE  RequestTypes'
<1> DEFINE step == CASE req[q].op = "nodeRetry" /\ failed -> "fail"
                     [] req[q].op = "import" /\ req[q].wantsRules -> "plan"
                     [] OTHER -> "finish"
           new == [req[q] EXCEPT !.nodesFailed = failed, !.pc = step]
<1>1. step \in {"fail", "plan", "finish"}
  OBVIOUS
<1>2. req[q].run \in Runs /\ req[q] \in Request
  BY DEF RequestTypes, RunKnown
<1>3. req' = [req EXCEPT ![q] = new]
  BY DEF AfterNodes
<1> HIDE DEF step
<1>4. new \in Request /\ new.run = req[q].run
  BY <1>1, <1>2 DEF Request, RetrySteps, ImportSteps
<1> QED
  BY <1>2, <1>3, <1>4, OneRequestChanges

-----------------------------------------------------------------------------
(* One step of a request. *)
LEMMA StepRequestTypes ==
  ASSUME RunTypes, DataTypes, RequestTypes, NEW q \in Requests, Step(q)
  PROVE  RequestTypes'
<1> DEFINE r == req[q].run
<1>a. req[q].pc # "idle"
  BY DEF Step, StoreContent, ApplyNodes, ApplyNoNewNodes, ApplyNodesFails, PlanRules,
         WriteRules, RulesFail, FinishImport, FinishNodeRetry, FinishRuleRetry,
         FailRetry, FinishFails, ReadRun, ReadContent, Claim, ReadUndo, Lookup,
         ReadChanges, Undo, At
<1>b. r \in Runs /\ req[q] \in Request
  BY <1>a DEF RequestTypes, RunKnown
<1>1. CASE StoreContent(q)
  BY <1>1, <1>a, MovingOn DEF StoreContent, RetrySteps, ImportSteps
<1>2. CASE ApplyNodes(q)
  BY <1>2, <1>a, NodesAnswered DEF ApplyNodes
<1>3. CASE ApplyNoNewNodes(q)
  BY <1>3, <1>a, NodesAnswered DEF ApplyNoNewNodes
<1>4. CASE ApplyNodesFails(q)
  BY <1>4, <1>a, NodesAnswered DEF ApplyNodesFails
<1>5. CASE PlanRules(q)
  <2>1. PICK resolved \in SUBSET {k \in Rules : target[k] # Wants[r][k]} :
          req' = [req EXCEPT
              ![q].plan = {[rule |-> k, before |-> target[k], applied |-> Wants[r][k]] :
                               k \in resolved},
              ![q].pc = "write"]
    BY <1>5 DEF PlanRules
  <2> DEFINE plan == {[rule |-> k, before |-> target[k], applied |-> Wants[r][k]] :
                          k \in resolved}
             new == [req[q] EXCEPT !.plan = plan, !.pc = "write"]
  <2>2. plan \subseteq Change
    BY <1>b, ConstantsAssumption DEF Change, DataTypes
  <2>3. req' = [req EXCEPT ![q] = new]
    BY <2>1
  <2> HIDE DEF plan
  <2>4. new \in Request /\ new.run = r
    BY <1>b, <2>2 DEF Request, RetrySteps, ImportSteps
  <2> QED
    BY <1>b, <2>3, <2>4, OneRequestChanges
<1>6. CASE WriteRules(q)
  <2> DEFINE plan == Applicable(req[q].plan)
             new == [req[q] EXCEPT !.plan = plan, !.pc = "finish"]
  <2>1. plan \subseteq Change
    BY <1>b DEF Applicable, Request
  <2>2. req' = [req EXCEPT ![q] = new]
    BY <1>6 DEF WriteRules
  <2> HIDE DEF plan
  <2>3. new \in Request /\ new.run = r
    BY <1>b, <2>1 DEF Request, RetrySteps, ImportSteps
  <2> QED
    BY <1>b, <2>2, <2>3, OneRequestChanges
<1>7. CASE RulesFail(q)
  <2> DEFINE step == IF req[q].op = "ruleRetry" THEN "fail" ELSE "finish"
             new == [req[q] EXCEPT !.plan = {}, !.rulesFailed = TRUE, !.pc = step]
  <2>1. new \in Request /\ new.run = r
    BY <1>b DEF Request, RetrySteps, ImportSteps
  <2>2. req' = [req EXCEPT ![q] = new]
    BY <1>7 DEF RulesFail
  <2> QED
    BY <1>b, <2>1, <2>2, OneRequestChanges
<1>8. CASE FinishImport(q)
  BY <1>8, <1>a, Ending DEF FinishImport
<1>9. CASE FinishNodeRetry(q)
  BY <1>9, <1>a, Ending DEF FinishNodeRetry
<1>10. CASE FinishRuleRetry(q)
  BY <1>10, <1>a, Ending DEF FinishRuleRetry
<1>11. CASE FailRetry(q)
  BY <1>11, <1>a, Ending DEF FailRetry
<1>12. CASE FinishFails(q)
  BY <1>12, <1>a, MovingOn DEF FinishFails, RetrySteps
<1>13. CASE ReadRun(q)
  <2> DEFINE new == [req[q] EXCEPT !.pc = "content",
                        !.seenRefresh = refreshError[r],
                        !.seenStructured = structuredError[r],
                        !.seenChanges = structuredChanges[r]]
  <2>1. refreshError[r] \in RefreshErrors /\ structuredError[r] \in BOOLEAN
        /\ structuredChanges[r] \in SUBSET Change
    BY <1>b DEF RunTypes
  <2>2. new \in Request /\ new.run = r
    BY <1>b, <2>1 DEF Request
  <2>3. req' = [req EXCEPT ![q] = new] \/ Done(q)
    BY <1>13 DEF ReadRun
  <2> QED
    BY <1>b, <2>2, <2>3, OneRequestChanges, Ending
<1>14. CASE ReadContent(q)
  BY <1>14, <1>a, Ending, MovingOn DEF ReadContent
<1>15. CASE Claim(q)
  BY <1>15, <1>a, Ending, MovingOn DEF Claim, RetrySteps, ImportSteps
<1>16. CASE ReadUndo(q)
  BY <1>16, <1>a, Ending, MovingOn DEF ReadUndo
<1>17. CASE Lookup(q)
  BY <1>17, <1>a, Ending, MovingOn DEF Lookup
<1>18. CASE ReadChanges(q)
  <2> DEFINE plan == IF source[r] = "live" /\ status[r] # "undone"
                     THEN structuredChanges[r] ELSE {}
             new == [req[q] EXCEPT !.pc = "delete", !.plan = plan]
  <2>1. plan \in SUBSET Change
    BY <1>b DEF RunTypes
  <2>2. req' = [req EXCEPT ![q] = new]
    BY <1>18 DEF ReadChanges
  <2> HIDE DEF plan
  <2>3. new \in Request /\ new.run = r
    BY <1>b, <2>1 DEF Request
  <2> QED
    BY <1>b, <2>2, <2>3, OneRequestChanges
<1>19. CASE Undo(q)
  BY <1>19, <1>a, Ending DEF Undo
<1> QED
  BY <1>1, <1>2, <1>3, <1>4, <1>5, <1>6, <1>7, <1>8, <1>9, <1>10, <1>11, <1>12, <1>13,
     <1>14, <1>15, <1>16, <1>17, <1>18, <1>19 DEF Step
LEMMA StepRunTypes ==
  ASSUME RunTypes, RequestTypes, NEW q \in Requests, Step(q)
  PROVE  RunTypes'
<1>a. req[q].run \in Runs /\ req[q] \in Request
  BY DEF RequestTypes, RunKnown, Step, StoreContent, ApplyNodes, ApplyNoNewNodes,
         ApplyNodesFails, PlanRules, WriteRules, RulesFail, FinishImport,
         FinishNodeRetry, FinishRuleRetry, FailRetry, FinishFails, ReadRun,
         ReadContent, Claim, ReadUndo, Lookup, ReadChanges, Undo, At
<1>b. req[q].plan \subseteq Change /\ req[q].seenChanges \subseteq Change
      /\ req[q].rulesFailed \in BOOLEAN
  BY <1>a DEF Request
<1>1. CASE UNCHANGED runVars
  BY <1>1 DEF RunTypes, runVars
<1>2. CASE FinishImport(q)
  BY <1>2, <1>a, <1>b DEF FinishImport, HistoryError, RunTypes, Status, RefreshErrors,
     NoError
<1>3. CASE FinishNodeRetry(q)
  BY <1>3, <1>a, <1>b DEF FinishNodeRetry, RunTypes, Status, RefreshErrors, NoError
<1>4. CASE FinishRuleRetry(q)
  <2>1. (req[q].seenChanges \cup req[q].plan) \in SUBSET Change
    BY <1>b
  <2>2. structuredChanges' \in [Runs -> SUBSET Change]
    BY <1>4, <1>a, <2>1 DEF FinishRuleRetry, RunTypes
  <2>3. /\ status' \in [Runs -> Status]
        /\ structuredError' \in [Runs -> BOOLEAN]
        /\ aged' \in [Runs -> BOOLEAN]
        /\ refreshError' = refreshError
    BY <1>4, <1>a DEF FinishRuleRetry, RunTypes, Status
  <2> QED
    BY <2>2, <2>3 DEF RunTypes
<1>5. CASE FailRetry(q)
  BY <1>5, <1>a, <1>b DEF FailRetry, StillRunning, RunTypes, Status, RefreshErrors,
     NoError
<1>6. CASE Claim(q)
  BY <1>6, <1>a, <1>b DEF Claim, RunTypes, Status, RefreshErrors, NoError
<1>7. CASE Undo(q)
  BY <1>7, <1>a, <1>b DEF Undo, RunTypes, Status, RefreshErrors, NoError
<1> QED
  BY <1>1, <1>2, <1>3, <1>4, <1>5, <1>6, <1>7
  DEF Step, StoreContent, ApplyNodes, ApplyNoNewNodes, ApplyNodesFails, PlanRules,
      WriteRules, RulesFail, FinishFails, ReadRun, ReadContent, ReadUndo, Lookup,
      ReadChanges

LEMMA StepDataTypes ==
  ASSUME RunTypes, DataTypes, RequestTypes, NEW q \in Requests, Step(q)
  PROVE  DataTypes'
<1>a. req[q].run \in Runs /\ req[q] \in Request
  BY DEF RequestTypes, RunKnown, Step, StoreContent, ApplyNodes, ApplyNoNewNodes,
         ApplyNodesFails, PlanRules, WriteRules, RulesFail, FinishImport,
         FinishNodeRetry, FinishRuleRetry, FailRetry, FinishFails, ReadRun,
         ReadContent, Claim, ReadUndo, Lookup, ReadChanges, Undo, At
<1>1. CASE UNCHANGED <<dataVars, history>>
  BY <1>1 DEF DataTypes, dataVars, history
<1>2. CASE StoreContent(q)
  BY <1>2, <1>a DEF StoreContent, DataTypes, history
<1>3. CASE ApplyNodes(q)
  BY <1>3, <1>a DEF ApplyNodes, DataTypes, history
<1>4. CASE WriteRules(q)
  <2>1. \A k \in Rules : Wants[req[q].run][k] \in Groups
    BY <1>a, ConstantsAssumption
  <2> QED
    BY <1>4, <1>a, <2>1 DEF WriteRules, DataTypes
<1>5. CASE Undo(q)
  <2> DEFINE restored == {c \in req[q].plan : target[c.rule] = c.applied}
             before(k) == (CHOOSE c \in restored : c.rule = k).before
             hit(k) == \E c \in restored : c.rule = k
  <2>1. \A c \in restored : c.before \in Groups
    BY <1>a DEF Request, Change
  <2>2. \A k \in Rules : hit(k) => before(k) \in Groups
    BY <2>1
  <2>3. target' = [k \in Rules |-> IF hit(k) THEN before(k) ELSE target[k]]
    BY <1>5 DEF Undo
  <2>4. credit' = [k \in Rules |-> IF hit(k) THEN Nobody ELSE credit[k]]
    BY <1>5 DEF Undo
  <2> HIDE DEF before, hit
  <2>5. target' \in [Rules -> Groups] /\ credit' \in [Rules -> Runs \cup {Nobody}]
    BY <2>2, <2>3, <2>4 DEF DataTypes
  <2> QED
    BY <1>5, <1>a, <2>5 DEF Undo, DataTypes
<1> QED
  BY <1>1, <1>2, <1>3, <1>4, <1>5
  DEF Step, ApplyNoNewNodes, ApplyNodesFails, PlanRules, RulesFail, FinishImport,
      FinishNodeRetry, FinishRuleRetry, FailRetry, FinishFails, ReadRun, ReadContent,
      Claim, ReadUndo, Lookup, ReadChanges

(* An arriving request, and what happens without one. *)
LEMMA RecoverTypes ==
  ASSUME RunTypes, RecoverStale
  PROVE  RunTypes'
BY DEF RunTypes, RecoverStale, Stale, Status, RefreshErrors, NoError

LEMMA ArriveTypes ==
  ASSUME RunTypes, DataTypes, RequestTypes, NEW q \in Requests, Arrive(q)
  PROVE  RunTypes' /\ DataTypes' /\ RequestTypes'
<1>1. ASSUME NEW r \in Runs, NEW wantsRules \in BOOLEAN, Import(q, r, wantsRules)
      PROVE  RunTypes' /\ DataTypes' /\ RequestTypes'
  <2> DEFINE new == [Idle EXCEPT !.op = "import", !.pc = "store", !.run = r,
                                 !.wantsRules = wantsRules]
  <2>1. new \in Request /\ new.run = r
    BY DEF Idle, Request, RetrySteps, ImportSteps, RefreshErrors, NoError
  <2>2. RequestTypes'
    BY <1>1, <2>1, OneRequestChanges DEF Import
  <2> QED
    BY <1>1, <2>2 DEF Import, RunTypes, DataTypes, Status
<1>2. ASSUME NEW r \in Runs, NEW op \in {"nodeRetry", "ruleRetry", "undo"},
             Begin(q, r, op)
      PROVE  RunTypes' /\ DataTypes' /\ RequestTypes'
  <2> DEFINE new == [Idle EXCEPT !.op = op, !.pc = "read", !.run = r]
  <2>1. new \in Request /\ new.run = r
    BY DEF Idle, Request, RefreshErrors, NoError
  <2>2. RequestTypes'
    BY <1>2, <2>1, OneRequestChanges DEF Begin
  <2> QED
    BY <1>2, <2>2, RecoverTypes DEF Begin, DataTypes, dataVars, history
<1>3. ASSUME NEW r \in Runs, DeleteSource(q, r)
      PROVE  RunTypes' /\ DataTypes' /\ RequestTypes'
  <2> DEFINE new == [Idle EXCEPT !.op = "undo", !.pc = "lookup", !.run = r]
  <2>1. new \in Request /\ new.run = r
    BY DEF Idle, Request, RefreshErrors, NoError
  <2>2. RequestTypes'
    BY <1>3, <2>1, OneRequestChanges DEF DeleteSource
  <2> QED
    BY <1>3, <2>2 DEF DeleteSource, RunTypes, runVars, DataTypes, dataVars, history
<1> QED
  BY <1>1, <1>2, <1>3 DEF Arrive

LEMMA NextType == TypeInv /\ [Next]_vars => TypeInv'
<1> SUFFICES ASSUME RunTypes, DataTypes, RequestTypes, [Next]_vars
             PROVE  RunTypes' /\ DataTypes' /\ RequestTypes'
  BY TypeParts DEF TypeInv, TypeOK, RunTypes, DataTypes, RequestTypes, RunKnown
<1>1. ASSUME NEW q \in Requests, Arrive(q)
      PROVE  RunTypes' /\ DataTypes' /\ RequestTypes'
  BY <1>1, ArriveTypes
<1>2. ASSUME NEW q \in Requests, Step(q)
      PROVE  RunTypes' /\ DataTypes' /\ RequestTypes'
  BY <1>2, StepRunTypes, StepDataTypes, StepRequestTypes
<1>3. ASSUME NEW q \in Requests, Die(q)
      PROVE  RunTypes' /\ DataTypes' /\ RequestTypes'
  BY <1>3, Ending DEF Die, RunTypes, runVars, DataTypes, dataVars, history
<1>4. CASE ListImports
  BY <1>4, RecoverTypes
  DEF ListImports, DataTypes, dataVars, history, RequestTypes, RunKnown
<1>5. ASSUME NEW r \in Runs, Age(r)
      PROVE  RunTypes' /\ DataTypes' /\ RequestTypes'
  BY <1>5 DEF Age, RunTypes, DataTypes, dataVars, history, RequestTypes, RunKnown
<1>6. ASSUME NEW k \in Rules, NEW g \in Groups, EditRule(k, g)
      PROVE  RunTypes' /\ DataTypes' /\ RequestTypes'
  BY <1>6 DEF EditRule, RunTypes, runVars, DataTypes, RequestTypes, RunKnown
<1>7. CASE UNCHANGED vars
  BY <1>7 DEF vars, runVars, dataVars, history, RunTypes, DataTypes, RequestTypes,
              RunKnown
<1> QED
  BY <1>1, <1>2, <1>3, <1>4, <1>5, <1>6, <1>7 DEF Next

(* Type correctness: every row and every request stays what the schema and *)
(* the handlers of sources.ts make it, for any constants.                  *)
THEOREM TypeCorrect == Spec => []TypeOK
<1>1. Spec => []TypeInv
  BY InitType, NextType, PTL DEF Spec
<1> QED
  BY <1>1, PTL DEF TypeInv

-----------------------------------------------------------------------------
(***************************************************************************)
(* Ownership.  That no two requests hold a run is not inductive: a claim   *)
(* tests the status, so the holder must keep it from being 'partial'; the  *)
(* recovery of stale runs makes it 'partial', so a run that is held must   *)
(* not be stale; and an import hands out a run nobody can hold yet.        *)
(***************************************************************************)
Held(r) == \E q \in Requests : Works(q, r)
HeldIsFresh == \A r \in Runs : Held(r) => ~Stale(r)
RunHasSource == \A r \in Runs : source[r] = "absent" => status[r] = "none"
Ownership == OneWorker /\ WorkIsVisible /\ HeldIsFresh /\ RunHasSource

(* What one request does to the others: nothing. *)
Others(q) == \A p \in Requests : p # q => req'[p] = req[p]

LEMMA OneRequestMoves ==
  ASSUME RequestTypes, NEW q \in Requests, Step(q) \/ Die(q) \/ Arrive(q)
  PROVE  Others(q)
BY DEF RequestTypes, Others, Step, Die, Arrive, StoreContent, ApplyNodes,
   ApplyNoNewNodes,
       ApplyNodesFails, AfterNodes, PlanRules, WriteRules, RulesFail, FinishImport,
       FinishNodeRetry, FinishRuleRetry, FailRetry, FinishFails, ReadRun, ReadContent,
       Claim, ReadUndo, Lookup, ReadChanges, Undo, Import, Begin, DeleteSource, GoTo, Done

(* A step after which nobody new holds a run, and no run that is still     *)
(* held has changed.                                                       *)
LEMMA NoNewHolder ==
  ASSUME Ownership,
         \A p \in Requests : \A r \in Runs : Works(p, r)' => Works(p, r),
         \A r \in Runs : Held(r)' =>
             /\ status'[r] = status[r] \/ status'[r] = "undone"
             /\ aged'[r] = aged[r],
         \A r \in Runs : source'[r] = "absent" =>
             source[r] = "absent" /\ status'[r] = status[r]
  PROVE  Ownership'
BY DEF Ownership, OneWorker, WorkIsVisible, HeldIsFresh, RunHasSource, Held, Stale

(* The holder lets go: nobody holds the run any more. *)
LEMMA HolderLetsGo ==
  ASSUME Ownership, RequestTypes, NEW q \in Requests, NEW r \in Runs,
         Works(q, r), Done(q), UNCHANGED source,
         \A s \in Runs \ {r} : status'[s] = status[s] /\ aged'[s] = aged[s]
  PROVE  Ownership'
<1>1. \A p \in Requests : \A s \in Runs : Works(p, s)' => Works(p, s) /\ p # q
  BY DEF RequestTypes, Works, Done, Idle, RetrySteps, ImportSteps
<1>2. ~Held(r)'
  BY <1>1 DEF Ownership, OneWorker, Held
<1>3. source[r] # "absent"
  BY DEF Ownership, WorkIsVisible, RunHasSource
<1> QED
  BY <1>1, <1>2, <1>3, NoNewHolder

(* A request becomes the holder of a run that nobody held. *)
LEMMA NewHolder ==
  ASSUME Ownership, NEW q \in Requests, NEW r \in Runs,
         ~Held(r), Others(q), Works(q, r)',
         status'[r] = "running", ~aged'[r], source'[r] # "absent",
         \A s \in Runs \ {r} : /\ status'[s] = status[s] /\ aged'[s] = aged[s]
                               /\ source'[s] = source[s]
  PROVE  Ownership'
<1>1. \A p \in Requests : \A s \in Runs :
         Works(p, s)' => (p = q /\ s = r) \/ (p # q /\ s # r /\ Works(p, s))
  BY DEF Others, Works, Held
<1> QED
  BY <1>1 DEF Ownership, OneWorker, WorkIsVisible, HeldIsFresh, RunHasSource, Held,
     Stale

(* Recovery changes only runs that nobody holds. *)
LEMMA RecoverOwnership ==
  ASSUME TypeInv, Ownership, RecoverStale, UNCHANGED source,
         \A p \in Requests : \A r \in Runs : Works(p, r)' => Works(p, r)
  PROVE  Ownership'
<1>1. \A r \in Runs : Held(r)' => ~Stale(r)
  BY DEF Ownership, HeldIsFresh, Held
<1>2. \A r \in Runs : Held(r)' => status'[r] = status[r] /\ aged'[r] = aged[r]
  BY <1>1 DEF RecoverStale, TypeInv, TypeOK
<1>3. \A r \in Runs : status[r] = "none" => status'[r] = "none"
  BY DEF RecoverStale, Stale
<1> QED
  BY <1>2, <1>3, NoNewHolder DEF Ownership, RunHasSource

LEMMA InitOwnership == Init => Ownership
BY DEF Init, Ownership, OneWorker, WorkIsVisible, HeldIsFresh, RunHasSource, Held,
       Works, Stale, Idle, RetrySteps, ImportSteps

LEMMA StepOwnership ==
  ASSUME TypeInv, Ownership, NEW q \in Requests, Step(q)
  PROVE  Ownership'
<1> DEFINE r == req[q].run
<1> RequestTypes /\ DataTypes /\ RunTypes
  BY TypeParts
<1>a. r \in Runs /\ req[q] \in Request
  BY DEF RequestTypes, RunKnown, Step, StoreContent, ApplyNodes, ApplyNoNewNodes,
         ApplyNodesFails, PlanRules, WriteRules, RulesFail, FinishImport,
         FinishNodeRetry, FinishRuleRetry, FailRetry, FinishFails, ReadRun,
         ReadContent, Claim, ReadUndo, Lookup, ReadChanges, Undo, At
<1>b. Others(q)
  BY OneRequestMoves
<1>1. CASE FinishImport(q) \/ FinishNodeRetry(q) \/ FinishRuleRetry(q) \/ FailRetry(q)
  <2>1. Works(q, r) /\ Done(q) /\ UNCHANGED source
    BY <1>1 DEF FinishImport, FinishNodeRetry, FinishRuleRetry, FailRetry, At, Works,
                RetrySteps, ImportSteps, dataVars
  <2>2. \A s \in Runs \ {r} : status'[s] = status[s] /\ aged'[s] = aged[s]
    BY <1>1, <1>a DEF FinishImport, FinishNodeRetry, FinishRuleRetry, FailRetry,
       RunTypes
  <2> QED
    BY <1>a, <2>1, <2>2, HolderLetsGo
<1>2. CASE Claim(q)
  <2>1. CASE Claimable(q, r)
    <3>1. ~Held(r)
      BY <1>a, <2>1 DEF Claimable, Held, Ownership, WorkIsVisible
    <3>2. req'[q].run = r /\ req'[q].pc \in RetrySteps
      BY <1>2, <2>1, <1>a
      DEF Claim, GoTo, At, RequestTypes, Request, RetrySteps, ImportSteps
    <3>3. source[r] # "absent"
      BY <1>a, <2>1 DEF Claimable, Ownership, RunHasSource
    <3>4. /\ status' = [status EXCEPT ![r] = "running"]
          /\ aged' = [aged EXCEPT ![r] = FALSE]
          /\ source' = source
      BY <1>2, <2>1 DEF Claim, dataVars
    <3>5. status'[r] = "running" /\ ~aged'[r] /\ source'[r] # "absent"
      BY <1>a, <3>3, <3>4 DEF RunTypes
    <3>6. \A s \in Runs \ {r} : /\ status'[s] = status[s] /\ aged'[s] = aged[s]
                                 /\ source'[s] = source[s]
      BY <1>a, <3>4 DEF RunTypes
    <3>7. PICK s \in Runs : s = r
      BY <1>a
    <3>8. Works(q, s)' /\ ~Held(s)
      BY <3>1, <3>2, <3>7 DEF Works
    <3> QED
      BY <1>b, <3>5, <3>6, <3>7, <3>8, NewHolder
  <2>2. CASE ~Claimable(q, r)
    <3>1. \A p \in Requests : \A s \in Runs : Works(p, s)' => Works(p, s)
      BY <1>2, <2>2 DEF Claim, Done, Works, Idle, RequestTypes, RetrySteps, ImportSteps
    <3> QED
      BY <1>2, <2>2, <3>1, NoNewHolder
      DEF Claim, dataVars
  <2> QED
    BY <2>1, <2>2
<1>3. CASE Undo(q)
  <2>1. \A p \in Requests : \A s \in Runs : Works(p, s)' => Works(p, s)
    BY <1>3 DEF Undo, Done, Works, Idle, RequestTypes, RetrySteps, ImportSteps
  <2>2. \A s \in Runs : /\ status'[s] = status[s] \/ status'[s] = "undone"
                        /\ aged'[s] = aged[s]
    BY <1>3, <1>a DEF Undo, RunTypes
  <2>3. ASSUME NEW s \in Runs, source'[s] = "absent"
        PROVE  source[s] = "absent" /\ status'[s] = status[s]
    <3>1. s # r
      BY <1>3, <2>3, <1>a DEF Undo, DataTypes
    <3> QED
      BY <1>3, <2>3, <3>1, <1>a DEF Undo, RunTypes, DataTypes
  <2> QED
    BY <2>1, <2>2, <2>3, NoNewHolder
<1>4. CASE UNCHANGED <<status, aged, source>> /\ ~Claim(q)
  <2>1. req'[q].run = r \/ req'[q] = Idle
    <3>1. CASE StoreContent(q) \/ FinishFails(q) \/ ReadContent(q) \/ ReadUndo(q) \/ Lookup(q)
      BY <3>1, <1>a DEF RequestTypes, Request, StoreContent, FinishFails, ReadContent,
                        ReadUndo, Lookup, GoTo, Done
    <3>2. CASE ApplyNodes(q) \/ ApplyNoNewNodes(q) \/ ApplyNodesFails(q)
      BY <3>2, <1>a DEF RequestTypes, Request, ApplyNodes, ApplyNoNewNodes,
                        ApplyNodesFails, AfterNodes
    <3>3. CASE PlanRules(q) \/ WriteRules(q) \/ RulesFail(q) \/ ReadRun(q) \/ ReadChanges(q)
      BY <3>3, <1>a DEF RequestTypes, Request, PlanRules, WriteRules, RulesFail,
                        ReadRun, ReadChanges, Done
    <3>4. CASE FinishImport(q) \/ FinishNodeRetry(q) \/ FinishRuleRetry(q)
               \/ FailRetry(q) \/ Undo(q)
      BY <3>4 DEF RequestTypes, FinishImport, FinishNodeRetry, FinishRuleRetry,
                  FailRetry, Undo, Done
    <3> QED
      BY <1>4, <3>1, <3>2, <3>3, <3>4 DEF Step
  <2>2. req'[q].pc \in RetrySteps => req[q].pc \in RetrySteps
    <3>1. CASE req[q].pc \in RetrySteps
      BY <3>1
    <3>2. CASE req[q].pc \notin RetrySteps
      <4>1. ReadRun(q) \/ ReadContent(q) \/ ReadUndo(q) \/ Lookup(q) \/ ReadChanges(q)
            \/ Undo(q)
        BY <1>4, <3>2
        DEF Step, StoreContent, ApplyNodes, ApplyNoNewNodes, ApplyNodesFails, PlanRules,
            WriteRules, RulesFail, FinishImport, FinishNodeRetry, FinishRuleRetry,
            FailRetry, FinishFails, At, RetrySteps, ImportSteps
      <4>2. req'[q].pc \in {"content", "claim", "lookup", "changes", "delete", "idle"}
        BY <4>1, <1>a DEF ReadRun, ReadContent, ReadUndo, Lookup, ReadChanges, Undo,
                          GoTo, Done, Idle, RequestTypes, Request
      <4> QED
        BY <4>2 DEF RetrySteps, ImportSteps
    <3> QED
      BY <3>1, <3>2
  <2>3. \A p \in Requests : \A s \in Runs : Works(p, s)' => Works(p, s)
    BY <1>b, <2>1, <2>2 DEF Others, Works, Idle, RetrySteps, ImportSteps
  <2> QED
    BY <1>4, <2>3, NoNewHolder
<1> QED
  BY <1>1, <1>2, <1>3, <1>4
  DEF Step, StoreContent, ApplyNodes, ApplyNoNewNodes, ApplyNodesFails, PlanRules,
      WriteRules, RulesFail, FinishFails, ReadRun, ReadContent, ReadUndo, Lookup,
      ReadChanges, runVars, dataVars

LEMMA ArriveOwnership ==
  ASSUME TypeInv, Ownership, NEW q \in Requests, Arrive(q)
  PROVE  Ownership'
<1> RequestTypes /\ DataTypes /\ RunTypes
  BY TypeParts
<1>a. Others(q)
  BY OneRequestMoves
<1>1. ASSUME NEW r \in Runs, NEW wantsRules \in BOOLEAN, Import(q, r, wantsRules)
      PROVE  Ownership'
  <2>1. ~Held(r)
    BY <1>1 DEF Import, Held, Ownership, WorkIsVisible, RunHasSource
  <2>2. Works(q, r)'
    BY <1>1 DEF Import, Works, Idle, RequestTypes, RetrySteps, ImportSteps
  <2> QED
    BY <1>1, <1>a, <2>1, <2>2, NewHolder DEF Import, RunTypes, DataTypes
<1>2. ASSUME NEW r \in Runs, NEW op \in {"nodeRetry", "ruleRetry", "undo"},
             Begin(q, r, op)
      PROVE  Ownership'
  <2>1. \A p \in Requests : \A s \in Runs : Works(p, s)' => Works(p, s)
    BY <1>2 DEF Begin, Works, Idle, RequestTypes, RetrySteps, ImportSteps
  <2> QED
    BY <1>2, <2>1, RecoverOwnership DEF Begin, dataVars
<1>3. ASSUME NEW r \in Runs, DeleteSource(q, r)
      PROVE  Ownership'
  <2>1. \A p \in Requests : \A s \in Runs : Works(p, s)' => Works(p, s)
    BY <1>3 DEF DeleteSource, Works, Idle, RequestTypes, RetrySteps, ImportSteps
  <2> QED
    BY <1>3, <2>1, NoNewHolder
    DEF DeleteSource, runVars, dataVars
<1> QED
  BY <1>1, <1>2, <1>3 DEF Arrive

LEMMA NextOwnership ==
  SlowRequests = FALSE /\ TypeInv /\ Ownership /\ [Next]_vars => Ownership'
<1> SUFFICES ASSUME SlowRequests = FALSE, TypeInv, Ownership, [Next]_vars
             PROVE  Ownership'
  OBVIOUS
<1> RequestTypes /\ DataTypes /\ RunTypes
  BY TypeParts
<1>1. ASSUME NEW q \in Requests, Arrive(q) PROVE Ownership'
  BY <1>1, ArriveOwnership
<1>2. ASSUME NEW q \in Requests, Step(q) PROVE Ownership'
  BY <1>2, StepOwnership
<1>3. ASSUME NEW q \in Requests, Die(q) PROVE Ownership'
  <2>1. \A p \in Requests : \A s \in Runs : Works(p, s)' => Works(p, s)
    BY <1>3 DEF Die, Done, Works, Idle, RequestTypes, RetrySteps, ImportSteps
  <2> QED
    BY <1>3, <2>1, NoNewHolder
    DEF Die, runVars, dataVars
<1>4. CASE ListImports
  BY <1>4, RecoverOwnership DEF ListImports, dataVars, Works
<1>5. ASSUME NEW r \in Runs, Age(r) PROVE Ownership'
  <2>1. ~Held(r)'
    BY <1>5 DEF Age, Held, Works
  <2>2. \A s \in Runs \ {r} : aged'[s] = aged[s]
    BY <1>5 DEF Age, RunTypes
  <2> QED
    BY <1>5, <2>1, <2>2, NoNewHolder
    DEF Age, dataVars, Works
<1>6. ASSUME NEW k \in Rules, NEW g \in Groups, EditRule(k, g) PROVE Ownership'
  BY <1>6, NoNewHolder
  DEF EditRule, runVars, Works
<1>7. CASE UNCHANGED vars
  BY <1>7, NoNewHolder
  DEF vars, runVars, dataVars, Works
<1> QED
  BY <1>1, <1>2, <1>3, <1>4, <1>5, <1>6, <1>7 DEF Next

(* If requests finish or die within ten minutes, a run is never held by    *)
(* two requests, however many retries race, die or meet an undo: the       *)
(* import, the retries' claims and the stale-run recovery pass it on.      *)
THEOREM OneWorkerHolds == ASSUME SlowRequests = FALSE PROVE Spec => []OneWorker
<1>1. TypeInv /\ Ownership /\ [Next]_vars => (TypeInv /\ Ownership)'
  BY NextType, NextOwnership
<1>2. Spec => [](TypeInv /\ Ownership)
  BY InitType, InitOwnership, <1>1, PTL DEF Spec
<1> QED
  BY <1>2, PTL DEF Ownership

(* Under the same assumption what is held shows as 'running' or 'undone'. *)
THEOREM WorkIsVisibleHolds == ASSUME SlowRequests = FALSE PROVE Spec => []WorkIsVisible
<1>1. TypeInv /\ Ownership /\ [Next]_vars => (TypeInv /\ Ownership)'
  BY NextType, NextOwnership
<1>2. Spec => [](TypeInv /\ Ownership)
  BY InitType, InitOwnership, <1>1, PTL DEF Spec
<1> QED
  BY <1>2, PTL DEF Ownership

-----------------------------------------------------------------------------
(***************************************************************************)
(* The view of one run.  What follows is proved run by run: a step either  *)
(* leaves the run alone, or recovers it, ages it, starts, moves or cuts    *)
(* off one request about it.                                               *)
(***************************************************************************)
On(q, r) == req[q].run = r

LEMMA IdleFields == Idle.op = "none" /\ Idle.pc = "idle" /\ Idle.run = Nobody
BY DEF Idle

LEMMA StepIsKnown ==
  ASSUME RequestTypes, NEW q \in Requests, Step(q)
  PROVE  req[q].run \in Runs /\ req[q] \in Request /\ req[q].pc # "idle"
BY DEF RequestTypes, RunKnown, Step, StoreContent, ApplyNodes, ApplyNoNewNodes,
       ApplyNodesFails, PlanRules, WriteRules, RulesFail, FinishImport,
       FinishNodeRetry, FinishRuleRetry, FailRetry, FinishFails, ReadRun, ReadContent,
       Claim, ReadUndo, Lookup, ReadChanges, Undo, At

(* A step of a request ends it or keeps its run and its operation. *)
LEMMA StepKeepsItsRun ==
  ASSUME RequestTypes, NEW q \in Requests, Step(q)
  PROVE  \/ req'[q] = Idle
         \/ /\ req'[q].run = req[q].run /\ req'[q].op = req[q].op
            /\ req'[q].pc \notin {"idle", "read"}
<1> req[q] \in Request
  BY StepIsKnown
<1>1. CASE StoreContent(q) \/ FinishFails(q) \/ ReadContent(q) \/ ReadUndo(q)
           \/ Lookup(q) \/ Claim(q)
  BY <1>1 DEF RequestTypes, Request, StoreContent, FinishFails, ReadContent, ReadUndo,
              Lookup, Claim, GoTo, Done
<1>2. CASE ApplyNodes(q) \/ ApplyNoNewNodes(q) \/ ApplyNodesFails(q)
  BY <1>2 DEF RequestTypes, Request, ApplyNodes, ApplyNoNewNodes, ApplyNodesFails,
              AfterNodes
<1>3. CASE PlanRules(q) \/ WriteRules(q) \/ RulesFail(q) \/ ReadRun(q) \/ ReadChanges(q)
  BY <1>3 DEF RequestTypes, Request, PlanRules, WriteRules, RulesFail, ReadRun,
              ReadChanges, Done
<1>4. CASE FinishImport(q) \/ FinishNodeRetry(q) \/ FinishRuleRetry(q) \/ FailRetry(q)
           \/ Undo(q)
  BY <1>4 DEF RequestTypes, FinishImport, FinishNodeRetry, FinishRuleRetry, FailRetry,
              Undo, Done
<1> QED
  BY <1>1, <1>2, <1>3, <1>4 DEF Step

(* A request arrives in an empty slot and is about the run it names.       *)
LEMMA ArrivalIsNew ==
  ASSUME RequestTypes, NEW q \in Requests, NEW s \in Runs,
         \/ \E w \in BOOLEAN : Import(q, s, w)
         \/ \E op \in {"nodeRetry", "ruleRetry", "undo"} : Begin(q, s, op)
         \/ DeleteSource(q, s)
  PROVE  /\ req[q].pc = "idle" /\ req'[q].pc # "idle" /\ req'[q].run = s
<1> USE IdleIsRequest DEF RequestTypes, Request
<1>1. ASSUME NEW w \in BOOLEAN, Import(q, s, w)
      PROVE  req'[q].pc = "store" /\ req'[q].run = s
  BY <1>1 DEF Import
<1>2. ASSUME NEW op \in {"nodeRetry", "ruleRetry", "undo"}, Begin(q, s, op)
      PROVE  req'[q].pc = "read" /\ req'[q].run = s
  BY <1>2 DEF Begin
<1>3. CASE DeleteSource(q, s)
  <2>1. req'[q].pc = "lookup" /\ req'[q].run = s
    BY <1>3 DEF DeleteSource
  <2> QED
    BY <1>3, <2>1 DEF DeleteSource
<1> QED
  BY <1>1, <1>2, <1>3 DEF Import, Begin

(* A slot without a request is empty. *)
IdleIsEmpty == \A q \in Requests : req[q].pc = "idle" => req[q] = Idle

LEMMA InitIdle == Init => IdleIsEmpty
BY DEF Init, IdleIsEmpty

LEMMA NextIdle == TypeInv /\ IdleIsEmpty /\ [Next]_vars => IdleIsEmpty'
<1> SUFFICES ASSUME TypeInv, IdleIsEmpty, [Next]_vars PROVE IdleIsEmpty'
  OBVIOUS
<1> RequestTypes
  BY TypeParts
<1>1. ASSUME NEW q \in Requests, Step(q) PROVE IdleIsEmpty'
  BY <1>1, StepKeepsItsRun, OneRequestMoves DEF IdleIsEmpty, Others
<1>2. ASSUME NEW q \in Requests, Die(q) PROVE IdleIsEmpty'
  BY <1>2 DEF IdleIsEmpty, Die, Done, RequestTypes
<1>3. ASSUME NEW q \in Requests, Arrive(q) PROVE IdleIsEmpty'
  BY <1>3, ArrivalIsNew, OneRequestMoves DEF IdleIsEmpty, Arrive, Others
<1>4. CASE UNCHANGED req
  BY <1>4 DEF IdleIsEmpty
<1> QED
  BY <1>1, <1>2, <1>3, <1>4 DEF Next, ListImports, Age, EditRule, vars

(* A step that leaves run r alone: its row, its data, the rules it set     *)
(* (which it may lose) and the requests about it.                          *)
SameRow(r) ==
    /\ status'[r] = status[r] /\ refreshError'[r] = refreshError[r]
    /\ structuredError'[r] = structuredError[r]
    /\ structuredChanges'[r] = structuredChanges[r]
SameData(r) ==
    /\ source'[r] = source[r] /\ nodes'[r] = nodes[r] /\ marked'[r] = marked[r]
    /\ asked'[r] = asked[r] /\ ruled'[r] = ruled[r]
SameRules(r) ==
    \A k \in Rules : credit'[k] = r =>
        credit[k] = r /\ target'[k] = target[k] /\ replaced'[k] = replaced[k]
SameRequests(r) ==
    \A p \in Requests : On(p, r) \/ On(p, r)' => req'[p] = req[p]
Untouched(r) == SameRow(r) /\ SameData(r) /\ SameRules(r) /\ SameRequests(r)

(* The recovery of stale runs, for a run no request arrives at. *)
Recovered(r) == RecoverStale /\ SameData(r) /\ SameRules(r) /\ SameRequests(r)

(* A request about r ends without having written anything. *)
Dropped(q, r) ==
    /\ Faults /\ On(q, r) /\ Others(q) /\ Done(q)
    /\ SameRow(r) /\ SameData(r) /\ SameRules(r)

LEMMA StepElsewhere ==
  ASSUME TypeInv, NEW q \in Requests, Step(q), NEW r \in Runs, req[q].run # r
  PROVE  Untouched(r)
<1> RequestTypes /\ DataTypes /\ RunTypes
  BY TypeParts
<1> req[q].run \in Runs /\ req[q] \in Request /\ Nobody # r
  BY StepIsKnown, ConstantsAssumption
<1>1. SameRow(r)
  BY DEF SameRow, RunTypes, Step, StoreContent, ApplyNodes, ApplyNoNewNodes,
       ApplyNodesFails, PlanRules, WriteRules, RulesFail, FinishImport,
       FinishNodeRetry, FinishRuleRetry, FailRetry, FinishFails, ReadRun, ReadContent,
       Claim, ReadUndo, Lookup, ReadChanges, Undo, runVars
<1>2. SameData(r)
  BY DEF SameData, DataTypes, Step, StoreContent, ApplyNodes, ApplyNoNewNodes,
       ApplyNodesFails, PlanRules, WriteRules, RulesFail, FinishImport,
       FinishNodeRetry, FinishRuleRetry, FailRetry, FinishFails, ReadRun, ReadContent,
       Claim, ReadUndo, Lookup, ReadChanges, Undo, dataVars, history
<1>3. SameRules(r)
  <2>1. CASE WriteRules(q)
    BY <2>1 DEF WriteRules, SameRules, DataTypes
  <2>2. CASE Undo(q)
    BY <2>2 DEF Undo, SameRules, DataTypes
  <2>3. CASE UNCHANGED <<target, credit, replaced>>
    BY <2>3 DEF SameRules
  <2> QED
    BY <2>1, <2>2, <2>3 DEF Step, StoreContent, ApplyNodes, ApplyNoNewNodes,
       ApplyNodesFails, PlanRules, RulesFail, FinishImport,
       FinishNodeRetry, FinishRuleRetry, FailRetry, FinishFails, ReadRun, ReadContent,
       Claim, ReadUndo, Lookup, ReadChanges, dataVars, history
<1>4. SameRequests(r)
  BY StepKeepsItsRun, OneRequestMoves DEF SameRequests, Others, On, Idle
<1> QED
  BY <1>1, <1>2, <1>3, <1>4 DEF Untouched

(* What a step can be for run r. *)
LEMMA StepsOfARun ==
  ASSUME TypeInv, IdleIsEmpty, [Next]_vars, NEW r \in Runs
  PROVE  \/ Untouched(r) \/ Recovered(r) \/ Age(r)
         \/ \E q \in Requests :
              \/ Step(q) /\ On(q, r)
              \/ Dropped(q, r)
              \/ \E w \in BOOLEAN : Import(q, r, w)
              \/ \E op \in {"nodeRetry", "ruleRetry", "undo"} : Begin(q, r, op)
              \/ DeleteSource(q, r)
<1> RequestTypes /\ DataTypes /\ RunTypes
  BY TypeParts
<1> Nobody # r /\ Idle.run = Nobody
  BY ConstantsAssumption DEF Idle
<1>0. ASSUME NEW q \in Requests, NEW s \in Runs, s # r,
             \/ \E w \in BOOLEAN : Import(q, s, w)
             \/ \E op \in {"nodeRetry", "ruleRetry", "undo"} : Begin(q, s, op)
             \/ DeleteSource(q, s)
      PROVE  SameRequests(r)
  BY <1>0, ArrivalIsNew, OneRequestMoves DEF SameRequests, On, Others, Arrive,
      IdleIsEmpty
<1>1. ASSUME NEW q \in Requests, Step(q), ~On(q, r) PROVE Untouched(r)
  BY <1>1, StepElsewhere DEF On
<1>2. ASSUME NEW q \in Requests, Die(q)
      PROVE  Untouched(r) \/ Dropped(q, r)
  BY <1>2, OneRequestMoves
  DEF Die, Untouched, Dropped, SameRow, SameData, SameRules, SameRequests, On, Others,
      Done, Idle, runVars, dataVars, history, RequestTypes
<1>3. ASSUME NEW q \in Requests, NEW s \in Runs, NEW w \in BOOLEAN, Import(q, s, w),
             s # r
      PROVE  Untouched(r)
  BY <1>3, <1>0
  DEF Import, Untouched, SameRow, SameData, SameRules,
      DataTypes, RunTypes
<1>4. ASSUME NEW q \in Requests, NEW s \in Runs, DeleteSource(q, s), s # r
      PROVE  Untouched(r)
  BY <1>4, <1>0
  DEF DeleteSource, Untouched, SameRow, SameData, SameRules,
      runVars, dataVars, history
<1>5. ASSUME NEW q \in Requests, NEW s \in Runs, s # r,
             NEW op \in {"nodeRetry", "ruleRetry", "undo"}, Begin(q, s, op)
      PROVE  Recovered(r)
  BY <1>5, <1>0
  DEF Begin, Recovered, SameData, SameRules,
      dataVars, history
<1>6. CASE ListImports
  BY <1>6 DEF ListImports, Recovered, SameData, SameRules, SameRequests, dataVars,
              history, On
<1>7. ASSUME NEW s \in Runs, Age(s), s # r PROVE Untouched(r)
  BY <1>7 DEF Age, Untouched, SameRow, SameData, SameRules, SameRequests, dataVars,
              history, On
<1>8. ASSUME NEW k \in Rules, NEW g \in Groups, EditRule(k, g) PROVE Untouched(r)
  BY <1>8 DEF EditRule, Untouched, SameRow, SameData, SameRules, SameRequests,
      runVars,
              DataTypes, On
<1>9. CASE UNCHANGED vars
  BY <1>9 DEF vars, Untouched, SameRow, SameData, SameRules, SameRequests, runVars,
              dataVars, history, On
<1> QED
  BY <1>1, <1>2, <1>3, <1>4, <1>5, <1>6, <1>7, <1>8, <1>9 DEF Next, Arrive

-----------------------------------------------------------------------------
(* A run that was not imported yet has no row, no data and no request.     *)
Absent(r) ==
    source[r] = "absent" =>
        /\ status[r] = "none" /\ refreshError[r] = NoError
        /\ ~structuredError[r] /\ structuredChanges[r] = {}
        /\ ~nodes[r] /\ ~marked[r]
        /\ \A k \in Rules : credit[k] # r
        /\ \A q \in Requests : ~On(q, r)
AbsentIsClean == \A r \in Runs : Absent(r)

LEMMA InitAbsent == Init => AbsentIsClean
BY ConstantsAssumption DEF Init, AbsentIsClean, Absent, On, Idle

(* A source is made once, so a step finds it absent if it leaves it so. *)
LEMMA AbsentBefore ==
  ASSUME TypeInv, NEW q \in Requests, Step(q), NEW r \in Runs, On(q, r),
         source'[r] = "absent"
  PROVE  source[r] = "absent"
BY TypeParts
DEF On, DataTypes, Step, StoreContent, ApplyNodes, ApplyNoNewNodes, ApplyNodesFails,
    PlanRules, WriteRules, RulesFail, FinishImport, FinishNodeRetry, FinishRuleRetry,
    FailRetry, FinishFails, ReadRun, ReadContent, Claim, ReadUndo, Lookup,
    ReadChanges,
    Undo, dataVars

LEMMA NextAbsent == TypeInv /\ IdleIsEmpty /\ AbsentIsClean /\ [Next]_vars => AbsentIsClean'
<1> SUFFICES ASSUME TypeInv, IdleIsEmpty, AbsentIsClean, [Next]_vars, NEW r \in Runs
             PROVE  Absent(r)'
  BY DEF AbsentIsClean
<1> RequestTypes /\ DataTypes /\ RunTypes /\ Absent(r) /\ Nobody # r
  BY TypeParts, ConstantsAssumption DEF AbsentIsClean
<1>1. CASE Untouched(r)
  BY <1>1 DEF Untouched, SameRow, SameData, SameRules, SameRequests, Absent, On
<1>2. CASE Recovered(r)
  BY <1>2 DEF Recovered, RecoverStale, Stale, SameData, SameRules, SameRequests,
      Absent, On
<1>3. CASE Age(r)
  BY <1>3 DEF Age, Absent, dataVars, history, On
<1>4. ASSUME NEW q \in Requests, Step(q), On(q, r) PROVE Absent(r)'
  BY <1>4, AbsentBefore DEF Absent
<1>5. ASSUME NEW q \in Requests, Dropped(q, r) PROVE Absent(r)'
  BY <1>5 DEF Dropped, SameData, Absent
<1>6. ASSUME NEW q \in Requests, NEW w \in BOOLEAN, Import(q, r, w) PROVE Absent(r)'
  BY <1>6 DEF Import, DataTypes, Absent
<1>7. ASSUME NEW q \in Requests, NEW op \in {"nodeRetry", "ruleRetry", "undo"},
             Begin(q, r, op) PROVE Absent(r)'
  BY <1>7 DEF Begin, Absent, dataVars
<1>8. ASSUME NEW q \in Requests, DeleteSource(q, r) PROVE Absent(r)'
  BY <1>8 DEF DeleteSource, Absent, dataVars
<1> QED
  BY <1>1, <1>2, <1>3, <1>4, <1>5, <1>6, <1>7, <1>8, StepsOfARun

-----------------------------------------------------------------------------
(***************************************************************************)
(* An undo that is alone on its run, as UndoAnytime = FALSE has it: nobody  *)
(* works on a run that is gone, and a request that arrives afterwards ends *)
(* where it reads the run.                                                 *)
(***************************************************************************)
UndoAlone(r) ==
    \A p, q \in Requests : req[p].op = "undo" /\ On(p, r) /\ On(q, r) => p = q
GoneIsRead(r) ==
    source[r] = "gone" => \A q \in Requests : On(q, r) => req[q].pc = "read"
CleanWhenGone(r) == source[r] = "gone" => ~nodes[r] /\ ~marked[r]
UndoInv == \A r \in Runs : UndoAlone(r) /\ GoneIsRead(r) /\ CleanWhenGone(r)

LEMMA InitUndo == Init => UndoInv
BY ConstantsAssumption DEF Init, UndoInv, UndoAlone, GoneIsRead, CleanWhenGone, On,
    Idle

LEMMA NextUndo ==
  ASSUME UndoAnytime = FALSE, TypeInv, IdleIsEmpty, AbsentIsClean, UndoInv, [Next]_vars
  PROVE  UndoInv'
<1> SUFFICES ASSUME NEW r \in Runs
             PROVE  UndoAlone(r)' /\ GoneIsRead(r)' /\ CleanWhenGone(r)'
  BY DEF UndoInv
<1> RequestTypes /\ DataTypes /\ RunTypes /\ Absent(r) /\ Nobody # r /\ Idle.run = Nobody
  BY TypeParts, ConstantsAssumption DEF AbsentIsClean, Idle
<1> UndoAlone(r) /\ GoneIsRead(r) /\ CleanWhenGone(r)
  BY DEF UndoInv
<1> DEFINE Good == UndoAlone(r) /\ GoneIsRead(r) /\ CleanWhenGone(r)
<1>1. CASE Untouched(r)
  BY <1>1 DEF Untouched, SameData, SameRequests, UndoAlone, GoneIsRead,
      CleanWhenGone, On
<1>2. CASE Recovered(r)
  BY <1>2 DEF Recovered, SameData, SameRequests, UndoAlone, GoneIsRead,
      CleanWhenGone, On
<1>3. CASE Age(r)
  BY <1>3 DEF Age, dataVars, UndoAlone, GoneIsRead, CleanWhenGone, On
<1>4. ASSUME NEW q \in Requests, Step(q), On(q, r) PROVE Good'
  <2>1. UndoAlone(r)'
    BY <1>4, StepKeepsItsRun, OneRequestMoves DEF UndoAlone, On, Others
  <2>2. CASE source[r] = "live" /\ source'[r] = "gone"
    <3>1. Undo(q)
      BY <1>4, <2>2
      DEF Step, StoreContent, ApplyNodes, ApplyNoNewNodes, ApplyNodesFails,
         PlanRules, WriteRules, RulesFail, FinishImport, FinishNodeRetry,
         FinishRuleRetry,
         FailRetry, FinishFails, ReadRun, ReadContent, Claim, ReadUndo, Lookup,
         ReadChanges,
         dataVars
    <3>2. \A p \in Requests : ~On(p, r)'
      BY <1>4, <3>1, OneRequestMoves DEF Undo, At, Done, UndoAlone, On, Others,
          RequestTypes
    <3>3. ~nodes'[r] /\ ~marked'[r]
      BY <1>4, <3>1 DEF Undo, DataTypes, On
    <3> QED
      BY <2>1, <3>2, <3>3 DEF GoneIsRead, CleanWhenGone
  <2>3. CASE source[r] = "gone"
    <3>1. req[q].pc = "read"
      BY <1>4, <2>3 DEF GoneIsRead
    <3>2. Done(q) /\ UNCHANGED dataVars
      BY <1>4, <2>3, <3>1
      DEF On, At, Step, StoreContent, ApplyNodes, ApplyNoNewNodes, ApplyNodesFails,
         PlanRules, WriteRules, RulesFail, FinishImport, FinishNodeRetry,
         FinishRuleRetry,
         FailRetry, FinishFails, ReadRun, NodeRetryable, RuleRetryable, ReadContent,
         Claim, ReadUndo, Lookup, ReadChanges, Undo
    <3> QED
      BY <2>1, <2>3, <3>2, <1>4, OneRequestMoves
      DEF dataVars, Done, GoneIsRead, CleanWhenGone, On, Others, RequestTypes
  <2>4. CASE source'[r] # "gone"
    BY <2>1, <2>4 DEF GoneIsRead, CleanWhenGone
  <2>5. source[r] # "absent"
    BY <1>4 DEF Absent
  <2> QED
    BY <2>2, <2>3, <2>4, <2>5 DEF DataTypes
<1>5. ASSUME NEW q \in Requests, Dropped(q, r) PROVE Good'
  BY <1>5 DEF Dropped, Done, Others, SameData, UndoAlone, GoneIsRead, CleanWhenGone,
      On,
     RequestTypes
<1>6. ASSUME NEW q \in Requests, NEW w \in BOOLEAN, Import(q, r, w) PROVE Good'
  <2>1. \A p \in Requests : On(p, r)' => p = q
    BY <1>6, OneRequestMoves DEF Import, Arrive, Absent, Others, On
  <2> QED
    BY <1>6, <2>1 DEF Import, DataTypes, UndoAlone, GoneIsRead, CleanWhenGone
<1>7. ASSUME NEW q \in Requests, NEW op \in {"nodeRetry", "ruleRetry", "undo"},
             Begin(q, r, op) PROVE Good'
  <2>1. req'[q].op = op /\ req'[q].pc = "read" /\ Others(q)
    BY <1>7, OneRequestMoves, IdleIsRequest DEF Begin, Arrive, RequestTypes, Request
  <2>2. req[q].run # r
    BY <1>7 DEF Begin, IdleIsEmpty
  <2>3. UndoAlone(r)'
    BY <1>7, <2>1, <2>2 DEF Begin, MayUndo, MayRetry, UndoAlone, On, Others
  <2> QED
    BY <1>7, <2>1, <2>3 DEF Begin, dataVars, GoneIsRead, CleanWhenGone, On, Others
<1>8. ASSUME NEW q \in Requests, DeleteSource(q, r) PROVE Good'
  BY <1>8, OneRequestMoves
  DEF DeleteSource, Arrive, MayUndo, dataVars, UndoAlone, GoneIsRead, CleanWhenGone,
      On,
      Others
<1> QED
  BY <1>1, <1>2, <1>3, <1>4, <1>5, <1>6, <1>7, <1>8, StepsOfARun

-----------------------------------------------------------------------------
(***************************************************************************)
(* No claim after an undo.  The import writes its row without looking, so  *)
(* an undone run may become 'partial' again while a retry stands before    *)
(* its claim.  The claim fails because it compares the error it read: one  *)
(* written while the import was in flight, which the import replaces.      *)
(***************************************************************************)
Late == {"did not complete", "node import failed"}
Overtaken(q, r) ==
    /\ source[r] # "absent" /\ ~structuredError[r] /\ structuredChanges[r] = {}
    /\ refreshError[r] \in Late \cup {NoError}
    /\ \A p \in Requests : On(p, r) /\ p # q =>
         /\ req[p].op # "import"
         /\ req[p].op = "ruleRetry" => req[p].pc = "read"
         /\ req[p].op = "nodeRetry" /\ req[p].pc # "read" => req[p].seenRefresh \in Late
ImportFirst(r) ==
    \A q \in Requests : On(q, r) /\ req[q].op = "import" => Overtaken(q, r)
GoneSettled(r) ==
    source[r] = "gone" =>
        /\ status[r] # "running"
        /\ status[r] = "partial" =>
             \A q \in Requests : On(q, r) /\ At(q, {"nodeRetry", "ruleRetry"}, "claim") =>
                 req[q].op = "nodeRetry" /\ req[q].seenRefresh # refreshError[r]
ClaimInv == \A r \in Runs : ImportFirst(r) /\ GoneSettled(r)

LEMMA InitClaim == Init => ClaimInv
BY ConstantsAssumption DEF Init, ClaimInv, ImportFirst, GoneSettled, On, Idle

(* A retry beside an import has seen an error the import did not write. *)
LEMMA RetrySees ==
  ASSUME RequestTypes, NEW q \in Requests, Step(q), req[q].op # "import",
         NEW r \in Runs, On(q, r),
         ~structuredError[r], refreshError[r] \in Late \cup {NoError},
         req[q].op = "ruleRetry" => req[q].pc = "read",
         req[q].op = "nodeRetry" /\ req[q].pc # "read" => req[q].seenRefresh \in Late
  PROVE  /\ req'[q].op = "ruleRetry" => req'[q].pc = "read"
         /\ req'[q].op = "nodeRetry" /\ req'[q].pc # "read" =>
                req'[q].seenRefresh \in Late
<1> req[q] \in Request
  BY StepIsKnown
<1> Idle.op = "none"
  BY DEF Idle
<1>0. req'[q] = Idle \/ req'[q].op = req[q].op
  BY StepKeepsItsRun
<1>1. CASE StoreContent(q) \/ FinishFails(q) \/ ReadContent(q) \/ ReadUndo(q)
           \/ Lookup(q) \/ Claim(q)
  BY <1>1 DEF RequestTypes, Request, StoreContent, FinishFails, ReadContent, ReadUndo,
              Lookup, Claim, GoTo, Done, At
<1>2. CASE ApplyNodes(q) \/ ApplyNoNewNodes(q) \/ ApplyNodesFails(q)
  BY <1>2 DEF RequestTypes, Request, ApplyNodes, ApplyNoNewNodes, ApplyNodesFails,
              AfterNodes, At
<1>3. CASE PlanRules(q) \/ WriteRules(q) \/ RulesFail(q) \/ ReadChanges(q)
  BY <1>3, <1>0 DEF RequestTypes, Request, PlanRules, WriteRules, RulesFail,
              ReadChanges, Done, At
<1>4. CASE ReadRun(q)
  BY <1>4, <1>0 DEF RequestTypes, Request, ReadRun, NodeRetryable, RuleRetryable, On,
      At, Done
<1>5. CASE FinishImport(q) \/ FinishNodeRetry(q) \/ FinishRuleRetry(q) \/ FailRetry(q)
           \/ Undo(q)
  BY <1>5 DEF RequestTypes, FinishImport, FinishNodeRetry, FinishRuleRetry, FailRetry,
              Undo, Done
<1> QED
  BY <1>1, <1>2, <1>3, <1>4, <1>5 DEF Step

LEMMA StepImportFirst ==
  ASSUME TypeInv, NEW q \in Requests, Step(q), NEW r \in Runs, On(q, r), ImportFirst(r)
  PROVE  ImportFirst(r)'
<1> SUFFICES ASSUME NEW i \in Requests, On(i, r)', req'[i].op = "import"
             PROVE  Overtaken(i, r)'
  BY DEF ImportFirst
<1> RequestTypes /\ DataTypes /\ RunTypes
  BY TypeParts
<1>0. Others(q) /\ (req'[q] = Idle \/ (req'[q].op = req[q].op /\ On(q, r)')) /\ Idle.op = "none"
  BY OneRequestMoves, StepKeepsItsRun DEF Idle, On
<1>1. On(i, r) /\ req[i].op = "import"
  BY <1>0 DEF Others, On
<1>2. Overtaken(i, r)
  BY <1>1 DEF ImportFirst
<1>3. source'[r] # "absent"
  BY <1>2, AbsentBefore DEF Overtaken
<1>4. /\ structuredError'[r] = structuredError[r]
      /\ structuredChanges'[r] = structuredChanges[r]
      /\ refreshError'[r] \in Late \cup {NoError}
  <2>1. CASE FinishImport(q)
    BY <2>1, <1>0, <1>1, <1>2 DEF FinishImport, At, Done, On, Overtaken, Idle,
        RequestTypes
  <2>2. CASE FinishNodeRetry(q)
    BY <2>2, <1>2 DEF FinishNodeRetry, Overtaken, RunTypes, On
  <2>3. CASE FinishRuleRetry(q)
    BY <2>3, <1>1, <1>2 DEF FinishRuleRetry, At, Overtaken, On
  <2>4. CASE FailRetry(q)
    BY <2>4, <1>1, <1>2 DEF FailRetry, At, Overtaken, On, RunTypes, Late
  <2>5. CASE UNCHANGED <<structuredError, structuredChanges, refreshError>>
    BY <2>5, <1>2 DEF Overtaken
  <2> QED
    BY <2>1, <2>2, <2>3, <2>4, <2>5
    DEF Step, StoreContent, ApplyNodes, ApplyNoNewNodes, ApplyNodesFails,
       PlanRules, WriteRules, RulesFail,
       FinishFails, ReadRun, ReadContent, Claim, ReadUndo, Lookup, ReadChanges, Undo,
       runVars
<1>5. ASSUME NEW p \in Requests, On(p, r)', p # i
      PROVE  /\ req'[p].op # "import"
             /\ req'[p].op = "ruleRetry" => req'[p].pc = "read"
             /\ req'[p].op = "nodeRetry" /\ req'[p].pc # "read" => req'[p].seenRefresh \in Late
  <2>1. CASE p = q
    BY <2>1, <1>0, <1>2, <1>5, RetrySees DEF Overtaken
  <2>2. CASE p # q
    BY <2>2, <1>0, <1>2, <1>5 DEF Overtaken, Others, On
  <2> QED
    BY <2>1, <2>2
<1> QED
  BY <1>2, <1>3, <1>4, <1>5 DEF Overtaken

LEMMA NextClaim ==
  ASSUME TypeInv, IdleIsEmpty, AbsentIsClean, ClaimInv, [Next]_vars
  PROVE  ClaimInv'
<1> SUFFICES ASSUME NEW r \in Runs PROVE ImportFirst(r)' /\ GoneSettled(r)'
  BY DEF ClaimInv
<1> RequestTypes /\ DataTypes /\ RunTypes /\ Absent(r) /\ Nobody # r /\ Idle.run = Nobody
  BY TypeParts, ConstantsAssumption DEF AbsentIsClean, Idle
<1> ImportFirst(r) /\ GoneSettled(r)
  BY DEF ClaimInv
<1> DEFINE Good == ImportFirst(r) /\ GoneSettled(r)
<1>1. CASE Untouched(r)
  BY <1>1 DEF Untouched, SameData, SameRow, SameRequests, ImportFirst, Overtaken,
      GoneSettled, At, On
<1>2. CASE Recovered(r)
  BY <1>2 DEF Recovered, RecoverStale, Stale, SameData, SameRequests, ImportFirst,
      Overtaken, Late,
              GoneSettled, At, On
<1>3. CASE Age(r)
  BY <1>3 DEF Age, dataVars, ImportFirst, Overtaken, GoneSettled, At, On
<1>4. ASSUME NEW q \in Requests, Step(q), On(q, r) PROVE Good'
  <2>1. ImportFirst(r)'
    BY <1>4, StepImportFirst
  <2>2. source[r] # "absent" /\ Others(q)
    BY <1>4, OneRequestMoves DEF Absent
  <2>3. CASE source[r] = "live" /\ source'[r] = "gone"
    <3>1. Undo(q)
      BY <1>4, <2>3
      DEF Step, StoreContent, ApplyNodes, ApplyNoNewNodes, ApplyNodesFails,
         PlanRules, WriteRules, RulesFail, FinishImport, FinishNodeRetry,
         FinishRuleRetry,
         FailRetry, FinishFails, ReadRun, ReadContent, Claim, ReadUndo, Lookup,
         ReadChanges,
         dataVars
    <3>2. status'[r] = "undone"
      BY <1>4, <2>3, <3>1 DEF Undo, RunTypes, On
    <3> QED
      BY <2>1, <3>2 DEF GoneSettled
  <2>4. CASE source[r] = "gone" /\ FinishImport(q)
    <3>1. Overtaken(q, r)
      BY <1>4, <2>4 DEF FinishImport, At, ImportFirst
    <3>2. status'[r] # "running" /\ refreshError'[r] \notin Late
      BY <1>4, <2>4 DEF FinishImport, HistoryError, RunTypes, Late, NoError, On
    <3>3. \A p \in Requests : On(p, r)' => p # q /\ On(p, r) /\ req'[p] = req[p]
      BY <1>4, <2>2, <2>4 DEF FinishImport, Done, Others, On, RequestTypes
    <3> QED
      BY <2>1, <3>1, <3>2, <3>3 DEF GoneSettled, Overtaken, At
  <2>5. CASE source[r] = "gone" /\ ~FinishImport(q)
    <3>1. source'[r] = "gone" /\ status'[r] = status[r] /\ refreshError'[r] = refreshError[r]
      BY <1>4, <2>5
      DEF GoneSettled, DataTypes, RunTypes, On, At, Step, StoreContent, ApplyNodes,
          ApplyNoNewNodes,
         ApplyNodesFails, PlanRules, WriteRules, RulesFail, FinishNodeRetry,
         FinishRuleRetry,
         StillRunning, FailRetry, FinishFails, ReadRun, ReadContent, Claim,
         Claimable, ReadUndo,
         Lookup, ReadChanges, Undo, dataVars, runVars
    <3>2. req'[q].pc # "claim"
      <4> req[q] \in Request /\ Idle.pc = "idle"
        BY <1>4, StepIsKnown DEF Idle
      <4>1. CASE StoreContent(q) \/ FinishFails(q) \/ ReadContent(q) \/ ReadUndo(q)
                 \/ Lookup(q) \/ Claim(q)
        BY <4>1, <1>4, <2>5 DEF RequestTypes, Request, StoreContent, FinishFails,
            ReadContent,
            ReadUndo, Lookup, Claim, GoTo, Done, On
      <4>2. CASE ApplyNodes(q) \/ ApplyNoNewNodes(q) \/ ApplyNodesFails(q)
        BY <4>2 DEF RequestTypes, Request, ApplyNodes, ApplyNoNewNodes,
            ApplyNodesFails,
                    AfterNodes
      <4>3. CASE PlanRules(q) \/ WriteRules(q) \/ RulesFail(q) \/ ReadRun(q) \/ ReadChanges(q)
        BY <4>3 DEF RequestTypes, Request, PlanRules, WriteRules, RulesFail, ReadRun,
                    ReadChanges, Done
      <4>4. CASE FinishNodeRetry(q) \/ FinishRuleRetry(q) \/ FailRetry(q) \/ Undo(q)
        BY <4>4 DEF RequestTypes, FinishNodeRetry, FinishRuleRetry, FailRetry, Undo,
            Done
      <4> QED
        BY <1>4, <2>5, <4>1, <4>2, <4>3, <4>4 DEF Step
    <3> QED
      BY <2>1, <2>2, <2>5, <3>1, <3>2 DEF GoneSettled, Others, On, At
  <2>6. CASE source'[r] # "gone"
    BY <2>1, <2>6 DEF GoneSettled
  <2> QED
    BY <2>2, <2>3, <2>4, <2>5, <2>6 DEF DataTypes
<1>5. ASSUME NEW q \in Requests, Dropped(q, r) PROVE Good'
  BY <1>5 DEF Dropped, Done, Others, SameData, SameRow, ImportFirst, Overtaken,
      GoneSettled, At, On,
     RequestTypes
<1>6. ASSUME NEW q \in Requests, NEW w \in BOOLEAN, Import(q, r, w) PROVE Good'
  <2>1. \A p \in Requests : On(p, r)' => p = q
    BY <1>6, OneRequestMoves DEF Import, Arrive, Absent, Others, On
  <2> QED
    BY <1>6, <2>1 DEF Import, DataTypes, Absent, ImportFirst, Overtaken, GoneSettled
<1>7. ASSUME NEW q \in Requests, NEW op \in {"nodeRetry", "ruleRetry", "undo"},
             Begin(q, r, op) PROVE Good'
  <2>1. req'[q].op = op /\ req'[q].pc = "read" /\ Others(q)
    BY <1>7, OneRequestMoves, IdleIsRequest DEF Begin, Arrive, RequestTypes, Request
  <2>2. req[q].run # r
    BY <1>7 DEF Begin, IdleIsEmpty
  <2>3. /\ source'[r] = source[r]
        /\ structuredError'[r] = structuredError[r] /\ structuredChanges'[r] = structuredChanges[r]
        /\ refreshError'[r] \in {refreshError[r], "did not complete"}
        /\ status[r] # "running" => status'[r] = status[r] /\ refreshError'[r] = refreshError[r]
    BY <1>7 DEF Begin, RecoverStale, Stale, dataVars, RunTypes
  <2>4. ASSUME NEW i \in Requests, On(i, r)', req'[i].op = "import" PROVE Overtaken(i, r)'
    <3>1. i # q /\ Overtaken(i, r)
      BY <2>1, <2>4 DEF ImportFirst, On, Others
    <3>2. \A p \in Requests : On(p, r)' => p = q \/ (On(p, r) /\ req'[p] = req[p])
      BY <2>1 DEF On, Others
    <3> QED
      BY <2>1, <2>3, <3>1, <3>2 DEF Overtaken, Late
  <2>5. GoneSettled(r)'
    BY <2>1, <2>3 DEF GoneSettled, At, On, Others
  <2> QED
    BY <2>4, <2>5 DEF ImportFirst
<1>8. ASSUME NEW q \in Requests, DeleteSource(q, r) PROVE Good'
  <2>1. req'[q].op = "undo" /\ req'[q].pc = "lookup" /\ Others(q)
    BY <1>8, OneRequestMoves, IdleIsRequest DEF DeleteSource, Arrive, RequestTypes,
        Request
  <2>2. req[q].run # r
    BY <1>8 DEF DeleteSource, IdleIsEmpty
  <2> QED
    BY <1>8, <2>1, <2>2
    DEF DeleteSource, dataVars, runVars, ImportFirst, Overtaken, GoneSettled, At, On,
        Others
<1> QED
  BY <1>1, <1>2, <1>3, <1>4, <1>5, <1>6, <1>7, <1>8, StepsOfARun

(* Whatever races, dies or overtakes, no step brings a run whose source is *)
(* gone back to 'running': the claims of both retries fail on it.          *)
THEOREM NoClaimAfterUndoHolds == Spec => NoClaimAfterUndo
<1> DEFINE Inv == TypeInv /\ IdleIsEmpty /\ AbsentIsClean /\ ClaimInv
           Unclaimed == \A r \in Runs : source[r] = "gone" /\ status[r] # "running"
                            => status'[r] # "running"
<1>1. Init => Inv
  BY InitType, InitIdle, InitAbsent, InitClaim
<1>2. Inv /\ [Next]_vars => Inv'
  BY NextType, NextIdle, NextAbsent, NextClaim
<1>3. Inv /\ Inv' /\ [Next]_vars => [Unclaimed]_vars
  <2> SUFFICES ASSUME Inv, Inv', [Next]_vars, NEW r \in Runs, source[r] = "gone"
               PROVE  status'[r] # "running"
    BY DEF Unclaimed
  <2>1. source'[r] = "gone"
    BY TypeParts, StepsOfARun
    DEF DataTypes, Untouched, Recovered, Age, Dropped, SameData, dataVars,
        Step, StoreContent, ApplyNodes, ApplyNoNewNodes, ApplyNodesFails,
        PlanRules, WriteRules, RulesFail, FinishImport, FinishNodeRetry,
        FinishRuleRetry,
        FailRetry, FinishFails, ReadRun, ReadContent, Claim, ReadUndo, Lookup,
        ReadChanges,
        Undo, On, Import, Begin, DeleteSource
  <2> QED
    BY <2>1 DEF ClaimInv, GoneSettled
<1> QED
  BY <1>1, <1>2, <1>3, PTL DEF Spec, NoClaimAfterUndo

-----------------------------------------------------------------------------
(***************************************************************************)
(* Undone is clean.  No insert passes the foreign key of a source that is  *)
(* gone, and only a holder of the run writes rules with its marker; a new  *)
(* holder would have to claim the run, which shows as 'running'.           *)
(***************************************************************************)
NodesGo == \A r \in Runs : source[r] = "gone" => ~nodes[r]

(* The batch that undoes a run. *)
LEMMA GoneByUndo ==
  ASSUME TypeInv, IdleIsEmpty, AbsentIsClean, [Next]_vars, NEW r \in Runs,
         source'[r] = "gone"
  PROVE  \/ source[r] = "gone"
         \/ ~nodes'[r] /\ ~marked'[r]
<1> RequestTypes /\ DataTypes /\ RunTypes
  BY TypeParts
<1>1. ASSUME NEW q \in Requests, Step(q), On(q, r)
      PROVE  source[r] = "gone" \/ (~nodes'[r] /\ ~marked'[r])
  BY <1>1
  DEF DataTypes, On, Step, StoreContent, ApplyNodes, ApplyNoNewNodes,
      ApplyNodesFails, PlanRules, WriteRules, RulesFail, FinishImport,
      FinishNodeRetry, FinishRuleRetry, FailRetry, FinishFails, ReadRun, ReadContent,
      Claim, ReadUndo, Lookup, ReadChanges, Undo, dataVars
<1>2. ASSUME NEW q \in Requests, NEW w \in BOOLEAN, Import(q, r, w) PROVE FALSE
  BY <1>2 DEF Import, DataTypes
<1> QED
  BY <1>1, <1>2, StepsOfARun
  DEF Untouched, Recovered, Age, Dropped, SameData, dataVars, Begin, DeleteSource

LEMMA InitNodesGo == Init => NodesGo
BY DEF Init, NodesGo

LEMMA NextNodesGo ==
  ASSUME TypeInv, IdleIsEmpty, AbsentIsClean, NodesGo, [Next]_vars
  PROVE  NodesGo'
<1> SUFFICES ASSUME NEW r \in Runs, source'[r] = "gone" PROVE ~nodes'[r]
  BY DEF NodesGo
<1> RequestTypes /\ DataTypes /\ RunTypes
  BY TypeParts
<1>1. CASE source[r] # "gone"
  BY <1>1, GoneByUndo
<1>2. CASE source[r] = "gone"
  <2> ~nodes[r]
    BY <1>2 DEF NodesGo
  <2>1. ASSUME NEW q \in Requests, Step(q), On(q, r) PROVE ~nodes'[r]
    BY <1>2, <2>1
    DEF DataTypes, On, Step, StoreContent, ApplyNodes, ApplyNoNewNodes,
        ApplyNodesFails, PlanRules, WriteRules, RulesFail, FinishImport,
        FinishNodeRetry, FinishRuleRetry, FailRetry, FinishFails, ReadRun, ReadContent,
        Claim, ReadUndo, Lookup, ReadChanges, Undo, dataVars
  <2> QED
    BY <2>1, StepsOfARun
    DEF Untouched, Recovered, Age, Dropped, SameData, dataVars, Begin, DeleteSource,
        Import
<1> QED
  BY <1>1, <1>2

(* What nobody holds, nobody writes; what is gone, nobody claims.          *)
LEMMA CleanStays ==
  ASSUME TypeInv, IdleIsEmpty, AbsentIsClean, ClaimInv, ClaimInv', NodesGo', [Next]_vars,
         NEW r \in Runs, Clean(r)
  PROVE  Clean(r)'
<1> RequestTypes /\ DataTypes /\ RunTypes /\ Nobody # r
  BY TypeParts, ConstantsAssumption
<1> USE DEF Clean
<1>0. source'[r] = "gone" => status'[r] # "running" /\ ~nodes'[r]
  BY DEF ClaimInv, GoneSettled, NodesGo
<1>1. CASE Untouched(r)
  BY <1>0, <1>1 DEF Untouched, SameData, SameRequests, Works, On
<1>2. CASE Recovered(r)
  BY <1>0, <1>2 DEF Recovered, SameData, SameRequests, Works, On
<1>3. CASE Age(r)
  BY <1>0, <1>3 DEF Age, dataVars, Works
<1>4. ASSUME NEW q \in Requests, Step(q), On(q, r) PROVE Clean(r)'
  <2> Others(q) /\ req[q] \in Request /\ req[q].pc \notin RetrySteps
    BY <1>4, OneRequestMoves, StepIsKnown DEF Works, On
  <2>1. ReadRun(q) \/ ReadContent(q) \/ Claim(q) \/ ReadUndo(q) \/ Lookup(q)
        \/ ReadChanges(q) \/ Undo(q)
    BY <1>4
    DEF At, RetrySteps, ImportSteps, Step, StoreContent, ApplyNodes, ApplyNoNewNodes,
        ApplyNodesFails, PlanRules, WriteRules, RulesFail, FinishImport,
        FinishNodeRetry, FinishRuleRetry, FailRetry, FinishFails
  <2>2. source'[r] = "gone" /\ ~marked'[r]
    BY <1>4, <2>1
    DEF DataTypes, On, ReadRun, ReadContent, Claim, ReadUndo, Lookup, ReadChanges, Undo,
        dataVars
  <2>3. req'[q].pc \notin RetrySteps
    <3>1. CASE Claim(q)
      BY <1>0, <1>4, <2>2, <3>1
      DEF Claim, Done, Idle, On, RequestTypes, RunTypes, RetrySteps, ImportSteps
    <3>2. CASE ReadRun(q) \/ ReadContent(q) \/ ReadUndo(q) \/ Lookup(q) \/ ReadChanges(q)
               \/ Undo(q)
      BY <3>2
      DEF ReadRun, ReadContent, ReadUndo, Lookup, ReadChanges, Undo, GoTo, Done, Idle,
          RequestTypes, Request, RetrySteps, ImportSteps
    <3> QED
      BY <2>1, <3>1, <3>2
  <2> QED
    BY <1>0, <2>2, <2>3 DEF Others, Works
<1>5. ASSUME NEW q \in Requests, Dropped(q, r) PROVE Clean(r)'
  BY <1>0, <1>5
  DEF Dropped, Done, Others, SameData, Works, On, Idle, RequestTypes, RetrySteps,
      ImportSteps
<1>6. ASSUME NEW q \in Requests, NEW w \in BOOLEAN, Import(q, r, w) PROVE FALSE
  BY <1>6 DEF Import
<1>7. ASSUME NEW q \in Requests, NEW op \in {"nodeRetry", "ruleRetry", "undo"},
             Begin(q, r, op) PROVE Clean(r)'
  <2>1. req'[q].pc = "read" /\ Others(q)
    BY <1>7, OneRequestMoves, IdleIsRequest DEF Begin, Arrive, RequestTypes, Request
  <2> QED
    BY <1>0, <1>7, <2>1 DEF Begin, dataVars, Works, Others, RetrySteps, ImportSteps
<1>8. ASSUME NEW q \in Requests, DeleteSource(q, r) PROVE Clean(r)'
  BY <1>8 DEF DeleteSource
<1> QED
  BY <1>1, <1>2, <1>3, <1>4, <1>5, <1>6, <1>7, <1>8, StepsOfARun

(* Whoever else is at work on a run as it is undone, whatever dies or      *)
(* outlives the recovery: the undo leaves nothing, no node comes back, and *)
(* once the requests that held the run have ended it stays clean.          *)
THEOREM UndoneIsCleanHolds == Spec => UndoneIsClean
<1> DEFINE Inv == TypeInv /\ IdleIsEmpty /\ AbsentIsClean /\ ClaimInv /\ NodesGo
           Undone == \A r \in Runs :
               /\ Live(r) /\ source'[r] = "gone" => ~nodes'[r] /\ ~marked'[r]
               /\ source[r] = "gone" => ~nodes'[r]
               /\ Clean(r) => Clean(r)'
<1>1. Init => Inv
  BY InitType, InitIdle, InitAbsent, InitClaim, InitNodesGo
<1>2. Inv /\ [Next]_vars => Inv'
  BY NextType, NextIdle, NextAbsent, NextClaim, NextNodesGo
<1>3. Inv /\ Inv' /\ [Next]_vars => [Undone]_vars
  <2> SUFFICES ASSUME Inv, Inv', [Next]_vars, NEW r \in Runs
               PROVE  /\ Live(r) /\ source'[r] = "gone" => ~nodes'[r] /\ ~marked'[r]
                      /\ source[r] = "gone" => ~nodes'[r]
                      /\ Clean(r) => Clean(r)'
    BY DEF Undone
  <2>1. Live(r) /\ source'[r] = "gone" => ~nodes'[r] /\ ~marked'[r]
    BY GoneByUndo DEF Live
  <2>2. source[r] = "gone" => source'[r] = "gone"
    BY TypeParts, StepsOfARun
    DEF DataTypes, Untouched, Recovered, Age, Dropped, SameData, dataVars,
        Step, StoreContent, ApplyNodes, ApplyNoNewNodes, ApplyNodesFails,
        PlanRules, WriteRules, RulesFail, FinishImport, FinishNodeRetry,
        FinishRuleRetry, FailRetry, FinishFails, ReadRun, ReadContent, Claim, ReadUndo,
        Lookup, ReadChanges, Undo, On, Import, Begin, DeleteSource
  <2>3. Clean(r) => Clean(r)'
    BY CleanStays
  <2> QED
    BY <2>1, <2>2, <2>3 DEF NodesGo
<1> QED
  BY <1>1, <1>2, <1>3, PTL DEF Spec, UndoneIsClean

-----------------------------------------------------------------------------
(***************************************************************************)
(* Nodes are as reported.  While the nodes of a run are due, no request    *)
(* about it is about to report them, and the rule retry, which takes the   *)
(* error it read for the outcome of the nodes, cannot start without one.   *)
(***************************************************************************)
NodesDue(r) == Live(r) /\ r \in NodeRuns \ NewOnly /\ ~nodes[r]
(* A request about a run whose nodes are due does not think they are there. *)
NodesMissed(q) ==
    /\ req[q].op = "nodeRetry" => req[q].pc # "finish"
    /\ req[q].op = "import" /\ req[q].pc \in {"plan", "write", "finish"} =>
           req[q].nodesFailed
NodesTold(r) ==
    NodesDue(r) =>
        /\ Completed(r) => refreshError[r] # NoError
        /\ refreshError[r] = NoError => ~structuredError[r]
        /\ \A q \in Requests : On(q, r) =>
             /\ NodesMissed(q)
             /\ refreshError[r] = NoError /\ req[q].op = "ruleRetry" => req[q].pc = "read"
NodesInv == \A r \in Runs : NodesTold(r)

LEMMA InitNodes == Init => NodesInv
BY DEF Init, NodesInv, NodesTold, NodesDue, Live

LEMMA StepNodesMissed ==
  ASSUME TypeInv, NEW q \in Requests, Step(q), NEW r \in Runs, On(q, r), NodesMissed(q),
         NodesDue(r)'
  PROVE  NodesMissed(q)'
<1> RequestTypes
  BY TypeParts
<1> req[q] \in Request
  BY StepIsKnown
<1>0. req'[q] = Idle \/ req'[q].op = req[q].op
  BY StepKeepsItsRun
<1>1. CASE FinishFails(q) \/ ReadContent(q) \/ ReadUndo(q) \/ Lookup(q) \/ Claim(q)
  BY <1>1, IdleFields DEF RequestTypes, Request, FinishFails, ReadContent, ReadUndo,
              Lookup, Claim, GoTo, Done, At, NodesMissed
<1>2. CASE StoreContent(q)
  BY <1>2 DEF StoreContent, RequestTypes, Request, GoTo, At, NodesMissed, NodesDue, On
<1>3. CASE ApplyNodes(q)
  BY <1>3, TypeParts DEF ApplyNodes, NodesDue, On, DataTypes
<1>4. CASE ApplyNoNewNodes(q)
  BY <1>4 DEF ApplyNoNewNodes, NodesDue, On
<1>5. CASE ApplyNodesFails(q)
  BY <1>5 DEF RequestTypes, Request, ApplyNodesFails, AfterNodes, At, NodesMissed
<1>6. CASE PlanRules(q)
  BY <1>6 DEF RequestTypes, Request, PlanRules, At, NodesMissed
<1>7. CASE WriteRules(q) \/ RulesFail(q) \/ ReadChanges(q) \/ ReadRun(q)
  BY <1>7, IdleFields DEF RequestTypes, Request, WriteRules, RulesFail, ReadRun,
              ReadChanges, Done, At, NodesMissed
<1>8. CASE FinishImport(q) \/ FinishNodeRetry(q) \/ FinishRuleRetry(q) \/ FailRetry(q)
           \/ Undo(q)
  BY <1>8, IdleFields DEF RequestTypes, FinishImport, FinishNodeRetry,
      FinishRuleRetry, FailRetry,
              Undo, Done, NodesMissed
<1> QED
  BY <1>1, <1>2, <1>3, <1>4, <1>5, <1>6, <1>7, <1>8 DEF Step

LEMMA NextNodes ==
  ASSUME TypeInv, IdleIsEmpty, AbsentIsClean, NodesInv, [Next]_vars
  PROVE  NodesInv'
<1> SUFFICES ASSUME NEW r \in Runs PROVE NodesTold(r)'
  BY DEF NodesInv
<1> RequestTypes /\ DataTypes /\ RunTypes /\ Absent(r) /\ Nobody # r
  BY TypeParts, ConstantsAssumption DEF AbsentIsClean
<1> NodesTold(r)
  BY DEF NodesInv
<1>1. CASE Untouched(r)
  BY <1>1 DEF Untouched, SameData, SameRow, SameRequests, NodesTold, NodesDue,
      NodesMissed, Live,
              Completed, On
<1>2. CASE Recovered(r)
  BY <1>2 DEF Recovered, RecoverStale, Stale, SameData, SameRequests, NodesTold,
      NodesDue,
              NodesMissed, Live, Completed, NoError, On
<1>3. CASE Age(r)
  BY <1>3 DEF Age, dataVars, NodesTold, NodesDue, NodesMissed, Live, Completed, On
<1>4. ASSUME NEW q \in Requests, Step(q), On(q, r), NodesDue(r)' PROVE NodesTold(r)'
  <2> Others(q) /\ req[q] \in Request
    BY <1>4, OneRequestMoves, StepIsKnown
  <2>1. NodesDue(r) /\ ~ApplyNodes(q) /\ ~Undo(q)
    BY <1>4
    DEF NodesDue, Live, DataTypes, On, Step, StoreContent, ApplyNodes,
        ApplyNoNewNodes,
       ApplyNodesFails, PlanRules, WriteRules, RulesFail, FinishImport,
       FinishNodeRetry,
       FinishRuleRetry, FailRetry, FinishFails, ReadRun, ReadContent, Claim,
       ReadUndo, Lookup,
       ReadChanges, Undo, dataVars
  <2>2. \A p \in Requests : On(p, r)' => NodesMissed(p)'
    BY <1>4, <2>1, StepNodesMissed DEF NodesTold, Others, On, NodesMissed
  <2>3. \A p \in Requests : On(p, r)' =>
          (p # q /\ On(p, r) /\ req'[p] = req[p]) \/ (p = q /\ req'[q].op = req[q].op)
    BY <1>4, StepKeepsItsRun, IdleFields DEF Others, On
  <2>4. CASE FinishImport(q) \/ (FailRetry(q) /\ refreshError'[r] # refreshError[r])
    <3>1. refreshError'[r] # NoError
      BY <1>4, <2>1, <2>4
      DEF FinishImport, FailRetry, HistoryError, At, NodesTold, NodesMissed, On,
          RunTypes, NoError
    <3> QED
      BY <2>2, <3>1 DEF NodesTold
  <2>5. CASE FinishNodeRetry(q)
    BY <1>4, <2>1, <2>5 DEF FinishNodeRetry, At, NodesTold, NodesMissed, On
  <2>6. ASSUME refreshError'[r] = refreshError[r], ~FinishImport(q), ~FinishNodeRetry(q)
        PROVE  NodesTold(r)'
    <3>1. CASE refreshError[r] # NoError
      BY <2>2, <2>6, <3>1 DEF NodesTold
    <3>2. CASE refreshError[r] = NoError
      <4>1. ~Completed(r) /\ ~structuredError[r]
        BY <2>1, <3>2 DEF NodesTold
      <4>2. status'[r] \notin {"success", "partial"} /\ structuredError'[r] = structuredError[r]
        BY <1>4, <2>1, <2>6, <3>2, <4>1
        DEF RefreshErrors, NoError, RunTypes, NodesTold, Completed, On, At, Step,
            StoreContent, ApplyNoNewNodes,
           ApplyNodesFails, PlanRules, WriteRules, RulesFail, FinishRuleRetry,
           FailRetry,
           StillRunning, FinishFails, ReadRun,
           ReadContent, Claim, ReadUndo, Lookup, ReadChanges, runVars
      <4>3. req[q].op = "ruleRetry" => req'[q] = Idle
        BY <1>4, <2>1, <2>6, <3>2, <4>1
        DEF NodesTold, On, At, Step, StoreContent, ApplyNoNewNodes, RequestTypes,
           ApplyNodesFails, PlanRules, WriteRules, RulesFail, FinishRuleRetry,
           FailRetry,
           StillRunning, FinishFails, ReadRun,
           RuleRetryable, ReadContent, Claim, ReadUndo, Lookup, ReadChanges, Done
      <4> QED
        BY <2>1, <2>2, <2>3, <2>6, <4>1, <4>2, <4>3, IdleFields DEF NodesTold,
            Completed, On
    <3> QED
      BY <3>1, <3>2
  <2> QED
    BY <1>4, <2>1, <2>4, <2>5, <2>6
    DEF Step, StoreContent, ApplyNoNewNodes, ApplyNodesFails, PlanRules, WriteRules,
        RulesFail,
       FinishRuleRetry, FailRetry, FinishFails, ReadRun, ReadContent, Claim,
       ReadUndo, Lookup,
       ReadChanges, runVars
<1>5. ASSUME NEW q \in Requests, Dropped(q, r) PROVE NodesTold(r)'
  BY <1>5, IdleFields DEF Dropped, Done, Others, SameData, SameRow, NodesTold,
      NodesDue, NodesMissed, Live,
     Completed, On, RequestTypes
<1>6. ASSUME NEW q \in Requests, NEW w \in BOOLEAN, Import(q, r, w) PROVE NodesTold(r)'
  <2>1. \A p \in Requests : On(p, r)' => p = q
    BY <1>6, OneRequestMoves DEF Import, Arrive, Absent, Others, On
  <2>2. req'[q].op = "import" /\ req'[q].pc = "store"
    BY <1>6, IdleIsRequest DEF Import, RequestTypes, Request
  <2> QED
    BY <1>6, <2>1, <2>2 DEF Import, RunTypes, DataTypes, Absent, NodesTold,
        NodesMissed, Completed
<1>7. ASSUME NEW q \in Requests, NEW op \in {"nodeRetry", "ruleRetry", "undo"},
             Begin(q, r, op) PROVE NodesTold(r)'
  <2>1. req'[q].op = op /\ req'[q].pc = "read" /\ Others(q)
    BY <1>7, OneRequestMoves, IdleIsRequest DEF Begin, Arrive, RequestTypes, Request
  <2>2. req[q].run # r
    BY <1>7, IdleFields DEF Begin, IdleIsEmpty
  <2> QED
    BY <1>7, <2>1, <2>2
    DEF Begin, RecoverStale, Stale, dataVars, RunTypes, NodesTold, NodesMissed,
        NodesDue, Live,
        Completed, NoError, On, Others
<1>8. ASSUME NEW q \in Requests, DeleteSource(q, r) PROVE NodesTold(r)'
  <2>1. req'[q].op = "undo" /\ req'[q].pc = "lookup" /\ Others(q)
    BY <1>8, OneRequestMoves, IdleIsRequest DEF DeleteSource, Arrive, RequestTypes,
        Request
  <2> QED
    BY <1>8, <2>1
    DEF DeleteSource, dataVars, runVars, NodesTold, NodesMissed, NodesDue, Live,
        Completed, On, Others
<1> QED
  BY <1>1, <1>2, <1>3, <1>4, <1>5, <1>6, <1>7, <1>8, StepsOfARun DEF NodesTold

(* Under any faults, overlaps and undos a completed run without an error   *)
(* of its node phase has its nodes.                                        *)
THEOREM NodesAsReportedHolds == Spec => []NodesAsReported
<1> DEFINE Inv == TypeInv /\ IdleIsEmpty /\ AbsentIsClean /\ NodesInv
<1>1. Init => Inv
  BY InitType, InitIdle, InitAbsent, InitNodes
<1>2. Inv /\ [Next]_vars => Inv'
  BY NextType, NextIdle, NextAbsent, NextNodes
<1>3. Inv => NodesAsReported
  BY DEF NodesInv, NodesTold, NodesDue, NodesAsReported
<1> QED
  BY <1>1, <1>2, <1>3, PTL DEF Spec

-----------------------------------------------------------------------------
(***************************************************************************)
(* Rules are as reported.  While the rules of a run are due, either its    *)
(* import still holds it or the row names the error, and every node retry  *)
(* that got past its read has seen that error.                             *)
(***************************************************************************)
RulesDue(r) == Live(r) /\ asked[r] /\ ~ruled[r]
RulesOf(q, r) ==
    /\ req[q].op = "import" =>
         /\ req[q].wantsRules = asked[r] /\ req[q].pc \in ImportSteps
         /\ req[q].pc = "finish" /\ asked[r] => req[q].rulesFailed \/ ruled[r]
    /\ req[q].op = "ruleRetry" /\ req[q].pc = "finish" => ruled[r]
    /\ req[q].op = "nodeRetry" /\ req[q].pc # "read" /\ RulesDue(r) => req[q].seenStructured
RulesTold(r) ==
    /\ \A q \in Requests : On(q, r) => RulesOf(q, r)
    /\ RulesDue(r) =>
         /\ status[r] # "success"
         /\ \/ structuredError[r]
            \/ status[r] = "running" /\ \E q \in Requests : On(q, r) /\ req[q].op = "import"
RulesInv == \A r \in Runs : RulesTold(r)

LEMMA InitRules == Init => RulesInv
BY ConstantsAssumption, IdleFields DEF Init, RulesInv, RulesTold, RulesDue, Live, On

LEMMA StepRulesOf ==
  ASSUME Faults = FALSE, TypeInv, NEW q \in Requests, Step(q), NEW r \in Runs, On(q, r),
         RulesTold(r)
  PROVE  On(q, r)' => RulesOf(q, r)'
<1> SUFFICES ASSUME On(q, r)' PROVE RulesOf(q, r)'
  OBVIOUS
<1> RequestTypes /\ DataTypes
  BY TypeParts
<1> req[q] \in Request /\ RulesOf(q, r)
  BY StepIsKnown DEF RulesTold
<1> Nobody # r
  BY ConstantsAssumption
<1>0. req'[q].op = req[q].op
  BY StepKeepsItsRun, IdleFields DEF On
<1>1. RulesDue(r)' => RulesDue(r)
  BY DEF DataTypes, RulesDue, Live, On, Step, StoreContent, ApplyNodes,
      ApplyNoNewNodes,
       ApplyNodesFails, PlanRules, WriteRules, RulesFail, FinishImport,
       FinishNodeRetry,
       FinishRuleRetry, FailRetry, FinishFails, ReadRun, ReadContent, Claim,
       ReadUndo, Lookup,
       ReadChanges, Undo, dataVars, history
<1>2. asked' = asked /\ (ruled[r] => ruled'[r])
  BY DEF DataTypes, On, Step, StoreContent, ApplyNodes, ApplyNoNewNodes,
       ApplyNodesFails, PlanRules, WriteRules, RulesFail, FinishImport,
       FinishNodeRetry,
       FinishRuleRetry, FailRetry, FinishFails, ReadRun, ReadContent, Claim,
       ReadUndo, Lookup,
       ReadChanges, Undo, history
<1>3. CASE FinishFails(q) \/ ReadContent(q) \/ ReadUndo(q) \/ Lookup(q) \/ Claim(q)
  BY <1>0, <1>1, <1>2, <1>3, IdleFields
  DEF RequestTypes, Request, FinishFails, ReadContent, ReadUndo,
              Lookup, Claim, GoTo, Done, At, RulesOf, ImportSteps
<1>4. CASE StoreContent(q)
  BY <1>0, <1>1, <1>2, <1>4 DEF StoreContent, RequestTypes, Request, GoTo, At,
      RulesOf, ImportSteps
<1>5. CASE ApplyNodes(q) \/ ApplyNoNewNodes(q) \/ ApplyNodesFails(q)
  BY <1>0, <1>1, <1>2, <1>5
  DEF ApplyNodes, ApplyNoNewNodes, ApplyNodesFails, AfterNodes, RequestTypes,
      Request, At, RulesOf, ImportSteps
<1>6. CASE PlanRules(q) \/ RulesFail(q) \/ ReadChanges(q)
  BY <1>0, <1>1, <1>2, <1>6
  DEF PlanRules, RulesFail, ReadChanges, RequestTypes, Request, At, RulesOf,
      ImportSteps
<1>7. CASE WriteRules(q)
  BY <1>0, <1>1, <1>2, <1>7
  DEF WriteRules, RequestTypes, DataTypes, Request, At, RulesOf, ImportSteps, On
<1>8. CASE ReadRun(q)
  <2>1. NodeRetryable(r) /\ RulesDue(r) => structuredError[r]
    BY DEF RulesTold, NodeRetryable
  <2>2. req[q].op # "import" /\ req'[q].pc = "content"
    BY <1>8, IdleFields DEF ReadRun, RequestTypes, Request, At, On, Done
  <2>3. req[q].op = "nodeRetry" => NodeRetryable(r) /\ req'[q].seenStructured = structuredError[r]
    BY <1>8, IdleFields DEF ReadRun, RequestTypes, Request, At, On, Done
  <2> QED
    BY <1>0, <1>1, <2>1, <2>2, <2>3 DEF RulesOf
<1>9. CASE FinishImport(q) \/ FinishNodeRetry(q) \/ FinishRuleRetry(q) \/ FailRetry(q)
           \/ Undo(q)
  BY <1>9, IdleFields DEF RequestTypes, FinishImport, FinishNodeRetry,
      FinishRuleRetry, FailRetry,
              Undo, Done, On
<1> QED
  BY <1>3, <1>4, <1>5, <1>6, <1>7, <1>8, <1>9 DEF Step

LEMMA StepRulesTold ==
  ASSUME Faults = FALSE, TypeInv, Ownership, NEW q \in Requests, Step(q), NEW r \in Runs, On(q, r),
         RulesTold(r)
  PROVE  RulesTold(r)'
<1> RequestTypes /\ DataTypes /\ RunTypes
  BY TypeParts
<1> req[q] \in Request /\ RulesOf(q, r)
  BY StepIsKnown DEF RulesTold
<1> Nobody # r
  BY ConstantsAssumption
<1>0. /\ Others(q)
      /\ req'[q] = Idle \/ (On(q, r)' /\ req'[q].op = req[q].op)
  BY StepKeepsItsRun, OneRequestMoves DEF On
<1>1. RulesDue(r)' => RulesDue(r) /\ ~WriteRules(q) /\ ~Undo(q)
  BY DEF DataTypes, RulesDue, Live, On, Step, StoreContent, ApplyNodes,
      ApplyNoNewNodes,
       ApplyNodesFails, PlanRules, WriteRules, RulesFail, FinishImport,
       FinishNodeRetry,
       FinishRuleRetry, FailRetry, FinishFails, ReadRun, ReadContent, Claim,
       ReadUndo, Lookup,
       ReadChanges, Undo, dataVars, history
<1>2. asked' = asked /\ (ruled[r] => ruled'[r])
  BY DEF DataTypes, On, Step, StoreContent, ApplyNodes, ApplyNoNewNodes,
       ApplyNodesFails, PlanRules, WriteRules, RulesFail, FinishImport,
       FinishNodeRetry,
       FinishRuleRetry, FailRetry, FinishFails, ReadRun, ReadContent, Claim,
       ReadUndo, Lookup,
       ReadChanges, Undo, history
<1>3. \A p \in Requests : On(p, r)' => RulesOf(p, r)'
  BY <1>0, <1>1, <1>2, StepRulesOf DEF RulesTold, RulesOf, Others, On
<1>4. ASSUME RulesDue(r)' PROVE status'[r] # "success"
  BY <1>1, <1>4
  DEF RulesTold, RulesOf, RunTypes, On, At, Step, StoreContent, ApplyNodes,
      ApplyNoNewNodes,
     ApplyNodesFails, PlanRules, RulesFail, FinishImport, FinishNodeRetry,
     FinishRuleRetry, FailRetry, FinishFails, ReadRun, ReadContent, Claim, ReadUndo,
     Lookup,
     ReadChanges, runVars, RulesDue
<1>5. ASSUME RulesDue(r)', structuredError[r] PROVE structuredError'[r]
  BY <1>1, <1>5
  DEF RulesTold, RulesOf, RunTypes, On, At, Step, StoreContent, ApplyNodes,
      ApplyNoNewNodes,
     ApplyNodesFails, PlanRules, RulesFail, FinishImport, FinishNodeRetry,
     FinishRuleRetry, FailRetry, FinishFails, ReadRun, ReadContent, Claim, ReadUndo,
     Lookup,
     ReadChanges, runVars, RulesDue
<1>6. ASSUME RulesDue(r)', NEW i \in Requests, On(i, r), req[i].op = "import", status[r] = "running"
      PROVE  structuredError'[r] \/ (status'[r] = "running" /\ On(i, r)' /\ req'[i].op = "import")
  <2>1. Works(i, r)
    BY <1>6 DEF RulesTold, RulesOf, Works, On, RetrySteps
  <2>2. CASE i = q
    <3>1. CASE FinishImport(q)
      BY <1>1, <1>6, <2>2, <3>1 DEF FinishImport, RulesOf, At, RunTypes, On, RulesDue
    <3>2. CASE ~FinishImport(q)
      <4>1. status' = status
        BY <1>1, <1>6, <2>2, <3>2
        DEF At, Step, StoreContent, ApplyNodes, ApplyNoNewNodes, ApplyNodesFails,
            PlanRules,
            RulesFail, FinishNodeRetry, FinishRuleRetry, FailRetry, FinishFails,
            ReadRun, ReadContent,
            Claim, ReadUndo, Lookup, ReadChanges, runVars
      <4>2. req'[q] # Idle
        <5> Idle.pc = "idle"
          BY IdleFields
        <5>1. \/ StoreContent(q) \/ ApplyNodes(q) \/ ApplyNodesFails(q)
              \/ PlanRules(q) \/ RulesFail(q)
          BY <1>1, <1>6, <2>2, <3>2
          DEF At, Step, ApplyNoNewNodes, FinishNodeRetry, FinishRuleRetry, FailRetry,
              FinishFails,
              ReadRun, ReadContent, Claim, ReadUndo, Lookup, ReadChanges
        <5>2. CASE StoreContent(q)
          BY <5>2 DEF StoreContent, GoTo, RequestTypes, Request
        <5>3. CASE ApplyNodes(q) \/ ApplyNodesFails(q)
          BY <1>6, <2>2, <5>3 DEF ApplyNodes, ApplyNodesFails, AfterNodes,
              RequestTypes, Request
        <5>4. CASE PlanRules(q) \/ RulesFail(q)
          BY <1>6, <2>2, <5>4 DEF PlanRules, RulesFail, RequestTypes, Request
        <5> QED
          BY <5>1, <5>2, <5>3, <5>4
      <4> QED
        BY <1>0, <1>6, <2>2, <4>1, <4>2
    <3> QED
      BY <3>1, <3>2
  <2>3. CASE i # q
    <3>1. ~Works(q, r)
      BY <2>1, <2>3 DEF Ownership, OneWorker
    <3>2. status'[r] = status[r]
      BY <1>1, <1>6, <3>1
      DEF RunTypes, Works, RetrySteps, ImportSteps, On, At, Step, StoreContent,
          ApplyNodes, ApplyNoNewNodes,
          ApplyNodesFails, PlanRules,
          RulesFail, FinishImport, FinishNodeRetry, FinishRuleRetry, FailRetry,
          FinishFails, ReadRun, ReadContent,
          Claim, Claimable, ReadUndo, Lookup, ReadChanges, runVars
    <3> QED
      BY <1>0, <1>6, <2>3, <3>2 DEF Others, On
  <2> QED
    BY <2>2, <2>3
<1> QED
  BY <1>1, <1>3, <1>4, <1>5, <1>6 DEF RulesTold

LEMMA RecoverRules ==
  ASSUME TypeInv, Ownership, NEW r \in Runs, RulesTold(r), RecoverStale, SameData(r)
  PROVE  /\ RulesDue(r)' = RulesDue(r)
         /\ RulesDue(r) =>
              /\ status'[r] # "success"
              /\ \/ structuredError'[r]
                 \/ status'[r] = "running" /\ \E q \in Requests : On(q, r) /\ req[q].op = "import"
<1>1. RulesDue(r)' = RulesDue(r)
  BY DEF SameData, RulesDue, Live
<1>2. ASSUME NEW q \in Requests, On(q, r), req[q].op = "import"
      PROVE  ~Stale(r)
  BY <1>2 DEF RulesTold, RulesOf, Ownership, HeldIsFresh, Held, Works, On, RetrySteps
<1> QED
  BY <1>1, <1>2, TypeParts DEF RulesTold, RecoverStale, RunTypes, Stale

LEMMA NextRules ==
  ASSUME Faults = FALSE, TypeInv, IdleIsEmpty, AbsentIsClean, Ownership, RulesInv, [Next]_vars
  PROVE  RulesInv'
<1> SUFFICES ASSUME NEW r \in Runs PROVE RulesTold(r)'
  BY DEF RulesInv
<1> RequestTypes /\ DataTypes /\ RunTypes /\ Absent(r) /\ Nobody # r
  BY TypeParts, ConstantsAssumption DEF AbsentIsClean
<1> RulesTold(r)
  BY DEF RulesInv
<1>1. CASE Untouched(r)
  BY <1>1 DEF Untouched, SameData, SameRow, SameRequests, RulesTold, RulesDue,
      RulesOf, Live, On
<1>2. CASE Recovered(r)
  BY <1>2, RecoverRules DEF Recovered, SameData, SameRequests, RulesTold, RulesOf, On
<1>3. CASE Age(r)
  BY <1>3 DEF Age, dataVars, history, RulesTold, RulesDue, RulesOf, Live, On
<1>4. ASSUME NEW q \in Requests, Step(q), On(q, r) PROVE RulesTold(r)'
  BY <1>4, StepRulesTold
<1>5. ASSUME NEW q \in Requests, Dropped(q, r) PROVE RulesTold(r)'
  BY <1>5 DEF Dropped
<1>6. ASSUME NEW q \in Requests, NEW w \in BOOLEAN, Import(q, r, w) PROVE RulesTold(r)'
  <2>1. \A p \in Requests : On(p, r)' => p = q
    BY <1>6, OneRequestMoves DEF Import, Arrive, Absent, Others, On
  <2>2. req'[q].op = "import" /\ req'[q].pc = "store" /\ req'[q].wantsRules = w /\ req'[q].run = r
    BY <1>6, IdleIsRequest DEF Import, RequestTypes, Request
  <2>3. asked'[r] = w /\ status'[r] = "running"
    BY <1>6 DEF Import, RunTypes, DataTypes
  <2> QED
    BY <2>1, <2>2, <2>3 DEF RulesTold, RulesOf, ImportSteps, On
<1>7. ASSUME NEW q \in Requests, NEW op \in {"nodeRetry", "ruleRetry", "undo"},
             Begin(q, r, op) PROVE RulesTold(r)'
  <2>1. req'[q].op = op /\ req'[q].pc = "read" /\ Others(q)
    BY <1>7, OneRequestMoves, IdleIsRequest DEF Begin, Arrive, RequestTypes, Request
  <2>2. req[q].run # r
    BY <1>7, IdleFields DEF Begin, IdleIsEmpty
  <2>3. RecoverStale /\ SameData(r)
    BY <1>7 DEF Begin, SameData, dataVars, history
  <2>4. \A p \in Requests : On(p, r)' => RulesOf(p, r)'
    BY <2>1, <2>2, <2>3, RecoverRules DEF RulesTold, RulesOf, SameData, Others, On
  <2> QED
    BY <2>1, <2>2, <2>3, <2>4, RecoverRules DEF RulesTold, Others, On
<1>8. ASSUME NEW q \in Requests, DeleteSource(q, r) PROVE RulesTold(r)'
  <2>1. req'[q].op = "undo" /\ req'[q].pc = "lookup" /\ Others(q)
    BY <1>8, OneRequestMoves, IdleIsRequest DEF DeleteSource, Arrive, RequestTypes,
        Request
  <2>2. req[q].run # r
    BY <1>8, IdleFields DEF DeleteSource, IdleIsEmpty
  <2> QED
    BY <1>8, <2>1, <2>2
    DEF DeleteSource, dataVars, runVars, history, RulesTold, RulesOf, RulesDue, Live,
        On, Others
<1> QED
  BY <1>1, <1>2, <1>3, <1>4, <1>5, <1>6, <1>7, <1>8, StepsOfARun

(* Without faults and slow requests a successful run that was asked for    *)
(* its rules carried them out, however retries and undos interleave.       *)
THEOREM RulesAsReportedHolds ==
  ASSUME Faults = FALSE, SlowRequests = FALSE PROVE Spec => []RulesAsReported
<1> DEFINE Inv == TypeInv /\ IdleIsEmpty /\ AbsentIsClean /\ Ownership /\ RulesInv
<1>1. Init => Inv
  BY InitType, InitIdle, InitAbsent, InitOwnership, InitRules
<1>2. Inv /\ [Next]_vars => Inv'
  BY NextType, NextIdle, NextAbsent, NextOwnership, NextRules
<1>3. Inv => RulesAsReported
  BY DEF RulesInv, RulesTold, RulesDue, RulesAsReported
<1> QED
  BY <1>1, <1>2, <1>3, PTL DEF Spec

-----------------------------------------------------------------------------
(***************************************************************************)
(* An undo restores.  The rule phase of a run succeeds at most once, so    *)
(* the changes of a run name each rule once; the change behind every rule  *)
(* a run set is in its row or in the plan of the request about to write    *)
(* the row; and an undo, alone on its run, reads the row.                  *)
(***************************************************************************)
(* The change that setting rule k by run r amounts to. *)
ChangeOf(k, r) == [rule |-> k, before |-> replaced[k], applied |-> Wants[r][k]]

OneEach(S, r) ==
    \A c, d \in S : c.applied = Wants[r][c.rule] /\ (c.rule = d.rule => c = d)
AtFinish(q, r) == On(q, r) /\ At(q, {"import", "ruleRetry"}, "finish")
PlanOf(q, r) ==
    /\ OneEach(req[q].plan, r)
    /\ req[q].pc \notin {"write", "finish", "delete"} => req[q].plan = {}
    /\ req[q].op = "import" /\ req[q].rulesFailed => req[q].pc = "finish" /\ req[q].plan = {}
    /\ req[q].op = "ruleRetry" /\ req[q].pc # "read" => req[q].seenChanges = {}
    /\ req[q].op = "ruleRetry" /\ req[q].pc \in RetrySteps => structuredError[r]
    /\ At(q, {"undo"}, "delete") => req[q].plan = structuredChanges[r]
RowOf(r) ==
    /\ status[r] = "undone" => source[r] = "gone"
    /\ structuredError[r] => structuredChanges[r] = {}
    /\ OneEach(structuredChanges[r], r)
Remembered(r) ==
    Live(r) => \A k \in Rules : credit[k] = r =>
        /\ target[k] = Wants[r][k]
        /\ \/ ChangeOf(k, r) \in structuredChanges[r]
           \/ \E q \in Requests : AtFinish(q, r) /\ ChangeOf(k, r) \in req[q].plan
Restorable(r) ==
    RowOf(r) /\ Remembered(r) /\ \A q \in Requests : On(q, r) => PlanOf(q, r)
RestoreInv == \A r \in Runs : Restorable(r)

LEMMA InitRestore == Init => RestoreInv
BY ConstantsAssumption, IdleFields
DEF Init, RestoreInv, Restorable, RowOf, Remembered, OneEach, Live, On

LEMMA StepPlanOf ==
  ASSUME Faults = FALSE, TypeInv, AbsentIsClean, UndoInv, ClaimInv, NEW q \in Requests, Step(q),
         NEW r \in Runs, On(q, r), Restorable(r)
  PROVE  On(q, r)' => PlanOf(q, r)'
<1> SUFFICES ASSUME On(q, r)' PROVE PlanOf(q, r)'
  OBVIOUS
<1> RequestTypes /\ DataTypes /\ RunTypes
  BY TypeParts
<1> req[q] \in Request /\ PlanOf(q, r) /\ RowOf(r)
  BY StepIsKnown DEF Restorable
<1> Nobody # r
  BY ConstantsAssumption
<1>0. req'[q].op = req[q].op
  BY StepKeepsItsRun, IdleFields DEF On
<1>1. CASE StoreContent(q) \/ ReadUndo(q) \/ Lookup(q) \/ ReadContent(q)
  BY <1>0, <1>1, IdleFields
  DEF StoreContent, ReadUndo, Lookup, ReadContent, RequestTypes, Request, GoTo, Done,
      At, On, PlanOf,
      runVars, RetrySteps, ImportSteps
<1>2. CASE Claim(q)
  BY <1>0, <1>2, IdleFields
  DEF Claim, Claimable, RequestTypes, Request, GoTo, Done, At, On, PlanOf,
      RetrySteps, ImportSteps
<1>3. CASE ApplyNodes(q) \/ ApplyNoNewNodes(q) \/ ApplyNodesFails(q)
  BY <1>0, <1>3
  DEF ApplyNodes, ApplyNoNewNodes, ApplyNodesFails, AfterNodes, RequestTypes,
      Request, At, PlanOf,
      OneEach, runVars
<1>4. CASE PlanRules(q)
  <2>1. PICK resolved \in SUBSET {k \in Rules : target[k] # Wants[req[q].run][k]} :
          req' = [req EXCEPT
              ![q].plan = {[rule |-> k, before |-> target[k], applied |-> Wants[req[q].run][k]] :
                               k \in resolved},
              ![q].pc = "write"]
    BY <1>4 DEF PlanRules
  <2> DEFINE plan == {[rule |-> k, before |-> target[k], applied |-> Wants[req[q].run][k]] :
                          k \in resolved}
  <2>2. OneEach(plan, r)
    BY DEF OneEach, On
  <2> HIDE DEF plan
  <2>3. req'[q].plan = plan /\ req'[q].pc = "write"
        /\ req'[q].rulesFailed = req[q].rulesFailed /\ req'[q].seenChanges = req[q].seenChanges
    <3> SUFFICES req' = [req EXCEPT ![q].plan = plan, ![q].pc = "write"]
      BY DEF RequestTypes, Request
    <3> QED
      BY <2>1 DEF plan
  <2> QED
    BY <1>0, <1>4, <2>2, <2>3 DEF PlanRules, PlanOf, At, OneEach, runVars,
        RetrySteps, ImportSteps
<1>5. CASE WriteRules(q)
  BY <1>0, <1>5
  DEF WriteRules, Applicable, RequestTypes, Request, At, PlanOf, OneEach, runVars,
      RetrySteps
<1>6. CASE RulesFail(q)
  BY <1>0, <1>6
  DEF RulesFail, RequestTypes, Request, At, PlanOf, OneEach, runVars, RetrySteps
<1>7. CASE ReadChanges(q)
  <2>1. Live(r) /\ status[r] # "undone"
    BY <1>7 DEF ReadChanges, At, AbsentIsClean, Absent, UndoInv, GoneIsRead,
        DataTypes, Live, RowOf
  <2>2. req'[q].plan = structuredChanges[r] /\ req'[q].pc = "delete" /\ req[q].op = "undo"
    BY <1>7, <2>1 DEF ReadChanges, At, RequestTypes, Request, Live, On
  <2> QED
    BY <1>0, <1>7, <2>2 DEF ReadChanges, PlanOf, RowOf, At, runVars, RetrySteps,
        ImportSteps
<1>8. CASE ReadRun(q)
  <2>1. /\ req[q].op = "ruleRetry" => RuleRetryable(r)
        /\ req[q].op \in {"nodeRetry", "ruleRetry"} /\ req[q].pc = "read"
        /\ req'[q].plan = req[q].plan /\ req'[q].pc = "content"
        /\ req'[q].seenChanges = structuredChanges[r]
    BY <1>8, IdleFields DEF ReadRun, RequestTypes, Request, At, On, Done
  <2> QED
    BY <1>0, <1>8, <2>1 DEF RuleRetryable, PlanOf, RowOf, At, OneEach, runVars,
        RetrySteps, ImportSteps
<1>9. CASE FinishImport(q) \/ FinishNodeRetry(q) \/ FinishRuleRetry(q) \/ FailRetry(q)
           \/ Undo(q)
  BY <1>9, IdleFields DEF RequestTypes, FinishImport, FinishNodeRetry,
      FinishRuleRetry, FailRetry,
              Undo, Done, On
<1> QED
  BY <1>1, <1>2, <1>3, <1>4, <1>5, <1>6, <1>7, <1>8, <1>9 DEF Step, FinishFails

LEMMA StepRowOf ==
  ASSUME Faults = FALSE, TypeInv, AbsentIsClean, ClaimInv, NEW q \in Requests, Step(q),
         NEW r \in Runs, On(q, r), Restorable(r)
  PROVE  RowOf(r)'
<1> RequestTypes /\ DataTypes /\ RunTypes
  BY TypeParts
<1> req[q] \in Request /\ PlanOf(q, r) /\ RowOf(r)
  BY StepIsKnown DEF Restorable
<1>1. status'[r] = "undone" => source'[r] = "gone"
  BY DEF RowOf, RunTypes, DataTypes, On, Step, StoreContent, ApplyNodes,
      ApplyNoNewNodes,
       ApplyNodesFails, PlanRules, WriteRules, RulesFail, FinishImport,
       FinishNodeRetry,
       FinishRuleRetry, FailRetry, FinishFails, ReadRun, ReadContent, Claim,
       ReadUndo, Lookup,
       ReadChanges, Undo, dataVars, history, runVars
<1>2. CASE FinishImport(q)
  <2>1. structuredError'[r] = req[q].rulesFailed /\ structuredChanges'[r] = req[q].plan
        /\ req[q].op = "import"
    BY <1>2 DEF FinishImport, RunTypes, On, At
  <2> QED
    BY <1>1, <2>1 DEF RowOf, PlanOf, OneEach
<1>3. CASE FinishRuleRetry(q)
  <2>1. CASE StillRunning(r)
    <3>1. structuredError'[r] = FALSE
          /\ structuredChanges'[r] = req[q].seenChanges \cup req[q].plan
          /\ At(q, {"ruleRetry"}, "finish")
      BY <1>3, <2>1 DEF FinishRuleRetry, RunTypes, On
    <3>2. req[q].seenChanges = {}
      BY <3>1 DEF At, PlanOf
    <3>3. structuredChanges'[r] = req[q].plan
      BY <3>1, <3>2
    <3> QED
      BY <1>1, <3>1, <3>3 DEF RowOf, PlanOf, OneEach
  <2>2. CASE ~StillRunning(r)
    BY <1>1, <1>3, <2>2 DEF FinishRuleRetry, RowOf, OneEach, On
  <2> QED
    BY <2>1, <2>2
<1>4. CASE FailRetry(q)
  <2>1. structuredError'[r] => structuredError[r]
    BY <1>4 DEF FailRetry, At, PlanOf, RunTypes, RetrySteps, On
  <2> QED
    BY <1>1, <1>4, <2>1 DEF FailRetry, RowOf, OneEach
<1>5. CASE UNCHANGED <<structuredError, structuredChanges>>
  BY <1>1, <1>5 DEF RowOf, OneEach
<1> QED
  BY <1>2, <1>3, <1>4, <1>5
  DEF Step, StoreContent, ApplyNodes, ApplyNoNewNodes,
       ApplyNodesFails, PlanRules, WriteRules, RulesFail, FinishNodeRetry,
       FinishFails, ReadRun, ReadContent, Claim, ReadUndo, Lookup,
       ReadChanges, Undo, runVars

LEMMA StepOthersPlans ==
  ASSUME Faults = FALSE, TypeInv, Ownership, UndoInv, NEW q \in Requests, Step(q),
         NEW r \in Runs, On(q, r), Restorable(r), NEW p \in Requests, p # q, On(p, r)'
  PROVE  PlanOf(p, r)'
<1> RequestTypes /\ DataTypes /\ RunTypes
  BY TypeParts
<1>1. req'[p] = req[p] /\ On(p, r) /\ PlanOf(p, r)
  BY OneRequestMoves DEF Others, On, Restorable
<1>2. ASSUME At(p, {"undo"}, "delete") PROVE FALSE
  BY <1>1, <1>2 DEF UndoInv, UndoAlone, At
<1>3. ASSUME req[p].op = "ruleRetry", req[p].pc \in RetrySteps, structuredError[r]
      PROVE  structuredError'[r]
  <2>1. ~Works(q, r)
    BY <1>1, <1>3 DEF Ownership, OneWorker, Works, On
  <2> QED
    BY <1>3, <2>1
    DEF RunTypes, Works, RetrySteps, ImportSteps, On, At, Step, StoreContent,
        ApplyNodes,
       ApplyNoNewNodes,
       ApplyNodesFails, PlanRules, WriteRules, RulesFail, FinishImport,
       FinishNodeRetry,
       FinishRuleRetry, FailRetry, FinishFails, ReadRun, ReadContent, Claim,
       ReadUndo, Lookup,
       ReadChanges, Undo, runVars
<1> QED
  BY <1>1, <1>2, <1>3 DEF PlanOf, At

(* The rule phase of a run succeeds once: when it writes, no rule has its  *)
(* group from this run yet.                                                *)
LEMMA FirstWrite ==
  ASSUME TypeInv, Ownership, ClaimInv, NEW q \in Requests, WriteRules(q),
         NEW r \in Runs, On(q, r), Restorable(r), Live(r), NEW k \in Rules
  PROVE  credit[k] # r
<1>1. Works(q, r)
  BY DEF WriteRules, At, Works, On, RetrySteps, ImportSteps
<1>2. structuredChanges[r] = {}
  <2>1. CASE req[q].op = "import"
    BY <2>1 DEF ClaimInv, ImportFirst, Overtaken
  <2>2. CASE req[q].op = "ruleRetry"
    BY <1>1, <2>2 DEF Restorable, PlanOf, RowOf, Works
  <2> QED
    BY <2>1, <2>2 DEF WriteRules, At
<1>3. ASSUME NEW p \in Requests, AtFinish(p, r) PROVE FALSE
  <2>1. Works(p, r)
    BY <1>3 DEF AtFinish, At, Works, On, RetrySteps, ImportSteps
  <2>2. p = q
    BY <1>1, <2>1 DEF Ownership, OneWorker
  <2> QED
    BY <1>3, <2>2 DEF WriteRules, At, AtFinish
<1> QED
  BY <1>2, <1>3 DEF Restorable, Remembered

LEMMA StepRemembered ==
  ASSUME Faults = FALSE, TypeInv, Ownership, ClaimInv, NEW q \in Requests, Step(q),
         NEW r \in Runs, On(q, r), Restorable(r)
  PROVE  Remembered(r)'
<1> RequestTypes /\ DataTypes /\ RunTypes
  BY TypeParts
<1> req[q] \in Request /\ PlanOf(q, r) /\ RowOf(r) /\ Others(q)
  BY StepIsKnown, OneRequestMoves DEF Restorable
<1> SUFFICES ASSUME Live(r)', NEW k \in Rules, credit'[k] = r
             PROVE  /\ target'[k] = Wants[r][k]
                    /\ \/ ChangeOf(k, r)' \in structuredChanges'[r]
                       \/ \E p \in Requests : AtFinish(p, r)' /\ ChangeOf(k, r)' \in req'[p].plan
  BY DEF Remembered
<1>1. Live(r) /\ ~Undo(q)
  BY DEF Live, DataTypes, On, Step, StoreContent, ApplyNodes, ApplyNoNewNodes,
       ApplyNodesFails, PlanRules, WriteRules, RulesFail, FinishImport,
       FinishNodeRetry,
       FinishRuleRetry, FailRetry, FinishFails, ReadRun, ReadContent, Claim,
       ReadUndo, Lookup,
       ReadChanges, Undo, dataVars
<1>2. CASE WriteRules(q)
  <2> DEFINE applied == Applicable(req[q].plan)
  <2>1. PICK c \in applied : c.rule = k
    <3>1. credit[k] # r
      BY <1>1, <1>2, FirstWrite
    <3> QED
      BY <1>2, <3>1 DEF WriteRules, DataTypes
  <2>2. target'[k] = Wants[r][k] /\ replaced'[k] = target[k]
    BY <1>2, <2>1 DEF WriteRules, DataTypes, On
  <2>3. c \in Change /\ c \in req[q].plan /\ c.before = target[k]
    BY <2>1 DEF Applicable, Request
  <2>4. c.applied = Wants[r][k]
    BY <2>1, <2>3 DEF PlanOf, OneEach
  <2>5. ChangeOf(k, r)' = c
    BY <2>1, <2>2, <2>3, <2>4 DEF ChangeOf, Change
  <2>6. req'[q].plan = applied /\ AtFinish(q, r)'
    BY <1>2 DEF WriteRules, RequestTypes, Request, AtFinish, At, On
  <2> QED
    BY <2>1, <2>2, <2>5, <2>6
<1>3. CASE UNCHANGED <<target, credit, replaced>>
  <2>1. /\ target[k] = Wants[r][k] /\ ChangeOf(k, r)' = ChangeOf(k, r)
        /\ \/ ChangeOf(k, r) \in structuredChanges[r]
           \/ \E p \in Requests : AtFinish(p, r) /\ ChangeOf(k, r) \in req[p].plan
    BY <1>1, <1>3 DEF Restorable, Remembered, ChangeOf
  <2>2. CASE AtFinish(q, r)
    <3>1. \/ ChangeOf(k, r) \in structuredChanges[r]
          \/ ChangeOf(k, r) \in req[q].plan
      <4>1. \A p \in Requests : AtFinish(p, r) => p = q
        BY <2>2 DEF AtFinish, At, Works, On, RetrySteps, ImportSteps, Ownership,
            OneWorker
      <4> QED
        BY <2>1, <4>1
    <3>2. structuredChanges[r] = {}
      <4>1. CASE req[q].op = "import"
        BY <4>1 DEF ClaimInv, ImportFirst, Overtaken
      <4>2. CASE req[q].op = "ruleRetry"
        BY <2>2, <4>2 DEF Restorable, PlanOf, RowOf, AtFinish, At, RetrySteps,
            ImportSteps
      <4> QED
        BY <2>2, <4>1, <4>2 DEF AtFinish, At
    <3>3. CASE FinishImport(q)
      BY <1>3, <2>1, <3>1, <3>2, <3>3 DEF FinishImport, RunTypes, On
    <3>4. CASE FinishRuleRetry(q)
      <4>1. StillRunning(r)
        BY <1>1, <2>2 DEF Ownership, WorkIsVisible, Works, AtFinish, At, On,
            RetrySteps,
           ImportSteps, RowOf, StillRunning, Live
      <4>2. structuredChanges'[r] = req[q].seenChanges \cup req[q].plan
        BY <3>4, <4>1 DEF FinishRuleRetry, RunTypes, On
      <4> QED
        BY <1>3, <2>1, <3>1, <3>2, <4>2
    <3> QED
      BY <2>2, <3>3, <3>4
      DEF AtFinish, At, Step, StoreContent, ApplyNodes, ApplyNoNewNodes,
       ApplyNodesFails, PlanRules, WriteRules, RulesFail, FinishImport,
       FinishNodeRetry,
       FinishRuleRetry, FailRetry, FinishFails, ReadRun, ReadContent, Claim,
       ReadUndo, Lookup,
       ReadChanges, Undo
  <2>3. CASE ~AtFinish(q, r)
    <3>1. structuredChanges' = structuredChanges
      BY <2>3
      DEF AtFinish, At, Step, StoreContent, ApplyNodes, ApplyNoNewNodes,
       ApplyNodesFails, PlanRules, WriteRules, RulesFail, FinishImport,
       FinishNodeRetry,
       FinishRuleRetry, FailRetry, FinishFails, ReadRun, ReadContent, Claim,
       ReadUndo, Lookup,
       ReadChanges, Undo, runVars
    <3>2. \A p \in Requests : AtFinish(p, r) => AtFinish(p, r)' /\ req'[p].plan = req[p].plan
      BY <2>3 DEF AtFinish, At, On, Others
    <3> QED
      BY <1>3, <2>1, <3>1, <3>2
  <2> QED
    BY <2>2, <2>3
<1> QED
  BY <1>1, <1>2, <1>3
  DEF Step, StoreContent, ApplyNodes, ApplyNoNewNodes,
       ApplyNodesFails, PlanRules, RulesFail, FinishImport, FinishNodeRetry,
       FinishRuleRetry, FailRetry, FinishFails, ReadRun, ReadContent, Claim,
       ReadUndo, Lookup,
       ReadChanges, dataVars, history

(* What does not touch the rows of a run and at most starts a request.     *)
LEMMA StaysRestorable ==
  ASSUME NEW r \in Runs, Restorable(r), SameRules(r),
         source'[r] = source[r], structuredError'[r] = structuredError[r],
         structuredChanges'[r] = structuredChanges[r],
         status'[r] = "undone" => status[r] = "undone",
         \A p \in Requests : On(p, r) => req'[p] = req[p],
         \A p \in Requests : On(p, r)' =>
             \/ req'[p] = req[p]
             \/ /\ req'[p].op \in {"nodeRetry", "ruleRetry", "undo"}
                /\ req'[p].pc \in {"read", "lookup"} /\ req'[p].plan = {}
                /\ req'[p].op = "ruleRetry" => req'[p].pc = "read"
  PROVE  Restorable(r)'
<1>1. RowOf(r)'
  BY DEF Restorable, RowOf, OneEach
<1>2. ASSUME NEW p \in Requests, On(p, r)' PROVE PlanOf(p, r)'
  <2>1. CASE req'[p] = req[p]
    BY <1>2, <2>1 DEF Restorable, PlanOf, OneEach, At, On
  <2>2. CASE req'[p] # req[p]
    BY <1>2, <2>2 DEF PlanOf, OneEach, At, RetrySteps, ImportSteps
  <2> QED
    BY <2>1, <2>2
<1>3. ASSUME Live(r)', NEW k \in Rules, credit'[k] = r
      PROVE  /\ target'[k] = Wants[r][k]
             /\ \/ ChangeOf(k, r)' \in structuredChanges'[r]
                \/ \E q \in Requests : AtFinish(q, r)' /\ ChangeOf(k, r)' \in req'[q].plan
  <2>1. Live(r) /\ credit[k] = r /\ target'[k] = target[k] /\ ChangeOf(k, r)' = ChangeOf(k, r)
    BY <1>3 DEF SameRules, Live, ChangeOf
  <2>2. \A p \in Requests : AtFinish(p, r) => AtFinish(p, r)' /\ req'[p].plan = req[p].plan
    BY DEF AtFinish, At, On
  <2> QED
    BY <2>1, <2>2 DEF Restorable, Remembered
<1> QED
  BY <1>1, <1>2, <1>3 DEF Restorable, Remembered

LEMMA NextRestore ==
  ASSUME Faults = FALSE, TypeInv, IdleIsEmpty, AbsentIsClean, Ownership, UndoInv, ClaimInv,
         RestoreInv, [Next]_vars
  PROVE  RestoreInv'
<1> SUFFICES ASSUME NEW r \in Runs PROVE Restorable(r)'
  BY DEF RestoreInv
<1> RequestTypes /\ DataTypes /\ RunTypes /\ Absent(r) /\ Nobody # r
  BY TypeParts, ConstantsAssumption DEF AbsentIsClean
<1> Restorable(r)
  BY DEF RestoreInv
<1>1. CASE Untouched(r)
  BY <1>1, StaysRestorable DEF Untouched, SameRow, SameData, SameRequests
<1>2. CASE Recovered(r)
  BY <1>2, StaysRestorable
  DEF Recovered, RecoverStale, Stale, SameData, SameRequests
<1>3. CASE Age(r)
  BY <1>3, StaysRestorable DEF Age, dataVars, history, SameRules, On
<1>4. ASSUME NEW q \in Requests, Step(q), On(q, r) PROVE Restorable(r)'
  BY <1>4, StepRowOf, StepPlanOf, StepOthersPlans, StepRemembered DEF Restorable
<1>5. ASSUME NEW q \in Requests, Dropped(q, r) PROVE Restorable(r)'
  BY <1>5 DEF Dropped
<1>6. ASSUME NEW q \in Requests, NEW w \in BOOLEAN, Import(q, r, w) PROVE Restorable(r)'
  <2>1. \A p \in Requests : On(p, r)' => p = q
    BY <1>6, OneRequestMoves DEF Import, Arrive, Absent, Others, On
  <2>2. /\ req'[q].op = "import" /\ req'[q].pc = "store" /\ req'[q].plan = {}
        /\ req'[q].rulesFailed = FALSE
    <3> Idle.plan = {} /\ Idle.rulesFailed = FALSE
      BY DEF Idle
    <3> QED
      BY <1>6, IdleIsRequest DEF Import, RequestTypes, Request
  <2>3. PlanOf(q, r)'
    BY <2>2 DEF PlanOf, OneEach, At
  <2>4. RowOf(r)'
    BY <1>6 DEF Import, Absent, RowOf, OneEach, RunTypes
  <2>5. Remembered(r)'
    BY <1>6 DEF Import, Absent, Remembered
  <2> QED
    BY <2>1, <2>3, <2>4, <2>5 DEF Restorable
<1>7. ASSUME NEW q \in Requests, NEW op \in {"nodeRetry", "ruleRetry", "undo"},
             Begin(q, r, op) PROVE Restorable(r)'
  <2>1. req'[q].op = op /\ req'[q].pc = "read" /\ req'[q].plan = {} /\ Others(q)
    <3> Idle.plan = {}
      BY DEF Idle
    <3> QED
      BY <1>7, OneRequestMoves, IdleIsRequest DEF Begin, Arrive, RequestTypes, Request
  <2>2. ~On(q, r)
    BY <1>7, IdleFields DEF Begin, IdleIsEmpty, On
  <2>3. /\ \A p \in Requests : On(p, r) => req'[p] = req[p]
        /\ \A p \in Requests : On(p, r)' => req'[p] = req[p] \/ p = q
    BY <2>1, <2>2 DEF Others
  <2>4. SameRules(r) /\ source'[r] = source[r]
    BY <1>7 DEF Begin, dataVars, history, SameRules
  <2>5. /\ structuredError'[r] = structuredError[r] /\ structuredChanges'[r] = structuredChanges[r]
        /\ status'[r] = "undone" => status[r] = "undone"
    BY <1>7 DEF Begin, RecoverStale, Stale
  <2> QED
    BY <2>1, <2>3, <2>4, <2>5, StaysRestorable
<1>8. ASSUME NEW q \in Requests, DeleteSource(q, r) PROVE Restorable(r)'
  <2>1. req'[q].op = "undo" /\ req'[q].pc = "lookup" /\ req'[q].plan = {} /\ Others(q)
    <3> Idle.plan = {}
      BY DEF Idle
    <3> QED
      BY <1>8, OneRequestMoves, IdleIsRequest DEF DeleteSource, Arrive, RequestTypes,
          Request
  <2>2. ~On(q, r)
    BY <1>8, IdleFields DEF DeleteSource, IdleIsEmpty, On
  <2>3. /\ \A p \in Requests : On(p, r) => req'[p] = req[p]
        /\ \A p \in Requests : On(p, r)' => req'[p] = req[p] \/ p = q
    BY <2>1, <2>2 DEF Others
  <2>4. SameRules(r) /\ UNCHANGED runVars /\ source' = source
    BY <1>8 DEF DeleteSource, dataVars, history, SameRules
  <2> QED
    BY <2>1, <2>3, <2>4, StaysRestorable DEF runVars
<1> QED
  BY <1>1, <1>2, <1>3, <1>4, <1>5, <1>6, <1>7, <1>8, StepsOfARun

LEMMA UndoIsRestoring ==
  ASSUME Faults = FALSE, TypeInv, IdleIsEmpty, AbsentIsClean, UndoInv, RestoreInv, [Next]_vars,
         NEW r \in Runs, NEW k \in Rules, Live(r), source'[r] = "gone", credit[k] = r
  PROVE  target'[k] = replaced[k]
<1> RequestTypes /\ DataTypes /\ RunTypes
  BY TypeParts
<1>1. PICK q \in Requests : Undo(q) /\ On(q, r)
  BY StepsOfARun
  DEF Live, DataTypes, Untouched, Recovered, Age, Dropped, SameData, dataVars,
      Step, StoreContent, ApplyNodes, ApplyNoNewNodes, ApplyNodesFails,
      PlanRules, WriteRules, RulesFail, FinishImport, FinishNodeRetry,
      FinishRuleRetry,
      FailRetry, FinishFails, ReadRun, ReadContent, Claim, ReadUndo, Lookup,
      ReadChanges,
      Import, Begin, DeleteSource
<1>2. req[q].plan = structuredChanges[r] /\ OneEach(req[q].plan, r)
  BY <1>1 DEF Undo, At, RestoreInv, Restorable, PlanOf
<1>3. ChangeOf(k, r) \in req[q].plan /\ target[k] = Wants[r][k]
  <2>1. \A p \in Requests : ~AtFinish(p, r)
    BY <1>1 DEF AtFinish, Undo, At, UndoInv, UndoAlone
  <2> QED
    BY <1>2, <2>1 DEF RestoreInv, Restorable, Remembered
<1> DEFINE restored == {c \in req[q].plan : target[c.rule] = c.applied}
           chosen == CHOOSE c \in restored : c.rule = k
<1>4. ChangeOf(k, r) \in restored /\ ChangeOf(k, r).rule = k
  BY <1>3 DEF ChangeOf
<1>5. chosen \in restored /\ chosen.rule = k
  BY <1>4
<1>6. target'[k] = chosen.before
  BY <1>1, <1>4 DEF Undo
<1> HIDE DEF chosen
<1>7. chosen = ChangeOf(k, r)
  BY <1>2, <1>4, <1>5 DEF OneEach
<1> QED
  BY <1>6, <1>7 DEF ChangeOf

(* Without faults and slow requests, an undo that is alone on its run      *)
(* gives every rule whose group the run set, and nobody changed since, the *)
(* group it had before, whatever other runs and the operator do meanwhile. *)
THEOREM UndoRestoresHolds ==
  ASSUME Faults = FALSE, SlowRequests = FALSE, UndoAnytime = FALSE PROVE Spec => UndoRestores
<1> DEFINE Inv == /\ TypeInv /\ IdleIsEmpty /\ AbsentIsClean /\ Ownership
                  /\ UndoInv /\ ClaimInv /\ RestoreInv
           Restoring == \A r \in Runs : \A k \in Rules :
               Live(r) /\ source'[r] = "gone" /\ credit[k] = r => target'[k] = replaced[k]
<1>1. Init => Inv
  BY InitType, InitIdle, InitAbsent, InitOwnership, InitUndo, InitClaim, InitRestore
<1>2. Inv /\ [Next]_vars => Inv'
  BY NextType, NextIdle, NextAbsent, NextOwnership, NextUndo, NextClaim, NextRestore
<1>3. Inv /\ [Next]_vars => [Restoring]_vars
  BY UndoIsRestoring
<1> QED
  BY <1>1, <1>2, <1>3, PTL DEF Spec, UndoRestores

-----------------------------------------------------------------------------
(***************************************************************************)
(* ImportPlan.  The rows are records of which two never share an id within *)
(* a table; a row carries the mark of the import if and only if its id is  *)
(* one of those the import gave out.                                       *)
(***************************************************************************)
AnyEntry(row) ==
    /\ row = [id |-> row.id, kind |-> row.kind, base |-> row.base, target |-> row.target, detail |-> row.detail,
              managed |-> row.managed, marked |-> row.marked]
    /\ row.id \in Int
    /\ \/ row.marked = TRUE /\ row.id < 0
       \/ row.marked = FALSE /\ row.id > 0
OwnEntry(row) == AnyEntry(row) /\ row.marked = FALSE

EntriesFit ==
    /\ \A row \in entries : AnyEntry(row) /\ row.target \in DOMAIN policies
    /\ \A row, other \in entries : Key(row) = Key(other) => row = other
ImportFits ==
    /\ planned = [at |-> planned.at, offered |-> planned.offered, resolutions |-> planned.resolutions,
                  plan |-> planned.plan, nodes |-> planned.nodes, conflicts |-> planned.conflicts,
                  changes |-> planned.changes]
    /\ baseline = [rows |-> baseline.rows, groups |-> baseline.groups, edited |-> baseline.edited,
                   alone |-> baseline.alone]
    /\ planned.at \in {"idle", "shown", "write", "failed", "done", "undone"}
    /\ planned.resolutions \subseteq planned.offered /\ planEdits \in 0..MaxPlanEdits
    /\ planned.at \in {"idle", "shown", "write", "failed"} =>
         planned.changes = {} /\ \A row \in entries : row.marked = FALSE
    /\ planned.at \in {"idle", "shown"} => planned.resolutions = {}
    /\ planned.at = "write" => \A e \in baseline.edited : e.key[2] \in Int /\ e.key[2] > 0

(* What an import changed: at most one thing about a row, of the operator. *)
ChangesFit(changes) ==
    /\ \A change \in changes : /\ OwnEntry(change.before) /\ OwnEntry(change.after)
                               /\ Key(change.before) = Key(change.after)
    /\ \A change, other \in changes : Key(change.before) = Key(other.before) => change = other

RowsOf(rows, key) == {row \in rows : Key(row) = key}

(* Until the import is undone: what the operator edited is as he left it,  *)
(* and every other row of the plan as it was, but for the import's change. *)
EditsFollowed ==
    \A e \in baseline.edited :
        /\ \A row \in e.left : Key(row) = e.key /\ AnyEntry(row)
        /\ \A row, other \in e.left : row = other
        /\ \/ RowsOf(entries, e.key) = e.left
           \/ \E change \in planned.changes : e.left = {change.before} /\ RowsOf(entries, e.key) = {change.after}
RowsFollowed ==
    \A row \in baseline.rows :
        /\ OwnEntry(row)
        /\ \/ row \in entries /\ \A change \in planned.changes : Key(change.before) # Key(row)
           \/ \E e \in baseline.edited : e.key = Key(row)
           \/ \E change \in planned.changes : change.before = row /\ change.after \in entries
Followed == planned.at \in {"write", "failed", "done"} => EditsFollowed /\ RowsFollowed

(* The plan is that of the rows and groups it was computed from.           *)
FileFits == IsListed(file.lines) /\ IsListed(file.providers) /\ IsListed(file.nodes)
PlanFits ==
    planned.at \in {"write", "done"} =>
        /\ planned.plan = MakePlan(PlanItems(baseline.groups, baseline.rows, Candidates(file)), planned.resolutions)
        /\ planned.nodes = NewNodes(file.nodes, oldNodes)

PlanInv ==
    /\ EntriesFit /\ ImportFits /\ ChangesFit(planned.changes) /\ Followed /\ FileFits /\ PlanFits
    /\ UndoLeavesNoTrace

(* What the import would take back of a row.                               *)
TakenBackOf(row, changes) ==
    LET undone == {change \in changes : change.after = row /\ change.before.target \in DOMAIN policies}
    IN IF undone = {} THEN row ELSE (CHOOSE change \in undone : TRUE).before

(* What is taken back, row by row.                                         *)
LEMMA TakenBackRows ==
  ASSUME NEW rows, NEW changes
  PROVE  TakenBack(rows, changes) = {TakenBackOf(row, changes) : row \in rows}
BY DEF TakenBack, TakenBackOf

(* A row goes back to what one change of the import found, or stays.       *)
LEMMA TakenBackIs ==
  ASSUME NEW row, NEW changes, ChangesFit(changes), AnyEntry(row), row.target \in DOMAIN policies
  PROVE  /\ \/ /\ TakenBackOf(row, changes) = row
               /\ \A change \in changes : change.after = row => change.before.target \notin DOMAIN policies
            \/ \E change \in changes : /\ change.after = row /\ TakenBackOf(row, changes) = change.before
                                       /\ change.before.target \in DOMAIN policies
         /\ Key(TakenBackOf(row, changes)) = Key(row) /\ AnyEntry(TakenBackOf(row, changes))
         /\ TakenBackOf(row, changes).marked = row.marked
         /\ TakenBackOf(row, changes).target \in DOMAIN policies
<1> DEFINE undone == {change \in changes : change.after = row /\ change.before.target \in DOMAIN policies}
<1>1. CASE undone = {}
  BY <1>1 DEF TakenBackOf
<1>2. CASE undone # {}
  <2>1. PICK change \in undone : TakenBackOf(row, changes) = change.before
    BY <1>2 DEF TakenBackOf
  <2>2. change \in changes /\ change.after = row /\ change.before.target \in DOMAIN policies
    BY <2>1
  <2>3. OwnEntry(change.before) /\ OwnEntry(row) /\ Key(change.before) = Key(row)
    BY <2>2 DEF ChangesFit
  <2>4. change.before.marked = FALSE /\ row.marked = FALSE /\ AnyEntry(change.before)
    BY <2>3 DEF OwnEntry
  <2> QED BY <2>1, <2>2, <2>3, <2>4
<1> QED BY <1>1, <1>2

(* The rows an import starts from are the operator's.                      *)
LEMMA StoredIsOwn ==
  ASSUME NEW row, IsStoredEntry(row)
  PROVE  OwnEntry(row)
<1>1. row.marked = FALSE
  BY DEF IsStoredEntry, EntryOf
<1>2. row = [id |-> row.id, kind |-> row.kind, base |-> row.base, target |-> row.target, detail |-> row.detail,
              managed |-> row.managed, marked |-> row.marked]
  BY <1>1 DEF IsStoredEntry, EntryOf
<1> QED BY <1>1, <1>2 DEF IsStoredEntry, OwnEntry, AnyEntry

(* The invariant holds at the start ...                                    *)
LEMMA PlanStarts ==
  ASSUME PlanInit
  PROVE  PlanInv
<1>1. PICK start \in ImportStarts : policies = start.policies /\ entries = start.entries
  BY DEF PlanInit
<1>2. /\ \A row \in entries : IsStoredEntry(row) /\ row.target \in DOMAIN policies
      /\ \A row, other \in entries : Key(row) = Key(other) => row = other
  BY <1>1, ImportPlanAssumption
<1>3. \A row \in entries : OwnEntry(row)
  BY <1>2, StoredIsOwn
<1>4. EntriesFit
  BY <1>2, <1>3 DEF EntriesFit, OwnEntry
<1>5. ImportFits /\ planned.changes = {} /\ planned.at = "idle"
  BY <1>3, ImportPlanAssumption DEF PlanInit, Unplanned, ImportFits, OwnEntry
<1>6. ChangesFit(planned.changes)
  BY <1>5 DEF ChangesFit
<1>7. FileFits
  BY ImportPlanAssumption DEF PlanInit, FileFits
<1> QED BY <1>4, <1>5, <1>6, <1>7 DEF PlanInv, Followed, PlanFits, UndoLeavesNoTrace

(* Reading: nothing about the rows changes.                                *)
LEMMA PlanPreviewed ==
  ASSUME PlanInv, PreviewImport
  PROVE  PlanInv'
<1> DEFINE items == PlanItems(policies, entries, Candidates(file))
           shown == {i \in DOMAIN items :
                       Cardinality({j \in 1..i : items[j].entry.kind = items[i].entry.kind}) <= MaxDiffItems}
           offered == {i \in shown : items[i].resolvable}
<1>1. planned' = [planned EXCEPT !.at = "shown", !.offered = offered] /\ planned.at = "idle"
  BY DEF PreviewImport
<1>2. UNCHANGED <<policies, entries, planEdits, baseline>>
  BY DEF PreviewImport
<1> HIDE DEF offered
<1>3. ImportFits' /\ planned'.changes = planned.changes /\ planned'.at = "shown"
  BY <1>1, <1>2 DEF PlanInv, ImportFits
<1>4. EntriesFit' /\ ChangesFit(planned.changes)'
  BY <1>2, <1>3 DEF PlanInv, EntriesFit, ChangesFit
<1>5. FileFits'
  BY DEF PlanInv, FileFits, PreviewImport
<1> QED BY <1>3, <1>4, <1>5 DEF PlanInv, Followed, PlanFits, UndoLeavesNoTrace

LEMMA PlanRead ==
  ASSUME PlanInv, ReadForPlan
  PROVE  PlanInv'
<1>1. PICK resolutions \in SUBSET planned.offered :
        planned' = [planned EXCEPT !.at = "write", !.resolutions = resolutions, !.nodes = NewNodes(file.nodes, oldNodes),
                      !.plan = MakePlan(PlanItems(policies, entries, Candidates(file)), resolutions)]
  BY DEF ReadForPlan
<1>2. /\ planned.at \in {"idle", "shown"}
      /\ baseline' = [rows |-> entries, groups |-> policies, edited |-> {}, alone |-> TRUE]
      /\ UNCHANGED <<file, policies, entries, oldNodes, planEdits>>
  BY DEF ReadForPlan
<1>3. ImportFits' /\ planned'.changes = {} /\ planned'.at = "write"
  BY <1>1, <1>2 DEF PlanInv, ImportFits
<1>4. EntriesFit' /\ ChangesFit(planned.changes)'
  BY <1>2, <1>3 DEF PlanInv, EntriesFit, ChangesFit
<1>5. \A row \in entries : OwnEntry(row)
  BY <1>2 DEF PlanInv, EntriesFit, ImportFits, OwnEntry
<1>6. Followed'
  BY <1>2, <1>3, <1>5 DEF Followed, EditsFollowed, RowsFollowed
<1>7. PlanFits'
  <2>1. /\ planned'.plan = MakePlan(PlanItems(policies, entries, Candidates(file)), resolutions)
        /\ planned'.nodes = NewNodes(file.nodes, oldNodes) /\ planned'.resolutions = resolutions
    BY <1>1 DEF PlanInv, ImportFits
  <2> QED BY <1>2, <2>1 DEF PlanFits
<1>8. FileFits'
  BY <1>2 DEF PlanInv, FileFits
<1> QED BY <1>3, <1>4, <1>6, <1>7, <1>8 DEF PlanInv, UndoLeavesNoTrace

(* What the operator does.                                                 *)
LEMMA EntryEdited ==
  ASSUME PlanInv, OperatorEdits, EditEntry
  PROVE  PlanInv'
<1>0. /\ planned.at \in {"shown", "write", "done"} /\ planEdits' \in 0..MaxPlanEdits
      /\ UNCHANGED <<policies, planned>>
  <2>1. planEdits \in 0..MaxPlanEdits /\ MaxPlanEdits \in Nat
    BY ImportPlanAssumption DEF PlanInv, ImportFits
  <2>2. planEdits < MaxPlanEdits /\ planEdits' = planEdits + 1
    BY DEF OperatorEdits
  <2>3. planEdits' \in 0..MaxPlanEdits
    BY <2>1, <2>2
  <2> QED BY <2>3 DEF OperatorEdits, EditEntry
<1>1. PICK row \in entries :
        \E left \in {gone \in {{}} : ~row.managed} \cup {{[row EXCEPT !.target = goal]} : goal \in DOMAIN policies \ {row.target}}
                   \cup {{[row EXCEPT !.detail = detail]} : detail \in
                           IF row.kind = "set" /\ ~row.managed THEN {<<"ipcidr", 12>>} \ {row.detail} ELSE {}} :
            /\ entries' = (entries \ {row}) \cup left
            /\ baseline' = [baseline EXCEPT !.alone = FALSE, !.edited =
                              {e \in @ : e.key # Key(row)} \cup {[key |-> Key(row), left |-> left]}]
  BY DEF EditEntry
<1>2. PICK left : /\ left = {} \/ (\E goal \in DOMAIN policies : left = {[row EXCEPT !.target = goal]})
                       \/ (\E detail : left = {[row EXCEPT !.detail = detail]})
                  /\ entries' = (entries \ {row}) \cup left
                  /\ baseline' = [baseline EXCEPT !.alone = FALSE, !.edited =
                              {e \in baseline.edited : e.key # Key(row)} \cup {[key |-> Key(row), left |-> left]}]
  BY <1>1
<1>3. AnyEntry(row) /\ row.target \in DOMAIN policies
  BY DEF PlanInv, EntriesFit
<1>4. /\ \A r \in left : AnyEntry(r) /\ Key(r) = Key(row) /\ r.target \in DOMAIN policies /\ r.marked = row.marked
      /\ \A r, other \in left : r = other
  <2>1. ASSUME NEW r \in left
        PROVE  AnyEntry(r) /\ Key(r) = Key(row) /\ r.target \in DOMAIN policies /\ r.marked = row.marked
    <3>1. CASE \E goal \in DOMAIN policies : r = [row EXCEPT !.target = goal]
      BY <1>3, <3>1 DEF AnyEntry, Key
    <3>2. CASE \E detail : r = [row EXCEPT !.detail = detail]
      BY <1>3, <3>2 DEF AnyEntry, Key
    <3> QED BY <1>2, <2>1, <3>1, <3>2
  <2> QED BY <1>2, <2>1
<1>5. EntriesFit'
  BY <1>0, <1>2, <1>4 DEF PlanInv, EntriesFit
<1>6. \A r \in entries' : r.marked = TRUE => \E s \in entries : s.marked = TRUE
  BY <1>2, <1>4
<1>7. /\ baseline'.rows = baseline.rows
      /\ baseline'.edited = {e \in baseline.edited : e.key # Key(row)} \cup {[key |-> Key(row), left |-> left]}
      /\ baseline' = [rows |-> baseline'.rows, groups |-> baseline'.groups, edited |-> baseline'.edited,
                      alone |-> baseline'.alone]
  BY <1>2 DEF PlanInv, ImportFits
<1>8. ImportFits'
  <2>1. planned.at = "write" => \A e \in baseline'.edited : e.key[2] \in Int /\ e.key[2] > 0
    <3>1. planned.at = "write" => Key(row)[2] \in Int /\ Key(row)[2] > 0
      BY <1>3 DEF PlanInv, ImportFits, AnyEntry, Key
    <3> QED BY <1>7, <3>1 DEF PlanInv, ImportFits
  <2>2. planned.at \in {"shown", "write"} => \A r \in entries' : r.marked = FALSE
    BY <1>2, <1>4 DEF PlanInv, ImportFits
  <2> QED BY <1>0, <1>7, <2>1, <2>2 DEF PlanInv, ImportFits
<1>9. \A key : RowsOf(entries', key) = IF key = Key(row) THEN left ELSE RowsOf(entries, key)
  BY <1>2, <1>4 DEF RowsOf, PlanInv, EntriesFit
<1>10. ASSUME planned.at \in {"write", "done"}
       PROVE  EditsFollowed' /\ RowsFollowed'
  <2>1. EditsFollowed /\ RowsFollowed
    BY <1>10 DEF PlanInv, Followed
  <2>2. EditsFollowed'
    <3>1. SUFFICES ASSUME NEW e \in baseline'.edited
          PROVE  /\ \A r \in e.left : Key(r) = e.key /\ AnyEntry(r)
                 /\ \A r, other \in e.left : r = other
                 /\ \/ RowsOf(entries', e.key) = e.left
                    \/ \E change \in planned.changes : e.left = {change.before} /\ RowsOf(entries', e.key) = {change.after}
      BY <1>0 DEF EditsFollowed
    <3>2. CASE e = [key |-> Key(row), left |-> left]
      BY <3>2, <1>4, <1>9
    <3>3. CASE e \in baseline.edited /\ e.key # Key(row)
      BY <3>3, <2>1, <1>9 DEF EditsFollowed
    <3> QED BY <3>2, <3>3, <1>7
  <2>3. RowsFollowed'
    <3>1. SUFFICES ASSUME NEW r \in baseline.rows
          PROVE  /\ OwnEntry(r)
                 /\ \/ r \in entries' /\ \A change \in planned.changes : Key(change.before) # Key(r)
                    \/ \E e \in baseline'.edited : e.key = Key(r)
                    \/ \E change \in planned.changes : change.before = r /\ change.after \in entries'
      BY <1>0, <1>7 DEF RowsFollowed
    <3>2. CASE Key(r) = Key(row)
      <4>1. [key |-> Key(row), left |-> left] \in baseline'.edited /\ [key |-> Key(row), left |-> left].key = Key(r)
        BY <3>2, <1>7
      <4>2. \E e \in baseline'.edited : e.key = Key(r)
        BY <4>1, Zenon
      <4> QED BY <4>2, <2>1 DEF RowsFollowed
    <3>3. CASE Key(r) # Key(row)
      <4>1. \A s \in entries : Key(s) = Key(r) => s \in entries'
        BY <3>3, <1>2
      <4>2. \A change \in planned.changes : change.before = r => Key(change.after) = Key(r)
        BY DEF PlanInv, ChangesFit
      <4>3. \A e \in baseline.edited : e.key = Key(r) => e \in baseline'.edited
        BY <3>3, <1>7
      <4> QED BY <4>1, <4>2, <4>3, <2>1 DEF RowsFollowed
    <3> QED BY <3>2, <3>3
  <2> QED BY <2>2, <2>3
<1>11. FileFits' /\ PlanFits'
  <2>1. UNCHANGED <<file, oldNodes>> /\ baseline'.groups = baseline.groups
    BY <1>2 DEF OperatorEdits, PlanInv, ImportFits
  <2> QED BY <1>0, <1>7, <2>1 DEF PlanInv, FileFits, PlanFits
<1> QED BY <1>0, <1>5, <1>8, <1>10, <1>11 DEF PlanInv, Followed, ChangesFit, UndoLeavesNoTrace

(* A group that goes had no rows, so every row keeps its group.            *)
LEMMA PolicyDeleted ==
  ASSUME PlanInv, OperatorEdits, DeletePolicy
  PROVE  PlanInv'
<1>0. /\ planned.at \in {"shown", "write", "done"} /\ planEdits' \in 0..MaxPlanEdits
      /\ UNCHANGED <<entries, planned>> /\ baseline' = [baseline EXCEPT !.alone = FALSE]
  <2>1. planEdits \in 0..MaxPlanEdits /\ MaxPlanEdits \in Nat
    BY ImportPlanAssumption DEF PlanInv, ImportFits
  <2>2. planEdits < MaxPlanEdits /\ planEdits' = planEdits + 1
    BY DEF OperatorEdits
  <2>3. planEdits' \in 0..MaxPlanEdits
    BY <2>1, <2>2
  <2> QED BY <2>3 DEF OperatorEdits, DeletePolicy
<1>1. \A row \in entries : row.target \in DOMAIN policies'
  <2>1. PICK id \in DOMAIN policies : /\ \A row \in entries : row.target # id
                                     /\ policies' = [other \in DOMAIN policies \ {id} |-> policies[other]]
    BY DEF DeletePolicy
  <2>2. DOMAIN policies' = DOMAIN policies \ {id}
    BY <2>1
  <2> QED BY <2>1, <2>2 DEF PlanInv, EntriesFit
<1>2. EntriesFit'
  BY <1>0, <1>1 DEF PlanInv, EntriesFit
<1>3. ImportFits' /\ baseline'.rows = baseline.rows /\ baseline'.edited = baseline.edited
  BY <1>0 DEF PlanInv, ImportFits
<1>4. Followed'
  BY <1>0, <1>3 DEF PlanInv, Followed, EditsFollowed, RowsFollowed
<1>5. FileFits' /\ PlanFits'
  <2>1. UNCHANGED <<file, oldNodes>> /\ baseline'.groups = baseline.groups
    BY <1>0 DEF OperatorEdits, PlanInv, ImportFits
  <2> QED BY <1>0, <1>3, <2>1 DEF PlanInv, FileFits, PlanFits
<1> QED BY <1>0, <1>2, <1>3, <1>4, <1>5 DEF PlanInv, ChangesFit, UndoLeavesNoTrace

(* A row with two of its fields changed, field by field.                   *)
LEMMA RowRedirected ==
  ASSUME NEW row, AnyEntry(row), NEW goal, NEW detail
  PROVE  [row EXCEPT !.target = goal, !.detail = detail]
           = [id |-> row.id, kind |-> row.kind, base |-> row.base, target |-> goal, detail |-> detail,
              managed |-> row.managed, marked |-> row.marked]
<1> DEFINE new == [row EXCEPT !.target = goal, !.detail = detail]
           fields == {"id", "kind", "base", "target", "detail", "managed", "marked"}
<1>1. DOMAIN row = fields
  BY DEF AnyEntry
<1>2. /\ new.id = row.id /\ new.kind = row.kind /\ new.base = row.base /\ new.target = goal
      /\ new.detail = detail /\ new.managed = row.managed /\ new.marked = row.marked
  BY <1>1
<1>3. new = [field \in fields |-> new[field]]
  BY <1>1
<1> HIDE DEF new
<1>4. new = [id |-> row.id, kind |-> row.kind, base |-> row.base, target |-> goal, detail |-> detail,
             managed |-> row.managed, marked |-> row.marked]
  BY <1>2, <1>3
<1> QED BY <1>4 DEF new

(* A change of the plan is of a row there is, and leaves its id and table. *)
LEMMA AppliedChange ==
  ASSUME NEW item, NEW rows, NEW change \in ChangesOf(item, rows), \A row \in rows : OwnEntry(row)
  PROVE  /\ change.before \in AppliesTo(item, rows) /\ change.before \in rows
         /\ change = [before |-> change.before, after |-> change.after]
         /\ LET row == RowOfLine(item.entry, item.targets)
            IN change.after = [change.before EXCEPT !.target = row.target, !.detail = row.detail]
         /\ OwnEntry(change.before) /\ OwnEntry(change.after) /\ Key(change.before) = Key(change.after)
<1> DEFINE row == RowOfLine(item.entry, item.targets)
           new(old) == [old EXCEPT !.target = row.target, !.detail = row.detail]
<1>1. ChangesOf(item, rows) = {[before |-> old, after |-> new(old)] : old \in AppliesTo(item, rows)}
  BY DEF ChangesOf
<1>2. PICK old \in AppliesTo(item, rows) : change = [before |-> old, after |-> new(old)]
  BY <1>1
<1>3. old \in rows
  BY DEF AppliesTo
<1> HIDE DEF row
<1>4. OwnEntry(new(old)) /\ Key(new(old)) = Key(old)
  <2>1. OwnEntry(old) /\ AnyEntry(old)
    BY <1>3 DEF OwnEntry
  <2>2. new(old) = [id |-> old.id, kind |-> old.kind, base |-> old.base, target |-> row.target, detail |-> row.detail,
                    managed |-> old.managed, marked |-> old.marked]
    BY <2>1, RowRedirected
  <2> HIDE DEF new
  <2> QED BY <2>1, <2>2 DEF OwnEntry, AnyEntry, Key
<1>5. change.before = old /\ change.after = new(old)
  BY <1>2
<1> HIDE DEF new
<1>6. OwnEntry(change.before) /\ OwnEntry(change.after) /\ Key(change.before) = Key(change.after)
  BY <1>3, <1>4, <1>5
<1>7. /\ change.before \in AppliesTo(item, rows) /\ change.before \in rows
      /\ change = [before |-> change.before, after |-> change.after]
  BY <1>2, <1>3, <1>5
<1>8. change.after = new(change.before)
  BY <1>5
<1> QED BY <1>6, <1>7, <1>8 DEF new, row

(* No two changes of the plan are of one row: the later one found the row  *)
(* changed.                                                                *)
LEMMA AppliedChanges ==
  ASSUME NEW plan, NEW rows, plan.settled \subseteq Int, \A row \in rows : OwnEntry(row),
         \A row, other \in rows : Key(row) = Key(other) => row = other
  PROVE  /\ ChangesFit(Changes(plan, rows))
         /\ \A change \in Changes(plan, rows) : change.before \in rows
<1> DEFINE found(i) == AppliesTo(plan.items[i], rows)
<1>0. Applied(plan, rows) =
        {i \in plan.settled : found(i) # {} /\ \A j \in plan.settled : j < i => found(i) \cap found(j) = {}}
  BY DEF Applied
<1> HIDE DEF found
<1>1. ASSUME NEW change \in Changes(plan, rows)
      PROVE  /\ change.before \in rows /\ OwnEntry(change.before) /\ OwnEntry(change.after)
             /\ Key(change.before) = Key(change.after) /\ change = [before |-> change.before, after |-> change.after]
             /\ \E i \in Applied(plan, rows) : /\ change \in ChangesOf(plan.items[i], rows) /\ change.before \in found(i)
  <2>1. PICK i \in Applied(plan, rows) : change \in ChangesOf(plan.items[i], rows)
    BY DEF Changes
  <2>2. /\ change.before \in AppliesTo(plan.items[i], rows) /\ change.before \in rows
        /\ change = [before |-> change.before, after |-> change.after]
        /\ OwnEntry(change.before) /\ OwnEntry(change.after) /\ Key(change.before) = Key(change.after)
    BY <2>1, AppliedChange
  <2> QED BY <2>1, <2>2 DEF found
<1>2. ASSUME NEW change \in Changes(plan, rows), NEW other \in Changes(plan, rows), Key(change.before) = Key(other.before)
      PROVE  change = other
  <2>1. PICK i \in Applied(plan, rows) : /\ change.before \in found(i) /\ change \in ChangesOf(plan.items[i], rows)
    BY <1>1
  <2>2. PICK j \in Applied(plan, rows) : /\ other.before \in found(j) /\ other \in ChangesOf(plan.items[j], rows)
    BY <1>1
  <2>3. change.before = other.before
    BY <1>1, <1>2
  <2>4. i = j
    <3>1. i \in Int /\ j \in Int /\ found(i) \cap found(j) # {} /\ found(j) \cap found(i) # {}
      BY <1>0, <2>1, <2>2, <2>3
    <3>2. ~(i < j) /\ ~(j < i)
      BY <1>0, <3>1
    <3> QED BY <3>1, <3>2
  <2>5. change.after = other.after
    <3>1. other \in ChangesOf(plan.items[i], rows)
      BY <2>2, <2>4
    <3> DEFINE row == RowOfLine(plan.items[i].entry, plan.items[i].targets)
               new(old) == [old EXCEPT !.target = row.target, !.detail = row.detail]
    <3>2. change.after = new(change.before)
      BY <2>1, AppliedChange
    <3>3. other.after = new(other.before)
      BY <3>1, AppliedChange
    <3> HIDE DEF new
    <3> QED BY <3>2, <3>3, <2>3
  <2> QED BY <1>1, <2>3, <2>5
<1> QED BY <1>1, <1>2 DEF ChangesFit

(* The row a line stands for, before it has an id.                         *)
LEMMA RowOfLineIs ==
  ASSUME NEW entry, NEW targets
  PROVE  LET row == RowOfLine(entry, targets)
         IN  /\ row = [id |-> 0, kind |-> entry.kind, base |-> entry.base, target |-> row.target, detail |-> entry.detail,
                       managed |-> FALSE, marked |-> FALSE]
             /\ row.target = CHOOSE id \in targets : TRUE
BY DEF RowOfLine, EntryOf

(* The row a line of the file brings.                                      *)
NewEntry(item, i) == [RowOfLine(item.entry, item.targets) EXCEPT !.id = -i, !.marked = TRUE]
LEMMA InsertedAre ==
  ASSUME NEW plan
  PROVE  Inserted(plan) = {NewEntry(plan.items[i], i) : i \in WithStatus(plan, "new")}
BY DEF Inserted, NewEntry

(* Its id is one of those the import gives out, and it carries its mark.   *)
LEMMA NewEntryIs ==
  ASSUME NEW item, NEW i \in Nat \ {0}
  PROVE  /\ AnyEntry(NewEntry(item, i)) /\ NewEntry(item, i).id = -i /\ NewEntry(item, i).marked = TRUE
         /\ NewEntry(item, i).kind = item.entry.kind /\ NewEntry(item, i).base = item.entry.base
         /\ NewEntry(item, i).target = (CHOOSE id \in item.targets : TRUE) /\ NewEntry(item, i).detail = item.entry.detail
<1> DEFINE row == RowOfLine(item.entry, item.targets)
<1>1. /\ row = [id |-> 0, kind |-> item.entry.kind, base |-> item.entry.base, target |-> row.target,
                detail |-> item.entry.detail, managed |-> FALSE, marked |-> FALSE]
      /\ row.target = CHOOSE id \in item.targets : TRUE
  BY RowOfLineIs
<1> HIDE DEF row
<1>2. [row EXCEPT !.id = -i, !.marked = TRUE]
        = [id |-> -i, kind |-> item.entry.kind, base |-> item.entry.base, target |-> row.target,
           detail |-> item.entry.detail, managed |-> FALSE, marked |-> TRUE]
  <2> DEFINE new == [row EXCEPT !.id = -i, !.marked = TRUE]
             fields == {"id", "kind", "base", "target", "detail", "managed", "marked"}
  <2>1. DOMAIN row = fields
    BY <1>1
  <2>2. /\ new.id = -i /\ new.kind = row.kind /\ new.base = row.base /\ new.target = row.target
        /\ new.detail = row.detail /\ new.managed = row.managed /\ new.marked = TRUE
    BY <2>1
  <2>3. new = [field \in fields |-> new[field]]
    BY <2>1
  <2>4. row.kind = item.entry.kind /\ row.base = item.entry.base /\ row.detail = item.entry.detail /\ row.managed = FALSE
    BY <1>1
  <2> HIDE DEF new
  <2>5. new = [id |-> -i, kind |-> item.entry.kind, base |-> item.entry.base, target |-> row.target,
               detail |-> item.entry.detail, managed |-> FALSE, marked |-> TRUE]
    BY <2>2, <2>3, <2>4
  <2> QED BY <2>5 DEF new
<1>3. NewEntry(item, i) = [id |-> -i, kind |-> item.entry.kind, base |-> item.entry.base, target |-> row.target,
                           detail |-> item.entry.detail, managed |-> FALSE, marked |-> TRUE]
  BY <1>2 DEF NewEntry, row
<1>4. -i \in Int /\ -i < 0
  OBVIOUS
<1> QED BY <1>1, <1>3, <1>4 DEF AnyEntry

(* No two rows the import brings share an id.                              *)
LEMMA InsertedRows ==
  ASSUME NEW plan, DOMAIN plan.items \subseteq Nat \ {0}
  PROVE  /\ \A row \in Inserted(plan) : AnyEntry(row) /\ row.marked = TRUE
         /\ \A row, other \in Inserted(plan) : Key(row) = Key(other) => row = other
<1>1. ASSUME NEW i \in WithStatus(plan, "new")
      PROVE  /\ i \in Nat \ {0} /\ AnyEntry(NewEntry(plan.items[i], i)) /\ NewEntry(plan.items[i], i).marked = TRUE
             /\ NewEntry(plan.items[i], i).id = -i
  <2>1. i \in Nat \ {0}
    BY DEF WithStatus
  <2> QED BY <2>1, NewEntryIs
<1>2. ASSUME NEW i \in WithStatus(plan, "new"), NEW j \in WithStatus(plan, "new"),
             Key(NewEntry(plan.items[i], i)) = Key(NewEntry(plan.items[j], j))
      PROVE  NewEntry(plan.items[i], i) = NewEntry(plan.items[j], j)
  <2>1. -i = -j
    BY <1>1, <1>2 DEF Key
  <2>2. i \in Nat \ {0} /\ j \in Nat \ {0}
    BY <1>1, Zenon
  <2>3. i = j
    <3>1. \A x, y \in Int : -x = -y => x = y
      OBVIOUS
    <3> QED BY <2>1, <2>2, <3>1
  <2> QED BY <2>3
<1> QED BY <1>1, <1>2, InsertedAre

(* What a file lists.                                                      *)
LEMMA ShortLists ==
  /\ IsList(<<>>) /\ \A x : IsList(<<x>>)
<1>1. <<>> \in Seq({}) /\ \A x : <<x>> \in Seq({x})
  OBVIOUS
<1> QED BY <1>1, SequencesAreLists

(* A list of lists, joined.                                                *)
LEMMA ListsJoinedAreListed ==
  ASSUME NEW rows, IsList(rows), NEW f, DOMAIN f = DOMAIN rows, f = [i \in DOMAIN rows |-> f[i]],
         \A i \in DOMAIN rows : IsList(f[i])
  PROVE  IsList(Joined(f))
<1>1. Len(rows) \in Nat /\ DOMAIN rows = 1..Len(rows)
  BY ListPlaces
<1>2. f = [i \in 1..Len(rows) |-> f[i]]
  BY <1>1
<1>3. IsList(f)
  BY <1>1, <1>2, ListsAre
<1> QED BY <1>3, JoinedLists

(* What a file lists is a list again, of rules and of rule sets.           *)
LEMMA CandidatesAreListed ==
  ASSUME NEW f, IsListed(f.lines), IsListed(f.providers)
  PROVE  IsList(Candidates(f))
<1>1. IsList(f.lines) /\ IsList(f.providers)
  BY DEF IsList, IsListed
<1>2. IsList(ParseRules(f.lines))
  <2> DEFINE g == [i \in DOMAIN f.lines |-> IF IsSetLine(f.lines[i]) THEN <<>> ELSE ReadLine(f.lines[i])]
  <2>1. ASSUME NEW line
        PROVE  IsList(ReadLine(line))
    BY ShortLists DEF ReadLine
  <2>2. \A i \in DOMAIN f.lines : IsList(g[i])
    BY <2>1, ShortLists
  <2>3. DOMAIN g = DOMAIN f.lines /\ g = [i \in DOMAIN f.lines |-> g[i]]
    OBVIOUS
  <2>4. ParseRules(f.lines) = Joined(g)
    BY DEF ParseRules
  <2> HIDE DEF g
  <2> QED BY <1>1, <2>2, <2>3, <2>4, ListsJoinedAreListed
<1>3. IsList(ParseSets(f.lines, f.providers))
  <2> DEFINE g == [i \in DOMAIN f.providers |-> ReadProvider(f.lines, f.providers[i])]
  <2>1. ASSUME NEW provider
        PROVE  IsList(ReadProvider(f.lines, provider))
    BY ShortLists DEF ReadProvider
  <2>2. \A i \in DOMAIN f.providers : IsList(g[i])
    BY <2>1
  <2>3. DOMAIN g = DOMAIN f.providers /\ g = [i \in DOMAIN f.providers |-> g[i]]
    OBVIOUS
  <2>4. ParseSets(f.lines, f.providers) = Joined(g)
    BY DEF ParseSets
  <2> HIDE DEF g
  <2> QED BY <1>1, <2>2, <2>3, <2>4, ListsJoinedAreListed
<1> DEFINE a == ParseRules(f.lines)
           b == ParseSets(f.lines, f.providers)
           both == ToSet(a) \cup ToSet(b)
<1>4. a \in Seq(ToSet(a)) /\ b \in Seq(ToSet(b))
  BY <1>2, <1>3 DEF IsList
<1> HIDE DEF a, b
<1>5. a \in Seq(both) /\ b \in Seq(both)
  BY <1>4
<1> HIDE DEF both
<1>6. a \o b \in Seq(both)
  BY <1>5
<1>7. IsList(a \o b)
  BY <1>6, SequencesAreLists
<1> QED BY <1>7 DEF Candidates, a, b

(* The items of a plan are those of the lines, in their order.             *)
LEMMA PlanPlaces ==
  ASSUME NEW f, IsListed(f.lines), IsListed(f.providers), NEW groups, NEW rows, NEW resolutions,
         NEW plan, plan = MakePlan(PlanItems(groups, rows, Candidates(f)), resolutions)
  PROVE  /\ DOMAIN plan.items = DOMAIN Candidates(f) /\ DOMAIN plan.items \subseteq Nat \ {0}
         /\ plan.settled \subseteq DOMAIN plan.items /\ plan.settled \subseteq Int
         /\ plan.settled = {i \in resolutions \cap DOMAIN plan.items : plan.items[i].resolvable}
         /\ \A i \in DOMAIN plan.items : plan.items[i] = PlanItem(groups, rows, Candidates(f), i)
<1> DEFINE listed == Candidates(f)
           items == PlanItems(groups, rows, listed)
<1>1. Len(listed) \in Nat /\ DOMAIN listed = 1..Len(listed)
  BY CandidatesAreListed, ListPlaces
<1>2. DOMAIN items = DOMAIN listed /\ \A i \in DOMAIN listed : items[i] = PlanItem(groups, rows, listed, i)
  BY DEF PlanItems
<1>3. plan.items = items /\ plan.settled = {i \in resolutions \cap DOMAIN items : items[i].resolvable}
  BY DEF MakePlan
<1> HIDE DEF listed, items
<1>4. DOMAIN items \subseteq Nat \ {0}
  BY <1>1, <1>2
<1> QED BY <1>2, <1>3, <1>4 DEF listed

(* Writing the plan: of a row the operator has, what the import changed    *)
(* stands in its place; the rows it brings share no id with any other.     *)
Written(rows, plan) ==
    (rows \ {change.before : change \in Changes(plan, rows)}) \cup {change.after : change \in Changes(plan, rows)}
        \cup Inserted(plan)

LEMMA WrittenRows ==
  ASSUME NEW rows, NEW plan, plan.settled \subseteq Int, DOMAIN plan.items \subseteq Nat \ {0},
         \A row \in rows : OwnEntry(row), \A row, other \in rows : Key(row) = Key(other) => row = other
  PROVE  /\ \A row \in Written(rows, plan) : AnyEntry(row)
         /\ \A row, other \in Written(rows, plan) : Key(row) = Key(other) => row = other
         /\ \A key : key[2] \in Int /\ key[2] > 0 =>
              \/ /\ RowsOf(Written(rows, plan), key) = RowsOf(rows, key)
                 /\ \A change \in Changes(plan, rows) : Key(change.before) # key
              \/ \E change \in Changes(plan, rows) : /\ Key(change.before) = key
                                                     /\ RowsOf(rows, key) = {change.before}
                                                     /\ RowsOf(Written(rows, plan), key) = {change.after}
<1> DEFINE changes == Changes(plan, rows)
           kept == rows \ {change.before : change \in changes}
           made == {change.after : change \in changes}
           brought == Inserted(plan)
           written == Written(rows, plan)
<1>1. ChangesFit(changes) /\ \A change \in changes : change.before \in rows
  BY AppliedChanges
<1>2. /\ \A row \in brought : AnyEntry(row) /\ row.marked = TRUE
      /\ \A row, other \in brought : Key(row) = Key(other) => row = other
  BY InsertedRows
<1>3. \A row : row \in written <=> row \in kept \/ row \in made \/ row \in brought
  BY DEF Written
<1> HIDE DEF changes, brought, written
<1>4. \A row \in made : \E change \in changes : row = change.after /\ OwnEntry(row) /\ Key(row) = Key(change.before)
                                               /\ change.before \in rows
  BY <1>1 DEF ChangesFit
<1>5. \A row \in kept \cup made : OwnEntry(row)
  BY <1>4
<1>6. \A row \in kept \cup made, other \in brought : Key(row) # Key(other)
  BY <1>2, <1>5 DEF OwnEntry, AnyEntry, Key
<1>7. ASSUME NEW row \in kept, NEW change \in changes
      PROVE  Key(row) # Key(change.after)
  <2>1. Key(change.after) = Key(change.before) /\ change.before \in rows /\ change.before # row
    BY <1>1 DEF ChangesFit
  <2> QED BY <2>1
<1>8. \A change, other \in changes : Key(change.after) = Key(other.after) => change = other
  BY <1>1 DEF ChangesFit
<1>9. ASSUME NEW row \in written, NEW other \in written, Key(row) = Key(other)
      PROVE  row = other
  <2>1. CASE row \in brought \/ other \in brought
    BY <2>1, <1>9, <1>3, <1>2, <1>6
  <2>2. CASE row \in kept /\ other \in kept
    BY <2>2, <1>9
  <2>3. CASE row \in made /\ other \in made
    BY <2>3, <1>9, <1>8
  <2>4. CASE (row \in kept /\ other \in made) \/ (row \in made /\ other \in kept)
    BY <2>4, <1>9, <1>7
  <2> QED BY <2>1, <2>2, <2>3, <2>4, <1>3
<1>10. \A row \in written : AnyEntry(row)
  BY <1>2, <1>3, <1>5 DEF OwnEntry
<1>11. ASSUME NEW key, key[2] \in Int, key[2] > 0
       PROVE  \/ /\ RowsOf(written, key) = RowsOf(rows, key)
                 /\ \A change \in changes : Key(change.before) # key
              \/ \E change \in changes : /\ Key(change.before) = key
                                         /\ RowsOf(rows, key) = {change.before}
                                         /\ RowsOf(written, key) = {change.after}
  <2>1. \A row \in brought : Key(row) # key
    BY <1>2, <1>11 DEF AnyEntry, Key
  <2>2. CASE \E change \in changes : Key(change.before) = key
    <3>1. PICK change \in changes : Key(change.before) = key
      BY <2>2
    <3>2. change.before \in rows /\ Key(change.after) = key /\ change.after \in written
      BY <3>1, <1>1, <1>3 DEF ChangesFit
    <3>3. RowsOf(rows, key) = {change.before} /\ RowsOf(written, key) = {change.after}
      BY <3>1, <3>2, <1>9 DEF RowsOf
    <3> QED BY <3>1, <3>3
  <2>3. CASE \A change \in changes : Key(change.before) # key
    <3>1. \A row \in made : Key(row) # key
      BY <2>3, <1>4
    <3>2. \A row : Key(row) = key => (row \in written <=> row \in rows)
      BY <1>3, <2>1, <2>3, <3>1
    <3> QED BY <2>3, <3>2 DEF RowsOf
  <2> QED BY <2>2, <2>3
<1> QED BY <1>9, <1>10, <1>11 DEF changes, written

(* Writing the plan keeps the invariant, whether the batch fails or not.   *)
LEMMA PlanWritten ==
  ASSUME PlanInv, WritePlan
  PROVE  PlanInv'
<1> DEFINE plan == planned.plan
           changes == Changes(plan, entries)
           written == Written(entries, plan)
<1>0. planned.at = "write" /\ UNCHANGED <<file, policies, oldNodes, planEdits, baseline>>
  BY DEF WritePlan
<1>1. \/ planned' = [planned EXCEPT !.at = "failed"] /\ entries' = entries
      \/ /\ entries' = written /\ \A row \in written : row.target \in DOMAIN policies
         /\ planned' = [planned EXCEPT !.at = "done", !.changes = changes,
              !.conflicts = Cardinality(WithStatus(plan, "conflict")) - Cardinality(Applied(plan, entries))]
  BY DEF WritePlan, Written
<1>2. /\ plan = MakePlan(PlanItems(baseline.groups, baseline.rows, Candidates(file)), planned.resolutions)
      /\ planned.nodes = NewNodes(file.nodes, oldNodes)
  BY <1>0 DEF PlanInv, PlanFits
<1>3. plan.settled \subseteq Int /\ DOMAIN plan.items \subseteq Nat \ {0}
  BY <1>2, PlanPlaces DEF PlanInv, FileFits
<1>4. \A row \in entries : OwnEntry(row)
  BY <1>0 DEF PlanInv, EntriesFit, ImportFits, OwnEntry
<1>5. \A row, other \in entries : Key(row) = Key(other) => row = other
  BY DEF PlanInv, EntriesFit
<1>6. /\ \A row \in written : AnyEntry(row)
      /\ \A row, other \in written : Key(row) = Key(other) => row = other
      /\ \A key : key[2] \in Int /\ key[2] > 0 =>
           \/ /\ RowsOf(written, key) = RowsOf(entries, key)
              /\ \A change \in changes : Key(change.before) # key
           \/ \E change \in changes : /\ Key(change.before) = key
                                      /\ RowsOf(entries, key) = {change.before}
                                      /\ RowsOf(written, key) = {change.after}
  BY <1>3, <1>4, <1>5, WrittenRows
<1>7. ChangesFit(changes)
  BY <1>3, <1>4, <1>5, AppliedChanges
<1>8. EditsFollowed /\ RowsFollowed /\ planned.changes = {}
  BY <1>0 DEF PlanInv, Followed, ImportFits
<1>9. \A e \in baseline.edited : e.key[2] \in Int /\ e.key[2] > 0
  BY <1>0 DEF PlanInv, ImportFits
<1> HIDE DEF plan, changes, written
<1>10. CASE planned' = [planned EXCEPT !.at = "failed"] /\ entries' = entries
  <2>1. ImportFits' /\ planned'.changes = {} /\ planned'.at = "failed"
    BY <1>0, <1>8, <1>10 DEF PlanInv, ImportFits
  <2>2. EditsFollowed' /\ RowsFollowed'
    BY <1>0, <1>8, <1>10, <2>1 DEF EditsFollowed, RowsFollowed
  <2> QED BY <1>0, <1>10, <2>1, <2>2 DEF PlanInv, EntriesFit, ChangesFit, Followed, FileFits, PlanFits, UndoLeavesNoTrace
<1>11. ASSUME entries' = written, \A row \in written : row.target \in DOMAIN policies,
              planned' = [planned EXCEPT !.at = "done", !.changes = changes,
              !.conflicts = Cardinality(WithStatus(plan, "conflict")) - Cardinality(Applied(plan, entries))]
       PROVE  PlanInv'
  <2> DEFINE conflicts == Cardinality(WithStatus(plan, "conflict")) - Cardinality(Applied(plan, entries))
  <2>0. planned' = [planned EXCEPT !.at = "done", !.changes = changes, !.conflicts = conflicts]
    BY <1>11
  <2> HIDE DEF conflicts
  <2>1. ImportFits' /\ planned'.changes = changes /\ planned'.at = "done"
        /\ planned'.plan = planned.plan /\ planned'.nodes = planned.nodes /\ planned'.resolutions = planned.resolutions
    BY <1>0, <2>0 DEF PlanInv, ImportFits
  <2>2. EntriesFit'
    BY <1>0, <1>6, <1>11 DEF EntriesFit
  <2>3. ASSUME NEW e \in baseline.edited
        PROVE  /\ \A row \in e.left : Key(row) = e.key /\ AnyEntry(row)
               /\ \A row, other \in e.left : row = other
               /\ \/ RowsOf(written, e.key) = e.left
                  \/ \E change \in changes : e.left = {change.before} /\ RowsOf(written, e.key) = {change.after}
    <3>1. RowsOf(entries, e.key) = e.left
      BY <1>8 DEF EditsFollowed
    <3>2. e.key[2] \in Int /\ e.key[2] > 0
      BY <1>9
    <3>3. CASE RowsOf(written, e.key) = RowsOf(entries, e.key)
      BY <3>1, <3>3, <1>8 DEF EditsFollowed
    <3>4. CASE \E change \in changes : RowsOf(entries, e.key) = {change.before} /\ RowsOf(written, e.key) = {change.after}
      BY <3>1, <3>4, <1>8 DEF EditsFollowed
    <3> QED BY <3>2, <3>3, <3>4, <1>6
  <2>4. EditsFollowed'
    BY <1>0, <1>11, <2>1, <2>3 DEF EditsFollowed
  <2>5. ASSUME NEW row \in baseline.rows
        PROVE  /\ OwnEntry(row)
               /\ \/ row \in written /\ \A change \in changes : Key(change.before) # Key(row)
                  \/ \E e \in baseline.edited : e.key = Key(row)
                  \/ \E change \in changes : change.before = row /\ change.after \in written
    <3>1. OwnEntry(row) /\ (row \in entries \/ \E e \in baseline.edited : e.key = Key(row))
      BY <1>8 DEF RowsFollowed
    <3>2. CASE row \in entries
      <4>1. Key(row)[2] \in Int /\ Key(row)[2] > 0
        BY <3>1 DEF OwnEntry, AnyEntry, Key
      <4>2. row \in RowsOf(entries, Key(row))
        BY <3>2 DEF RowsOf
      <4>3. CASE /\ RowsOf(written, Key(row)) = RowsOf(entries, Key(row))
                 /\ \A change \in changes : Key(change.before) # Key(row)
        BY <3>1, <4>2, <4>3 DEF RowsOf
      <4>4. CASE \E change \in changes : /\ RowsOf(entries, Key(row)) = {change.before}
                                         /\ RowsOf(written, Key(row)) = {change.after}
        <5>1. PICK change \in changes : /\ RowsOf(entries, Key(row)) = {change.before}
                                        /\ RowsOf(written, Key(row)) = {change.after}
          BY <4>4
        <5>2. change.before = row /\ change.after \in written
          BY <5>1, <4>2 DEF RowsOf
        <5> QED BY <3>1, <5>2
      <4> QED BY <4>1, <4>3, <4>4, <1>6
    <3> QED BY <3>1, <3>2
  <2>6. RowsFollowed'
    BY <1>0, <1>11, <2>1, <2>5 DEF RowsFollowed
  <2>7. FileFits' /\ PlanFits'
    BY <1>0, <1>2, <2>1 DEF PlanInv, FileFits, PlanFits, plan
  <2>8. ChangesFit(planned.changes)'
    BY <1>7, <2>1 DEF ChangesFit
  <2> QED BY <2>1, <2>2, <2>4, <2>6, <2>7, <2>8 DEF PlanInv, Followed, UndoLeavesNoTrace
<1> QED BY <1>1, <1>10, <1>11

(* Taking the import back keeps it, and leaves no trace.                   *)
LEMMA PlanUndone ==
  ASSUME PlanInv, UndoImport
  PROVE  PlanInv'
<1> DEFINE changes == planned.changes
           back(row) == TakenBackOf(row, changes)
<1>0. /\ planned.at \in {"done", "failed"} /\ planned' = [planned EXCEPT !.at = "undone"]
      /\ UNCHANGED <<file, policies, oldNodes, planEdits, baseline>>
  BY DEF UndoImport
<1>1. entries' = {row \in {back(row) : row \in entries} : ~row.marked}
  BY TakenBackRows DEF UndoImport
<1>2. ChangesFit(changes) /\ EditsFollowed /\ RowsFollowed
  BY <1>0 DEF PlanInv, Followed
<1>3. ASSUME NEW row \in entries
      PROVE  /\ AnyEntry(row)
             /\ \/ /\ back(row) = row
                   /\ \A change \in changes : change.after = row => change.before.target \notin DOMAIN policies
                \/ \E change \in changes : /\ change.after = row /\ back(row) = change.before
                                           /\ change.before.target \in DOMAIN policies
             /\ Key(back(row)) = Key(row) /\ AnyEntry(back(row)) /\ back(row).marked = row.marked
             /\ back(row).target \in DOMAIN policies
  BY <1>2, TakenBackIs DEF PlanInv, EntriesFit
<1> HIDE DEF back
<1>4. \A row : row \in entries' <=> \E old \in entries : row = back(old) /\ old.marked = FALSE /\ row.marked = FALSE
  <2>1. \A old \in entries : back(old).marked = old.marked /\ old.marked \in BOOLEAN
    BY <1>3 DEF AnyEntry
  <2> QED BY <1>1, <2>1
<1>5. \A row, other \in entries : Key(row) = Key(other) => row = other
  BY DEF PlanInv, EntriesFit
<1>6. EntriesFit'
  BY <1>0, <1>3, <1>4, <1>5 DEF EntriesFit
<1>7. ImportFits' /\ planned'.changes = changes /\ planned'.at = "undone"
  BY <1>0 DEF PlanInv, ImportFits
<1>8. \A old \in entries : old.marked = FALSE => back(old) \in entries'
  BY <1>3, <1>4
<1>9. ASSUME NEW key, NEW old \in entries, RowsOf(entries, key) = {old}
      PROVE  RowsOf(entries', key) = IF old.marked = FALSE THEN {back(old)} ELSE {}
  <2>1. Key(old) = key /\ \A row \in entries : Key(row) = key => row = old
    BY <1>9 DEF RowsOf
  <2> QED BY <2>1, <1>3, <1>4 DEF RowsOf
<1>10. ASSUME NEW key, RowsOf(entries, key) = {}
       PROVE  RowsOf(entries', key) = {}
  BY <1>10, <1>3, <1>4 DEF RowsOf
<1>11. ASSUME NEW e \in baseline.edited
       PROVE  \/ RowsOf(entries', e.key) = {row \in e.left : ~row.marked}
              \/ \E change \in changes : e.left = {change.after} /\ RowsOf(entries', e.key) = {change.before}
              \/ \E change \in changes : /\ e.left = {change.before} /\ RowsOf(entries', e.key) = {change.after}
                                         /\ change.before.target \notin DOMAIN policies
  <2>1. /\ \A row, other \in e.left : row = other
        /\ \A row \in e.left : AnyEntry(row)
        /\ \/ RowsOf(entries, e.key) = e.left
           \/ \E change \in changes : e.left = {change.before} /\ RowsOf(entries, e.key) = {change.after}
    BY <1>2 DEF EditsFollowed
  <2>2. CASE RowsOf(entries, e.key) = e.left /\ e.left = {}
    BY <2>2, <1>10
  <2>3. CASE RowsOf(entries, e.key) = e.left /\ e.left # {}
    <3>1. PICK old \in e.left : e.left = {old}
      BY <2>1, <2>3
    <3>2. old \in entries /\ old.marked \in BOOLEAN
      BY <2>3, <3>1, <1>3 DEF RowsOf, AnyEntry
    <3>3. RowsOf(entries', e.key) = IF old.marked = FALSE THEN {back(old)} ELSE {}
      BY <2>3, <3>1, <3>2, <1>9
    <3>4. CASE old.marked = TRUE
      BY <3>1, <3>3, <3>4
    <3>5. CASE old.marked = FALSE /\ back(old) = old
      BY <3>1, <3>3, <3>5
    <3>6. CASE old.marked = FALSE /\ back(old) # old
      <4>1. PICK change \in changes : change.after = old /\ back(old) = change.before
        BY <3>2, <3>6, <1>3
      <4> QED BY <3>1, <3>3, <3>6, <4>1
    <3> QED BY <3>2, <3>4, <3>5, <3>6
  <2>4. CASE \E change \in changes : e.left = {change.before} /\ RowsOf(entries, e.key) = {change.after}
    <3>1. PICK change \in changes : e.left = {change.before} /\ RowsOf(entries, e.key) = {change.after}
      BY <2>4
    <3>2. change.after \in entries
      BY <3>1 DEF RowsOf
    <3>3. change.before.marked = FALSE /\ change.after.marked = FALSE
      BY <1>2 DEF ChangesFit, OwnEntry
    <3>4. RowsOf(entries', e.key) = {back(change.after)}
      BY <3>1, <3>2, <3>3, <1>9
    <3>5. CASE /\ back(change.after) = change.after
               /\ \A other \in changes : other.after = change.after => other.before.target \notin DOMAIN policies
      BY <3>1, <3>4, <3>5
    <3>6. CASE \E other \in changes : other.after = change.after /\ back(change.after) = other.before
      <4>1. PICK other \in changes : other.after = change.after /\ back(change.after) = other.before
        BY <3>6
      <4>2. other = change
        BY <4>1, <1>2 DEF ChangesFit
      <4>3. RowsOf(entries', e.key) = {row \in e.left : ~row.marked}
        BY <3>1, <3>3, <3>4, <4>1, <4>2
      <4> QED BY <4>3
    <3> QED BY <3>2, <3>5, <3>6, <1>3
  <2> QED BY <2>1, <2>2, <2>3, <2>4
<1>12. ASSUME NEW row \in baseline.rows
       PROVE  \/ row \in entries' \/ \E e \in baseline.edited : e.key = Key(row)
              \/ row.target \notin DOMAIN policies /\ \E now \in entries' : Key(now) = Key(row)
  <2>1. /\ OwnEntry(row)
        /\ \/ row \in entries /\ \A change \in changes : Key(change.before) # Key(row)
           \/ \E e \in baseline.edited : e.key = Key(row)
           \/ \E change \in changes : change.before = row /\ change.after \in entries
    BY <1>2 DEF RowsFollowed
  <2>2. CASE row \in entries /\ \A change \in changes : Key(change.before) # Key(row)
    <3>1. row.marked = FALSE
      BY <2>1 DEF OwnEntry
    <3>2. \A change \in changes : change.after # row
      BY <2>2, <1>2 DEF ChangesFit
    <3>3. back(row) = row
      BY <2>2, <3>2, <1>3
    <3> QED BY <2>2, <3>1, <3>3, <1>8
  <2>3. CASE \E change \in changes : change.before = row /\ change.after \in entries
    <3>1. PICK change \in changes : change.before = row /\ change.after \in entries
      BY <2>3
    <3>2. change.after.marked = FALSE /\ Key(change.after) = Key(row)
      BY <3>1, <1>2 DEF ChangesFit, OwnEntry
    <3>3. back(change.after) \in entries' /\ Key(back(change.after)) = Key(row)
      BY <3>1, <3>2, <1>3, <1>8
    <3>4. CASE /\ back(change.after) = change.after
               /\ \A other \in changes : other.after = change.after => other.before.target \notin DOMAIN policies
      BY <3>1, <3>3, <3>4
    <3>5. CASE \E other \in changes : other.after = change.after /\ back(change.after) = other.before
      <4>1. PICK other \in changes : other.after = change.after /\ back(change.after) = other.before
        BY <3>5
      <4>2. other = change
        BY <4>1, <1>2 DEF ChangesFit
      <4> QED BY <3>1, <3>3, <4>1, <4>2
    <3> QED BY <3>1, <3>4, <3>5, <1>3
  <2> QED BY <2>1, <2>2, <2>3
<1>13. \A row \in entries' : ~row.marked
  BY <1>1
<1>14. UndoLeavesNoTrace'
  BY <1>0, <1>7, <1>11, <1>12, <1>13 DEF UndoLeavesNoTrace, RowsOf
<1>15. FileFits' /\ PlanFits' /\ Followed' /\ ChangesFit(planned.changes)'
  BY <1>0, <1>2, <1>7 DEF PlanInv, FileFits, PlanFits, Followed, ChangesFit
<1> QED BY <1>6, <1>7, <1>14, <1>15 DEF PlanInv

(***************************************************************************)
(* What an import nobody edits beside comes to.  A plan as it is made of   *)
(* the lines, the groups and the rows; what the operator settles is about  *)
(* one row of his each.                                                    *)
(***************************************************************************)
OneOwnRow(rows, listed, i) ==
    /\ \A row, other \in rows : Alike(row, listed[i]) /\ Alike(other, listed[i]) => row = other
    /\ \A row \in rows : Alike(row, listed[i]) => ~row.managed
PlanMade(plan, listed, groups, rows, resolutions) ==
    /\ IsList(listed) /\ DistinctNames(groups) /\ IsFiniteSet(rows)
    /\ \A row \in rows : OwnEntry(row)
    /\ \A row, other \in rows : Key(row) = Key(other) => row = other
    /\ \A i \in resolutions : OneOwnRow(rows, listed, i)
    /\ plan = MakePlan(PlanItems(groups, rows, listed), resolutions)

FirstLines(groups, listed) ==
    {i \in MappedLines(groups, listed) : \A j \in MappedLines(groups, listed) : j < i => ~Alike(listed[j], listed[i])}
SameAs(entry, targets, known) == \E row \in known : row.target \in targets /\ row.detail = entry.detail

(* A name stands for one group at most.                                    *)
LEMMA OneTarget ==
  ASSUME NEW groups, DistinctNames(groups), NEW word, NEW x \in TargetsOf(groups, word), NEW y \in TargetsOf(groups, word)
  PROVE  x = y
BY DEF DistinctNames, TargetsOf

(* Being of one base is an equivalence.                                    *)
LEMMA AlikeIsTransitive ==
  /\ \A x, y : Alike(x, y) <=> Alike(y, x)
  /\ \A x, y, z : Alike(x, y) /\ Alike(y, z) => Alike(x, z)
BY DEF Alike

(* The status of a line: what is known of its base decides.                *)
LEMMA StatusIs ==
  ASSUME NEW entry, NEW targets, NEW known
  PROVE  /\ LineStatus(entry, targets, known) = "duplicate" <=> targets # {} /\ SameAs(entry, targets, known)
         /\ LineStatus(entry, targets, known) = "conflict" <=> targets # {} /\ ~SameAs(entry, targets, known) /\ known # {}
         /\ LineStatus(entry, targets, known) = "new" <=> targets # {} /\ known = {}
<1> DEFINE same == SameAs(entry, targets, known)
           outcome == LineStatus(entry, targets, known)
<1>1. known = {} => ~same
  BY DEF SameAs
<1>2. outcome = CASE targets = {} -> "unmapped"
                 [] targets # {} /\ same -> "duplicate"
                 [] targets # {} /\ ~same /\ known # {} -> "conflict"
                 [] targets # {} /\ known = {} -> "new"
  BY DEF LineStatus, SameAs
<1> HIDE DEF same, outcome
<1>3. targets = {} => outcome = "unmapped"
  BY <1>2
<1>4. targets # {} /\ same => outcome = "duplicate"
  BY <1>1, <1>2
<1>5. targets # {} /\ ~same /\ known # {} => outcome = "conflict"
  BY <1>2
<1>6. targets # {} /\ known = {} => outcome = "new"
  BY <1>1, <1>2
<1>7. /\ outcome = "duplicate" <=> targets # {} /\ same
      /\ outcome = "conflict" <=> targets # {} /\ ~same /\ known # {}
      /\ outcome = "new" <=> targets # {} /\ known = {}
  BY <1>1, <1>3, <1>4, <1>5, <1>6
<1> QED BY <1>7 DEF same, outcome

(* An item of the plan, field by field.                                    *)
LEMMA ItemIs ==
  ASSUME NEW plan, NEW listed, NEW groups, NEW rows, NEW resolutions, PlanMade(plan, listed, groups, rows, resolutions),
         NEW i \in DOMAIN listed
  PROVE  /\ DOMAIN plan.items = DOMAIN listed /\ i \in Nat \ {0}
         /\ plan.items[i].entry = listed[i] /\ plan.items[i].targets = TargetsOf(groups, listed[i].target)
         /\ plan.items[i].known = KnownTo(groups, rows, listed, i)
         /\ plan.items[i].status = LineStatus(listed[i], TargetsOf(groups, listed[i].target), KnownTo(groups, rows, listed, i))
         /\ i \in plan.settled <=> /\ i \in resolutions /\ plan.items[i].status = "conflict"
                                   /\ Resolvable(KnownTo(groups, rows, listed, i))
         /\ plan.settled \subseteq resolutions \cap DOMAIN listed
<1> DEFINE items == PlanItems(groups, rows, listed)
           known == KnownTo(groups, rows, listed, i)
           targets == TargetsOf(groups, listed[i].target)
           outcome == LineStatus(listed[i], targets, known)
<1>1. Len(listed) \in Nat /\ DOMAIN listed = 1..Len(listed)
  BY ListPlaces DEF PlanMade
<1>2. DOMAIN items = DOMAIN listed /\ items[i] = PlanItem(groups, rows, listed, i)
  BY DEF PlanItems
<1>3. plan.items = items /\ plan.settled = {j \in resolutions \cap DOMAIN items : items[j].resolvable}
  BY DEF PlanMade, MakePlan
<1>4. PlanItem(groups, rows, listed, i) = [entry |-> listed[i], targets |-> targets, known |-> known, status |-> outcome,
                                           resolvable |-> outcome = "conflict" /\ Resolvable(known)]
  BY DEF PlanItem
<1>5. i \in Nat \ {0}
  BY <1>1
<1> HIDE DEF items, known, targets, outcome
<1>6. /\ items[i].entry = listed[i] /\ items[i].targets = targets /\ items[i].known = known /\ items[i].status = outcome
      /\ items[i].resolvable = (outcome = "conflict" /\ Resolvable(known))
  BY <1>2, <1>4
<1>7. i \in plan.settled <=> i \in resolutions /\ outcome = "conflict" /\ Resolvable(known)
  BY <1>2, <1>3, <1>6
<1>8. plan.settled \subseteq resolutions \cap DOMAIN listed
  BY <1>2, <1>3
<1> QED BY <1>2, <1>3, <1>5, <1>6, <1>7, <1>8 DEF known, targets, outcome

(* Of the lines of a base one is the first.                                *)
LEMMA FirstAlike ==
  ASSUME NEW listed, IsList(listed), NEW groups, NEW i \in MappedLines(groups, listed)
  PROVE  \E j \in FirstLines(groups, listed) : j <= i /\ Alike(listed[j], listed[i])
<1> DEFINE S == {k \in MappedLines(groups, listed) : Alike(listed[k], listed[i])}
<1>1. Len(listed) \in Nat /\ DOMAIN listed = 1..Len(listed)
  BY ListPlaces
<1>2. S \in SUBSET (1..Len(listed)) /\ i \in S
  BY <1>1, AlikeIsTransitive DEF MappedLines, Alike
<1>3. PICK j \in S : \A k \in S : j <= k
  BY <1>1, <1>2, FirstIsIn
<1>4. \A k \in MappedLines(groups, listed) : k < j => ~Alike(listed[k], listed[j])
  <2>1. SUFFICES ASSUME NEW k \in MappedLines(groups, listed), k < j, Alike(listed[k], listed[j])
        PROVE  FALSE
    OBVIOUS
  <2>2. k \in S
    BY <2>1, AlikeIsTransitive
  <2>3. k \in Int /\ j \in Int /\ j <= k
    BY <1>1, <1>2, <1>3, <2>2
  <2> QED BY <2>1, <2>3
<1>5. j \in FirstLines(groups, listed)
  BY <1>4 DEF FirstLines
<1> QED BY <1>2, <1>3, <1>5

(* The lines that bring a row are first lines.                             *)
LEMMA BringingAre ==
  ASSUME NEW groups, NEW rows, NEW listed
  PROVE  Bringing(groups, rows, listed) = {i \in FirstLines(groups, listed) : \A row \in rows : ~Alike(row, listed[i])}
BY DEF Bringing, FirstLines

(* The lines that are new are the first of a base the operator has not.    *)
LEMMA NewLines ==
  ASSUME NEW plan, NEW listed, NEW groups, NEW rows, NEW resolutions, PlanMade(plan, listed, groups, rows, resolutions)
  PROVE  WithStatus(plan, "new") = Bringing(groups, rows, listed)
<1> DEFINE M == MappedLines(groups, listed)
           B == Bringing(groups, rows, listed)
           known(i) == KnownTo(groups, rows, listed, i)
<1>0. IsList(listed)
  BY DEF PlanMade
<1>00. Len(listed) \in Nat /\ DOMAIN listed = 1..Len(listed)
  BY <1>0, ListPlaces
<1>1. \A i \in DOMAIN listed : i \in M <=> TargetsOf(groups, listed[i].target) # {}
  BY DEF MappedLines
<1>2. ASSUME NEW i \in DOMAIN listed
      PROVE  plan.items[i].status = "new" <=> i \in M /\ known(i) = {}
  <2>1. plan.items[i].status = LineStatus(listed[i], TargetsOf(groups, listed[i].target), known(i))
    BY ItemIs
  <2> HIDE DEF M, known
  <2> QED BY <1>1, <2>1, StatusIs
<1>3. ASSUME NEW i \in DOMAIN listed
      PROVE  known(i) = {} <=> /\ \A row \in rows : ~Alike(row, listed[i])
                               /\ \A j \in B : j < i => ~Alike(listed[j], listed[i])
  BY DEF KnownTo
<1>4. B = {i \in FirstLines(groups, listed) : \A row \in rows : ~Alike(row, listed[i])} /\ FirstLines(groups, listed) \subseteq M
  BY BringingAre DEF FirstLines
<1>5. M \subseteq DOMAIN listed
  BY DEF MappedLines
<1> HIDE DEF B, known
<1>6. ASSUME NEW i \in B
      PROVE  i \in M /\ known(i) = {}
  <2>1. i \in FirstLines(groups, listed) /\ i \in M /\ i \in DOMAIN listed /\ \A row \in rows : ~Alike(row, listed[i])
    BY <1>4, <1>5
  <2>2. \A j \in B : j < i => ~Alike(listed[j], listed[i])
    BY <1>4, <2>1 DEF FirstLines
  <2> QED BY <2>1, <2>2, <1>3
<1>7. ASSUME NEW i \in M, known(i) = {}
      PROVE  i \in B
  <2>1. /\ i \in DOMAIN listed /\ \A row \in rows : ~Alike(row, listed[i])
        /\ \A j \in B : j < i => ~Alike(listed[j], listed[i])
    BY <1>3, <1>5, <1>7
  <2>2. PICK j \in FirstLines(groups, listed) : j <= i /\ Alike(listed[j], listed[i])
    BY <1>0, FirstAlike
  <2>3. \A row \in rows : ~Alike(row, listed[j])
    BY <2>1, <2>2, AlikeIsTransitive
  <2>4. j \in B
    BY <1>4, <2>3
  <2>5. j \in Int /\ i \in Int
    BY <1>00, <1>4, <1>5
  <2>6. j = i
    BY <2>1, <2>2, <2>4, <2>5
  <2> QED BY <2>4, <2>6
<1>8. B \subseteq DOMAIN listed
  BY <1>4, <1>5
<1>9. \A i : i \in WithStatus(plan, "new") <=> i \in DOMAIN listed /\ plan.items[i].status = "new"
  <2>1. CASE DOMAIN listed = {}
    <3>1. DOMAIN plan.items = DOMAIN listed
      BY DEF PlanMade, MakePlan, PlanItems
    <3> QED BY <3>1 DEF WithStatus
  <2>2. CASE DOMAIN listed # {}
    <3>1. DOMAIN plan.items = DOMAIN listed
      BY <2>2, ItemIs
    <3> QED BY <3>1 DEF WithStatus
  <2> QED BY <2>1, <2>2
<1>10. \A i : i \in WithStatus(plan, "new") <=> i \in M /\ known(i) = {}
  BY <1>2, <1>5, <1>9
<1>11. \A i : i \in WithStatus(plan, "new") <=> i \in B
  BY <1>6, <1>7, <1>10
<1>12. WithStatus(plan, "new") = B
  BY <1>11
<1> QED BY <1>12 DEF B

(* A row that an item of the plan applies to is one of its base, and free. *)
LEMMA FoundIsAlike ==
  ASSUME NEW plan, NEW listed, NEW groups, NEW rows, NEW resolutions, PlanMade(plan, listed, groups, rows, resolutions),
         NEW i \in DOMAIN listed, NEW row \in AppliesTo(plan.items[i], rows)
  PROVE  row \in rows /\ Alike(row, listed[i]) /\ ~row.managed
<1>1. PICK old \in KnownTo(groups, rows, listed, i) : Key(row) = Key(old)
  BY ItemIs DEF AppliesTo
<1>2. row \in rows /\ ~row.managed
  BY DEF AppliesTo
<1>3. CASE old \in rows /\ Alike(old, listed[i])
  BY <1>1, <1>2, <1>3 DEF PlanMade
<1>4. CASE \E j : old = RowOfLine(listed[j], TargetsOf(groups, listed[j].target))
  <2>1. PICK j : old = RowOfLine(listed[j], TargetsOf(groups, listed[j].target))
    BY <1>4
  <2>2. old.id = 0
    BY <2>1 DEF RowOfLine, EntryOf
  <2>3. row.id > 0
    BY <1>2 DEF PlanMade, OwnEntry, AnyEntry
  <2>4. row.id = old.id
    BY <1>1 DEF Key
  <2> QED BY <2>2, <2>3, <2>4
<1> QED BY <1>1, <1>2, <1>3, <1>4 DEF KnownTo

(* What a change of the import is about: a line whose group is known, the  *)
(* one row the operator has of its base, and what the line says of it.     *)
LEMMA ChangeMade ==
  ASSUME NEW plan, NEW listed, NEW groups, NEW rows, NEW resolutions, PlanMade(plan, listed, groups, rows, resolutions),
         NEW change \in Changes(plan, rows)
  PROVE  /\ change.before \in rows /\ OwnEntry(change.after) /\ Key(change.before) = Key(change.after)
         /\ Alike(change.after, change.before)
         /\ \E i \in resolutions \cap MappedLines(groups, listed) :
              /\ i \in plan.settled /\ plan.items[i].status = "conflict"
              /\ Alike(change.before, listed[i]) /\ ~change.before.managed
              /\ \A row \in rows : Alike(row, listed[i]) => row = change.before
              /\ change.after.target \in TargetsOf(groups, listed[i].target)
              /\ change.after.detail = listed[i].detail
<1>1. PICK i \in Applied(plan, rows) : change \in ChangesOf(plan.items[i], rows)
  BY DEF Changes
<1>2. \A row \in rows : OwnEntry(row)
  BY DEF PlanMade
<1> DEFINE new == RowOfLine(plan.items[i].entry, plan.items[i].targets)
<1>3. /\ change.before \in AppliesTo(plan.items[i], rows) /\ change.before \in rows
      /\ change.after = [change.before EXCEPT !.target = new.target, !.detail = new.detail]
      /\ OwnEntry(change.before) /\ OwnEntry(change.after) /\ Key(change.before) = Key(change.after)
  BY <1>1, <1>2, AppliedChange
<1>4. new.target = (CHOOSE id \in plan.items[i].targets : TRUE) /\ new.detail = plan.items[i].entry.detail
  BY RowOfLineIs DEF RowOfLine, EntryOf
<1> HIDE DEF new
<1>5. change.after = [id |-> change.before.id, kind |-> change.before.kind, base |-> change.before.base,
                      target |-> new.target, detail |-> new.detail,
                      managed |-> change.before.managed, marked |-> change.before.marked]
  BY <1>3, RowRedirected DEF OwnEntry
<1>6. change.after.target = new.target /\ change.after.detail = new.detail /\ Alike(change.after, change.before)
  BY <1>5 DEF Alike
<1>7. i \in plan.settled
  BY DEF Applied
<1>8. i \in DOMAIN listed
  <2>1. DOMAIN plan.items = DOMAIN listed /\ plan.settled \subseteq DOMAIN plan.items
    BY DEF PlanMade, MakePlan, PlanItems
  <2> QED BY <1>7, <2>1
<1>9. /\ plan.items[i].entry = listed[i] /\ plan.items[i].targets = TargetsOf(groups, listed[i].target)
      /\ plan.items[i].status = LineStatus(listed[i], TargetsOf(groups, listed[i].target), KnownTo(groups, rows, listed, i))
      /\ i \in resolutions /\ plan.items[i].status = "conflict"
  BY <1>7, <1>8, ItemIs
<1>10. TargetsOf(groups, listed[i].target) # {}
  BY <1>9, StatusIs
<1>11. i \in MappedLines(groups, listed)
  BY <1>8, <1>10 DEF MappedLines
<1>12. Alike(change.before, listed[i]) /\ ~change.before.managed
  BY <1>3, <1>8, FoundIsAlike
<1>13. \A row \in rows : Alike(row, listed[i]) => row = change.before
  BY <1>3, <1>9, <1>12 DEF PlanMade, OneOwnRow
<1>14. change.after.target \in TargetsOf(groups, listed[i].target) /\ change.after.detail = listed[i].detail
  BY <1>4, <1>6, <1>9, <1>10
<1> QED BY <1>3, <1>6, <1>7, <1>9, <1>11, <1>12, <1>13, <1>14

(* What is known of the base of a first line are rows of the operator.     *)
LEMMA KnownToFirst ==
  ASSUME NEW listed, NEW groups, NEW rows, NEW i \in FirstLines(groups, listed)
  PROVE  KnownTo(groups, rows, listed, i) = {row \in rows : Alike(row, listed[i])}
BY DEF KnownTo, Bringing, FirstLines

(* The first of what the file says of a base is never missed if settled.   *)
LEMMA FirstIsApplied ==
  ASSUME NEW plan, NEW listed, NEW groups, NEW rows, NEW resolutions, PlanMade(plan, listed, groups, rows, resolutions),
         NEW i \in FirstLines(groups, listed), i \in plan.settled
  PROVE  i \in Applied(plan, rows)
<1>1. i \in MappedLines(groups, listed) /\ i \in DOMAIN listed
  BY DEF FirstLines, MappedLines
<1>2. /\ i \in resolutions /\ plan.items[i].known = {row \in rows : Alike(row, listed[i])}
      /\ plan.items[i].status = LineStatus(listed[i], TargetsOf(groups, listed[i].target), KnownTo(groups, rows, listed, i))
      /\ plan.items[i].status = "conflict" /\ plan.settled \subseteq resolutions \cap DOMAIN listed
  BY <1>1, ItemIs, KnownToFirst
<1>20. LineStatus(listed[i], TargetsOf(groups, listed[i].target), KnownTo(groups, rows, listed, i)) = "conflict"
  BY <1>2
<1>3. KnownTo(groups, rows, listed, i) # {}
  BY <1>20, StatusIs
<1>4. PICK row \in rows : Alike(row, listed[i]) /\ row \in plan.items[i].known
  BY <1>2, <1>3, KnownToFirst
<1>5. ~row.managed
  BY <1>2, <1>4 DEF PlanMade, OneOwnRow
<1>6. row \in AppliesTo(plan.items[i], rows)
  BY <1>4, <1>5 DEF AppliesTo
<1>7. ASSUME NEW j \in plan.settled, j < i
      PROVE  AppliesTo(plan.items[i], rows) \cap AppliesTo(plan.items[j], rows) = {}
  <2>1. SUFFICES ASSUME NEW r \in AppliesTo(plan.items[i], rows), r \in AppliesTo(plan.items[j], rows)
        PROVE  FALSE
    OBVIOUS
  <2>2. j \in DOMAIN listed
    BY <1>2
  <2>3. Alike(r, listed[i]) /\ Alike(r, listed[j])
    BY <1>1, <2>1, <2>2, FoundIsAlike
  <2>4. /\ plan.items[j].status = LineStatus(listed[j], TargetsOf(groups, listed[j].target), KnownTo(groups, rows, listed, j))
        /\ plan.items[j].status = "conflict"
    BY <2>2, ItemIs
  <2>7. LineStatus(listed[j], TargetsOf(groups, listed[j].target), KnownTo(groups, rows, listed, j)) = "conflict"
    BY <2>4
  <2>8. TargetsOf(groups, listed[j].target) # {}
    BY <2>7, StatusIs
  <2>5. j \in MappedLines(groups, listed)
    BY <2>2, <2>8 DEF MappedLines
  <2>6. Alike(listed[j], listed[i])
    BY <2>3, AlikeIsTransitive
  <2> QED BY <1>7, <2>5, <2>6 DEF FirstLines
<1> QED BY <1>6, <1>7 DEF Applied

(* Two sets are as large when each of the one stands for one of the other. *)
LEMMA CountedAlike ==
  ASSUME NEW S, IsFiniteSet(S), NEW T, NEW f \in [S -> T], \A a, b \in S : f[a] = f[b] => a = b,
         \A t \in T : \E a \in S : f[a] = t
  PROVE  IsFiniteSet(T) /\ Cardinality(T) = Cardinality(S)
<1>1. f \in Bijection(S, T)
  BY DEF Bijection, Injection, Surjection, IsInjective
<1>2. ExistsBijection(S, T)
  BY <1>1 DEF ExistsBijection
<1> QED BY <1>2, FS_Bijection

(* The places of a plan are numbers, and finitely many.                    *)
LEMMA PlanMadeFits ==
  ASSUME NEW plan, NEW listed, NEW groups, NEW rows, NEW resolutions, PlanMade(plan, listed, groups, rows, resolutions)
  PROVE  /\ DOMAIN plan.items = DOMAIN listed /\ DOMAIN listed \subseteq Nat \ {0} /\ IsFiniteSet(DOMAIN listed)
         /\ plan.settled \subseteq Int /\ plan.settled \subseteq DOMAIN listed
         /\ \A outcome : WithStatus(plan, outcome) \subseteq DOMAIN listed
<1>1. Len(listed) \in Nat /\ DOMAIN listed = 1..Len(listed) /\ IsFiniteSet(DOMAIN listed)
  BY ListPlaces DEF PlanMade
<1>2. DOMAIN plan.items = DOMAIN listed /\ plan.settled \subseteq DOMAIN listed
  BY DEF PlanMade, MakePlan, PlanItems
<1>3. DOMAIN listed \subseteq Nat \ {0}
  BY <1>1
<1>4. \A outcome : WithStatus(plan, outcome) \subseteq DOMAIN listed
  BY <1>2 DEF WithStatus
<1> QED BY <1>1, <1>2, <1>3, <1>4

(* The row a new line brings is one of its base, with one of its groups.   *)
StandsFor(row, entry, targets) == Alike(row, entry) /\ row.target \in targets /\ row.detail = entry.detail
LEMMA BroughtIs ==
  ASSUME NEW plan, NEW listed, NEW groups, NEW rows, NEW resolutions, PlanMade(plan, listed, groups, rows, resolutions),
         NEW i \in Bringing(groups, rows, listed)
  PROVE  /\ NewEntry(plan.items[i], i) \in Inserted(plan) /\ NewEntry(plan.items[i], i).marked = TRUE
         /\ NewEntry(plan.items[i], i).id = -i /\ Alike(NewEntry(plan.items[i], i), listed[i])
         /\ StandsFor(NewEntry(plan.items[i], i), listed[i], TargetsOf(groups, listed[i].target))
         /\ i \in DOMAIN listed /\ i \in Nat \ {0}
<1>1. i \in WithStatus(plan, "new") /\ i \in DOMAIN listed /\ TargetsOf(groups, listed[i].target) # {}
  BY NewLines DEF Bringing, MappedLines
<1>2. i \in Nat \ {0} /\ plan.items[i].entry = listed[i] /\ plan.items[i].targets = TargetsOf(groups, listed[i].target)
  BY <1>1, ItemIs
<1>3. /\ NewEntry(plan.items[i], i).marked = TRUE /\ NewEntry(plan.items[i], i).id = -i
      /\ NewEntry(plan.items[i], i).kind = listed[i].kind /\ NewEntry(plan.items[i], i).base = listed[i].base
      /\ NewEntry(plan.items[i], i).target = (CHOOSE id \in TargetsOf(groups, listed[i].target) : TRUE)
      /\ NewEntry(plan.items[i], i).detail = listed[i].detail
  <2> DEFINE item == plan.items[i]
  <2>1. item.entry = listed[i] /\ item.targets = TargetsOf(groups, listed[i].target)
    BY <1>2
  <2> HIDE DEF item
  <2>2. /\ NewEntry(item, i).marked = TRUE /\ NewEntry(item, i).id = -i
        /\ NewEntry(item, i).kind = item.entry.kind /\ NewEntry(item, i).base = item.entry.base
        /\ NewEntry(item, i).target = (CHOOSE id \in item.targets : TRUE) /\ NewEntry(item, i).detail = item.entry.detail
    BY <1>2, NewEntryIs
  <2>3. /\ NewEntry(item, i).kind = listed[i].kind /\ NewEntry(item, i).base = listed[i].base
        /\ NewEntry(item, i).target = (CHOOSE id \in TargetsOf(groups, listed[i].target) : TRUE)
        /\ NewEntry(item, i).detail = listed[i].detail
    BY <2>1, <2>2
  <2> QED BY <2>2, <2>3 DEF item
<1>4. (CHOOSE id \in TargetsOf(groups, listed[i].target) : TRUE) \in TargetsOf(groups, listed[i].target)
  BY <1>1
<1>5. NewEntry(plan.items[i], i) \in Inserted(plan)
  BY <1>1, InsertedAre
<1> QED BY <1>1, <1>2, <1>3, <1>4, <1>5 DEF Alike, StandsFor

(* Every row that comes is that of such a line.                            *)
LEMMA InsertedIs ==
  ASSUME NEW plan, NEW listed, NEW groups, NEW rows, NEW resolutions, PlanMade(plan, listed, groups, rows, resolutions),
         NEW row \in Inserted(plan)
  PROVE  \E i \in Bringing(groups, rows, listed) : row = NewEntry(plan.items[i], i)
BY NewLines, InsertedAre

(* So many rows come as the plan says.                                     *)
LEMMA MarkedRows ==
  ASSUME NEW plan, NEW listed, NEW groups, NEW rows, NEW resolutions, PlanMade(plan, listed, groups, rows, resolutions)
  PROVE  Cardinality(WithStatus(plan, "new")) = Cardinality({row \in Written(rows, plan) : row.marked})
<1> DEFINE S == WithStatus(plan, "new")
           T == {row \in Written(rows, plan) : row.marked}
           f == [i \in S |-> NewEntry(plan.items[i], i)]
<1>1. S = Bringing(groups, rows, listed)
  BY NewLines
<1>2. IsFiniteSet(S)
  BY PlanMadeFits, FS_Subset
<1>3. \A row \in rows : row.marked = FALSE
  BY DEF PlanMade, OwnEntry
<1>4. ASSUME NEW change \in Changes(plan, rows)
      PROVE  change.after.marked = FALSE
  <2>1. OwnEntry(change.after)
    BY ChangeMade
  <2> QED BY <2>1 DEF OwnEntry
<1>5. \A i \in S : NewEntry(plan.items[i], i) \in Inserted(plan) /\ NewEntry(plan.items[i], i).marked = TRUE
                   /\ NewEntry(plan.items[i], i).id = -i /\ i \in Nat \ {0}
  BY <1>1, BroughtIs
<1>6. \A row \in Inserted(plan) : \E i \in S : row = NewEntry(plan.items[i], i)
  BY InsertedAre
<1>7. \A row : row \in T <=> row \in Inserted(plan)
  BY <1>3, <1>4, <1>5, <1>6 DEF Written
<1> HIDE DEF S, T
<1>8. f \in [S -> T]
  BY <1>5, <1>7
<1>9. \A a, b \in S : f[a] = f[b] => a = b
  <2>1. \A x, y \in Int : -x = -y => x = y
    OBVIOUS
  <2>2. ASSUME NEW a \in S, NEW b \in S, f[a] = f[b]
        PROVE  a = b
    <3>1. -a = -b
      BY <2>2, <1>5
    <3>2. a \in Int /\ b \in Int
      BY <1>5
    <3> QED BY <2>1, <3>1, <3>2
  <2> QED BY <2>2
<1>10. \A t \in T : \E a \in S : f[a] = t
  BY <1>6, <1>7
<1> HIDE DEF f
<1> QED BY <1>2, <1>8, <1>9, <1>10, CountedAlike DEF S, T

(* A rule of the file whose group is known never gets a second row.        *)
LEMMA RowsOfLine ==
  ASSUME NEW plan, NEW listed, NEW groups, NEW rows, NEW resolutions, PlanMade(plan, listed, groups, rows, resolutions),
         NEW i \in MappedLines(groups, listed)
  PROVE  Cardinality({row \in Written(rows, plan) : Alike(row, listed[i])})
           = IF {row \in rows : Alike(row, listed[i])} = {} THEN 1 ELSE Cardinality({row \in rows : Alike(row, listed[i])})
<1> DEFINE S == {row \in rows : Alike(row, listed[i])}
           T == {row \in Written(rows, plan) : Alike(row, listed[i])}
           changes == Changes(plan, rows)
           B == Bringing(groups, rows, listed)
<1>0. IsList(listed) /\ \A row \in rows : OwnEntry(row)
  BY DEF PlanMade
<1>1. ASSUME NEW change \in changes
      PROVE  /\ change.before \in rows /\ Key(change.before) = Key(change.after)
             /\ Alike(change.after, change.before)
  BY ChangeMade
<1>2. ASSUME NEW k \in B
      PROVE  /\ k \in FirstLines(groups, listed) /\ NewEntry(plan.items[k], k) \in Inserted(plan)
             /\ Alike(NewEntry(plan.items[k], k), listed[k]) /\ \A row \in rows : ~Alike(row, listed[k])
  <2>1. NewEntry(plan.items[k], k) \in Inserted(plan) /\ Alike(NewEntry(plan.items[k], k), listed[k])
    BY BroughtIs
  <2>2. k \in FirstLines(groups, listed) /\ \A row \in rows : ~Alike(row, listed[k])
    BY BringingAre
  <2> QED BY <2>1, <2>2
<1>3. \A row \in Inserted(plan) : \E k \in B : row = NewEntry(plan.items[k], k)
  BY InsertedIs
<1>4. \A row : row \in Written(rows, plan) <=> \/ row \in rows /\ \A change \in changes : change.before # row
                                              \/ (\E change \in changes : row = change.after)
                                              \/ row \in Inserted(plan)
  BY DEF Written
<1>5. PICK j \in FirstLines(groups, listed) : j <= i /\ Alike(listed[j], listed[i])
  BY <1>0, FirstAlike
<1>6. \A x, y : Alike(x, y) <=> Alike(y, x)
  BY AlikeIsTransitive
<1>7. \A x, y, z : Alike(x, y) /\ Alike(y, z) => Alike(x, z)
  BY AlikeIsTransitive
<1> HIDE DEF changes, B
<1>8. CASE S = {}
  <2>1. \A row \in rows : ~Alike(row, listed[i])
    BY <1>8
  <2>2. j \in B
    <3>1. \A row \in rows : ~Alike(row, listed[j])
      BY <2>1, <1>5, <1>7
    <3> QED BY <3>1, <1>5, BringingAre DEF B
  <2> DEFINE new == NewEntry(plan.items[j], j)
  <2>3. new \in Written(rows, plan) /\ Alike(new, listed[i])
    BY <1>2, <1>4, <1>5, <1>7, <2>2
  <2>4. ASSUME NEW row \in Written(rows, plan), Alike(row, listed[i])
        PROVE  row = new
    <3>1. row \notin rows
      BY <2>1, <2>4
    <3>2. ~\E change \in changes : row = change.after
      <4>1. SUFFICES ASSUME NEW change \in changes, row = change.after
            PROVE  FALSE
        OBVIOUS
      <4>2. change.before \in rows /\ Alike(change.before, row)
        BY <1>1, <1>6, <4>1
      <4> QED BY <2>1, <2>4, <4>2, <1>7
    <3>3. PICK k \in B : row = NewEntry(plan.items[k], k)
      BY <1>3, <1>4, <2>4, <3>1, <3>2
    <3>4. k \in FirstLines(groups, listed) /\ Alike(listed[k], listed[j])
      <4>1. Alike(listed[k], row)
        BY <1>2, <1>6, <3>3
      <4>2. Alike(listed[i], listed[j])
        BY <1>5, <1>6
      <4>3. Alike(listed[k], listed[i])
        BY <4>1, <2>4, <1>7
      <4> QED BY <1>2, <1>7, <4>2, <4>3
    <3>5. Alike(listed[j], listed[k])
      BY <3>4, <1>6
    <3>6. ~(k < j) /\ ~(j < k)
      BY <1>5, <3>4, <3>5 DEF FirstLines
    <3>7. k \in DOMAIN listed /\ j \in DOMAIN listed
      BY <1>5, <3>4 DEF FirstLines, MappedLines
    <3>8. k \in Nat /\ j \in Nat
      BY <3>7, PlanMadeFits
    <3>9. k = j
      BY <3>6, <3>8
    <3> QED BY <3>3, <3>9
  <2> HIDE DEF new
  <2>5. T = {new}
    BY <2>3, <2>4
  <2>6. Cardinality(T) = 1
    BY <2>5, FS_Singleton
  <2> QED BY <1>8, <2>6
<1>9. CASE S # {}
  <2>1. PICK some \in rows : Alike(some, listed[i])
    BY <1>9
  <2>2. ASSUME NEW row \in Inserted(plan)
        PROVE  ~Alike(row, listed[i])
    <3>1. PICK k \in B : row = NewEntry(plan.items[k], k)
      BY <1>3
    <3>2. SUFFICES ASSUME Alike(row, listed[i])
          PROVE  FALSE
      OBVIOUS
    <3>3. Alike(listed[i], row) /\ Alike(row, listed[k])
      BY <3>1, <3>2, <1>2, <1>6
    <3>4. Alike(some, listed[k])
      BY <2>1, <3>3, <1>7
    <3> QED BY <1>2, <3>4
  <2> DEFINE now(row) == IF \E change \in changes : change.before = row
                         THEN (CHOOSE change \in changes : change.before = row).after ELSE row
             f == [row \in S |-> now(row)]
  <2>3. ASSUME NEW row \in rows
        PROVE  /\ now(row) \in Written(rows, plan) /\ Alike(now(row), row) /\ Key(now(row)) = Key(row)
    <3>1. CASE \E change \in changes : change.before = row
      <4>1. PICK change \in changes : change.before = row /\ now(row) = change.after
        BY <3>1
      <4> QED BY <4>1, <1>1, <1>4
    <3>2. CASE \A change \in changes : change.before # row
      BY <3>2, <1>4 DEF Alike
    <3> QED BY <3>1, <3>2
  <2>4. ASSUME NEW row \in T
        PROVE  \E old \in S : now(old) = row
    <3>1. row \in Written(rows, plan) /\ Alike(row, listed[i]) /\ row \notin Inserted(plan)
      BY <2>2
    <3>2. CASE row \in rows /\ \A change \in changes : change.before # row
      BY <3>1, <3>2
    <3>3. CASE \E change \in changes : row = change.after
      <4>1. PICK change \in changes : row = change.after
        BY <3>3
      <4>2. change.before \in rows /\ Alike(change.before, row)
        BY <4>1, <1>1, <1>6
      <4>3. change.before \in S
        BY <3>1, <4>2, <1>7
      <4>4. PICK other \in changes : other.before = change.before /\ now(change.before) = other.after
        OBVIOUS
      <4>5. other = change
        BY <4>4, PlanMadeFits, AppliedChanges DEF PlanMade, ChangesFit, changes
      <4> QED BY <4>1, <4>3, <4>4, <4>5
    <3> QED BY <3>1, <3>2, <3>3, <1>4
  <2>5. \A row, other \in rows : Key(row) = Key(other) => row = other
    BY DEF PlanMade
  <2> HIDE DEF now
  <2>6. \A a \in S : now(a) \in T
    BY <2>3, <1>7
  <2>7. f \in [S -> T] /\ \A t \in T : \E a \in S : f[a] = t
    BY <2>4, <2>6
  <2>8. \A a, b \in S : f[a] = f[b] => a = b
    BY <2>3, <2>5
  <2>9. IsFiniteSet(S)
    <3>1. IsFiniteSet(rows) /\ S \in SUBSET rows
      BY DEF PlanMade
    <3> QED BY <3>1, FS_Subset
  <2> HIDE DEF S, T, f
  <2>10. Cardinality(T) = Cardinality(S)
    BY <2>7, <2>8, <2>9, CountedAlike
  <2> QED BY <1>9, <2>10 DEF S, T
<1> QED BY <1>8, <1>9

(* The first of what a file says of a base is stored then, overruled by a  *)
(* later line, or a conflict the operator left.                            *)
LEMMA FirstIsMet ==
  ASSUME NEW plan, NEW listed, NEW groups, NEW rows, NEW resolutions, PlanMade(plan, listed, groups, rows, resolutions),
         NEW i \in FirstLines(groups, listed)
  PROVE  \/ \E row \in Written(rows, plan) : /\ Alike(row, listed[i]) /\ row.detail = listed[i].detail
                                             /\ row.target \in TargetsOf(groups, listed[i].target)
         \/ \E j \in resolutions \cap MappedLines(groups, listed) : j > i /\ Alike(listed[j], listed[i])
         \/ i \in WithStatus(plan, "conflict") /\ i \notin plan.settled /\ i \notin resolutions
<1> DEFINE targets == TargetsOf(groups, listed[i].target)
           known == KnownTo(groups, rows, listed, i)
           outcome == LineStatus(listed[i], targets, known)
           met == \E row \in Written(rows, plan) : /\ Alike(row, listed[i]) /\ row.detail = listed[i].detail
                                                   /\ row.target \in targets
           overruled == \E j \in resolutions \cap MappedLines(groups, listed) : j > i /\ Alike(listed[j], listed[i])
<1>0. \A x, y : Alike(x, y) <=> Alike(y, x)
  BY AlikeIsTransitive
<1>00. \A x, y, z : Alike(x, y) /\ Alike(y, z) => Alike(x, z)
  BY AlikeIsTransitive
<1>1. i \in MappedLines(groups, listed) /\ i \in DOMAIN listed /\ targets # {}
  BY DEF FirstLines, MappedLines
<1>2. known = {row \in rows : Alike(row, listed[i])}
  BY KnownToFirst
<1>3. plan.items[i].status = outcome /\ DOMAIN plan.items = DOMAIN listed
  BY <1>1, ItemIs
<1>4. \A row : row \in Written(rows, plan) <=> \/ row \in rows /\ \A change \in Changes(plan, rows) : change.before # row
                                              \/ (\E change \in Changes(plan, rows) : row = change.after)
                                              \/ row \in Inserted(plan)
  BY DEF Written
<1>5. CASE known = {}
  <2>1. i \in Bringing(groups, rows, listed)
    BY <1>2, <1>5, BringingAre
  <2> DEFINE new == NewEntry(plan.items[i], i)
  <2>2. new \in Inserted(plan) /\ Alike(new, listed[i]) /\ new.target \in targets /\ new.detail = listed[i].detail
    <3> HIDE DEF met, overruled, known, outcome
    <3>1. new \in Inserted(plan)
      BY <2>1, BroughtIs
    <3>2. Alike(new, listed[i])
      BY <2>1, BroughtIs
    <3>3. StandsFor(new, listed[i], targets)
      BY <2>1, BroughtIs
    <3> HIDE DEF new, targets
    <3> QED BY <3>1, <3>2, <3>3 DEF StandsFor
  <2> HIDE DEF new, targets
  <2>3. new \in Written(rows, plan)
    BY <1>4, <2>2
  <2>4. met
    BY <2>2, <2>3
  <2> QED BY <2>4 DEF targets
<1>6. CASE SameAs(listed[i], targets, known)
  <2>1. PICK row \in rows : Alike(row, listed[i]) /\ row.target \in targets /\ row.detail = listed[i].detail
    BY <1>2, <1>6 DEF SameAs
  <2>2. CASE row \in Written(rows, plan)
    <3>1. met
      BY <2>1, <2>2
    <3> QED BY <3>1
  <2>3. CASE row \notin Written(rows, plan)
    <3>1. PICK change \in Changes(plan, rows) : change.before = row
      BY <1>4, <2>3
    <3>2. PICK k \in resolutions \cap MappedLines(groups, listed) :
            plan.items[k].status = "conflict" /\ Alike(change.before, listed[k])
      BY ChangeMade
    <3>3. Alike(listed[k], listed[i])
      BY <2>1, <3>1, <3>2, <1>0, <1>00
    <3>4. ~(k < i)
      BY <3>3 DEF FirstLines
    <3>5. k # i
      <4>1. outcome # "conflict"
        <5>1. LineStatus(listed[i], targets, known) = "duplicate"
          BY <1>1, <1>6, StatusIs
        <5> QED BY <5>1
      <4> QED BY <4>1, <1>3, <3>2
    <3>6. k \in DOMAIN listed
      BY DEF MappedLines
    <3>7. k \in Nat /\ i \in Nat
      BY <3>6, <1>1, PlanMadeFits
    <3>8. k > i
      BY <3>4, <3>5, <3>7
    <3>9. overruled
      BY <3>3, <3>8
    <3> QED BY <3>9
  <2> QED BY <2>2, <2>3
<1>7. CASE known # {} /\ ~SameAs(listed[i], targets, known)
  <2>1. LineStatus(listed[i], targets, known) = "conflict"
    BY <1>1, <1>7, StatusIs
  <2>2. i \in WithStatus(plan, "conflict")
    BY <1>1, <1>3, <2>1 DEF WithStatus
  <2>3. CASE i \notin resolutions
    <3>1. i \notin plan.settled
      BY <2>3, PlanMadeFits DEF PlanMade, MakePlan
    <3> QED BY <2>2, <2>3, <3>1
  <2>4. CASE i \in resolutions
    <3>1. Resolvable(known)
      <4>1. PICK old \in rows : Alike(old, listed[i])
        BY <1>2, <1>7
      <4>2. \A row \in rows : Alike(row, listed[i]) => row = old /\ ~row.managed /\ row.id # 0
        <5>1. \A row \in rows : row.id \in Int /\ row.id > 0
          BY DEF PlanMade, OwnEntry, AnyEntry
        <5> QED BY <2>4, <4>1, <5>1 DEF PlanMade, OneOwnRow
      <4>3. known = {old}
        BY <1>2, <4>1, <4>2
      <4>4. Cardinality(known) = 1
        BY <4>3, FS_Singleton
      <4> QED BY <4>2, <4>3, <4>4, <4>1 DEF Resolvable
    <3>2. i \in plan.settled
      <4>1. plan.items[i].status = "conflict"
        BY <1>3, <2>1
      <4> QED BY <1>1, <2>4, <3>1, <4>1, ItemIs
    <3>3. i \in Applied(plan, rows)
      BY <3>2, FirstIsApplied
    <3>4. PICK old : old \in AppliesTo(plan.items[i], rows)
      BY <3>3 DEF Applied
    <3>5. Alike(old, listed[i])
      BY <1>1, <3>4, FoundIsAlike
    <3> DEFINE item == plan.items[i]
               row == RowOfLine(item.entry, item.targets)
               change == [before |-> old, after |-> [old EXCEPT !.target = row.target, !.detail = row.detail]]
    <3>6. change \in ChangesOf(item, rows)
      BY <3>4 DEF ChangesOf
    <3>7. change \in Changes(plan, rows)
      BY <3>3, <3>6 DEF Changes
    <3>8. OwnEntry(old) /\ AnyEntry(old)
      BY <3>4 DEF AppliesTo, PlanMade, OwnEntry
    <3>9. row.target = (CHOOSE id \in item.targets : TRUE) /\ row.detail = item.entry.detail
      BY DEF RowOfLine, EntryOf
    <3>10. item.entry = listed[i] /\ item.targets = targets
      BY <1>1, ItemIs
    <3> HIDE DEF item, row
    <3>11. /\ change.after = [id |-> old.id, kind |-> old.kind, base |-> old.base, target |-> row.target,
                              detail |-> row.detail, managed |-> old.managed, marked |-> old.marked]
      BY <3>8, RowRedirected
    <3> HIDE DEF change
    <3>12. Alike(change.after, old) /\ change.after.target = row.target /\ change.after.detail = row.detail
      BY <3>11 DEF Alike
    <3>13. Alike(change.after, listed[i]) /\ change.after.detail = listed[i].detail
      BY <3>5, <3>9, <3>10, <3>12, <1>00
    <3>14. change.after.target \in targets
      <4>1. (CHOOSE id \in targets : TRUE) \in targets
        BY <1>1
      <4> QED BY <3>9, <3>10, <3>12, <4>1
    <3>15. change.after \in Written(rows, plan)
      BY <3>7, <1>4
    <3>16. met
      BY <3>13, <3>14, <3>15
    <3> QED BY <3>16
  <2> QED BY <2>3, <2>4
<1> QED BY <1>5, <1>6, <1>7

(* What was changed of the operator's is what he settled.                  *)
LEMMA ChangedRows ==
  ASSUME NEW plan, NEW listed, NEW groups, NEW rows, NEW resolutions, PlanMade(plan, listed, groups, rows, resolutions),
         NEW row \in rows, row \notin Written(rows, plan)
  PROVE  \E i \in resolutions \cap MappedLines(groups, listed) :
           /\ {old \in rows : Alike(old, listed[i])} = {row} /\ ~row.managed
           /\ \E now \in Written(rows, plan) : /\ Alike(now, listed[i]) /\ now.id = row.id
                                               /\ now.target \in TargetsOf(groups, listed[i].target)
<1>1. PICK change \in Changes(plan, rows) : change.before = row
  BY DEF Written
<1>2. Key(change.before) = Key(change.after) /\ Alike(change.after, change.before)
  BY ChangeMade
<1>3. PICK i \in resolutions \cap MappedLines(groups, listed) :
        /\ Alike(change.before, listed[i]) /\ ~change.before.managed
        /\ \A old \in rows : Alike(old, listed[i]) => old = change.before
        /\ change.after.target \in TargetsOf(groups, listed[i].target)
  BY ChangeMade
<1>4. change.after \in Written(rows, plan)
  BY DEF Written
<1>5. Alike(change.after, listed[i]) /\ change.after.id = row.id
  BY <1>1, <1>2, <1>3, AlikeIsTransitive DEF Key
<1>6. {old \in rows : Alike(old, listed[i])} = {row} /\ ~row.managed
  BY <1>1, <1>3
<1> QED BY <1>3, <1>4, <1>5, <1>6

(* The conflicts the operator left are counted.                            *)
LEMMA LeftConflicts ==
  ASSUME NEW plan, NEW listed, NEW groups, NEW rows, NEW resolutions, PlanMade(plan, listed, groups, rows, resolutions),
         NEW left, \A i \in left : i \in WithStatus(plan, "conflict") /\ i \notin plan.settled
  PROVE  Cardinality(left) <= Cardinality(WithStatus(plan, "conflict")) - Cardinality(Applied(plan, rows))
<1> DEFINE all == WithStatus(plan, "conflict")
           applied == Applied(plan, rows)
<1>1. IsFiniteSet(all)
  BY PlanMadeFits, FS_Subset
<1>2. ASSUME NEW i \in applied
      PROVE  i \in plan.settled /\ i \in all
  <2>1. i \in plan.settled /\ i \in DOMAIN listed
    BY PlanMadeFits DEF Applied
  <2>2. plan.items[i].status = "conflict" /\ DOMAIN plan.items = DOMAIN listed
    BY <2>1, ItemIs
  <2> QED BY <2>1, <2>2 DEF WithStatus
<1>3. all \cap applied = applied /\ left \in SUBSET (all \ applied)
  BY <1>2
<1> HIDE DEF all, applied
<1>4. IsFiniteSet(all \ applied) /\ Cardinality(all \ applied) = Cardinality(all) - Cardinality(applied)
  BY <1>1, <1>3, FS_Difference
<1>5. Cardinality(left) <= Cardinality(all \ applied)
  BY <1>3, <1>4, FS_Subset
<1> QED BY <1>4, <1>5 DEF all, applied

(* The nodes that come are those of the file that are new, each once.      *)
StrangersOf(given, rows) ==
    {node \in ToSet(given) : \A row \in rows : row.name # node.name /\ row.endpoint # node.endpoint}
LEMMA NewNodesAre ==
  ASSUME NEW given, IsList(given), NEW rows
  PROVE  LET added == ToSet(NewNodes(given, rows))
         IN  /\ Len(NewNodes(given, rows)) = Cardinality({ExactKey(node) : node \in added})
             /\ {ExactKey(node) : node \in added} = {ExactKey(node) : node \in StrangersOf(given, rows)}
<1> DEFINE isNew(i) == ClassifyNode(given[i], rows, {given[j] : j \in 1..(i - 1)}) = "new"
           places == {i \in DOMAIN given : isNew(i)}
           placed == Placed(given, places)
           stranger(node) == \A row \in rows : row.name # node.name /\ row.endpoint # node.endpoint
           keys == {ExactKey(node) : node \in ToSet(placed)}
<1>1. Len(given) \in Nat /\ DOMAIN given = 1..Len(given)
  BY ListPlaces
<1>2. ASSUME NEW i \in DOMAIN given
      PROVE  isNew(i) <=> stranger(given[i]) /\ \A j \in 1..(i - 1) : ExactKey(given[j]) # ExactKey(given[i])
  <2> DEFINE seen == {given[j] : j \in 1..(i - 1)}
             twins == {other \in rows \cup seen : ExactKey(other) = ExactKey(given[i])}
  <2>1. isNew(i) <=> twins = {} /\ stranger(given[i])
    BY DEF ClassifyNode
  <2>2. \A row \in rows : ExactKey(row) = ExactKey(given[i]) => row.name = given[i].name
    BY DEF ExactKey
  <2>3. twins = {} <=> /\ \A row \in rows : ExactKey(row) # ExactKey(given[i])
                       /\ \A j \in 1..(i - 1) : ExactKey(given[j]) # ExactKey(given[i])
    OBVIOUS
  <2> HIDE DEF twins, isNew
  <2> QED BY <2>1, <2>2, <2>3
<1>3. NewNodes(given, rows) = placed
  BY DEF NewNodes
<1> HIDE DEF isNew
<1>4. places \in SUBSET DOMAIN given
  OBVIOUS
<1> HIDE DEF places
<1>5. IsList(placed) /\ ToSet(placed) = {given[i] : i \in places}
  BY <1>4, PlacedLists
<1>6. ASSUME NEW i \in DOMAIN placed, NEW j \in DOMAIN placed, ExactKey(placed[i]) = ExactKey(placed[j])
      PROVE  i = j
  <2>1. PICK a \in places, b \in places : placed[i] = given[a] /\ placed[j] = given[b] /\ (a = b => i = j)
    BY <1>4, PlacedOnce
  <2>2. a \in 1..Len(given) /\ b \in 1..Len(given)
    BY <1>1, <1>4
  <2>3. ~(a < b) /\ ~(b < a)
    <3>1. \A k \in 1..(a - 1) : ExactKey(given[k]) # ExactKey(given[a])
      BY <1>1, <1>2, <2>2 DEF places
    <3>2. \A k \in 1..(b - 1) : ExactKey(given[k]) # ExactKey(given[b])
      BY <1>1, <1>2, <2>2 DEF places
    <3>3. a < b => a \in 1..(b - 1)
      BY <1>1, <2>2
    <3>4. b < a => b \in 1..(a - 1)
      BY <1>1, <2>2
    <3> QED BY <1>6, <2>1, <3>1, <3>2, <3>3, <3>4
  <2> QED BY <1>1, <2>1, <2>2, <2>3
<1> HIDE DEF placed
<1>7. Len(placed) = Cardinality(keys)
  <2> DEFINE S == 1..Len(placed)
             f == [i \in S |-> ExactKey(placed[i])]
  <2>1. Len(placed) \in Nat /\ DOMAIN placed = S /\ \A i \in S : placed[i] \in ToSet(placed)
    BY <1>5, ListPlaces
  <2>2. f \in [S -> keys]
    BY <2>1
  <2>3. \A t \in keys : \E i \in S : f[i] = t
    BY <2>1 DEF ToSet
  <2>4. \A a, b \in S : f[a] = f[b] => a = b
    BY <1>6, <2>1
  <2>5. IsFiniteSet(S) /\ Cardinality(S) = Len(placed)
    BY <2>1, FS_Interval
  <2> HIDE DEF f, keys, S
  <2> QED BY <2>2, <2>3, <2>4, <2>5, CountedAlike
<1>8. ASSUME NEW node \in ToSet(given), stranger(node)
      PROVE  \E other \in ToSet(placed) : ExactKey(other) = ExactKey(node)
  <2> DEFINE same == {i \in 1..Len(given) : ExactKey(given[i]) = ExactKey(node)}
  <2>1. same \in SUBSET (1..Len(given)) /\ same # {}
    BY <1>1 DEF ToSet
  <2>2. PICK j \in same : \A k \in same : j <= k
    BY <1>1, <2>1, FirstIsIn
  <2>3. given[j].name = node.name /\ given[j].endpoint = node.endpoint /\ ExactKey(given[j]) = ExactKey(node)
    BY <2>2 DEF ExactKey
  <2>4. stranger(given[j])
    BY <1>8, <2>3
  <2>5. \A k \in 1..(j - 1) : ExactKey(given[k]) # ExactKey(given[j])
    <3>1. SUFFICES ASSUME NEW k \in 1..(j - 1), ExactKey(given[k]) = ExactKey(given[j])
          PROVE  FALSE
      OBVIOUS
    <3>2. j \in 1..Len(given)
      BY <2>2
    <3>3. k \in 1..Len(given) /\ k < j
      BY <1>1, <3>2
    <3>4. k \in same
      BY <2>3, <3>1, <3>3
    <3>5. j <= k
      BY <2>2, <3>4
    <3> QED BY <1>1, <3>2, <3>3, <3>5
  <2>6. j \in places
    BY <1>1, <1>2, <2>2, <2>4, <2>5 DEF places
  <2> QED BY <1>5, <2>3, <2>6
<1>9. \A node \in ToSet(placed) : node \in ToSet(given) /\ stranger(node)
  BY <1>2, <1>5 DEF places, ToSet
<1>10. keys = {ExactKey(node) : node \in {n \in ToSet(given) : stranger(n)}}
  BY <1>8, <1>9
<1> QED BY <1>3, <1>7, <1>10 DEF StrangersOf

(* So a plan written over the rows it was computed from is as it was       *)
(* counted.                                                                *)
LEMMA WrittenIsAsCounted ==
  ASSUME PlanMade(planned.plan, Candidates(file), baseline.groups, baseline.rows, planned.resolutions),
         entries = Written(baseline.rows, planned.plan), IsList(file.nodes),
         planned.nodes = NewNodes(file.nodes, oldNodes),
         planned.conflicts = Cardinality(WithStatus(planned.plan, "conflict"))
                               - Cardinality(Applied(planned.plan, baseline.rows))
  PROVE  ImportIsAsCounted
<1> DEFINE plan == planned.plan
           listed == Candidates(file)
           groups == baseline.groups
           rows == baseline.rows
           resolutions == planned.resolutions
           targets(i) == TargetsOf(groups, listed[i].target)
           mapped == MappedLines(groups, listed)
           of(some, i) == {row \in some : Alike(row, listed[i])}
           first == {i \in mapped : \A j \in mapped : j < i => ~Alike(listed[j], listed[i])}
           overruled == {i \in first : \E j \in resolutions \cap mapped : j > i /\ Alike(listed[j], listed[i])}
           met == {i \in first : \E row \in of(entries, i) : row.target \in targets(i) /\ row.detail = listed[i].detail}
           left == first \ (met \cup overruled)
           stranger(node) == \A row \in oldNodes : row.name # node.name /\ row.endpoint # node.endpoint
<1>0. PlanMade(plan, listed, groups, rows, resolutions) /\ entries = Written(rows, plan)
  OBVIOUS
<1>1. NewOnlyIsNew
  <2>1. StrangersOf(file.nodes, oldNodes) = {node \in ToSet(file.nodes) : stranger(node)}
    BY DEF StrangersOf
  <2>2. LET added == ToSet(planned.nodes)
        IN  /\ Len(planned.nodes) = Cardinality({ExactKey(node) : node \in added})
            /\ {ExactKey(node) : node \in added} = {ExactKey(node) : node \in StrangersOf(file.nodes, oldNodes)}
    BY NewNodesAre
  <2> QED BY <2>1, <2>2 DEF NewOnlyIsNew
<1>2. first = FirstLines(groups, listed)
  BY DEF FirstLines
<1> HIDE DEF listed, groups, rows, resolutions, plan
<1>3. Cardinality(WithStatus(plan, "new")) = Cardinality({row \in entries : row.marked})
  BY <1>0, MarkedRows
<1>4. \A i \in mapped : Cardinality(of(entries, i)) = IF of(rows, i) = {} THEN 1 ELSE Cardinality(of(rows, i))
  <2>1. ASSUME NEW i \in MappedLines(groups, listed)
        PROVE  Cardinality({row \in Written(rows, plan) : Alike(row, listed[i])})
                 = IF {row \in rows : Alike(row, listed[i])} = {} THEN 1
                   ELSE Cardinality({row \in rows : Alike(row, listed[i])})
    BY <1>0, RowsOfLine
  <2> QED BY <1>0, <2>1
<1>5. \A row \in rows \ entries :
        \E i \in resolutions \cap mapped : /\ of(rows, i) = {row} /\ ~row.managed
                                           /\ \E now \in of(entries, i) : now.id = row.id /\ now.target \in targets(i)
  <2>1. ASSUME NEW row \in rows, row \notin Written(rows, plan)
        PROVE  \E i \in resolutions \cap MappedLines(groups, listed) :
                 /\ {old \in rows : Alike(old, listed[i])} = {row} /\ ~row.managed
                 /\ \E now \in Written(rows, plan) : /\ Alike(now, listed[i]) /\ now.id = row.id
                                                     /\ now.target \in TargetsOf(groups, listed[i].target)
    BY <1>0, <2>1, ChangedRows
  <2> QED BY <1>0, <2>1
<1>6. ASSUME NEW i \in first
      PROVE  i \in met \/ i \in overruled
               \/ (i \in WithStatus(plan, "conflict") /\ i \notin plan.settled /\ i \notin resolutions)
  <2>1. i \in FirstLines(groups, listed)
    BY <1>2
  <2>2. \/ \E row \in Written(rows, plan) : /\ Alike(row, listed[i]) /\ row.detail = listed[i].detail
                                            /\ row.target \in TargetsOf(groups, listed[i].target)
        \/ \E j \in resolutions \cap MappedLines(groups, listed) : j > i /\ Alike(listed[j], listed[i])
        \/ i \in WithStatus(plan, "conflict") /\ i \notin plan.settled /\ i \notin resolutions
    BY <1>0, <2>1, FirstIsMet
  <2>3. CASE \E row \in Written(rows, plan) : /\ Alike(row, listed[i]) /\ row.detail = listed[i].detail
                                              /\ row.target \in TargetsOf(groups, listed[i].target)
    BY <1>0, <2>3
  <2>4. CASE \E j \in resolutions \cap MappedLines(groups, listed) : j > i /\ Alike(listed[j], listed[i])
    BY <2>4
  <2> QED BY <2>2, <2>3, <2>4
<1>7. Cardinality(left) <= planned.conflicts
  <2> HIDE DEF met, overruled, first
  <2>1. \A i \in left : i \in WithStatus(plan, "conflict") /\ i \notin plan.settled
    BY <1>6
  <2>2. planned.conflicts = Cardinality(WithStatus(plan, "conflict")) - Cardinality(Applied(plan, rows))
    BY DEF plan, rows
  <2> HIDE DEF left
  <2> QED BY <1>0, <2>1, <2>2, LeftConflicts
<1>8. first \cap resolutions \subseteq met \cup overruled
  <2> HIDE DEF met, overruled, first
  <2> QED BY <1>6
<1> QED BY <1>1, <1>3, <1>4, <1>5, <1>7, <1>8 DEF ImportIsAsCounted, plan, listed, groups, rows, resolutions

(* What the operator settles is about one row of his, as long as he only   *)
(* edits; the plan is that of the lines, and without his edits what was    *)
(* written is the plan of the rows there were.                             *)
CountFits ==
    /\ planned.at = "idle" => planned.offered = {}
    /\ planned.at \in {"idle", "shown"} =>
         /\ DistinctNames(policies) /\ IsFiniteSet(entries)
         /\ \A i \in planned.offered : OneOwnRow(entries, Candidates(file), i)
    /\ planned.at \in {"write", "done"} =>
         PlanMade(planned.plan, Candidates(file), baseline.groups, baseline.rows, planned.resolutions)
    /\ planned.at = "write" /\ baseline.alone = TRUE => entries = baseline.rows
    /\ planned.at = "done" /\ baseline.alone = TRUE =>
         /\ entries = Written(baseline.rows, planned.plan)
         /\ planned.conflicts = Cardinality(WithStatus(planned.plan, "conflict"))
                                  - Cardinality(Applied(planned.plan, baseline.rows))

(* That holds at the start, and every step keeps it.                       *)
LEMMA CountsStart ==
  ASSUME PlanInit
  PROVE  CountFits
<1>1. PICK start \in ImportStarts : policies = start.policies /\ entries = start.entries
  BY DEF PlanInit
<1>2. DistinctNames(policies) /\ IsFiniteSet(entries)
  BY <1>1, ImportPlanAssumption
<1>3. planned.at = "idle" /\ planned.offered = {}
  BY DEF PlanInit, Unplanned
<1> QED BY <1>2, <1>3 DEF CountFits

(* A conflict that can be settled is with one row, of the operator.        *)
LEMMA ResolvableIsOwn ==
  ASSUME NEW groups, NEW rows, IsFiniteSet(rows), NEW listed, NEW i, Resolvable(KnownTo(groups, rows, listed, i))
  PROVE  OneOwnRow(rows, listed, i)
<1> DEFINE known == KnownTo(groups, rows, listed, i)
<1>1. \A row \in known : row.id # 0 /\ ~row.managed
  BY DEF Resolvable
<1>2. Cardinality(known) = 1
  BY DEF Resolvable
<1>3. \A entry, targets : RowOfLine(entry, targets).id = 0
  BY DEF RowOfLine, EntryOf
<1>4. known = {row \in rows : Alike(row, listed[i])}
  BY <1>1, <1>3 DEF KnownTo
<1> HIDE DEF known
<1>5. IsFiniteSet(known)
  BY <1>4, FS_Subset
<1>6. PICK x : known = {x}
  BY <1>2, <1>5, FS_Singleton
<1> QED BY <1>1, <1>4, <1>6 DEF OneOwnRow

(* The preview offers what is about one row of the operator.               *)
LEMMA CountsPreviewed ==
  ASSUME PlanInv, CountFits, PreviewImport
  PROVE  CountFits'
<1> DEFINE items == PlanItems(policies, entries, Candidates(file))
           shown == {i \in DOMAIN items :
                       Cardinality({j \in 1..i : items[j].entry.kind = items[i].entry.kind}) <= MaxDiffItems}
           offered == {i \in shown : items[i].resolvable}
<1>1. planned' = [planned EXCEPT !.at = "shown", !.offered = offered] /\ planned.at = "idle"
  BY DEF PreviewImport
<1>2. UNCHANGED <<file, policies, entries, baseline>>
  BY DEF PreviewImport
<1>3. DistinctNames(policies) /\ IsFiniteSet(entries)
  BY <1>1 DEF CountFits
<1>4. ASSUME NEW i \in offered
      PROVE  OneOwnRow(entries, Candidates(file), i)
  <2>1. i \in DOMAIN Candidates(file) /\ PlanItem(policies, entries, Candidates(file), i).resolvable
    BY DEF PlanItems
  <2>2. Resolvable(KnownTo(policies, entries, Candidates(file), i))
    BY <2>1 DEF PlanItem
  <2> QED BY <1>3, <2>2, ResolvableIsOwn
<1> HIDE DEF offered
<1>5. planned'.at = "shown" /\ planned'.offered = offered
  BY <1>1 DEF PlanInv, ImportFits
<1> QED BY <1>2, <1>3, <1>4, <1>5 DEF CountFits

(* The plan is made of what is there when it is read.                      *)
LEMMA CountsRead ==
  ASSUME PlanInv, CountFits, ReadForPlan
  PROVE  CountFits'
<1>1. PICK resolutions \in SUBSET planned.offered :
        planned' = [planned EXCEPT !.at = "write", !.resolutions = resolutions, !.nodes = NewNodes(file.nodes, oldNodes),
                                   !.plan = MakePlan(PlanItems(policies, entries, Candidates(file)), resolutions)]
  BY DEF ReadForPlan
<1>2. /\ planned.at \in {"idle", "shown"} /\ UNCHANGED <<file, policies, entries>>
      /\ baseline' = [rows |-> entries, groups |-> policies, edited |-> {}, alone |-> TRUE]
  BY DEF ReadForPlan
<1> DEFINE plan == MakePlan(PlanItems(policies, entries, Candidates(file)), resolutions)
           given == NewNodes(file.nodes, oldNodes)
<1>3. planned' = [planned EXCEPT !.at = "write", !.resolutions = resolutions, !.nodes = given, !.plan = plan]
  BY <1>1
<1> HIDE DEF plan, given
<1>4. planned'.at = "write" /\ planned'.resolutions = resolutions /\ planned'.plan = plan
  BY <1>3 DEF PlanInv, ImportFits
<1>5. baseline'.rows = entries /\ baseline'.groups = policies
  BY <1>2
<1>6. PlanMade(plan, Candidates(file), policies, entries, resolutions)
  <2>1. IsList(Candidates(file))
    BY CandidatesAreListed DEF PlanInv, FileFits
  <2>2. \A row \in entries : OwnEntry(row)
    BY <1>2 DEF PlanInv, EntriesFit, ImportFits, OwnEntry
  <2>3. \A row, other \in entries : Key(row) = Key(other) => row = other
    BY DEF PlanInv, EntriesFit
  <2>4. DistinctNames(policies) /\ IsFiniteSet(entries) /\ \A i \in resolutions : OneOwnRow(entries, Candidates(file), i)
    BY <1>2 DEF CountFits
  <2> QED BY <2>1, <2>2, <2>3, <2>4 DEF PlanMade, plan
<1>7. PlanMade(planned'.plan, Candidates(file'), baseline'.groups, baseline'.rows, planned'.resolutions)
  BY <1>2, <1>4, <1>5, <1>6
<1> QED BY <1>2, <1>4, <1>5, <1>7 DEF CountFits

(* Unless the operator edited since, it is written over just that.         *)
LEMMA CountsWritten ==
  ASSUME PlanInv, CountFits, WritePlan
  PROVE  CountFits'
<1> DEFINE plan == planned.plan
           changes == Changes(plan, entries)
           written == Written(entries, plan)
           conflicts == Cardinality(WithStatus(plan, "conflict")) - Cardinality(Applied(plan, entries))
<1>1. planned.at = "write" /\ UNCHANGED <<file, policies, baseline>>
  BY DEF WritePlan
<1>2. \/ planned' = [planned EXCEPT !.at = "failed"]
      \/ entries' = written /\ planned' = [planned EXCEPT !.at = "done", !.changes = changes, !.conflicts = conflicts]
  BY DEF WritePlan, Written
<1>3. PlanMade(plan, Candidates(file), baseline.groups, baseline.rows, planned.resolutions)
  BY <1>1 DEF CountFits
<1>4. baseline.alone = TRUE => entries = baseline.rows
  BY <1>1 DEF CountFits
<1> DEFINE counted == Cardinality(WithStatus(plan, "conflict")) - Cardinality(Applied(plan, baseline.rows))
<1>5. baseline.alone = TRUE => written = Written(baseline.rows, plan) /\ conflicts = counted
  BY <1>4
<1> HIDE DEF changes, written, conflicts, counted
<1>6. CASE planned' = [planned EXCEPT !.at = "failed"]
  <2>1. planned'.at = "failed"
    BY <1>6 DEF PlanInv, ImportFits
  <2> QED BY <2>1 DEF CountFits
<1>7. CASE entries' = written /\ planned' = [planned EXCEPT !.at = "done", !.changes = changes, !.conflicts = conflicts]
  <2>1. /\ planned'.at = "done" /\ planned'.plan = planned.plan /\ planned'.resolutions = planned.resolutions
        /\ planned'.conflicts = conflicts
    BY <1>7 DEF PlanInv, ImportFits
  <2>2. PlanMade(planned'.plan, Candidates(file'), baseline'.groups, baseline'.rows, planned'.resolutions)
    BY <1>1, <1>3, <2>1
  <2>3. baseline'.alone = TRUE => /\ entries' = Written(baseline'.rows, planned'.plan)
                                  /\ planned'.conflicts = Cardinality(WithStatus(planned'.plan, "conflict"))
                                                            - Cardinality(Applied(planned'.plan, baseline'.rows))
    BY <1>1, <1>5, <1>7, <2>1 DEF counted
  <2> QED BY <2>1, <2>2, <2>3 DEF CountFits
<1> QED BY <1>2, <1>6, <1>7

LEMMA CountsUndone ==
  ASSUME PlanInv, CountFits, UndoImport
  PROVE  CountFits'
<1>1. planned'.at = "undone"
  BY DEF UndoImport, PlanInv, ImportFits
<1> QED BY <1>1 DEF CountFits

(* The operator's edits leave a row what it is about, and who may edit it. *)
LEMMA CountsEdited ==
  ASSUME PlanInv, CountFits, OperatorEdits
  PROVE  CountFits'
<1>1. planned.at \in {"shown", "write", "done"} /\ UNCHANGED <<file, planned>>
  BY DEF OperatorEdits
<1>2. baseline'.alone = FALSE /\ baseline'.rows = baseline.rows /\ baseline'.groups = baseline.groups
  BY DEF OperatorEdits, EditEntry, DeletePolicy, PlanInv, ImportFits
<1>3. CASE planned.at # "shown"
  <2>1. planned'.at \in {"write", "done"}
    BY <1>1, <1>3
  <2>2. PlanMade(planned'.plan, Candidates(file'), baseline'.groups, baseline'.rows, planned'.resolutions)
    BY <1>1, <1>2, <1>3 DEF CountFits
  <2> QED BY <1>2, <2>1, <2>2 DEF CountFits
<1>4. CASE planned.at = "shown"
  <2>1. /\ DistinctNames(policies) /\ IsFiniteSet(entries)
        /\ \A i \in planned.offered : OneOwnRow(entries, Candidates(file), i)
    BY <1>4 DEF CountFits
  <2>2. CASE EditEntry
    <3>1. PICK row \in entries :
            \E left \in {gone \in {{}} : ~row.managed} \cup {{[row EXCEPT !.target = goal]} : goal \in DOMAIN policies \ {row.target}}
                     \cup {{[row EXCEPT !.detail = detail]} : detail \in
                             IF row.kind = "set" /\ ~row.managed THEN {<<"ipcidr", 12>>} \ {row.detail} ELSE {}} :
              entries' = (entries \ {row}) \cup left
      BY <2>2 DEF EditEntry
    <3>2. PICK left :
            /\ entries' = (entries \ {row}) \cup left
            /\ \/ left = {}
               \/ \E goal : left = {[row EXCEPT !.target = goal]}
               \/ \E detail : left = {[row EXCEPT !.detail = detail]}
      BY <3>1
    <3>3. AnyEntry(row)
      BY DEF PlanInv, EntriesFit
    <3>4. ASSUME NEW goal
          PROVE  /\ [row EXCEPT !.target = goal].kind = row.kind /\ [row EXCEPT !.target = goal].base = row.base
                 /\ [row EXCEPT !.target = goal].managed = row.managed
      BY <3>3 DEF AnyEntry
    <3>5. ASSUME NEW detail
          PROVE  /\ [row EXCEPT !.detail = detail].kind = row.kind /\ [row EXCEPT !.detail = detail].base = row.base
                 /\ [row EXCEPT !.detail = detail].managed = row.managed
      BY <3>3 DEF AnyEntry
    <3>6. \/ entries' = entries \ {row}
          \/ \E new : /\ entries' = (entries \ {row}) \cup {new}
                      /\ new.kind = row.kind /\ new.base = row.base /\ new.managed = row.managed
      BY <3>2, <3>4, <3>5
    <3>7. IsFiniteSet(entries')
      <4>1. IsFiniteSet(entries \ {row})
        BY <2>1, FS_RemoveElement
      <4> QED BY <3>6, <4>1, FS_AddElement
    <3>8. ASSUME NEW i \in planned.offered
          PROVE  OneOwnRow(entries', Candidates(file), i)
      <4>1. OneOwnRow(entries, Candidates(file), i)
        BY <2>1
      <4> QED BY <3>6, <4>1 DEF OneOwnRow, Alike
    <3>9. policies' = policies
      BY <2>2 DEF EditEntry
    <3> QED BY <1>1, <1>4, <2>1, <3>7, <3>8, <3>9 DEF CountFits
  <2>3. CASE DeletePolicy
    <3>1. PICK id \in DOMAIN policies : policies' = [other \in DOMAIN policies \ {id} |-> policies[other]]
      BY <2>3 DEF DeletePolicy
    <3>2. DOMAIN policies' = DOMAIN policies \ {id} /\ \A g \in DOMAIN policies' : policies'[g] = policies[g]
      BY <3>1
    <3>3. DistinctNames(policies')
      BY <2>1, <3>2 DEF DistinctNames
    <3>4. entries' = entries
      BY <2>3 DEF DeletePolicy
    <3> QED BY <1>1, <1>4, <2>1, <3>3, <3>4 DEF CountFits
  <2> QED BY <2>2, <2>3 DEF OperatorEdits
<1> QED BY <1>3, <1>4

(* What was written alone is as it was counted.                            *)
LEMMA CountsHold ==
  ASSUME PlanInv, CountFits
  PROVE  ImportIsAsCounted
<1> SUFFICES ASSUME planned.at = "done", baseline.alone
    PROVE  ImportIsAsCounted
  BY DEF ImportIsAsCounted
<1>1. baseline.alone = TRUE
  OBVIOUS
<1>2. /\ PlanMade(planned.plan, Candidates(file), baseline.groups, baseline.rows, planned.resolutions)
      /\ entries = Written(baseline.rows, planned.plan)
      /\ planned.conflicts = Cardinality(WithStatus(planned.plan, "conflict"))
                               - Cardinality(Applied(planned.plan, baseline.rows))
  BY <1>1 DEF CountFits
<1>3. planned.nodes = NewNodes(file.nodes, oldNodes) /\ IsList(file.nodes)
  BY DEF PlanInv, PlanFits, FileFits, IsList, IsListed
<1> QED BY <1>2, <1>3, WrittenIsAsCounted

(* Both invariants hold of every behaviour.                                *)
LEMMA PlanInvHolds == PlanSpec => [](PlanInv /\ CountFits)
<1>1. PlanInit => PlanInv /\ CountFits
  BY PlanStarts, CountsStart
<1>2. PlanInv /\ CountFits /\ [PlanNext]_planVars => (PlanInv /\ CountFits)'
  <2>1. ASSUME PlanInv, PlanNext
        PROVE  PlanInv'
    BY <2>1, PlanPreviewed, PlanRead, PlanWritten, PlanUndone, EntryEdited, PolicyDeleted DEF PlanNext, OperatorEdits
  <2>2. ASSUME PlanInv, UNCHANGED planVars
        PROVE  PlanInv'
    BY <2>2 DEF planVars, PlanInv, EntriesFit, ImportFits, ChangesFit, Followed, EditsFollowed, RowsFollowed,
                FileFits, PlanFits, UndoLeavesNoTrace
  <2>3. ASSUME PlanInv, CountFits, PlanNext
        PROVE  CountFits'
    BY <2>3, CountsPreviewed, CountsRead, CountsWritten, CountsUndone, CountsEdited DEF PlanNext
  <2>4. ASSUME CountFits, UNCHANGED planVars
        PROVE  CountFits'
    BY <2>4 DEF planVars, CountFits
  <2> QED BY <2>1, <2>2, <2>3, <2>4
<1> QED BY <1>1, <1>2, PTL DEF PlanSpec

(* Whatever the file and the workspace, and however the operator edits     *)
(* beside: the rows keep to their types and to groups that are there,      *)
(* which buildStructuredImportPlan reads and the batch of                  *)
(* importStructuredSourceContent would refuse to write otherwise ...       *)
THEOREM PlanTypesHold == PlanSpec => []PlanTypes
<1>1. PlanInv => PlanTypes
  BY DEF PlanInv, EntriesFit, ImportFits, PlanTypes
<1> QED BY <1>1, PlanInvHolds, PTL

(* ... an import that is undone (deleteSourceById) leaves no trace, and    *)
(* takes nothing the operator did with it ...                              *)
THEOREM UndoLeavesNoTraceHolds == PlanSpec => []UndoLeavesNoTrace
<1>1. PlanInv => UndoLeavesNoTrace
  BY DEF PlanInv
<1> QED BY <1>1, PlanInvHolds, PTL

(* ... and an import nobody edits beside does what it reports, from        *)
(* buildStructuredImportPlan through importStructuredSourceContent.        *)
THEOREM ImportIsAsCountedHolds == PlanSpec => []ImportIsAsCounted
<1>1. PlanInv /\ CountFits => ImportIsAsCounted
  BY CountsHold
<1> QED BY <1>1, PlanInvHolds, PTL
=============================================================================
