----------------------------- MODULE ImportPlan -----------------------------
(***************************************************************************)
(* What an import makes of a Clash file, in the detail ImportRun leaves    *)
(* out: routes/sources.ts reads the rules and rule providers of the file,  *)
(* compares them with the rules and rule sets of the workspace, lets the   *)
(* operator settle conflicts in a preview, writes the plan in one batch    *)
(* and takes it back when the source is deleted.  The nodes of the file    *)
(* are compared with the stored ones in the mode 'new-only'.               *)
(*                                                                         *)
(* The plan is computed from rows read in one call and written in another, *)
(* and the operator may edit rows or delete a group between the two.  The  *)
(* groups are those there are once the defaults of the workspace exist,    *)
(* which preview, import and deletion ensure (DefaultProfile); what they   *)
(* do to the nodes, the runs and the linked sets of the source is in       *)
(* ImportRun and LinkedRuleSets.                                           *)
(***************************************************************************)
EXTENDS Integers, Sequences, FiniteSets, SequencesExt, RowLists

CONSTANTS
    ImportStarts,   \* what an import may start from: a file, and the workspace
    MaxDiffItems,   \* MAX_IMPORT_DIFF_ITEMS: a preview shows no more
    MaxPlanEdits    \* bound on the operator's edits

VARIABLES
    file,       \* the content: lines of rules, providers, nodes
    policies,   \* the groups that are on: name, by id
    entries,    \* the rows of rules and remote_rule_sets
    oldNodes,   \* the nodes of other sources
    planned,    \* the import: stage, resolutions, plan, outcome
    planEdits,
    baseline    \* history: the rows and groups the plan was computed from, what
                \* the operator edited since, and whether he did

planVars == <<file, policies, entries, oldNodes, planned, planEdits, baseline>>

-----------------------------------------------------------------------------
(* A line of the list of rules is a sequence of words, some of them blank. *)
StructuredTypes == {"DOMAIN", "PORT", "IP-CIDR"}
EmptyFile == [lines |-> <<>>, providers |-> <<>>, nodes |-> <<>>]

(* Names are compared without regard to case. *)
Lower(word) == IF word = "Proxy" THEN "proxy" ELSE IF word = "DIRECT" THEN "direct" ELSE word
TargetsOf(groups, word) ==  \* at most one, see DistinctNames
    {id \in DOMAIN groups : Lower(word) \in {Lower(groups[id]), id}}

(* parseStructuredSourceContent, of which a rule set keeps the last rule   *)
(* that names it.                                                          *)
Blanked(line) == Where(line, LAMBDA word : word # "")
WantedRow(kind, base, target, detail) == [kind |-> kind, base |-> base, target |-> target, detail |-> detail]

ReadLine(line) ==
    LET parts == Blanked(line)
        noResolve == parts # <<>> /\ Last(parts) = "no-resolve"
        at == Len(parts) - IF noResolve THEN 1 ELSE 0
        type == IF parts # <<>> /\ parts[1] = "DST-PORT" THEN "PORT" ELSE IF parts = <<>> THEN "" ELSE parts[1]
        payload == SubSeq(parts, 2, at - 1)
    IN IF type \notin StructuredTypes \/ payload = <<>> THEN <<>>
       ELSE <<WantedRow("rule", <<type, payload, noResolve>>, parts[at], <<>>)>>

IsSetLine(line) == Blanked(line) # <<>> /\ Blanked(line)[1] = "RULE-SET"
ParseRules(lines) == Joined([i \in DOMAIN lines |-> IF IsSetLine(lines[i]) THEN <<>> ELSE ReadLine(lines[i])])

ProviderTarget(lines, name) ==
    LET naming == Where([i \in DOMAIN lines |-> Blanked(lines[i])],
                        LAMBDA parts : IsSetLine(parts) /\ Len(parts) >= 3 /\ parts[2] = name)
    IN IF naming = <<>> THEN <<>> ELSE <<Last(naming)[3]>>
ReadProvider(lines, provider) ==
    LET target == ProviderTarget(lines, provider.name)
    IN IF ~provider.http \/ target = <<>> THEN <<>>
       ELSE <<WantedRow("set", provider.url, target[1],
                        <<IF provider.behavior = "other" THEN "classical" ELSE provider.behavior,
                          IF provider.hours = 0 THEN 24 ELSE provider.hours>>)>>
ParseSets(lines, providers) == Joined([i \in DOMAIN providers |-> ReadProvider(lines, providers[i])])

-----------------------------------------------------------------------------
(* buildStructuredImportPlan.  What is known of a base is a set of rows: of *)
(* the workspace and, where it has none, the row that the first line of the *)
(* file with this base and a group that is known brings, still without id.  *)
EntryOf(id, kind, base, target, detail, managed) ==
    [id |-> id, kind |-> kind, base |-> base, target |-> target, detail |-> detail, managed |-> managed, marked |-> FALSE]
Alike(row, other) == row.kind = other.kind /\ row.base = other.base

Candidates(f) == ParseRules(f.lines) \o ParseSets(f.lines, f.providers)
RowOfLine(entry, targets) == EntryOf(0, entry.kind, entry.base, CHOOSE id \in targets : TRUE, entry.detail, FALSE)

MappedLines(groups, listed) == {i \in DOMAIN listed : TargetsOf(groups, listed[i].target) # {}}
Bringing(groups, rows, listed) ==
    {i \in MappedLines(groups, listed) :
        /\ \A row \in rows : ~Alike(row, listed[i])
        /\ \A j \in MappedLines(groups, listed) : j < i => ~Alike(listed[j], listed[i])}
KnownTo(groups, rows, listed, i) ==
    {row \in rows : Alike(row, listed[i])}
        \cup {RowOfLine(listed[j], TargetsOf(groups, listed[j].target)) :
                 j \in {k \in Bringing(groups, rows, listed) : k < i /\ Alike(listed[k], listed[i])}}

ResolvableSlipAny(known) == \A row \in known : row.id # 0
Resolvable(known) == Cardinality(known) = 1 /\ \A row \in known : row.id # 0 /\ ~row.managed

LineStatus(entry, targets, known) ==
    LET same == \E row \in known : row.target \in targets /\ row.detail = entry.detail IN
    CASE targets = {} -> "unmapped"
      [] targets # {} /\ same -> "duplicate"
      [] targets # {} /\ ~same /\ known # {} -> "conflict"
      [] targets # {} /\ known = {} -> "new"
PlanItem(groups, rows, listed, i) ==
    LET known == KnownTo(groups, rows, listed, i)
        targets == TargetsOf(groups, listed[i].target)
        status == LineStatus(listed[i], targets, known)
    IN [entry |-> listed[i], targets |-> targets, known |-> known, status |-> status,
        resolvable |-> status = "conflict" /\ Resolvable(known)]

(* The items, and which of them the operator settled for the file.         *)
PlanItems(groups, rows, listed) == [i \in DOMAIN listed |-> PlanItem(groups, rows, listed, i)]
MakePlan(items, resolutions) ==
    [items |-> items, settled |-> {i \in resolutions \cap DOMAIN items : items[i].resolvable}]
EmptyPlan == MakePlan(<<>>, {})
WithStatus(plan, status) == {i \in DOMAIN plan.items : plan.items[i].status = status}

(* classifyNodeImport: a name and an endpoint, a protocol, a configuration. *)
ExactKey(node) == <<node.name, node.endpoint, node.protocol>>
ClassifyNodeSlipNames(node, rows, seen) ==
    IF \E row \in rows : row.name = node.name THEN "conflict" ELSE "new"
ClassifyNode(node, rows, seen) ==
    LET twins == {other \in rows \cup seen : ExactKey(other) = ExactKey(node)} IN
    IF \E other \in twins : other.config = node.config THEN "duplicate"
    ELSE IF twins # {} \/ \E row \in rows : row.name = node.name \/ row.endpoint = node.endpoint THEN "conflict"
    ELSE "new"

(* filterNewImportNodes *)
NewNodes(nodes, rows) ==
    Placed(nodes, {i \in DOMAIN nodes : ClassifyNode(nodes[i], rows, {nodes[j] : j \in 1..(i - 1)}) = "new"})

-----------------------------------------------------------------------------
Unplanned == [at |-> "idle", offered |-> {}, resolutions |-> {}, plan |-> EmptyPlan, nodes |-> <<>>,
              conflicts |-> 0, changes |-> {}]
Key(row) == <<row.kind, row.id>>

(* No two groups share a name or an id, as far as the import can tell.     *)
DistinctNames(groups) ==
    \A g, h \in DOMAIN groups : g # h => {Lower(groups[g]), g} \cap {Lower(groups[h]), h} = {}
IsStoredEntry(row) ==
    row = EntryOf(row.id, row.kind, row.base, row.target, row.detail, row.managed) /\ row.id \in Nat \ {0}
IsListed(list) == list \in Seq(ToSet(list))
ASSUME ImportPlanAssumption ==
    /\ MaxDiffItems \in Nat /\ MaxPlanEdits \in Nat
    /\ \A start \in ImportStarts :
        /\ IsListed(start.file.lines) /\ IsListed(start.file.providers) /\ IsListed(start.file.nodes)
        /\ DistinctNames(start.policies)
        /\ IsFiniteSet(start.entries)
        /\ \A row \in start.entries : IsStoredEntry(row) /\ row.target \in DOMAIN start.policies
        /\ \A row, other \in start.entries : Key(row) = Key(other) => row = other

PlanInit ==
    /\ \E start \in ImportStarts :
         file = start.file /\ policies = start.policies /\ entries = start.entries /\ oldNodes = start.oldNodes
    /\ planned = Unplanned /\ planEdits = 0
    /\ baseline = [rows |-> {}, groups |-> policies, edited |-> {}, alone |-> TRUE]

-----------------------------------------------------------------------------
(* reconcileStructuredImportPreview: the plan without a resolution, of     *)
(* which the operator sees the first items of each kind.                   *)
PreviewImport ==
    /\ planned.at = "idle"
    /\ LET items == PlanItems(policies, entries, Candidates(file))
           shown == {i \in DOMAIN items :
                       Cardinality({j \in 1..i : items[j].entry.kind = items[i].entry.kind}) <= MaxDiffItems}
       IN planned' = [planned EXCEPT !.at = "shown", !.offered = {i \in shown : items[i].resolvable}]
    /\ UNCHANGED <<file, policies, entries, oldNodes, planEdits, baseline>>

(* normalizeStructuredConflictResolutions and the reads of the plan. *)
ReadForPlan ==
    /\ planned.at \in {"idle", "shown"}
    /\ \E resolutions \in SUBSET planned.offered :
         planned' = [planned EXCEPT !.at = "write", !.resolutions = resolutions, !.nodes = NewNodes(file.nodes, oldNodes),
                                    !.plan = MakePlan(PlanItems(policies, entries, Candidates(file)), resolutions)]
    /\ baseline' = [rows |-> entries, groups |-> policies, edited |-> {}, alone |-> TRUE]
    /\ UNCHANGED <<file, policies, entries, oldNodes, planEdits>>

(* importStructuredSourceContent: inserts, then updates, each of the row as *)
(* it was read, so that the second of two for one row finds it changed; a   *)
(* target that is gone fails the batch.                                     *)
Inserted(plan) ==
    {[RowOfLine(plan.items[i].entry, plan.items[i].targets) EXCEPT !.id = -i, !.marked = TRUE] : i \in WithStatus(plan, "new")}
AppliesTo(item, rows) ==
    {row \in rows : ~row.managed /\ \E old \in item.known :
                       Key(row) = Key(old) /\ row.target = old.target /\ row.detail = old.detail}
Applied(plan, rows) ==
    LET found(i) == AppliesTo(plan.items[i], rows)
    IN {i \in plan.settled : found(i) # {} /\ \A j \in plan.settled : j < i => found(i) \cap found(j) = {}}
ChangesOf(item, rows) ==
    LET row == RowOfLine(item.entry, item.targets)
    IN {[before |-> old, after |-> [old EXCEPT !.target = row.target, !.detail = row.detail]] : old \in AppliesTo(item, rows)}
Changes(plan, rows) == UNION {ChangesOf(plan.items[i], rows) : i \in Applied(plan, rows)}

WritePlan ==
    /\ planned.at = "write"
    /\ LET plan == planned.plan
           changes == Changes(plan, entries)
           written == (entries \ {change.before : change \in changes}) \cup {change.after : change \in changes}
                         \cup Inserted(plan)
       IN IF \E row \in written : row.target \notin DOMAIN policies
          THEN planned' = [planned EXCEPT !.at = "failed"] /\ UNCHANGED entries
          ELSE /\ entries' = written
               /\ planned' = [planned EXCEPT !.at = "done", !.changes = changes,
                    !.conflicts = Cardinality(WithStatus(plan, "conflict")) - Cardinality(Applied(plan, entries))]
    /\ UNCHANGED <<file, policies, oldNodes, planEdits, baseline>>

(* deleteSourceById: what the import changed goes back, unless it was      *)
(* changed again or what it was is gone; what it brought is deleted.       *)
TakenBackSlipBlind(rows, changes) ==
    {row \in rows : \A change \in changes : change.after.id # row.id \/ change.after.kind # row.kind}
        \cup {change.before : change \in {c \in changes : \E row \in rows : row.id = c.after.id /\ row.kind = c.after.kind}}
TakenBack(rows, changes) ==
    {LET undone == {change \in changes : change.after = row /\ change.before.target \in DOMAIN policies}
     IN IF undone = {} THEN row ELSE (CHOOSE change \in undone : TRUE).before : row \in rows}

UndoImport ==
    /\ planned.at \in {"done", "failed"}
    /\ entries' = {row \in TakenBack(entries, planned.changes) : ~row.marked}
    /\ planned' = [planned EXCEPT !.at = "undone"]
    /\ UNCHANGED <<file, policies, oldNodes, planEdits, baseline>>

-----------------------------------------------------------------------------
(* PUT and DELETE of rules and rule sets (those the presets manage stay),  *)
(* DELETE of a group nothing names.                                        *)
EditEntry ==
    \E row \in entries :
        \E left \in {gone \in {{}} : ~row.managed}
                   \cup {{[row EXCEPT !.target = target]} : target \in DOMAIN policies \ {row.target}}
                   \cup {{[row EXCEPT !.detail = detail]} : detail \in
                           IF row.kind = "set" /\ ~row.managed THEN {<<"ipcidr", 12>>} \ {row.detail} ELSE {}} :
            /\ entries' = (entries \ {row}) \cup left
            /\ baseline' = [baseline EXCEPT !.alone = FALSE, !.edited =
                              {e \in @ : e.key # Key(row)} \cup {[key |-> Key(row), left |-> left]}]
            /\ UNCHANGED policies
DeletePolicy ==
    /\ \E id \in DOMAIN policies :
         /\ \A row \in entries : row.target # id
         /\ policies' = [other \in DOMAIN policies \ {id} |-> policies[other]]
    /\ baseline' = [baseline EXCEPT !.alone = FALSE] /\ UNCHANGED entries
OperatorEdits ==
    /\ planEdits < MaxPlanEdits /\ planEdits' = planEdits + 1 /\ planned.at \in {"shown", "write", "done"}
    /\ EditEntry \/ DeletePolicy
    /\ UNCHANGED <<file, oldNodes, planned>>

PlanNext == PreviewImport \/ ReadForPlan \/ WritePlan \/ UndoImport \/ OperatorEdits
PlanSpec == PlanInit /\ [][PlanNext]_planVars

-----------------------------------------------------------------------------
PlanTypes ==
    /\ planEdits \in 0..MaxPlanEdits
    /\ \A row \in entries : row.target \in DOMAIN policies
    /\ planned.at \in {"idle", "shown", "write", "done", "failed", "undone"}
    /\ planned.resolutions \subseteq planned.offered

(* In the mode 'new-only' an import adds no node whose name or endpoint is *)
(* stored, adds none twice, and leaves out no other.                       *)
NewOnlyIsNew ==
    LET added == ToSet(planned.nodes)
        stranger(node) == \A row \in oldNodes : row.name # node.name /\ row.endpoint # node.endpoint
    IN /\ Len(planned.nodes) = Cardinality({ExactKey(node) : node \in added})
       /\ {ExactKey(node) : node \in added} = {ExactKey(node) : node \in {n \in ToSet(file.nodes) : stranger(n)}}

(* An import nobody else edits beside does what it reports.  So many rows  *)
(* are new as it says; a rule of the file whose group is known never gets  *)
(* a second row of its base; no row was changed but those of the conflicts *)
(* the operator settled, each in favour of a rule of the file; and what    *)
(* the file says first of a base, the rule that would match, is what is    *)
(* stored then, was reported as a conflict the operator left as it was, or *)
(* gave way to a later line in whose favour he settled a conflict.  Of the *)
(* nodes those and only those came that are new.                           *)
ImportIsAsCounted ==
    planned.at = "done" /\ baseline.alone =>
        LET listed == Candidates(file)
            targets(i) == TargetsOf(baseline.groups, listed[i].target)
            mapped == MappedLines(baseline.groups, listed)
            of(rows, i) == {row \in rows : Alike(row, listed[i])}
            first == {i \in mapped : \A j \in mapped : j < i => ~Alike(listed[j], listed[i])}
            overruled == {i \in first : \E j \in planned.resolutions \cap mapped : j > i /\ Alike(listed[j], listed[i])}
            met == {i \in first : \E row \in of(entries, i) : row.target \in targets(i) /\ row.detail = listed[i].detail}
        IN /\ NewOnlyIsNew
           /\ Cardinality(WithStatus(planned.plan, "new")) = Cardinality({row \in entries : row.marked})
           /\ \A i \in mapped : Cardinality(of(entries, i)) =
                 IF of(baseline.rows, i) = {} THEN 1 ELSE Cardinality(of(baseline.rows, i))
           /\ \A row \in baseline.rows \ entries :
                \E i \in planned.resolutions \cap mapped :
                    /\ of(baseline.rows, i) = {row} /\ ~row.managed
                    /\ \E now \in of(entries, i) : now.id = row.id /\ now.target \in targets(i)
           /\ Cardinality(first \ (met \cup overruled)) <= planned.conflicts
           /\ first \cap planned.resolutions \subseteq met \cup overruled

(* Deleting the source of an import, whatever was edited or failed in the  *)
(* meantime: nothing it brought is left, what the operator edited since    *)
(* the import read it is as he left it (a row that he set to what the      *)
(* import had made of it counts as the import's), and every other row is   *)
(* as before; what the import changed stays changed if the group the row   *)
(* went to before is gone.                                                 *)
UndoLeavesNoTrace ==
    planned.at = "undone" =>
        /\ \A row \in entries : ~row.marked
        /\ \A e \in baseline.edited :
             LET now == {row \in entries : Key(row) = e.key}
             IN  \/ now = {row \in e.left : ~row.marked}
                 \/ \E change \in planned.changes : e.left = {change.after} /\ now = {change.before}
                 \/ \E change \in planned.changes :
                       e.left = {change.before} /\ now = {change.after} /\ change.before.target \notin DOMAIN policies
        /\ \A row \in baseline.rows :
             \/ row \in entries \/ \E e \in baseline.edited : e.key = Key(row)
             \/ row.target \notin DOMAIN policies /\ \E now \in entries : Key(now) = Key(row)
=============================================================================
