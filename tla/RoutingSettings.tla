-------------------------- MODULE RoutingSettings --------------------------
(***************************************************************************)
(* What the settings make of the generated policy groups: routes/settings, *)
(* services/app-settings.ts and the parts of routing-policy-groups.ts that *)
(* PolicyGroups leaves out: the groups every sync restores, the scenarios  *)
(* that switch them, the order of the outlets in their lists.  Syncs run   *)
(* call by call, between the steps of others, and may be cut off.          *)
(***************************************************************************)
EXTENDS Naturals, Sequences, FiniteSets, SequencesExt, RowLists

CONSTANTS
    NodeGroupIds,     \* ids of policy groups that have node groups of their own
    RoutingCalls,     \* requests that may run together
    MaxPuts,          \* bound on the settings written
    MaxRoutingEdits   \* bound on what else changes

VARIABLES
    setting,     \* the columns of app_settings that routing reads
    generated,   \* the rows of the generated groups, by name
    nodeGroups,  \* the groups with nodes, by id: the key of its automatic node group, or "own"
    routingCalls,
    puts, routingEdits,
    settled      \* history: a request that ran its sync alone was the last thing to happen

routingVars == <<setting, generated, nodeGroups, routingCalls, puts, routingEdits, settled>>
routingStore == <<setting, generated, nodeGroups, puts, routingEdits>>

(* Three of the foundation, of which AutoSelect has nodes, and two of the  *)
(* scenarios, which share a group.                                         *)
Foundation == {"PROXY", "DIRECT", "AutoSelect"}
ScenarioIds == <<"ai-development", "platform">>
GroupsOf == [s \in Range(ScenarioIds) |-> IF s = "ai-development" THEN {"AI", "Microsoft"} ELSE {"Microsoft"}]
DefaultScenarios == {"ai-development"}
Generated == <<"PROXY", "AI", "Microsoft", "DIRECT", "AutoSelect">>
GeneratedNames == Range(Generated)

(* Ids of the operator's groups are not those of the generated ones.      *)
ASSUME RoutingAssumption == IsFiniteSet(NodeGroupIds) /\ NodeGroupIds \cap GeneratedNames = {}

(* The outlets a group would rather have, and the order of all the others. *)
Prefers == [n \in GeneratedNames |-> IF n = "AI" THEN <<"us">> ELSE <<>>]
OutletOrder == <<"AutoSelect", "PROXY", "DIRECT">>

(* routingOutletPreferences holds a reference to an outlet for AI. *)
Outlet == [by : {"none"}, of : {""}] \cup [by : {"group"}, of : NodeGroupIds \cup {"AI", " "}]
              \cup [by : {"auto"}, of : {"us", "US"}]
NoOutlet == [by |-> "none", of |-> ""]
RoutingRow == [there : BOOLEAN, enabled : BOOLEAN, canonical : BOOLEAN, list : Seq(GeneratedNames \cup NodeGroupIds)]

NoRow == [there |-> FALSE, enabled |-> FALSE, canonical |-> FALSE, list |-> <<>>]
NoView == [n \in {} |-> NoRow]
IdleCall == [at |-> "idle", chosen |-> {}, rows |-> NoView, backed |-> NoView,
             outlet |-> NoOutlet, keys |-> NoView, alone |-> FALSE]

RoutingInit ==
    /\ setting = [scenarios |-> <<"ai-development">>, readable |-> TRUE, outlet |-> NoOutlet]
    /\ generated = [n \in GeneratedNames |-> NoRow] /\ nodeGroups = [g \in {} |-> "own"]
    /\ routingCalls = [c \in RoutingCalls |-> IdleCall]
    /\ puts = 0 /\ routingEdits = 0 /\ settled = FALSE

-----------------------------------------------------------------------------
InRouting == {c \in RoutingCalls : routingCalls[c].at # "idle"}
Proceed(c, record) == routingCalls' = [routingCalls EXCEPT ![c] = record] /\ settled' = FALSE
NobodyAlone == [c \in RoutingCalls |-> [routingCalls[c] EXCEPT !.alone = FALSE]]

(* isRoutingOutletPreferenceRef: a reference to an id that is not blank, or *)
(* to a key in its canonical form.  That the group exists is not asked.    *)
IsOutletRef(outlet) == outlet = NoOutlet \/ (outlet.by = "group" /\ outlet.of # " ")
                         \/ (outlet.by = "auto" /\ outlet.of = "us")

(* validateSettingsPatch.  The other fields are told apart by whether a    *)
(* value is one of its field's.                                            *)
Patches ==
    [fields : SUBSET {"scenarios", "outlet", "language", "unknown"},
     scenarios : {<<"platform">>, <<"platform", "platform">>, <<"other">>},
     outlet : Outlet, legal : BOOLEAN]
ValidateSettingsPatch(patch) ==
    /\ patch.fields # {} /\ "unknown" \notin patch.fields /\ patch.legal
    /\ "scenarios" \in patch.fields => IsInjective(patch.scenarios) /\ Range(patch.scenarios) \subseteq Range(ScenarioIds)
    /\ "outlet" \in patch.fields => IsOutletRef(patch.outlet)
AcceptedPatches == {patch \in Patches : ValidateSettingsPatch(patch)}

(* buildSettingsUpdate: the columns the patch names and no other. *)
SettingsUpdate(patch) ==
    [setting EXCEPT !.scenarios = IF "scenarios" \in patch.fields THEN patch.scenarios ELSE @,
                    !.readable = @ \/ "scenarios" \in patch.fields,
                    !.outlet = IF "outlet" \in patch.fields THEN patch.outlet ELSE @]

(* PUT /settings; only what routing reads starts a sync. *)
PutSettings(c) ==
    /\ c \notin InRouting /\ puts < MaxPuts /\ puts' = puts + 1
    /\ \E patch \in AcceptedPatches :
         /\ setting' = SettingsUpdate(patch)
         /\ routingCalls' = [NobodyAlone EXCEPT ![c] =
              IF patch.fields \cap {"scenarios", "outlet"} = {} THEN IdleCall
              ELSE [IdleCall EXCEPT !.at = "insert", !.alone = (InRouting = {})]]
    /\ settled' = FALSE /\ UNCHANGED <<generated, nodeGroups, routingEdits>>

(* Every write of a group and every ensure of the defaults ends in a sync. *)
StartRoutingSync(c) ==
    /\ c \notin InRouting
    /\ routingCalls' = [NobodyAlone EXCEPT ![c] = [IdleCall EXCEPT !.at = "insert", !.alone = (InRouting = {})]]
    /\ settled' = FALSE /\ UNCHANGED routingStore

-----------------------------------------------------------------------------
(* ensureDefaultGeneratedGroups, in two batches: a group that is there is  *)
(* left alone by the first and brought into form by the second.            *)
InsertGenerated(c) ==
    /\ routingCalls[c].at = "insert"
    /\ generated' = [n \in GeneratedNames |-> IF generated[n].there THEN generated[n]
                       ELSE [there |-> TRUE, enabled |-> TRUE, canonical |-> TRUE, list |-> <<>>]]
    /\ Proceed(c, [routingCalls[c] EXCEPT !.at = "canonical"]) /\ UNCHANGED <<setting, nodeGroups, puts, routingEdits>>

MakeCanonical(c) ==
    /\ routingCalls[c].at = "canonical"
    /\ generated' = [n \in GeneratedNames |-> [generated[n] EXCEPT !.canonical = generated[n].there]]
    /\ Proceed(c, [routingCalls[c] EXCEPT !.at = "scenarios"]) /\ UNCHANGED <<setting, nodeGroups, puts, routingEdits>>

(* getAppSettings: what cannot be read stands for the default; what is not *)
(* a scenario counts for nothing.                                          *)
ChosenScenarios == IF setting.readable THEN Range(setting.scenarios) \cap Range(ScenarioIds) ELSE DefaultScenarios

ReadScenarios(c) ==
    /\ routingCalls[c].at = "scenarios"
    /\ Proceed(c, [routingCalls[c] EXCEPT !.at = "apply", !.chosen = ChosenScenarios])
    /\ UNCHANGED routingStore

(* applyActiveScenarios *)
ActiveNamesSlipShared(chosen) == Foundation \cup {n \in GeneratedNames : \A s \in Range(ScenarioIds) : n \in GroupsOf[s] => s \in chosen}
ActiveNames(chosen) == Foundation \cup UNION {GroupsOf[s] : s \in chosen}

ApplyScenarios(c) ==
    /\ routingCalls[c].at = "apply"
    /\ generated' = [n \in GeneratedNames |-> [generated[n] EXCEPT !.enabled = generated[n].there /\ n \in ActiveNames(routingCalls[c].chosen)]]
    /\ Proceed(c, [routingCalls[c] EXCEPT !.at = "rows", !.chosen = {}])
    /\ UNCHANGED <<setting, nodeGroups, puts, routingEdits>>

ReadGroupRows(c) ==
    /\ routingCalls[c].at = "rows"
    /\ LET shown == {n \in GeneratedNames : generated[n].there /\ generated[n].enabled} IN
       Proceed(c, [routingCalls[c] EXCEPT !.at = "outlet", !.backed = nodeGroups,
                     !.rows = [n \in shown |-> [generated[n] EXCEPT !.list = <<>>]]])
    /\ UNCHANGED routingStore

ReadOutlet(c) ==
    /\ routingCalls[c].at = "outlet"
    /\ Proceed(c, [routingCalls[c] EXCEPT !.at = "keys", !.outlet = setting.outlet])
    /\ UNCHANGED routingStore

(* listAutoCollectionKeysById: the marks of the node groups. *)
ReadKeys(c) ==
    /\ routingCalls[c].at = "keys"
    /\ Proceed(c, [routingCalls[c] EXCEPT !.at = "write", !.keys = nodeGroups])
    /\ UNCHANGED routingStore

-----------------------------------------------------------------------------
(* Groups with nodes of their own: AutoSelect in its canonical form, or    *)
(* another that was restored in a form of its own.                         *)
HasNodes(row, n) == (n = "AutoSelect") = row.canonical
RoutingNames(rows) == {n \in DOMAIN rows \ {"DIRECT", "AutoSelect"} : ~HasNodes(rows[n], n)}

OpenOutlets(rows, backed) == {n \in DOMAIN rows : n \in Foundation \/ HasNodes(rows[n], n)} \cup DOMAIN backed

(* The rows come in their sort_order. *)
RowOrder == Generated \o SetToSeq(NodeGroupIds)
PlaceOf(g) == CHOOSE i \in DOMAIN RowOrder : RowOrder[i] = g

(* resolveOutletPreferenceId: a group by its id, or the first whose node   *)
(* group bears the key.                                                    *)
PreferredSlipKind(outlet, outlets, keys) == {g \in outlets \cap DOMAIN keys : keys[g] = outlet.of}
Preferred(outlet, outlets, keys) ==
    LET bearers == {g \in outlets \cap DOMAIN keys : keys[g] = outlet.of}
    IN  CASE outlet.by = "group" -> outlets \cap {outlet.of}
          [] outlet.by = "auto" -> {g \in bearers : \A h \in bearers : PlaceOf(g) <= PlaceOf(h)}
          [] outlet.by = "none" -> {}

(* sortRoutingMemberGroupIds: outlets are pushed by turns, each once, and  *)
(* those of one turn in the order of the rows.                             *)
Turns(n, outlets, backed, outlet, keys) ==
    <<IF n = "AI" THEN Preferred(outlet, outlets, keys) ELSE {}>>
        \o [i \in DOMAIN Prefers[n] |-> {g \in DOMAIN backed : backed[g] = Prefers[n][i]}]
        \o [i \in DOMAIN OutletOrder |-> {OutletOrder[i]}] \o <<outlets>>
TurnOf(g, turns) == CHOOSE i \in DOMAIN turns : g \in turns[i] /\ \A j \in DOMAIN turns : g \in turns[j] => i <= j
Before(outlets, turns) ==
    {p \in outlets \X outlets :
        \/ TurnOf(p[1], turns) < TurnOf(p[2], turns)
        \/ TurnOf(p[1], turns) = TurnOf(p[2], turns) /\ PlaceOf(p[1]) < PlaceOf(p[2])}

RoutingMembers(n, rows, backed, outlet, keys) ==
    LET outlets == OpenOutlets(rows, backed) \ {n}
    IN  Arranged(outlets, Before(outlets, Turns(n, outlets, backed, outlet, keys)))

(* The batch; a row that went is not there to update.                      *)
WriteLists(c) ==
    /\ routingCalls[c].at = "write"
    /\ LET call == routingCalls[c] IN
       /\ generated' = [n \in GeneratedNames |-> IF n \in RoutingNames(call.rows) /\ generated[n].there
             THEN [generated[n] EXCEPT !.list = RoutingMembers(n, call.rows, call.backed, call.outlet, call.keys)]
             ELSE generated[n]]
       /\ routingCalls' = [routingCalls EXCEPT ![c] = IdleCall]
       /\ settled' = call.alone
    /\ UNCHANGED <<setting, nodeGroups, puts, routingEdits>>

-----------------------------------------------------------------------------
(* A preference for a group keeps the operator from deleting it; the sync  *)
(* of the automatic node groups does not ask.                              *)
PreferenceBlocks(g) == setting.outlet = [by |-> "group", of |-> g]

NodeGroupsMove ==
    /\ \/ \E g \in NodeGroupIds \ DOMAIN nodeGroups, key \in {"us", "own"} :
            nodeGroups' = [h \in DOMAIN nodeGroups \cup {g} |-> IF h = g THEN key ELSE nodeGroups[h]]
       \/ \E g \in DOMAIN nodeGroups :
            /\ nodeGroups[g] = "own" => ~PreferenceBlocks(g)
            /\ nodeGroups' = [h \in DOMAIN nodeGroups \ {g} |-> nodeGroups[h]]
    /\ UNCHANGED <<setting, generated>>

(* POST /api/data/import replaces every row; what the columns of a backup  *)
(* hold is not looked into.                                                *)
RestoreBackup ==
    /\ \E n \in {"Microsoft", "AutoSelect"}, there \in BOOLEAN, readable \in BOOLEAN :
         /\ generated' = [m \in GeneratedNames |-> IF m = n THEN [NoRow EXCEPT !.there = there]
                            ELSE [there |-> TRUE, enabled |-> m # "AI", canonical |-> TRUE, list |-> <<"DIRECT">>]]
         /\ setting' = [setting EXCEPT !.readable = readable]
    /\ UNCHANGED nodeGroups

OthersWrite ==
    /\ routingEdits < MaxRoutingEdits /\ routingEdits' = routingEdits + 1
    /\ NodeGroupsMove \/ RestoreBackup
    /\ routingCalls' = NobodyAlone /\ settled' = FALSE /\ UNCHANGED puts

CutOffRouting(c) == c \in InRouting /\ Proceed(c, IdleCall) /\ UNCHANGED routingStore

RoutingNext ==
    \/ OthersWrite
    \/ \E c \in RoutingCalls :
         \/ PutSettings(c) \/ StartRoutingSync(c) \/ InsertGenerated(c) \/ MakeCanonical(c) \/ ReadScenarios(c)
         \/ ApplyScenarios(c) \/ ReadGroupRows(c) \/ ReadOutlet(c) \/ ReadKeys(c)
         \/ WriteLists(c) \/ CutOffRouting(c)

RoutingSpec == RoutingInit /\ [][RoutingNext]_routingVars

-----------------------------------------------------------------------------
RoutingTypes ==
    /\ setting.outlet \in Outlet /\ setting.readable \in BOOLEAN
    /\ \A n \in GeneratedNames : generated[n] \in RoutingRow
    /\ DOMAIN nodeGroups \subseteq NodeGroupIds /\ \A g \in DOMAIN nodeGroups : nodeGroups[g] \in {"us", "own"}
    /\ \A c \in RoutingCalls : /\ routingCalls[c].outlet \in Outlet /\ DOMAIN routingCalls[c].rows \subseteq GeneratedNames
                               /\ routingCalls[c].chosen \subseteq Range(ScenarioIds)
    /\ settled \in BOOLEAN

(* However settings, restores and syncs overlapped and were cut off: once  *)
(* a sync has run alone, a generated group is on exactly if it belongs to  *)
(* the foundation or to some chosen scenario, and a group that is on lists *)
(* every outlet that is on once, itself excepted, with the outlet the      *)
(* settings prefer first if there is such an outlet, by id or by key.      *)
RoutingFollowsSettings ==
    settled =>
        LET wanted(n) == n \in Foundation \/ \E s \in (IF setting.readable THEN Range(setting.scenarios) ELSE DefaultScenarios) :
                                               s \in DOMAIN GroupsOf /\ n \in GroupsOf[s]
            open == {"PROXY", "DIRECT", "AutoSelect"} \cup DOMAIN nodeGroups
            answers == {g \in open : \/ setting.outlet = [by |-> "group", of |-> g]
                                     \/ setting.outlet.by = "auto" /\ g \in DOMAIN nodeGroups /\ nodeGroups[g] = setting.outlet.of}
        IN \A n \in GeneratedNames :
             LET row == generated[n] IN
             /\ row.there /\ row.canonical /\ (row.enabled <=> wanted(n))
             /\ n \in {"PROXY", "AI", "Microsoft"} /\ row.enabled =>
                  /\ Range(row.list) = open \ {n} /\ IsInjective(row.list)
                  /\ n = "AI" /\ answers # {} => row.list[1] \in answers
=============================================================================
