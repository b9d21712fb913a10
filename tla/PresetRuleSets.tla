--------------------------- MODULE PresetRuleSets ---------------------------
(***************************************************************************)
(* The remote rule sets of a workspace: the ones the system provides from  *)
(* its catalogs, kept by services/default-rule-sets.ts, and the requests   *)
(* of routes/remote-rule-sets.ts.  Ensuring the defaults reads the groups, *)
(* reads the rows, and writes in one batch what it decided from them;      *)
(* requests and the scheduled refresh, which brings its own snapshot of    *)
(* the catalogs, run between two of these calls.                           *)
(***************************************************************************)
EXTENDS Integers, FiniteSets, FiniteSetsExt

CONSTANTS
    Presets,       \* catalog items that are not optional
    TargetIds,     \* groups a rule set can name
    SuggestedFor,  \* the group each preset suggests: its name in the code
    SetCalls,      \* requests that may be in flight together
    MaxSetRows,    \* bound on the rows created
    MaxSetChanges, \* bound on the changes from outside
    SetRequests    \* the ones of SetCalls that are the operator's requests

ASSUME PresetAssumption ==
    /\ IsFiniteSet(Presets) /\ "none" \notin Presets \cup TargetIds
    /\ SuggestedFor \in [Presets -> TargetIds]
    /\ MaxSetRows \in Nat /\ MaxSetChanges \in Nat

VARIABLES
    targets,    \* "missing", "off" or "on" for each group
    policy,     \* presets that are active under the unmatched traffic policy
    upstream,   \* presets in the snapshot the scheduled refresh fetched
    sets,       \* rows of remote_rule_sets by id, in the order of insertion
    setSerial,  \* ids handed out
    setCalls,   \* what each request holds between two calls
    setChanges, \* changes from outside so far
    decided     \* history: see PresetsAreAsDecided

setVars == <<targets, policy, upstream, sets, setSerial, setCalls, setChanges, decided>>
setRows == <<targets, policy, upstream, sets, setSerial, setChanges>>

SetRow == [preset : Presets \cup {"none"}, target : TargetIds, override : TargetIds \cup {"none"},
           enabled : BOOLEAN, note : BOOLEAN]

SetSteps == {"free", "groups", "rows", "write", "row", "check", "update", "insert", "remove"}
SetOps == {"free", "ensure", "cron", "post", "put", "delete"}
(* A body names one of: enabled, the override (or null for none), target.  *)
SetBodies == {"none", "enable", "disable", "clear", "override", "move"}

(* groups and rows: as read; again: whether the ensure is the one after    *)
(* the request's own write.                                                *)
NoSets == [i \in {} |-> 0]
FreeSet == [at |-> "free", op |-> "free", groups |-> NoSets, rows |-> NoSets, id |-> 0, body |-> "none",
            group |-> "none", seen |-> NoSets, again |-> FALSE, alone |-> FALSE]

SetInit ==
    /\ targets = [g \in TargetIds |-> "on"] /\ policy = Presets /\ upstream = Presets
    /\ sets = NoSets /\ setSerial = 0 /\ setChanges = 0
    /\ setCalls = [c \in SetCalls |-> FreeSet]
    /\ decided = [calm |-> TRUE, off |-> {}, fresh |-> FALSE]

-----------------------------------------------------------------------------
SetsInFlight == {c \in SetCalls : setCalls[c].at # "free"}

OnSet(c, record) == setCalls' = [setCalls EXCEPT ![c] = record]
Stale == decided' = [decided EXCEPT !.fresh = FALSE]
SetEnds(c) == OnSet(c, FreeSet) /\ Stale /\ UNCHANGED setRows

ArriveAtSets(c, op, id, body, group) ==
    /\ c \notin SetsInFlight
    /\ setCalls' = [d \in SetCalls |->
         IF d = c THEN [FreeSet EXCEPT !.op = op, !.id = id, !.body = body, !.group = group,
                          !.at = IF op = "delete" THEN "row" ELSE "groups",
                          !.alone = (SetsInFlight = {})]
         ELSE [setCalls[d] EXCEPT !.alone = FALSE]]
    /\ decided' = [decided EXCEPT !.fresh = FALSE, !.calm = @ /\ SetsInFlight = {}]
    /\ UNCHANGED setRows

-----------------------------------------------------------------------------
(* ensureDefaultRemoteRuleSets: the requests use the catalogs that came    *)
(* with the program, which hold every preset.                              *)
Catalog(op) == IF op = "cron" THEN upstream ELSE Presets

ReadTargets(c) ==
    /\ setCalls[c].at = "groups"
    /\ OnSet(c, [setCalls[c] EXCEPT !.at = "rows", !.groups = targets])
    /\ Stale /\ UNCHANGED setRows

ReadPresetRows(c) ==
    /\ setCalls[c].at = "rows"
    /\ OnSet(c, [setCalls[c] EXCEPT !.at = "write",
                   !.rows = [i \in {j \in DOMAIN sets : sets[j].preset # "none"} |-> sets[i]]])
    /\ Stale /\ UNCHANGED setRows

(* Of two rows of one preset the one listed last is the one that is kept   *)
(* up; the other one is never looked at.                                   *)
Kept(rows, p) == Max({i \in DOMAIN rows : rows[i].preset = p})

(* resolveManagedPresetState, and disableExistingPreset where the target's *)
(* name is not found.  The note tells a row the system turned off from one *)
(* the operator turned off.                                                *)
SettledSlipNoNote(row, found, wanted) == [row EXCEPT !.enabled = @ /\ found /\ wanted, !.note = FALSE]

Settled(row, found, wanted) ==
    LET operatorsOff == ~row.enabled /\ ~row.note IN
    IF operatorsOff THEN row
    ELSE [row EXCEPT !.enabled = found /\ wanted, !.note = ~(found /\ wanted)]

Wanted(groups, p, override) ==
    IF override # "none" THEN groups[override] = "on"
    ELSE groups[SuggestedFor[p]] = "on" /\ p \in policy

(* The rows after the batch; a row that is gone by now is not updated, and *)
(* one that was found to be right is not written.                          *)
EnsuredRows(call) ==
    LET catalog == Catalog(call.op)
        rows == call.rows
        found(p) == call.groups[SuggestedFor[p]] # "missing"
        listed == {rows[i].preset : i \in DOMAIN rows}
        kept == {Kept(rows, p) : p \in listed \cap catalog}
        after(i) == Settled(rows[i], found(rows[i].preset), Wanted(call.groups, rows[i].preset, rows[i].override))
        dropped == {Kept(rows, p) : p \in listed \ catalog}
    IN [i \in DOMAIN sets \ dropped |-> IF i \in kept /\ after(i) # rows[i]
          THEN [sets[i] EXCEPT !.enabled = after(i).enabled, !.note = after(i).note]
          ELSE sets[i]]

MissingPresets(call) ==
    {p \in Catalog(call.op) : /\ \A i \in DOMAIN call.rows : call.rows[i].preset # p
                              /\ call.groups[SuggestedFor[p]] # "missing"}

NewPreset(call, p) ==
    LET on == Wanted(call.groups, p, "none") IN
    [preset |-> p, target |-> SuggestedFor[p], override |-> "none", enabled |-> on, note |-> ~on]

(* Where the request goes once its defaults are ensured. *)
AfterEnsure(call) ==
    LET next == [call EXCEPT !.groups = NoSets, !.rows = NoSets] IN
    CASE call.again \/ call.op \in {"ensure", "cron", "delete"} -> FreeSet
      [] call.op = "post" -> [next EXCEPT !.at = "check"]
      [] call.op = "put" -> [next EXCEPT !.at = "row"]

(* A group that went since it was read makes the whole batch fail. *)
WritePresets(c) ==
    /\ setCalls[c].at = "write"
    /\ LET call == setCalls[c]
           new == MissingPresets(call)
           ids == setSerial + 1 .. setSerial + Cardinality(new)
       IN IF \E p \in new : targets[SuggestedFor[p]] = "missing" THEN SetEnds(c)
          ELSE /\ setSerial + Cardinality(new) <= MaxSetRows
               /\ \E order \in [ids -> new] :
                    /\ \A i, j \in ids : i # j => order[i] # order[j]
                    /\ sets' = [i \in DOMAIN EnsuredRows(call) \cup ids |->
                         IF i \in ids THEN NewPreset(call, order[i]) ELSE EnsuredRows(call)[i]]
               /\ setSerial' = setSerial + Cardinality(new)
               /\ OnSet(c, AfterEnsure(call))
               /\ decided' = [decided EXCEPT !.off = @ \cap DOMAIN sets',
                                !.fresh = call.alone /\ call.op # "cron" /\ AfterEnsure(call) = FreeSet]
               /\ UNCHANGED <<targets, policy, upstream, setChanges>>

-----------------------------------------------------------------------------
(* PUT and DELETE read the row. *)
ReadSetRow(c) ==
    /\ setCalls[c].at = "row"
    /\ LET call == setCalls[c] IN
       IF call.id \notin DOMAIN sets THEN SetEnds(c)
       ELSE /\ IF call.op = "delete"
                 THEN IF sets[call.id].preset # "none" THEN OnSet(c, FreeSet)
                      ELSE OnSet(c, [call EXCEPT !.at = "remove"])
                 ELSE OnSet(c, [call EXCEPT !.at = "check", !.seen = sets[call.id]])
            /\ Stale /\ UNCHANGED setRows

Edited(call) ==
    CASE call.body = "enable" -> [call.seen EXCEPT !.enabled = TRUE]
      [] call.body = "disable" -> [call.seen EXCEPT !.enabled = FALSE]
      [] call.body = "clear" -> [call.seen EXCEPT !.override = "none"]
      [] call.body = "override" -> [call.seen EXCEPT !.override = call.group]
      [] call.body = "move" -> [call.seen EXCEPT !.target = call.group]

(* What a PUT is refused for, by the groups as they are when it asks. *)
PutIsAllowed(call) ==
    LET row == Edited(call)
        effective == IF row.override # "none" THEN row.override ELSE row.target
        managed == row.preset # "none"
    IN /\ call.body \in {"override", "clear"} => managed
       /\ call.body = "move" => ~managed
       /\ call.body \in {"override", "move"} => targets[call.group] = "on"
       /\ managed => row.override # row.target
       /\ row.enabled /\ ~(managed /\ call.body = "clear") => targets[effective] = "on"

CheckSetWrite(c) ==
    /\ setCalls[c].at = "check"
    /\ LET call == setCalls[c]
           ok == IF call.op = "post" THEN targets[call.group] = "on" ELSE PutIsAllowed(call)
       IN OnSet(c, IF ~ok THEN FreeSet
                   ELSE [call EXCEPT !.at = IF call.op = "post" THEN "insert" ELSE "update"])
    /\ Stale /\ UNCHANGED setRows

(* The UPDATE writes every column back as it was read, the note and the    *)
(* override among them; a changed override is followed by an ensure.       *)
UpdateSet(c) ==
    /\ setCalls[c].at = "update"
    /\ LET call == setCalls[c]
           again == call.body \in {"override", "clear"}
       IN IF call.id \notin DOMAIN sets \/ targets[Edited(call).target] = "missing" THEN SetEnds(c)
          ELSE /\ sets' = [sets EXCEPT ![call.id] = Edited(call)]
               /\ OnSet(c, IF again THEN [call EXCEPT !.at = "groups", !.again = TRUE, !.seen = NoSets] ELSE FreeSet)
               /\ decided' = [decided EXCEPT !.fresh = FALSE,
                    !.off = CASE call.body = "disable" /\ call.seen.enabled -> @ \cup {call.id}
                              [] call.body = "enable" -> @ \ {call.id}
                              [] OTHER -> @]
    /\ UNCHANGED <<targets, policy, upstream, setSerial, setChanges>>

InsertSet(c) ==
    /\ setCalls[c].at = "insert"
    /\ IF targets[setCalls[c].group] = "missing" THEN SetEnds(c)
       ELSE /\ setSerial < MaxSetRows /\ setSerial' = setSerial + 1
            /\ sets' = [i \in DOMAIN sets \cup {setSerial + 1} |-> IF i = setSerial + 1
                 THEN [preset |-> "none", target |-> setCalls[c].group, override |-> "none",
                       enabled |-> TRUE, note |-> FALSE]
                 ELSE sets[i]]
            /\ OnSet(c, FreeSet) /\ Stale
            /\ UNCHANGED <<targets, policy, upstream, setChanges>>

DeleteSet(c) ==
    /\ setCalls[c].at = "remove"
    /\ sets' = [i \in DOMAIN sets \ {setCalls[c].id} |-> sets[i]]
    /\ OnSet(c, [setCalls[c] EXCEPT !.at = "groups"])
    /\ Stale /\ UNCHANGED <<targets, policy, upstream, setSerial, setChanges>>

CutOffSets(c) == c \in SetsInFlight /\ SetEnds(c)

-----------------------------------------------------------------------------
(* A group that a rule set names cannot go; any other may come and go. *)
NamedBySets == {sets[i].target : i \in DOMAIN sets} \cup {sets[i].override : i \in DOMAIN sets}

Elsewhere ==
    /\ setChanges < MaxSetChanges /\ setChanges' = setChanges + 1
    /\ setCalls' = [c \in SetCalls |-> [setCalls[c] EXCEPT !.alone = FALSE]]
    /\ decided' = [decided EXCEPT !.fresh = FALSE]
    /\ UNCHANGED <<sets, setSerial>>

TargetChanges ==
    /\ Elsewhere /\ UNCHANGED <<policy, upstream>>
    /\ \E g \in TargetIds, state \in {"missing", "off", "on"} :
         /\ state # targets[g] /\ (state = "missing" => g \notin NamedBySets)
         /\ targets' = [targets EXCEPT ![g] = state]

PolicyChanges ==
    /\ Elsewhere /\ \E active \in SUBSET Presets : policy' = active
    /\ UNCHANGED <<targets, upstream>>

UpstreamChanges ==
    /\ Elsewhere /\ \E items \in SUBSET Presets : upstream' = items
    /\ UNCHANGED <<targets, policy>>

SetRequestArrives(c) ==
    \/ \E i \in DOMAIN sets, body \in {"enable", "disable", "clear"} : ArriveAtSets(c, "put", i, body, "none")
    \/ \E i \in DOMAIN sets, body \in {"override", "move"}, g \in TargetIds : ArriveAtSets(c, "put", i, body, g)
    \/ \E g \in TargetIds : ArriveAtSets(c, "post", 0, "none", g)
    \/ \E i \in DOMAIN sets : ArriveAtSets(c, "delete", i, "none", "none")

SetArrivals(c) ==
    \/ \E op \in {"ensure", "cron"} : ArriveAtSets(c, op, 0, "none", "none")
    \/ c \in SetRequests /\ SetRequestArrives(c)

SetNext ==
    \/ TargetChanges \/ PolicyChanges \/ UpstreamChanges
    \/ \E c \in SetCalls :
        \/ SetArrivals(c) \/ ReadTargets(c) \/ ReadPresetRows(c) \/ WritePresets(c)
        \/ ReadSetRow(c) \/ CheckSetWrite(c) \/ UpdateSet(c) \/ InsertSet(c) \/ DeleteSet(c)
        \/ CutOffSets(c)

SetSpec == SetInit /\ [][SetNext]_setVars

-----------------------------------------------------------------------------
SetTypes ==
    /\ targets \in [TargetIds -> {"missing", "off", "on"}]
    /\ {policy, upstream} \subseteq SUBSET Presets
    /\ \A i \in DOMAIN sets : i \in 1..setSerial /\ sets[i] \in SetRow
    /\ setSerial \in 0..MaxSetRows /\ setChanges \in 0..MaxSetChanges
    /\ decided.off \subseteq 1..setSerial
    /\ \A c \in SetCalls : setCalls[c].at \in SetSteps /\ setCalls[c].op \in SetOps /\ setCalls[c].body \in SetBodies

(* While requests come one by one, an ensure leaves each preset on exactly *)
(* if its group (the override, or the suggested one under a policy that    *)
(* uses the preset) is on and the operator did not turn it off while it    *)
(* was running: what the system turned off comes back with its group, what *)
(* the operator turned off never does, however often groups come and go.   *)
PresetsAreAsDecided ==
    decided.fresh /\ decided.calm =>
        \A p \in Presets : targets[SuggestedFor[p]] # "missing" =>
            \E i \in DOMAIN sets :
                /\ sets[i].preset = p
                /\ \A j \in DOMAIN sets \ {i} : sets[j].preset # p
                /\ sets[i].enabled = (i \notin decided.off /\ Wanted(targets, p, sets[i].override))
=============================================================================
