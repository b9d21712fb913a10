--------------------------- MODULE AutoNodeGroups ---------------------------
(***************************************************************************)
(* The node groups the system makes for countries and tags, and the policy *)
(* group linked to each: services/auto-node-groups.ts.  Every settings     *)
(* change and every ensure of the defaults runs a sync; it reads, then     *)
(* deletes, updates and creates one call at a time, while other syncs and  *)
(* the operator go on.                                                     *)
(***************************************************************************)
EXTENDS Integers, FiniteSets, FiniteSetsExt

CONSTANTS
    CountryKeys,  \* marker keys "country:<code>:<type>"
    TagKeys,      \* marker keys "tag:<key>:<type>"
    SyncCalls,    \* syncs that may run together
    MaxAutoIds,   \* bound on the ids handed out
    MaxPoolEdits      \* bound on what the operator and the sources change

ASSUME AutoAssumption == MaxAutoIds \in Nat /\ MaxPoolEdits \in Nat

VARIABLES
    autoNodes,  \* keys some enabled node falls under that is not high-multiplier
    autoChosen, \* keys the settings ask for: none when the feature is off
    pools,      \* rows of collections by id, each with the key in its notes
    linked,     \* policy groups with one node group: the group's id to its state
    autoSerial, \* ids handed out
    syncs,      \* what each sync holds between two calls
    poolEdits,      \* changes made so far
    fresh       \* history: a sync that ran alone was the last thing to happen

autoVars == <<autoNodes, autoChosen, pools, linked, autoSerial, syncs, poolEdits, fresh>>
autoRows == <<autoNodes, autoChosen, pools, linked, autoSerial, poolEdits>>

AutoKeys == CountryKeys \cup TagKeys

(* The row of defaultNodePoolId: its notes are no marker of a key. *)
DefaultPool == 0
PoolKey == AutoKeys \cup {"default"}

Linked == [pool : Nat, enabled : BOOLEAN, targeted : BOOLEAN]

SyncSteps == {"idle", "settings", "pool", "list", "countries", "tags", "work", "delete", "find", "enable", "insert"}
SyncTypes(sync) ==
    /\ sync.at \in SyncSteps /\ {sync.chosen, sync.countries, sync.plans} \subseteq SUBSET AutoKeys
    /\ \A i \in DOMAIN sync.listed : sync.listed[i] \in AutoKeys
    /\ {sync.pool, sync.group} \cup sync.doomed \subseteq 0..MaxAutoIds /\ sync.alone \in BOOLEAN

NoRows == [i \in {} |-> "default"]
IdleSync == [at |-> "idle", chosen |-> {}, countries |-> {}, listed |-> NoRows, doomed |-> {}, plans |-> {},
             pool |-> 0, group |-> 0, alone |-> FALSE]

AutoInit ==
    /\ autoNodes = AutoKeys /\ autoChosen = AutoKeys
    /\ pools = NoRows /\ linked = [g \in {} |-> IdleSync]
    /\ autoSerial = 0 /\ poolEdits = 0 /\ fresh = FALSE
    /\ syncs = [c \in SyncCalls |-> IdleSync]

-----------------------------------------------------------------------------
Running == {c \in SyncCalls : syncs[c].at # "idle"}

Advance(c, record) == syncs' = [syncs EXCEPT ![c] = record] /\ fresh' = FALSE
EndSync(c, whole) == syncs' = [syncs EXCEPT ![c] = IdleSync] /\ fresh' = (whole /\ syncs[c].alone)
AfterWork(sync) == [sync EXCEPT !.at = "work", !.pool = 0, !.group = 0]

(* Something else happens: no sync in flight runs alone any more. *)
Disturb == syncs' = [c \in SyncCalls |-> [syncs[c] EXCEPT !.alone = FALSE]] /\ fresh' = FALSE

StartSync(c) ==
    /\ c \notin Running
    /\ syncs' = [d \in SyncCalls |->
         IF d = c THEN [IdleSync EXCEPT !.at = "settings", !.alone = (Running = {})]
         ELSE [syncs[d] EXCEPT !.alone = FALSE]]
    /\ fresh' = FALSE /\ UNCHANGED autoRows

ReadAutoSettings(c) ==
    /\ syncs[c].at = "settings"
    /\ Advance(c, [syncs[c] EXCEPT !.at = "pool", !.chosen = autoChosen])
    /\ UNCHANGED autoRows

(* ensureDefaultNodePoolCollection *)
EnsureDefaultPool(c) ==
    /\ syncs[c].at = "pool"
    /\ pools' = [i \in DOMAIN pools \cup {DefaultPool} |-> IF i = DefaultPool THEN "default" ELSE pools[i]]
    /\ Advance(c, [syncs[c] EXCEPT !.at = "list"])
    /\ UNCHANGED <<autoNodes, autoChosen, linked, autoSerial, poolEdits>>

(* With the feature off, every automatic node group goes. *)
ListAutoPools(c) ==
    /\ syncs[c].at = "list"
    /\ LET autos == DOMAIN pools \ {DefaultPool} IN
       Advance(c, IF syncs[c].chosen = {} THEN [syncs[c] EXCEPT !.at = "work", !.doomed = autos]
                  ELSE [syncs[c] EXCEPT !.at = "countries", !.listed = [i \in autos |-> pools[i]]])
    /\ UNCHANGED autoRows

ListCountries(c) ==
    /\ syncs[c].at = "countries"
    /\ Advance(c, [syncs[c] EXCEPT !.at = "tags", !.countries = autoNodes \cap CountryKeys])
    /\ UNCHANGED autoRows

(* buildAutoNodeGroupPlans, filtered by the selected keys. *)
BuildPlansSlipUnfiltered(sync) == sync.countries \cup (autoNodes \cap TagKeys)
BuildPlans(sync) == (sync.countries \cup (autoNodes \cap TagKeys)) \cap sync.chosen

ListTagsAndPlan(c) ==
    /\ syncs[c].at = "tags"
    /\ LET plans == BuildPlans(syncs[c])
           listed == syncs[c].listed
           kept == {i \in DOMAIN listed : listed[i] \in plans}
       IN Advance(c, [syncs[c] EXCEPT !.at = "work", !.plans = plans, !.countries = {}, !.chosen = {},
                        !.listed = [i \in kept |-> listed[i]], !.doomed = DOMAIN listed \ kept])
    /\ UNCHANGED autoRows

-----------------------------------------------------------------------------
(* deleteCollectionAndLinkedGroups: the groups first, which fails while a  *)
(* rule targets one of them.                                               *)
LinkedTo(i) == {g \in DOMAIN linked : linked[g].pool = i}

DeleteLinkedGroups(c) ==
    /\ syncs[c].at = "work"
    /\ \E i \in syncs[c].doomed :
         IF \E g \in LinkedTo(i) : linked[g].targeted THEN EndSync(c, FALSE) /\ UNCHANGED autoRows
         ELSE /\ linked' = [g \in DOMAIN linked \ LinkedTo(i) |-> linked[g]]
              /\ Advance(c, [syncs[c] EXCEPT !.at = "delete", !.pool = i])
              /\ UNCHANGED <<autoNodes, autoChosen, pools, autoSerial, poolEdits>>

DeletePool(c) ==
    /\ syncs[c].at = "delete"
    /\ pools' = [i \in DOMAIN pools \ {syncs[c].pool} |-> pools[i]]
    /\ Advance(c, AfterWork([syncs[c] EXCEPT !.doomed = @ \ {syncs[c].pool}]))
    /\ UNCHANGED <<autoNodes, autoChosen, linked, autoSerial, poolEdits>>

(* The next plan, the countries before the tags. *)
NextPlan(c) ==
    {k \in syncs[c].plans : k \in CountryKeys \/ syncs[c].plans \cap CountryKeys = {}}

(* Of several rows with one key the one listed last stands for it; the     *)
(* UPDATE of a row that is gone by now matches nothing.                    *)
Existing(c, k) == {i \in DOMAIN syncs[c].listed : syncs[c].listed[i] = k}

UpdatePool(c) ==
    /\ syncs[c].at = "work" /\ syncs[c].doomed = {}
    /\ \E k \in NextPlan(c) :
         /\ Existing(c, k) # {}
         /\ Advance(c, [syncs[c] EXCEPT !.at = "find", !.plans = @ \ {k}, !.pool = Max(Existing(c, k))])
    /\ UNCHANGED autoRows

CreatePool(c) ==
    /\ syncs[c].at = "work" /\ syncs[c].doomed = {} /\ autoSerial < MaxAutoIds
    /\ \E k \in NextPlan(c) :
         /\ Existing(c, k) = {}
         /\ pools' = [i \in DOMAIN pools \cup {autoSerial + 1} |-> IF i = autoSerial + 1 THEN k ELSE pools[i]]
         /\ Advance(c, [syncs[c] EXCEPT !.at = "insert", !.plans = @ \ {k}, !.pool = autoSerial + 1])
    /\ autoSerial' = autoSerial + 1
    /\ UNCHANGED <<autoNodes, autoChosen, linked, poolEdits>>

(* ensureLinkedGroup takes the group that comes first in the order, which  *)
(* is the operator's to choose, be it made by a sync or by the operator.   *)
FindLinked(c) ==
    /\ syncs[c].at = "find"
    /\ IF LinkedTo(syncs[c].pool) = {} THEN Advance(c, [syncs[c] EXCEPT !.at = "insert"])
       ELSE \E g \in LinkedTo(syncs[c].pool) : Advance(c, [syncs[c] EXCEPT !.at = "enable", !.group = g])
    /\ UNCHANGED autoRows

RestoredSlipName(group) == group
Restored(group) == [group EXCEPT !.enabled = TRUE]

RestoreLinked(c) ==
    /\ syncs[c].at = "enable"
    /\ linked' = [g \in DOMAIN linked |-> IF g = syncs[c].group THEN Restored(linked[g]) ELSE linked[g]]
    /\ Advance(c, AfterWork(syncs[c]))
    /\ UNCHANGED <<autoNodes, autoChosen, pools, autoSerial, poolEdits>>

(* createLinkedGroup; the place it takes in the order is left out. *)
CreateLinked(c) ==
    /\ syncs[c].at = "insert" /\ autoSerial < MaxAutoIds
    /\ linked' = [g \in DOMAIN linked \cup {autoSerial + 1} |->
         IF g = autoSerial + 1 THEN [pool |-> syncs[c].pool, enabled |-> TRUE, targeted |-> FALSE] ELSE linked[g]]
    /\ autoSerial' = autoSerial + 1
    /\ Advance(c, AfterWork(syncs[c]))
    /\ UNCHANGED <<autoNodes, autoChosen, pools, poolEdits>>

FinishSync(c) ==
    /\ syncs[c].at = "work" /\ syncs[c].doomed = {} /\ syncs[c].plans = {}
    /\ EndSync(c, TRUE) /\ UNCHANGED autoRows

CutOffSync(c) == c \in Running /\ EndSync(c, FALSE) /\ UNCHANGED autoRows

-----------------------------------------------------------------------------
(* What others do meanwhile: nodes come and go, the settings change, and   *)
(* the operator adds a group for a node group, turns groups off, deletes   *)
(* them and points rules at them.                                          *)
EditPool == poolEdits < MaxPoolEdits /\ poolEdits' = poolEdits + 1 /\ Disturb

NodesChange ==
    /\ EditPool /\ \E k \in AutoKeys : autoNodes' = (autoNodes \ {k}) \cup ({k} \ autoNodes)
    /\ UNCHANGED <<autoChosen, pools, linked, autoSerial>>

SettingsChange ==
    /\ EditPool /\ \E keys \in SUBSET AutoKeys : autoChosen' = keys
    /\ UNCHANGED <<autoNodes, pools, linked, autoSerial>>

AddOwnGroup ==
    /\ EditPool /\ autoSerial < MaxAutoIds /\ autoSerial' = autoSerial + 1
    /\ \E i \in DOMAIN pools \ {DefaultPool} :
         linked' = [g \in DOMAIN linked \cup {autoSerial + 1} |->
           IF g = autoSerial + 1 THEN [pool |-> i, enabled |-> TRUE, targeted |-> FALSE] ELSE linked[g]]
    /\ UNCHANGED <<autoNodes, autoChosen, pools>>

ChangeLinked ==
    /\ EditPool
    /\ \E g \in DOMAIN linked :
         \/ linked' = [linked EXCEPT ![g].targeted = ~@] /\ (linked[g].enabled \/ linked[g].targeted)
         \/ linked' = [linked EXCEPT ![g].enabled = ~@] /\ ~linked[g].targeted
         \/ linked' = [h \in DOMAIN linked \ {g} |-> linked[h]] /\ ~linked[g].targeted
    /\ UNCHANGED <<autoNodes, autoChosen, pools, autoSerial>>

AutoNext ==
    \/ NodesChange \/ SettingsChange \/ AddOwnGroup \/ ChangeLinked
    \/ \E c \in SyncCalls :
        \/ StartSync(c) \/ ReadAutoSettings(c) \/ EnsureDefaultPool(c) \/ ListAutoPools(c)
        \/ ListCountries(c) \/ ListTagsAndPlan(c) \/ DeleteLinkedGroups(c) \/ DeletePool(c)
        \/ UpdatePool(c) \/ CreatePool(c) \/ FindLinked(c) \/ RestoreLinked(c) \/ CreateLinked(c)
        \/ FinishSync(c) \/ CutOffSync(c)

AutoSpec == AutoInit /\ [][AutoNext]_autoVars

-----------------------------------------------------------------------------
AutoTypes ==
    /\ {autoNodes, autoChosen} \subseteq SUBSET AutoKeys
    /\ \A i \in DOMAIN pools : i \in 0..MaxAutoIds /\ pools[i] \in PoolKey
    /\ \A g \in DOMAIN linked : g \in 1..MaxAutoIds /\ linked[g] \in Linked
    /\ autoSerial \in 0..MaxAutoIds /\ poolEdits \in 0..MaxPoolEdits /\ fresh \in BOOLEAN
    /\ \A c \in SyncCalls : SyncTypes(syncs[c])

(* However syncs overlapped, failed or were cut off before: one that runs  *)
(* alone and does not fail leaves node groups for exactly the keys that    *)
(* are asked for and have nodes, one of each key with an enabled policy    *)
(* group.  It keeps the doubles of a key that overlapping syncs made.      *)
SyncedMatchesNodes ==
    fresh =>
        /\ DefaultPool \in DOMAIN pools
        /\ {pools[i] : i \in DOMAIN pools \ {DefaultPool}} = autoChosen \cap autoNodes
        /\ \A k \in autoChosen \cap autoNodes :
             \E i \in DOMAIN pools, g \in DOMAIN linked :
               pools[i] = k /\ linked[g].pool = i /\ linked[g].enabled
=============================================================================
