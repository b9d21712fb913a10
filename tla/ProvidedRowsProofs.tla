------------------------- MODULE ProvidedRowsProofs -------------------------
(***************************************************************************)
(* Proofs about the rows the system provides and keeps up: the automatic   *)
(* node groups, for any keys, syncs in flight and edits; the remote rule   *)
(* sets of the catalogs, for any presets, groups and requests; the copies  *)
(* in KV, for any catalogs, directories and triggers; and the generated    *)
(* groups, for any operator's groups, requests and restores.               *)
(***************************************************************************)
EXTENDS AutoNodeGroups, PresetRuleSets, ManagedCaches, RoutingSettings, RowListsProofs

-----------------------------------------------------------------------------
(* Automatic node groups.                                                  *)
(***************************************************************************)
(* The rows, and what each sync holds.  Ids count upwards, so the next one *)
(* is no row's.                                                            *)
Listings == UNION {[I -> AutoKeys] : I \in SUBSET (1..MaxAutoIds)}
Sync == [at : SyncSteps, chosen : SUBSET AutoKeys, countries : SUBSET AutoKeys, listed : Listings,
         doomed : SUBSET (1..MaxAutoIds), plans : SUBSET AutoKeys, pool : 0..MaxAutoIds, group : 0..MaxAutoIds,
         alone : BOOLEAN]

PoolsOK ==
    /\ DOMAIN pools \subseteq 0..autoSerial
    /\ \A i \in DOMAIN pools : pools[i] \in PoolKey
    /\ \A i \in DOMAIN pools \ {DefaultPool} : pools[i] \in AutoKeys
LinkedOK ==
    /\ DOMAIN linked \subseteq 1..autoSerial
    /\ \A g \in DOMAIN linked : linked[g] \in Linked
CountsOK ==
    /\ autoNodes \subseteq AutoKeys /\ autoChosen \subseteq AutoKeys
    /\ autoSerial \in 0..MaxAutoIds /\ poolEdits \in 0..MaxPoolEdits /\ fresh \in BOOLEAN
SyncsOK == syncs \in [SyncCalls -> Sync]
AutoRowsOK == CountsOK /\ PoolsOK /\ LinkedOK /\ SyncsOK

(* A sync that has run alone so far is the only one.                       *)
SyncIsAlone == \A c, d \in SyncCalls : syncs[c].alone /\ d # c => syncs[d].at = "idle"

(***************************************************************************)
(* How far it got: what it read is still so, and of the keys that are      *)
(* asked for and have nodes each is planned, in work, or has its node      *)
(* group with a policy group that is on; a node group of another key is    *)
(* doomed.                                                                 *)
AutoPools == DOMAIN pools \ {DefaultPool}
WantedKeys == autoChosen \cap autoNodes
HasGroup(k, ids) == \E i \in ids, g \in DOMAIN linked : pools[i] = k /\ linked[g].pool = i /\ linked[g].enabled

Linking == {"find", "enable", "insert"}
Reading == {"settings", "pool", "list"}
ReadIsSo(sync) ==
    /\ sync.at \in Reading => sync.listed = NoRows /\ sync.plans = {}
    /\ sync.at \in {"pool", "list", "countries", "tags"} => sync.chosen = autoChosen
    /\ sync.at \notin {"idle", "settings", "pool"} => DefaultPool \in DOMAIN pools
    /\ sync.at \in {"countries", "tags"} => sync.listed = [i \in AutoPools |-> pools[i]]
    /\ sync.at = "tags" => sync.countries = autoNodes \cap CountryKeys
WorksWell(sync) ==
    /\ sync.plans \subseteq WantedKeys
    /\ \A i \in DOMAIN sync.listed : i \in AutoPools \ sync.doomed /\ pools[i] = sync.listed[i]
    /\ \A i \in AutoPools \ sync.doomed : pools[i] \in WantedKeys
    /\ \A k \in WantedKeys : \/ k \in sync.plans
                             \/ HasGroup(k, AutoPools \ sync.doomed)
                             \/ sync.at \in Linking /\ pools[sync.pool] = k
    /\ sync.at \in Linking => sync.doomed = {} /\ sync.pool \in AutoPools
    /\ sync.at = "delete" => sync.pool \in sync.doomed
    /\ sync.at = "enable" => sync.group \in DOMAIN linked /\ linked[sync.group].pool = sync.pool
AloneGoesWell ==
    \A c \in SyncCalls : syncs[c].alone =>
        /\ ReadIsSo(syncs[c])
        /\ syncs[c].at \in {"work", "delete"} \cup Linking => WorksWell(syncs[c])

AutoInv == AutoRowsOK /\ SyncIsAlone /\ AloneGoesWell /\ SyncedMatchesNodes

OnCourse(c) ==
    syncs[c].alone =>
        /\ ReadIsSo(syncs[c])
        /\ syncs[c].at \in {"work", "delete"} \cup Linking => WorksWell(syncs[c])

-----------------------------------------------------------------------------
LEMMA ListingShape ==
    /\ NoRows \in Listings /\ DOMAIN NoRows = {}
    /\ \A f \in Listings : /\ DOMAIN f \in SUBSET (1..MaxAutoIds)
                           /\ \A i \in DOMAIN f : f[i] \in AutoKeys
    /\ \A I \in SUBSET (1..MaxAutoIds) : \A f \in [I -> AutoKeys] : f \in Listings
<1>1. DOMAIN NoRows = {} /\ NoRows \in [{} -> AutoKeys] /\ {} \in SUBSET (1..MaxAutoIds)
  BY DEF NoRows
<1>2. \A I \in SUBSET (1..MaxAutoIds) : \A f \in [I -> AutoKeys] : f \in Listings
  BY DEF Listings
<1>3. ASSUME NEW f \in Listings
      PROVE DOMAIN f \in SUBSET (1..MaxAutoIds) /\ \A i \in DOMAIN f : f[i] \in AutoKeys
  <2>1. PICK I \in SUBSET (1..MaxAutoIds) : f \in [I -> AutoKeys]
    BY DEF Listings
  <2> QED BY <2>1
<1>4. NoRows \in Listings
  <2> HIDE DEF NoRows
  <2> QED BY <1>1, <1>2
<1> QED BY <1>1, <1>2, <1>3, <1>4

LEMMA IdleIsSync == IdleSync \in Sync /\ ~IdleSync.alone /\ IdleSync.at = "idle"
                    /\ IdleSync.listed = NoRows /\ IdleSync.plans = {} /\ IdleSync.doomed = {}
  BY ListingShape, AutoAssumption DEF IdleSync, Sync, SyncSteps

(* A step of a running sync concerns no other one that has been alone.     *)
LEMMA StepOfOne ==
  ASSUME AutoInv, NEW c \in SyncCalls, syncs[c].at # "idle", NEW r \in Sync,
         syncs' = [syncs EXCEPT ![c] = r], r.alone => syncs[c].alone, OnCourse(c)'
  PROVE  SyncsOK' /\ SyncIsAlone' /\ AloneGoesWell'
<1>0. syncs \in [SyncCalls -> Sync]
  BY DEF AutoInv, AutoRowsOK, SyncsOK
<1>1. syncs'[c] = r /\ \A d \in SyncCalls \ {c} : syncs'[d] = syncs[d] /\ ~syncs[d].alone
  BY <1>0 DEF AutoInv, SyncIsAlone, Sync
<1>2. SyncsOK'
  BY <1>0 DEF SyncsOK
<1>3. SyncIsAlone'
  <2> SUFFICES ASSUME NEW d \in SyncCalls, NEW e \in SyncCalls, syncs'[d].alone, e # d
               PROVE syncs'[e].at = "idle"
    BY DEF SyncIsAlone
  <2>1. d = c
    BY <1>1
  <2> QED BY <2>1, <1>1 DEF AutoInv, SyncIsAlone
<1>4. AloneGoesWell'
  <2>1. \A d \in SyncCalls : OnCourse(d)'
    BY <1>1 DEF OnCourse
  <2> QED BY <2>1 DEF AloneGoesWell, OnCourse
<1> QED BY <1>2, <1>3, <1>4

(* One that ends leaves nobody alone.                                      *)
LEMMA EndKeeps ==
  ASSUME AutoInv, NEW c \in SyncCalls, syncs[c].at # "idle", NEW whole, EndSync(c, whole)
  PROVE  SyncsOK' /\ SyncIsAlone' /\ AloneGoesWell'
<1>0. syncs \in [SyncCalls -> Sync]
  BY DEF AutoInv, AutoRowsOK, SyncsOK
<1>1. syncs' = [syncs EXCEPT ![c] = IdleSync]
  BY DEF EndSync
<1>2. syncs'[c] = IdleSync
  BY <1>0, <1>1
<1>3. OnCourse(c)'
  BY <1>2, IdleIsSync DEF OnCourse
<1> QED BY <1>1, <1>3, IdleIsSync, StepOfOne

(* When others do something, no sync is alone any more.                    *)
LEMMA DisturbKeeps ==
  ASSUME AutoInv, Disturb
  PROVE  SyncsOK' /\ SyncIsAlone' /\ AloneGoesWell' /\ fresh' = FALSE
<1>0. syncs \in [SyncCalls -> Sync]
  BY DEF AutoInv, AutoRowsOK, SyncsOK
<1>1. \A d \in SyncCalls : syncs'[d] = [syncs[d] EXCEPT !.alone = FALSE] /\ syncs[d] \in Sync
  BY <1>0 DEF Disturb
<1>2. \A d \in SyncCalls : syncs'[d] \in Sync /\ ~syncs'[d].alone
  BY <1>1 DEF Sync
<1>3. syncs' = [d \in SyncCalls |-> syncs'[d]]
  BY DEF Disturb
<1>4. SyncsOK'
  <2>1. [d \in SyncCalls |-> syncs'[d]] \in [SyncCalls -> Sync]
    BY <1>2
  <2> QED BY <2>1, <1>3 DEF SyncsOK
<1>5. SyncIsAlone' /\ AloneGoesWell'
  BY <1>2 DEF SyncIsAlone, AloneGoesWell
<1> QED BY <1>4, <1>5 DEF Disturb

LEMMA StartKeeps == ASSUME AutoInv, NEW c \in SyncCalls, StartSync(c) PROVE AutoInv'
<1>0. syncs \in [SyncCalls -> Sync]
  BY DEF AutoInv, AutoRowsOK, SyncsOK
<1> DEFINE new == [IdleSync EXCEPT !.at = "settings", !.alone = (Running = {})]
<1>1. new \in Sync /\ new.at = "settings" /\ new.listed = NoRows /\ new.plans = {} /\ (new.alone <=> Running = {})
  BY IdleIsSync DEF Sync, SyncSteps
<1>2. /\ syncs' = [d \in SyncCalls |-> syncs'[d]]
      /\ syncs'[c] = new
      /\ \A d \in SyncCalls \ {c} : syncs'[d] = [syncs[d] EXCEPT !.alone = FALSE]
  BY DEF StartSync
<1> HIDE DEF new
<1>3. ASSUME NEW d \in SyncCalls \ {c}
      PROVE  syncs'[d] \in Sync /\ ~syncs'[d].alone /\ syncs'[d].at = syncs[d].at
  <2>1. syncs[d] \in Sync /\ syncs'[d] = [syncs[d] EXCEPT !.alone = FALSE]
    BY <1>0, <1>2
  <2> QED BY <2>1 DEF Sync
<1>4. SyncsOK'
  <2>1. \A d \in SyncCalls : syncs'[d] \in Sync
    BY <1>1, <1>2, <1>3
  <2>2. [d \in SyncCalls |-> syncs'[d]] \in [SyncCalls -> Sync]
    BY <2>1
  <2> QED BY <2>2, <1>2 DEF SyncsOK
<1>5. SyncIsAlone'
  <2>1. Running = {} => \A d \in SyncCalls : syncs[d].at = "idle"
    BY DEF Running
  <2> QED BY <2>1, <1>1, <1>2, <1>3 DEF SyncIsAlone
<1>6. AloneGoesWell'
  <2>1. OnCourse(c)'
    BY <1>1, <1>2 DEF OnCourse, ReadIsSo, Reading, Linking
  <2>2. \A d \in SyncCalls \ {c} : OnCourse(d)'
    BY <1>3 DEF OnCourse
  <2> QED BY <2>1, <2>2 DEF OnCourse, AloneGoesWell
<1>7. fresh' = FALSE /\ UNCHANGED autoRows
  BY DEF StartSync
<1>8. CountsOK' /\ PoolsOK' /\ LinkedOK'
  BY <1>7 DEF AutoInv, AutoRowsOK, CountsOK, PoolsOK, LinkedOK, autoRows
<1>9. SyncedMatchesNodes'
  BY <1>7 DEF SyncedMatchesNodes
<1> QED BY <1>4, <1>5, <1>6, <1>8, <1>9 DEF AutoInv, AutoRowsOK

-----------------------------------------------------------------------------
(* A call that reads.                                                      *)
LEMMA ReadStep ==
  ASSUME AutoInv, NEW c \in SyncCalls, syncs[c].at # "idle", NEW r \in Sync, Advance(c, r),
         UNCHANGED autoRows, r.alone => syncs[c].alone, OnCourse(c)'
  PROVE  AutoInv'
<1>1. SyncsOK' /\ SyncIsAlone' /\ AloneGoesWell'
  BY StepOfOne DEF Advance
<1>2. fresh' = FALSE
  BY DEF Advance
<1>3. CountsOK' /\ PoolsOK' /\ LinkedOK'
  BY <1>2 DEF AutoInv, AutoRowsOK, CountsOK, PoolsOK, LinkedOK, autoRows
<1> QED BY <1>1, <1>2, <1>3 DEF AutoInv, AutoRowsOK, SyncedMatchesNodes

LEMMA ReadAutoSettingsKeeps == ASSUME AutoInv, NEW c \in SyncCalls, ReadAutoSettings(c) PROVE AutoInv'
<1>0. syncs \in [SyncCalls -> Sync] /\ syncs[c] \in Sync /\ CountsOK
  BY DEF AutoInv, AutoRowsOK, SyncsOK
<1> DEFINE r == [syncs[c] EXCEPT !.at = "pool", !.chosen = autoChosen]
<1>1. /\ r \in Sync /\ r.at = "pool" /\ r.chosen = autoChosen
      /\ r.listed = syncs[c].listed /\ r.plans = syncs[c].plans /\ r.alone = syncs[c].alone
  BY <1>0 DEF Sync, SyncSteps, CountsOK
<1>2. Advance(c, r) /\ UNCHANGED autoRows /\ syncs[c].at = "settings"
  BY DEF ReadAutoSettings
<1>3. syncs'[c] = r
  BY <1>0, <1>2 DEF Advance
<1> HIDE DEF r
<1>4. OnCourse(c)'
  BY <1>1, <1>2, <1>3 DEF AutoInv, AloneGoesWell, OnCourse, ReadIsSo, Reading, Linking, autoRows
<1> QED BY <1>1, <1>2, <1>4, ReadStep

LEMMA EnsureDefaultPoolKeeps == ASSUME AutoInv, NEW c \in SyncCalls, EnsureDefaultPool(c) PROVE AutoInv'
<1>0. syncs \in [SyncCalls -> Sync] /\ syncs[c] \in Sync /\ CountsOK /\ PoolsOK /\ LinkedOK
  BY DEF AutoInv, AutoRowsOK, SyncsOK
<1> DEFINE r == [syncs[c] EXCEPT !.at = "list"]
<1>1. /\ r \in Sync /\ r.at = "list" /\ r.chosen = syncs[c].chosen
      /\ r.listed = syncs[c].listed /\ r.plans = syncs[c].plans /\ r.alone = syncs[c].alone
  BY <1>0 DEF Sync, SyncSteps
<1>2. /\ Advance(c, r) /\ syncs[c].at = "pool"
      /\ UNCHANGED <<autoNodes, autoChosen, linked, autoSerial, poolEdits>>
      /\ DOMAIN pools' = DOMAIN pools \cup {DefaultPool}
      /\ \A i \in DOMAIN pools' : pools'[i] = IF i = DefaultPool THEN "default" ELSE pools[i]
  BY DEF EnsureDefaultPool
<1>3. syncs'[c] = r
  BY <1>0, <1>2 DEF Advance
<1> HIDE DEF r
<1>4. OnCourse(c)'
  BY <1>1, <1>2, <1>3 DEF AutoInv, AloneGoesWell, OnCourse, ReadIsSo, Reading, Linking
<1>5. SyncsOK' /\ SyncIsAlone' /\ AloneGoesWell'
  BY <1>1, <1>2, <1>4, StepOfOne DEF Advance
<1>6. fresh' = FALSE
  BY <1>2 DEF Advance
<1>7. PoolsOK'
  BY <1>0, <1>2 DEF PoolsOK, CountsOK, DefaultPool, PoolKey
<1>8. CountsOK' /\ LinkedOK'
  BY <1>0, <1>2, <1>6 DEF CountsOK, LinkedOK
<1> QED BY <1>5, <1>6, <1>7, <1>8 DEF AutoInv, AutoRowsOK, SyncedMatchesNodes

LEMMA ListAutoPoolsKeeps == ASSUME AutoInv, NEW c \in SyncCalls, ListAutoPools(c) PROVE AutoInv'
<1>0. syncs \in [SyncCalls -> Sync] /\ syncs[c] \in Sync /\ CountsOK /\ PoolsOK
  BY DEF AutoInv, AutoRowsOK, SyncsOK
<1>1. AutoPools \in SUBSET (1..MaxAutoIds)
  BY <1>0, AutoAssumption DEF AutoPools, PoolsOK, CountsOK, DefaultPool
<1>2. syncs[c].at = "list" /\ UNCHANGED autoRows
  BY DEF ListAutoPools
<1>3. CASE syncs[c].chosen = {}
  <2> DEFINE r == [syncs[c] EXCEPT !.at = "work", !.doomed = AutoPools]
  <2>1. /\ r \in Sync /\ r.at = "work" /\ r.doomed = AutoPools
        /\ r.listed = syncs[c].listed /\ r.plans = syncs[c].plans /\ r.alone = syncs[c].alone
    BY <1>0, <1>1 DEF Sync, SyncSteps
  <2>2. Advance(c, r)
    BY <1>3 DEF ListAutoPools, AutoPools
  <2>3. syncs'[c] = r
    BY <1>0, <2>2 DEF Advance
  <2> HIDE DEF r
  <2>4. syncs[c].alone => ReadIsSo(syncs[c])
    BY DEF AutoInv, AloneGoesWell
  <2>5. UNCHANGED <<autoNodes, autoChosen, pools, linked>>
    BY <1>2 DEF autoRows
  <2>6. OnCourse(c)'
    BY <2>1, <2>3, <2>4, <2>5, <1>2, <1>3, ListingShape
       DEF OnCourse, ReadIsSo, WorksWell, Reading, Linking, WantedKeys, AutoPools
  <2> QED BY <2>1, <2>2, <2>6, <1>2, ReadStep
<1>4. CASE syncs[c].chosen # {}
  <2> DEFINE listed == [i \in AutoPools |-> pools[i]]
             r == [syncs[c] EXCEPT !.at = "countries", !.listed = listed]
  <2>0. listed \in Listings
    <3>1. listed \in [AutoPools -> AutoKeys]
      BY <1>0 DEF PoolsOK, AutoPools
    <3> HIDE DEF listed
    <3> QED BY <3>1, <1>1, ListingShape
  <2>1. /\ r \in Sync /\ r.at = "countries" /\ r.chosen = syncs[c].chosen
        /\ r.listed = listed /\ r.alone = syncs[c].alone
    BY <1>0, <2>0 DEF Sync, SyncSteps
  <2>2. Advance(c, r)
    BY <1>4 DEF ListAutoPools, AutoPools
  <2>3. syncs'[c] = r
    BY <1>0, <2>2 DEF Advance
  <2> HIDE DEF r
  <2>4. syncs[c].alone => ReadIsSo(syncs[c])
    BY DEF AutoInv, AloneGoesWell
  <2>5. UNCHANGED <<autoNodes, autoChosen, pools, linked>>
    BY <1>2 DEF autoRows
  <2>6. OnCourse(c)'
    BY <2>1, <2>3, <2>4, <2>5, <1>2
       DEF OnCourse, ReadIsSo, Reading, Linking, AutoPools
  <2> QED BY <2>1, <2>2, <2>6, <1>2, ReadStep
<1> QED BY <1>3, <1>4

LEMMA ListCountriesKeeps == ASSUME AutoInv, NEW c \in SyncCalls, ListCountries(c) PROVE AutoInv'
<1>0. syncs \in [SyncCalls -> Sync] /\ syncs[c] \in Sync /\ CountsOK
  BY DEF AutoInv, AutoRowsOK, SyncsOK
<1> DEFINE r == [syncs[c] EXCEPT !.at = "tags", !.countries = autoNodes \cap CountryKeys]
<1>1. /\ r \in Sync /\ r.at = "tags" /\ r.countries = autoNodes \cap CountryKeys /\ r.chosen = syncs[c].chosen
      /\ r.listed = syncs[c].listed /\ r.alone = syncs[c].alone
  BY <1>0 DEF Sync, SyncSteps, AutoKeys
<1>2. Advance(c, r) /\ UNCHANGED autoRows /\ syncs[c].at = "countries"
  BY DEF ListCountries
<1>3. syncs'[c] = r
  BY <1>0, <1>2 DEF Advance
<1> HIDE DEF r
<1>4. OnCourse(c)'
  BY <1>1, <1>2, <1>3 DEF AutoInv, AloneGoesWell, OnCourse, ReadIsSo, Reading, Linking, autoRows, AutoPools
<1> QED BY <1>1, <1>2, <1>4, ReadStep

(* What is planned is what is asked for and has nodes; a row that was      *)
(* listed is kept for one of these or doomed.                              *)
LEMMA ListTagsAndPlanKeeps == ASSUME AutoInv, NEW c \in SyncCalls, ListTagsAndPlan(c) PROVE AutoInv'
<1>0. syncs \in [SyncCalls -> Sync] /\ syncs[c] \in Sync /\ CountsOK
  BY DEF AutoInv, AutoRowsOK, SyncsOK
<1> DEFINE plans == BuildPlans(syncs[c])
           listed == syncs[c].listed
           kept == {i \in DOMAIN listed : listed[i] \in plans}
           still == [i \in kept |-> listed[i]]
           r == [syncs[c] EXCEPT !.at = "work", !.plans = plans, !.countries = {}, !.chosen = {},
                        !.listed = still, !.doomed = DOMAIN listed \ kept]
<1>1. plans \subseteq AutoKeys /\ listed \in Listings
  BY <1>0 DEF BuildPlans, CountsOK, Sync, AutoKeys
<1>2. DOMAIN listed \in SUBSET (1..MaxAutoIds) /\ \A i \in DOMAIN listed : listed[i] \in AutoKeys
  <2> HIDE DEF listed
  <2> QED BY <1>1, ListingShape
<1>3. still \in Listings /\ DOMAIN still = kept /\ \A i \in kept : still[i] = listed[i]
  <2>1. kept \in SUBSET (1..MaxAutoIds) /\ still \in [kept -> AutoKeys]
    BY <1>2
  <2>2. \A I \in SUBSET (1..MaxAutoIds) : \A f \in [I -> AutoKeys] : f \in Listings
    BY ListingShape
  <2>3. DOMAIN still = kept /\ \A i \in kept : still[i] = listed[i]
    OBVIOUS
  <2> HIDE DEF still, kept
  <2> QED BY <2>1, <2>2, <2>3
<1>4. /\ r \in Sync /\ r.at = "work" /\ r.plans = plans /\ r.listed = still /\ r.doomed = DOMAIN listed \ kept
      /\ r.alone = syncs[c].alone
  <2>1. DOMAIN listed \ kept \in SUBSET (1..MaxAutoIds)
    BY <1>2
  <2> HIDE DEF still, kept, plans
  <2> QED BY <1>0, <1>1, <1>3, <2>1 DEF Sync, SyncSteps
<1>5. Advance(c, r) /\ UNCHANGED autoRows /\ syncs[c].at = "tags"
  BY DEF ListTagsAndPlan
<1>6. syncs'[c] = r
  BY <1>0, <1>5 DEF Advance
<1> HIDE DEF r
<1>7. syncs[c].alone => /\ plans = WantedKeys /\ DefaultPool \in DOMAIN pools
                        /\ DOMAIN listed = AutoPools /\ \A i \in AutoPools : listed[i] = pools[i]
  <2> SUFFICES ASSUME syncs[c].alone
               PROVE /\ plans = WantedKeys /\ DefaultPool \in DOMAIN pools
                     /\ DOMAIN listed = AutoPools /\ \A i \in AutoPools : listed[i] = pools[i]
    OBVIOUS
  <2>1. ReadIsSo(syncs[c])
    BY DEF AutoInv, AloneGoesWell
  <2>2. plans = WantedKeys
    BY <2>1, <1>5, <1>0 DEF ReadIsSo, BuildPlans, WantedKeys, CountsOK, AutoKeys
  <2>3. listed = [i \in AutoPools |-> pools[i]] /\ DefaultPool \in DOMAIN pools
    BY <2>1, <1>5 DEF ReadIsSo
  <2> HIDE DEF listed
  <2> QED BY <2>2, <2>3
<1>8. UNCHANGED <<autoNodes, autoChosen, pools, linked>>
  BY <1>5 DEF autoRows
<1>9. OnCourse(c)'
  <2> SUFFICES ASSUME syncs[c].alone PROVE ReadIsSo(syncs[c])' /\ WorksWell(syncs[c])'
    BY <1>4, <1>6 DEF OnCourse
  <2>1. ReadIsSo(syncs[c])'
    BY <1>4, <1>6, <1>7, <1>8 DEF ReadIsSo, Reading
  <2>2. WorksWell(syncs[c])'
    <3> HIDE DEF plans, listed, still
    <3> QED BY <1>3, <1>4, <1>6, <1>7, <1>8 DEF WorksWell, Linking, WantedKeys, AutoPools
  <2> QED BY <2>1, <2>2
<1> QED BY <1>4, <1>5, <1>9, ReadStep

-----------------------------------------------------------------------------
(* The groups of a doomed node group go; those of the others stay.         *)
LEMMA DeleteLinkedGroupsKeeps == ASSUME AutoInv, NEW c \in SyncCalls, DeleteLinkedGroups(c) PROVE AutoInv'
<1>0. syncs \in [SyncCalls -> Sync] /\ syncs[c] \in Sync /\ CountsOK /\ PoolsOK /\ LinkedOK
  BY DEF AutoInv, AutoRowsOK, SyncsOK
<1>1. syncs[c].at = "work"
  BY DEF DeleteLinkedGroups
<1>2. PICK i \in syncs[c].doomed :
         IF \E g \in LinkedTo(i) : linked[g].targeted THEN EndSync(c, FALSE) /\ UNCHANGED autoRows
         ELSE /\ linked' = [g \in DOMAIN linked \ LinkedTo(i) |-> linked[g]]
              /\ Advance(c, [syncs[c] EXCEPT !.at = "delete", !.pool = i])
              /\ UNCHANGED <<autoNodes, autoChosen, pools, autoSerial, poolEdits>>
  BY DEF DeleteLinkedGroups
<1>3. CASE \E g \in LinkedTo(i) : linked[g].targeted
  <2>1. EndSync(c, FALSE) /\ UNCHANGED autoRows
    BY <1>2, <1>3
  <2>2. SyncsOK' /\ SyncIsAlone' /\ AloneGoesWell'
    BY <2>1, <1>1, EndKeeps
  <2>3. fresh' = FALSE
    BY <2>1 DEF EndSync
  <2> QED BY <2>1, <2>2, <2>3, <1>0 DEF AutoInv, AutoRowsOK, CountsOK, PoolsOK, LinkedOK, autoRows, SyncedMatchesNodes
<1>4. CASE ~\E g \in LinkedTo(i) : linked[g].targeted
  <2> DEFINE r == [syncs[c] EXCEPT !.at = "delete", !.pool = i]
  <2>1. i \in 0..MaxAutoIds
    <3>1. i \in 1..MaxAutoIds
      BY <1>0 DEF Sync
    <3> QED BY <3>1, AutoAssumption
  <2>2. /\ r \in Sync /\ r.at = "delete" /\ r.pool = i /\ r.doomed = syncs[c].doomed
        /\ r.listed = syncs[c].listed /\ r.plans = syncs[c].plans /\ r.alone = syncs[c].alone
    BY <1>0, <2>1 DEF Sync, SyncSteps
  <2>3. /\ Advance(c, r) /\ UNCHANGED <<autoNodes, autoChosen, pools, autoSerial, poolEdits>>
        /\ DOMAIN linked' = DOMAIN linked \ LinkedTo(i)
        /\ \A g \in DOMAIN linked' : linked'[g] = linked[g]
    BY <1>2, <1>4
  <2>4. syncs'[c] = r /\ fresh' = FALSE
    BY <1>0, <2>3 DEF Advance
  <2> HIDE DEF r
  <2>5. ASSUME NEW k, HasGroup(k, AutoPools \ syncs[c].doomed)
        PROVE  HasGroup(k, AutoPools \ syncs[c].doomed)'
    <3>1. PICK j \in AutoPools \ syncs[c].doomed, g \in DOMAIN linked :
             pools[j] = k /\ linked[g].pool = j /\ linked[g].enabled
      BY <2>5 DEF HasGroup
    <3>2. j # i
      BY <1>2, <3>1
    <3>3. g \in DOMAIN linked' /\ linked'[g] = linked[g]
      BY <3>1, <3>2, <2>3 DEF LinkedTo
    <3> QED BY <3>1, <3>3, <2>2, <2>3, <2>4 DEF HasGroup, AutoPools
  <2>6. OnCourse(c)'
    <3> SUFFICES ASSUME syncs[c].alone PROVE ReadIsSo(syncs[c])' /\ WorksWell(syncs[c])'
      BY <2>2, <2>4 DEF OnCourse
    <3>1. ReadIsSo(syncs[c]) /\ WorksWell(syncs[c])
      BY <1>1 DEF AutoInv, AloneGoesWell
    <3>2. ReadIsSo(syncs[c])'
      BY <3>1, <1>1, <2>2, <2>3, <2>4 DEF ReadIsSo, Reading
    <3>3. \A k \in WantedKeys : k \in syncs[c].plans \/ HasGroup(k, AutoPools \ syncs[c].doomed)'
      BY <3>1, <2>5, <1>1 DEF WorksWell, Linking
    <3>4. syncs'[c].pool \in syncs'[c].doomed
      BY <1>2, <2>2, <2>4
    <3> QED BY <3>1, <3>2, <3>3, <3>4, <1>1, <2>2, <2>3, <2>4 DEF WorksWell, WantedKeys, AutoPools, Linking
  <2>7. SyncsOK' /\ SyncIsAlone' /\ AloneGoesWell'
    BY <1>1, <2>2, <2>3, <2>6, StepOfOne DEF Advance
  <2>8. LinkedOK'
    BY <1>0, <2>3 DEF LinkedOK
  <2> QED BY <1>0, <2>3, <2>4, <2>7, <2>8 DEF AutoInv, AutoRowsOK, CountsOK, PoolsOK, SyncedMatchesNodes
<1> QED BY <1>3, <1>4

LEMMA AfterWorkIsSync ==
  ASSUME NEW s \in Sync
  PROVE  /\ AfterWork(s) \in Sync /\ AfterWork(s).at = "work" /\ AfterWork(s).doomed = s.doomed
         /\ AfterWork(s).listed = s.listed /\ AfterWork(s).plans = s.plans /\ AfterWork(s).alone = s.alone
<1>1. 0 \in 0..MaxAutoIds
  BY AutoAssumption
<1> QED BY <1>1 DEF AfterWork, Sync, SyncSteps

LEMMA DeletePoolKeeps == ASSUME AutoInv, NEW c \in SyncCalls, DeletePool(c) PROVE AutoInv'
<1>0. syncs \in [SyncCalls -> Sync] /\ syncs[c] \in Sync /\ CountsOK /\ PoolsOK /\ LinkedOK
  BY DEF AutoInv, AutoRowsOK, SyncsOK
<1> DEFINE i == syncs[c].pool
           s == [syncs[c] EXCEPT !.doomed = @ \ {i}]
           r == AfterWork(s)
<1>1. /\ s \in Sync /\ s.doomed = syncs[c].doomed \ {i}
      /\ s.listed = syncs[c].listed /\ s.plans = syncs[c].plans /\ s.alone = syncs[c].alone
  BY <1>0 DEF Sync
<1>2. /\ Advance(c, r) /\ syncs[c].at = "delete"
      /\ UNCHANGED <<autoNodes, autoChosen, linked, autoSerial, poolEdits>>
      /\ DOMAIN pools' = DOMAIN pools \ {i} /\ \A j \in DOMAIN pools' : pools'[j] = pools[j]
  BY DEF DeletePool
<1> HIDE DEF s
<1>3. /\ r \in Sync /\ r.at = "work" /\ r.doomed = syncs[c].doomed \ {i}
      /\ r.listed = syncs[c].listed /\ r.plans = syncs[c].plans /\ r.alone = syncs[c].alone
  BY <1>1, AfterWorkIsSync
<1>4. syncs'[c] = r /\ fresh' = FALSE
  BY <1>0, <1>2 DEF Advance
<1> HIDE DEF r
<1>5. OnCourse(c)'
  <2> SUFFICES ASSUME syncs[c].alone PROVE ReadIsSo(syncs[c])' /\ WorksWell(syncs[c])'
    BY <1>3, <1>4 DEF OnCourse
  <2>1. ReadIsSo(syncs[c]) /\ WorksWell(syncs[c])
    BY <1>2 DEF AutoInv, AloneGoesWell
  <2>2. i \in syncs[c].doomed /\ i # DefaultPool
    BY <2>1, <1>0, <1>2 DEF WorksWell, Sync, DefaultPool
  <2>3. ReadIsSo(syncs[c])'
    BY <2>1, <2>2, <1>2, <1>3, <1>4 DEF ReadIsSo, Reading
  <2>4. (AutoPools \ syncs[c].doomed)' = AutoPools \ syncs[c].doomed
    BY <2>2, <1>2, <1>3, <1>4 DEF AutoPools
  <2>5. ASSUME NEW k, HasGroup(k, AutoPools \ syncs[c].doomed)
        PROVE  HasGroup(k, AutoPools \ syncs[c].doomed)'
    <3>1. \A j \in AutoPools \ syncs[c].doomed : pools'[j] = pools[j]
      BY <2>2, <1>2 DEF AutoPools
    <3> QED BY <2>4, <2>5, <3>1, <1>2 DEF HasGroup
  <2>6. WorksWell(syncs[c])'
    BY <2>1, <2>2, <2>4, <2>5, <1>2, <1>3, <1>4 DEF WorksWell, WantedKeys, AutoPools, Linking
  <2> QED BY <2>3, <2>6
<1>6. SyncsOK' /\ SyncIsAlone' /\ AloneGoesWell'
  BY <1>2, <1>3, <1>5, StepOfOne DEF Advance
<1>7. PoolsOK'
  BY <1>0, <1>2 DEF PoolsOK
<1> QED BY <1>0, <1>2, <1>4, <1>6, <1>7 DEF AutoInv, AutoRowsOK, CountsOK, LinkedOK, SyncedMatchesNodes

-----------------------------------------------------------------------------
(* The node group of a plan is there already: its row goes on to be linked.*)
LEMMA UpdatePoolKeeps == ASSUME AutoInv, NEW c \in SyncCalls, UpdatePool(c) PROVE AutoInv'
<1>0. syncs \in [SyncCalls -> Sync] /\ syncs[c] \in Sync /\ CountsOK
  BY DEF AutoInv, AutoRowsOK, SyncsOK
<1>1. syncs[c].at = "work" /\ syncs[c].doomed = {} /\ UNCHANGED autoRows
  BY DEF UpdatePool
<1>2. PICK k \in NextPlan(c) :
         /\ Existing(c, k) # {}
         /\ Advance(c, [syncs[c] EXCEPT !.at = "find", !.plans = @ \ {k}, !.pool = Max(Existing(c, k))])
  BY DEF UpdatePool
<1> DEFINE i == Max(Existing(c, k))
           r == [syncs[c] EXCEPT !.at = "find", !.plans = @ \ {k}, !.pool = i]
<1>3. i \in Existing(c, k) /\ i \in 0..MaxAutoIds
  <2>1. DOMAIN syncs[c].listed \in SUBSET (1..MaxAutoIds)
    BY <1>0, ListingShape DEF Sync
  <2>2. Existing(c, k) \in SUBSET (1..MaxAutoIds)
    BY <2>1 DEF Existing
  <2>3. i \in Existing(c, k)
    BY <2>2, <1>2, AutoAssumption, MaxIsIn
  <2> QED BY <2>2, <2>3, AutoAssumption
<1> HIDE DEF i
<1>4. /\ r \in Sync /\ r.at = "find" /\ r.doomed = {} /\ r.pool = i /\ r.plans = syncs[c].plans \ {k}
      /\ r.listed = syncs[c].listed /\ r.alone = syncs[c].alone
  BY <1>0, <1>1, <1>3 DEF Sync, SyncSteps
<1>5. Advance(c, r)
  BY <1>2 DEF i
<1>6. syncs'[c] = r /\ UNCHANGED <<autoNodes, autoChosen, pools, linked>>
  BY <1>0, <1>1, <1>5 DEF Advance, autoRows
<1> HIDE DEF r
<1>7. OnCourse(c)'
  <2> SUFFICES ASSUME syncs[c].alone PROVE ReadIsSo(syncs[c])' /\ WorksWell(syncs[c])'
    BY <1>4, <1>6 DEF OnCourse
  <2>1. ReadIsSo(syncs[c]) /\ WorksWell(syncs[c])
    BY <1>1 DEF AutoInv, AloneGoesWell
  <2>2. ReadIsSo(syncs[c])'
    BY <2>1, <1>1, <1>4, <1>6 DEF ReadIsSo, Reading
  <2>3. i \in AutoPools /\ pools[i] = k
    BY <2>1, <1>3 DEF WorksWell, Existing
  <2>4. \A j \in WantedKeys : j \in syncs[c].plans \/ HasGroup(j, AutoPools)
    BY <2>1, <1>1 DEF WorksWell, Linking
  <2> QED BY <2>1, <2>2, <2>3, <2>4, <1>1, <1>4, <1>6 DEF WorksWell, WantedKeys, AutoPools, HasGroup, Linking
<1> QED BY <1>1, <1>4, <1>5, <1>7, ReadStep

(* It is not: a row with the next id is made.                              *)
LEMMA CreatePoolKeeps == ASSUME AutoInv, NEW c \in SyncCalls, CreatePool(c) PROVE AutoInv'
<1>0. syncs \in [SyncCalls -> Sync] /\ syncs[c] \in Sync /\ CountsOK /\ PoolsOK /\ LinkedOK
  BY DEF AutoInv, AutoRowsOK, SyncsOK
<1> DEFINE i == autoSerial + 1
<1>1. /\ syncs[c].at = "work" /\ syncs[c].doomed = {} /\ autoSerial' = i
      /\ UNCHANGED <<autoNodes, autoChosen, linked, poolEdits>>
  BY DEF CreatePool
<1>2. i \in 1..MaxAutoIds /\ i \in 0..MaxAutoIds /\ i # DefaultPool /\ autoSerial \in 0..i /\ i \notin DOMAIN pools
  BY <1>0, AutoAssumption DEF CreatePool, CountsOK, PoolsOK, DefaultPool
<1>3. PICK k \in NextPlan(c) :
         /\ pools' = [j \in DOMAIN pools \cup {i} |-> IF j = i THEN k ELSE pools[j]]
         /\ Advance(c, [syncs[c] EXCEPT !.at = "insert", !.plans = @ \ {k}, !.pool = i])
  BY DEF CreatePool
<1> DEFINE r == [syncs[c] EXCEPT !.at = "insert", !.plans = @ \ {k}, !.pool = i]
<1>4. k \in syncs[c].plans /\ k \in AutoKeys
  BY <1>0 DEF NextPlan, Sync
<1>5. DOMAIN pools' = DOMAIN pools \cup {i} /\ pools'[i] = k /\ \A j \in DOMAIN pools : pools'[j] = pools[j]
  BY <1>2, <1>3
<1> HIDE DEF i
<1>6. /\ r \in Sync /\ r.at = "insert" /\ r.doomed = {} /\ r.pool = i /\ r.plans = syncs[c].plans \ {k}
      /\ r.listed = syncs[c].listed /\ r.alone = syncs[c].alone
  BY <1>0, <1>1, <1>2 DEF Sync, SyncSteps
<1>7. Advance(c, r)
  BY <1>3
<1>8. syncs'[c] = r /\ fresh' = FALSE
  BY <1>0, <1>7 DEF Advance
<1> HIDE DEF r
<1>9. OnCourse(c)'
  <2> SUFFICES ASSUME syncs[c].alone PROVE ReadIsSo(syncs[c])' /\ WorksWell(syncs[c])'
    BY <1>6, <1>8 DEF OnCourse
  <2>1. ReadIsSo(syncs[c]) /\ WorksWell(syncs[c])
    BY <1>1 DEF AutoInv, AloneGoesWell
  <2>2. ReadIsSo(syncs[c])'
    BY <2>1, <1>1, <1>2, <1>5, <1>6, <1>8 DEF ReadIsSo, Reading
  <2>3. AutoPools' = AutoPools \cup {i} /\ \A j \in AutoPools : pools'[j] = pools[j]
    BY <1>2, <1>5 DEF AutoPools
  <2>4. WantedKeys' = WantedKeys /\ k \in WantedKeys
    BY <2>1, <1>1, <1>4 DEF WorksWell, WantedKeys
  <2>5. \A j \in WantedKeys : j \in syncs[c].plans \/ HasGroup(j, AutoPools)'
    BY <2>1, <2>3, <1>1 DEF WorksWell, Linking, HasGroup
  <2> QED BY <2>1, <2>2, <2>3, <2>4, <2>5, <1>1, <1>5, <1>6, <1>8 DEF WorksWell, Linking, HasGroup
<1>10. SyncsOK' /\ SyncIsAlone' /\ AloneGoesWell'
  BY <1>1, <1>6, <1>7, <1>9, StepOfOne DEF Advance
<1>11. PoolsOK'
  BY <1>0, <1>1, <1>2, <1>4, <1>5, AutoAssumption DEF PoolsOK, CountsOK, PoolKey, i
<1>12. LinkedOK'
  BY <1>0, <1>1, AutoAssumption DEF LinkedOK, CountsOK, i
<1>13. CountsOK'
  BY <1>0, <1>1, <1>2, <1>8 DEF CountsOK
<1> QED BY <1>8, <1>10, <1>11, <1>12, <1>13 DEF AutoInv, AutoRowsOK, SyncedMatchesNodes

LEMMA FindLinkedKeeps == ASSUME AutoInv, NEW c \in SyncCalls, FindLinked(c) PROVE AutoInv'
<1>0. syncs \in [SyncCalls -> Sync] /\ syncs[c] \in Sync /\ CountsOK /\ LinkedOK
  BY DEF AutoInv, AutoRowsOK, SyncsOK
<1>1. syncs[c].at = "find" /\ UNCHANGED autoRows
  BY DEF FindLinked
<1>2. PICK at \in {"insert", "enable"}, g \in 0..MaxAutoIds :
         /\ Advance(c, [syncs[c] EXCEPT !.at = at, !.group = g])
         /\ at = "enable" => g \in LinkedTo(syncs[c].pool)
  <2>1. CASE LinkedTo(syncs[c].pool) = {}
    <3>1. [syncs[c] EXCEPT !.at = "insert"] = [syncs[c] EXCEPT !.at = "insert", !.group = syncs[c].group]
      BY <1>0 DEF Sync
    <3>2. syncs[c].group \in 0..MaxAutoIds
      BY <1>0 DEF Sync
    <3> QED BY <2>1, <3>1, <3>2 DEF FindLinked
  <2>2. CASE LinkedTo(syncs[c].pool) # {}
    <3>1. LinkedTo(syncs[c].pool) \subseteq 0..MaxAutoIds
      BY <1>0, AutoAssumption DEF LinkedTo, LinkedOK, CountsOK
    <3> QED BY <2>2, <3>1 DEF FindLinked
  <2> QED BY <2>1, <2>2
<1> DEFINE r == [syncs[c] EXCEPT !.at = at, !.group = g]
<1>3. /\ r \in Sync /\ r.at = at /\ r.doomed = syncs[c].doomed /\ r.pool = syncs[c].pool /\ r.plans = syncs[c].plans
      /\ r.listed = syncs[c].listed /\ r.alone = syncs[c].alone /\ r.group = g
  BY <1>0 DEF Sync, SyncSteps
<1>4. syncs'[c] = r /\ UNCHANGED <<autoNodes, autoChosen, pools, linked>>
  BY <1>0, <1>1, <1>2 DEF Advance, autoRows
<1>5. Advance(c, r)
  BY <1>2
<1> HIDE DEF r
<1>6. OnCourse(c)'
  <2> SUFFICES ASSUME syncs[c].alone PROVE ReadIsSo(syncs[c])' /\ WorksWell(syncs[c])'
    BY <1>3, <1>4 DEF OnCourse
  <2>1. ReadIsSo(syncs[c]) /\ WorksWell(syncs[c])
    BY <1>1 DEF AutoInv, AloneGoesWell, Linking
  <2>2. ReadIsSo(syncs[c])'
    BY <2>1, <1>1, <1>3, <1>4 DEF ReadIsSo, Reading
  <2>3. at = "enable" => g \in DOMAIN linked /\ linked[g].pool = syncs[c].pool
    BY <1>2 DEF LinkedTo
  <2> QED BY <2>1, <2>2, <2>3, <1>1, <1>3, <1>4 DEF WorksWell, WantedKeys, AutoPools, HasGroup, Linking
<1> QED BY <1>1, <1>3, <1>5, <1>6, ReadStep

(* The policy group that was found is switched on, and no other is off     *)
(* that was on.                                                            *)
LEMMA RestoreLinkedKeeps == ASSUME AutoInv, NEW c \in SyncCalls, RestoreLinked(c) PROVE AutoInv'
<1>0. syncs \in [SyncCalls -> Sync] /\ syncs[c] \in Sync /\ CountsOK /\ PoolsOK /\ LinkedOK
  BY DEF AutoInv, AutoRowsOK, SyncsOK
<1> DEFINE r == AfterWork(syncs[c])
           h == syncs[c].group
<1>1. /\ syncs[c].at = "enable" /\ Advance(c, r)
      /\ linked' = [g \in DOMAIN linked |-> IF g = h THEN Restored(linked[g]) ELSE linked[g]]
      /\ UNCHANGED <<autoNodes, autoChosen, pools, autoSerial, poolEdits>>
  BY DEF RestoreLinked
<1>2. DOMAIN linked' = DOMAIN linked
  BY <1>1
<1>3. ASSUME NEW g \in DOMAIN linked
      PROVE  /\ linked'[g] \in Linked /\ linked'[g].pool = linked[g].pool
             /\ linked[g].enabled \/ g = h => linked'[g].enabled
  <2>1. linked[g] \in Linked /\ linked'[g] = IF g = h THEN Restored(linked[g]) ELSE linked[g]
    BY <1>0, <1>1 DEF LinkedOK
  <2> QED BY <2>1 DEF Linked, Restored
<1>4. /\ r \in Sync /\ r.at = "work" /\ r.doomed = syncs[c].doomed /\ r.plans = syncs[c].plans
      /\ r.listed = syncs[c].listed /\ r.alone = syncs[c].alone
  BY <1>0, AfterWorkIsSync
<1>5. syncs'[c] = r /\ fresh' = FALSE
  BY <1>0, <1>1 DEF Advance
<1> HIDE DEF r
<1>6. OnCourse(c)'
  <2> SUFFICES ASSUME syncs[c].alone PROVE ReadIsSo(syncs[c])' /\ WorksWell(syncs[c])'
    BY <1>4, <1>5 DEF OnCourse
  <2>1. ReadIsSo(syncs[c]) /\ WorksWell(syncs[c])
    BY <1>1 DEF AutoInv, AloneGoesWell, Linking
  <2>2. ReadIsSo(syncs[c])'
    BY <2>1, <1>1, <1>4, <1>5 DEF ReadIsSo, Reading
  <2>3. /\ syncs[c].doomed = {} /\ syncs[c].pool \in AutoPools
        /\ h \in DOMAIN linked /\ linked[h].pool = syncs[c].pool
    BY <2>1, <1>1 DEF WorksWell, Linking
  <2>4. \E k : k = pools[syncs[c].pool] /\ HasGroup(k, AutoPools)'
    <3>1. linked'[h].pool = syncs[c].pool /\ linked'[h].enabled /\ h \in DOMAIN linked'
      BY <2>3, <1>2, <1>3
    <3>2. syncs[c].pool \in AutoPools' /\ pools' = pools
      BY <2>3, <1>1 DEF AutoPools
    <3>3. PICK i \in AutoPools' : i = syncs[c].pool
      BY <3>2
    <3>4. PICK k : k = pools[i]
      OBVIOUS
    <3>5. HasGroup(k, AutoPools)'
      <4>1. i \in AutoPools' /\ h \in DOMAIN linked' /\ linked'[h].pool = i /\ linked'[h].enabled /\ pools'[i] = k
        BY <3>1, <3>2, <3>3, <3>4
      <4> QED BY <4>1 DEF HasGroup
    <3> QED BY <3>3, <3>4, <3>5
  <2>5. ASSUME NEW k, HasGroup(k, AutoPools) PROVE HasGroup(k, AutoPools)'
    BY <2>5, <1>1, <1>2, <1>3 DEF HasGroup, AutoPools
  <2>6. \A k \in WantedKeys : k \in syncs[c].plans \/ HasGroup(k, AutoPools)'
    BY <2>1, <2>3, <2>4, <2>5 DEF WorksWell
  <2> QED BY <2>1, <2>2, <2>3, <2>6, <1>1, <1>4, <1>5 DEF WorksWell, WantedKeys, AutoPools, Linking
<1>7. SyncsOK' /\ SyncIsAlone' /\ AloneGoesWell'
  BY <1>1, <1>4, <1>6, StepOfOne DEF Advance
<1>8. LinkedOK'
  BY <1>0, <1>1, <1>2, <1>3 DEF LinkedOK
<1> QED BY <1>0, <1>1, <1>5, <1>7, <1>8 DEF AutoInv, AutoRowsOK, CountsOK, PoolsOK, SyncedMatchesNodes

(* A policy group that is made for a node group, by a sync or by the       *)
(* operator: it is on, and every other one stays.                          *)
LEMMA GroupIsMade ==
  ASSUME AutoInv, autoSerial < MaxAutoIds, autoSerial' = autoSerial + 1, NEW i \in 0..MaxAutoIds,
         linked' = [g \in DOMAIN linked \cup {autoSerial + 1} |->
           IF g = autoSerial + 1 THEN [pool |-> i, enabled |-> TRUE, targeted |-> FALSE] ELSE linked[g]],
         UNCHANGED <<autoNodes, autoChosen, pools>>, poolEdits' \in 0..MaxPoolEdits, fresh' = FALSE
  PROVE  /\ CountsOK' /\ PoolsOK' /\ LinkedOK'
         /\ \A k, ids : HasGroup(k, ids) => HasGroup(k, ids)'
         /\ \A k, ids : i \in ids /\ pools[i] = k => HasGroup(k, ids)'
<1>0. CountsOK /\ PoolsOK /\ LinkedOK
  BY DEF AutoInv, AutoRowsOK
<1>1. autoSerial + 1 \in 1..MaxAutoIds /\ autoSerial + 1 \in 0..MaxAutoIds /\ autoSerial + 1 \notin DOMAIN linked
  BY <1>0, AutoAssumption DEF CountsOK, LinkedOK
<1> DEFINE new == autoSerial + 1
           row == [pool |-> i, enabled |-> TRUE, targeted |-> FALSE]
<1>2. /\ DOMAIN linked' = DOMAIN linked \cup {new} /\ linked'[new] = row
      /\ \A g \in DOMAIN linked : linked'[g] = linked[g]
  BY <1>1
<1>3. row \in Linked /\ row.pool = i /\ row.enabled
  BY AutoAssumption DEF Linked
<1>4. LinkedOK'
  <2>1. DOMAIN linked' \subseteq 1..autoSerial'
    BY <1>0, <1>1, <1>2 DEF LinkedOK, CountsOK
  <2> HIDE DEF row, new
  <2> QED BY <1>0, <1>2, <1>3, <2>1 DEF LinkedOK
<1>5. CountsOK' /\ PoolsOK'
  <2>1. 0..autoSerial \subseteq 0..autoSerial'
    BY <1>0, AutoAssumption DEF CountsOK
  <2> QED BY <1>0, <1>1, <2>1 DEF CountsOK, PoolsOK
<1> HIDE DEF row, new
<1>6. ASSUME NEW k, NEW ids, HasGroup(k, ids) PROVE HasGroup(k, ids)'
  BY <1>2, <1>6 DEF HasGroup
<1>7. ASSUME NEW k, NEW ids, i \in ids, pools[i] = k PROVE HasGroup(k, ids)'
  BY <1>2, <1>3, <1>7 DEF HasGroup
<1> QED BY <1>4, <1>5, <1>6, <1>7

LEMMA CreateLinkedKeeps == ASSUME AutoInv, NEW c \in SyncCalls, CreateLinked(c) PROVE AutoInv'
<1>0. syncs \in [SyncCalls -> Sync] /\ syncs[c] \in Sync /\ CountsOK
  BY DEF AutoInv, AutoRowsOK, SyncsOK
<1> DEFINE r == AfterWork(syncs[c])
           i == syncs[c].pool
<1>1. /\ syncs[c].at = "insert" /\ Advance(c, r) /\ autoSerial < MaxAutoIds /\ autoSerial' = autoSerial + 1
      /\ linked' = [g \in DOMAIN linked \cup {autoSerial + 1} |->
           IF g = autoSerial + 1 THEN [pool |-> i, enabled |-> TRUE, targeted |-> FALSE] ELSE linked[g]]
      /\ UNCHANGED <<autoNodes, autoChosen, pools, poolEdits>>
  BY DEF CreateLinked
<1>2. i \in 0..MaxAutoIds
  BY <1>0 DEF Sync
<1>3. /\ r \in Sync /\ r.at = "work" /\ r.doomed = syncs[c].doomed /\ r.plans = syncs[c].plans
      /\ r.listed = syncs[c].listed /\ r.alone = syncs[c].alone
  BY <1>0, AfterWorkIsSync
<1>4. syncs'[c] = r /\ fresh' = FALSE
  BY <1>0, <1>1 DEF Advance
<1> HIDE DEF r
<1>5. PICK j \in 0..MaxAutoIds : j = i
  BY <1>2
<1>6. /\ CountsOK' /\ PoolsOK' /\ LinkedOK'
      /\ \A k, ids : HasGroup(k, ids) => HasGroup(k, ids)'
      /\ \A k, ids : j \in ids /\ pools[j] = k => HasGroup(k, ids)'
  BY <1>0, <1>1, <1>4, <1>5, GroupIsMade DEF CountsOK
<1>7. OnCourse(c)'
  <2> SUFFICES ASSUME syncs[c].alone PROVE ReadIsSo(syncs[c])' /\ WorksWell(syncs[c])'
    BY <1>3, <1>4 DEF OnCourse
  <2>1. ReadIsSo(syncs[c]) /\ WorksWell(syncs[c])
    BY <1>1 DEF AutoInv, AloneGoesWell, Linking
  <2>2. ReadIsSo(syncs[c])'
    BY <2>1, <1>1, <1>3, <1>4 DEF ReadIsSo, Reading
  <2>3. syncs[c].doomed = {} /\ j \in AutoPools
    BY <2>1, <1>1, <1>5 DEF WorksWell, Linking
  <2>4. PICK ids : ids = AutoPools
    OBVIOUS
  <2>5. \A k \in WantedKeys : k \in syncs[c].plans \/ HasGroup(k, ids)'
    <3>1. \A k \in WantedKeys : k \in syncs[c].plans \/ HasGroup(k, ids) \/ pools[j] = k
      BY <2>1, <2>3, <2>4, <1>5 DEF WorksWell
    <3> QED BY <3>1, <2>3, <2>4, <1>6
  <2>6. AutoPools' = ids
    BY <2>4, <1>1 DEF AutoPools
  <2>7. \A k : HasGroup(k, ids)' => HasGroup(k, AutoPools)'
    BY <2>6 DEF HasGroup
  <2> QED BY <2>1, <2>2, <2>3, <2>5, <2>6, <2>7, <2>4, <1>1, <1>3, <1>4 DEF WorksWell, WantedKeys, AutoPools, Linking
<1>8. SyncsOK' /\ SyncIsAlone' /\ AloneGoesWell'
  BY <1>1, <1>3, <1>7, StepOfOne DEF Advance
<1> QED BY <1>4, <1>6, <1>8 DEF AutoInv, AutoRowsOK, SyncedMatchesNodes

(* Nothing is doomed or planned any more: every key has its group.         *)
LEMMA FinishSyncKeeps == ASSUME AutoInv, NEW c \in SyncCalls, FinishSync(c) PROVE AutoInv'
<1>0. CountsOK /\ PoolsOK /\ LinkedOK
  BY DEF AutoInv, AutoRowsOK
<1>1. /\ syncs[c].at = "work" /\ syncs[c].doomed = {} /\ syncs[c].plans = {}
      /\ EndSync(c, TRUE) /\ UNCHANGED autoRows
  BY DEF FinishSync
<1>2. SyncsOK' /\ SyncIsAlone' /\ AloneGoesWell'
  BY <1>1, EndKeeps
<1>3. fresh' = syncs[c].alone
  <2>1. syncs[c].alone \in BOOLEAN
    BY DEF AutoInv, AutoRowsOK, SyncsOK, Sync
  <2>2. fresh' = (TRUE /\ syncs[c].alone)
    BY <1>1 DEF EndSync
  <2> QED BY <2>1, <2>2
<1>4. SyncedMatchesNodes'
  <2>1. SUFFICES ASSUME syncs[c].alone PROVE SyncedMatchesNodes'
    BY <1>3 DEF SyncedMatchesNodes
  <2>2. ReadIsSo(syncs[c]) /\ WorksWell(syncs[c])
    BY <2>1, <1>1 DEF AutoInv, AloneGoesWell
  <2>3. DefaultPool \in DOMAIN pools
    BY <2>2, <1>1 DEF ReadIsSo
  <2>4. \A i \in AutoPools : pools[i] \in WantedKeys
    BY <2>2, <1>1 DEF WorksWell
  <2>5. \A k \in WantedKeys : HasGroup(k, AutoPools)
    BY <2>2, <1>1 DEF WorksWell, Linking
  <2>6. UNCHANGED <<autoNodes, autoChosen, pools, linked>>
    BY <1>1 DEF autoRows
  <2>7. {pools[i] : i \in DOMAIN pools \ {DefaultPool}} = autoChosen \cap autoNodes
    BY <2>4, <2>5 DEF HasGroup, AutoPools, WantedKeys
  <2>8. ASSUME NEW k \in autoChosen \cap autoNodes
        PROVE \E i \in DOMAIN pools, g \in DOMAIN linked :
                 pools[i] = k /\ linked[g].pool = i /\ linked[g].enabled
    BY <2>5 DEF HasGroup, AutoPools, WantedKeys
  <2> QED BY <2>3, <2>6, <2>7, <2>8 DEF SyncedMatchesNodes
<1>5. fresh' \in BOOLEAN
  BY <1>3 DEF AutoInv, AutoRowsOK, SyncsOK, Sync
<1> QED BY <1>0, <1>1, <1>2, <1>4, <1>5 DEF AutoInv, AutoRowsOK, CountsOK, PoolsOK, LinkedOK, autoRows

LEMMA CutOffSyncKeeps == ASSUME AutoInv, NEW c \in SyncCalls, CutOffSync(c) PROVE AutoInv'
<1>0. CountsOK /\ PoolsOK /\ LinkedOK
  BY DEF AutoInv, AutoRowsOK
<1>1. syncs[c].at # "idle" /\ EndSync(c, FALSE) /\ UNCHANGED autoRows
  BY DEF CutOffSync, Running
<1>2. SyncsOK' /\ SyncIsAlone' /\ AloneGoesWell'
  BY <1>1, EndKeeps
<1>3. fresh' = FALSE
  BY <1>1 DEF EndSync
<1> QED BY <1>0, <1>1, <1>2, <1>3 DEF AutoInv, AutoRowsOK, CountsOK, PoolsOK, LinkedOK, autoRows, SyncedMatchesNodes

-----------------------------------------------------------------------------
(* Nodes, settings and policy groups change under whatever sync is going.  *)
LEMMA OutsideKeeps ==
  ASSUME AutoInv, NodesChange \/ SettingsChange \/ AddOwnGroup \/ ChangeLinked
  PROVE  AutoInv'
<1>0. CountsOK /\ PoolsOK /\ LinkedOK
  BY DEF AutoInv, AutoRowsOK
<1>1. poolEdits' \in 0..MaxPoolEdits /\ Disturb
  BY <1>0, AutoAssumption DEF NodesChange, SettingsChange, AddOwnGroup, ChangeLinked, EditPool, CountsOK
<1>2. SyncsOK' /\ SyncIsAlone' /\ AloneGoesWell' /\ fresh' = FALSE
  BY <1>1, DisturbKeeps
<1>3. SyncedMatchesNodes'
  BY <1>2 DEF SyncedMatchesNodes
<1>4. CASE NodesChange
  <2>1. PICK k \in AutoKeys : autoNodes' = (autoNodes \ {k}) \cup ({k} \ autoNodes)
    BY <1>4 DEF NodesChange
  <2>2. autoNodes' \subseteq AutoKeys /\ UNCHANGED <<autoChosen, pools, linked, autoSerial>>
    BY <2>1, <1>0, <1>4 DEF NodesChange, CountsOK
  <2> QED BY <2>2, <1>0, <1>1, <1>2, <1>3 DEF AutoInv, AutoRowsOK, CountsOK, PoolsOK, LinkedOK
<1>5. CASE SettingsChange
  <2>1. autoChosen' \subseteq AutoKeys /\ UNCHANGED <<autoNodes, pools, linked, autoSerial>>
    BY <1>5 DEF SettingsChange
  <2> QED BY <2>1, <1>0, <1>1, <1>2, <1>3 DEF AutoInv, AutoRowsOK, CountsOK, PoolsOK, LinkedOK
<1>6. CASE AddOwnGroup
  <2>1. PICK i \in DOMAIN pools \ {DefaultPool} :
           linked' = [g \in DOMAIN linked \cup {autoSerial + 1} |->
             IF g = autoSerial + 1 THEN [pool |-> i, enabled |-> TRUE, targeted |-> FALSE] ELSE linked[g]]
    BY <1>6 DEF AddOwnGroup
  <2>2. i \in 0..MaxAutoIds
    BY <1>0, AutoAssumption DEF PoolsOK, CountsOK
  <2>3. autoSerial < MaxAutoIds /\ autoSerial' = autoSerial + 1 /\ UNCHANGED <<autoNodes, autoChosen, pools>>
    BY <1>6 DEF AddOwnGroup
  <2>4. CountsOK' /\ PoolsOK' /\ LinkedOK'
    BY <2>1, <2>2, <2>3, <1>1, <1>2, GroupIsMade
  <2> QED BY <2>4, <1>2, <1>3 DEF AutoInv, AutoRowsOK
<1>7. CASE ChangeLinked
  <2>1. PICK g \in DOMAIN linked :
           \/ linked' = [linked EXCEPT ![g].targeted = ~@]
           \/ linked' = [linked EXCEPT ![g].enabled = ~@]
           \/ linked' = [h \in DOMAIN linked \ {g} |-> linked[h]]
    BY <1>7 DEF ChangeLinked
  <2>2. UNCHANGED <<autoNodes, autoChosen, pools, autoSerial>>
    BY <1>7 DEF ChangeLinked
  <2>3. DOMAIN linked' \subseteq DOMAIN linked
    BY <2>1
  <2>4. ASSUME NEW h \in DOMAIN linked' PROVE linked'[h] \in Linked
    <3>1. h \in DOMAIN linked /\ linked[h] \in Linked
      BY <2>3, <1>0 DEF LinkedOK
    <3>2. CASE linked' = [linked EXCEPT ![g].targeted = ~@]
      BY <3>1, <3>2 DEF Linked
    <3>3. CASE linked' = [linked EXCEPT ![g].enabled = ~@]
      BY <3>1, <3>3 DEF Linked
    <3>4. CASE linked' = [m \in DOMAIN linked \ {g} |-> linked[m]]
      BY <3>1, <3>4, <2>4
    <3> QED BY <2>1, <3>2, <3>3, <3>4
  <2>5. LinkedOK'
    BY <2>2, <2>3, <2>4, <1>0 DEF LinkedOK
  <2> QED BY <2>2, <2>5, <1>0, <1>1, <1>2, <1>3 DEF AutoInv, AutoRowsOK, CountsOK, PoolsOK
<1> QED BY <1>4, <1>5, <1>6, <1>7

LEMMA AutoBegins == AutoInit => AutoInv
<1> SUFFICES ASSUME AutoInit PROVE AutoInv
  OBVIOUS
<1>1. /\ autoNodes = AutoKeys /\ autoChosen = AutoKeys /\ DOMAIN pools = {} /\ DOMAIN linked = {}
      /\ autoSerial = 0 /\ poolEdits = 0 /\ fresh = FALSE /\ syncs = [c \in SyncCalls |-> IdleSync]
  <2>1. DOMAIN NoRows = {} /\ DOMAIN [g \in {} |-> IdleSync] = {}
    BY ListingShape
  <2> QED BY <2>1 DEF AutoInit
<1>2. CountsOK /\ PoolsOK /\ LinkedOK
  <2>1. CountsOK
    <3>1. 0 \in 0..MaxAutoIds /\ 0 \in 0..MaxPoolEdits
      BY AutoAssumption
    <3> QED BY <1>1, <3>1 DEF CountsOK
  <2>2. PoolsOK
    BY <1>1 DEF PoolsOK
  <2>3. LinkedOK
    BY <1>1 DEF LinkedOK
  <2> QED BY <2>1, <2>2, <2>3
<1>3. SyncsOK /\ SyncIsAlone /\ AloneGoesWell
  BY <1>1, IdleIsSync DEF SyncsOK, SyncIsAlone, AloneGoesWell
<1> QED BY <1>1, <1>2, <1>3 DEF AutoInv, AutoRowsOK, SyncedMatchesNodes

LEMMA AutoKeeps == AutoInv /\ [AutoNext]_autoVars => AutoInv'
<1> SUFFICES ASSUME AutoInv, [AutoNext]_autoVars PROVE AutoInv'
  OBVIOUS
<1>1. CASE UNCHANGED autoVars
  <2>1. AutoRowsOK' /\ SyncIsAlone'
    BY <1>1 DEF autoVars, AutoInv, AutoRowsOK, CountsOK, PoolsOK, LinkedOK, SyncsOK, SyncIsAlone
  <2>2. AloneGoesWell'
    BY <1>1 DEF autoVars, AutoInv, AloneGoesWell, ReadIsSo, WorksWell, AutoPools, WantedKeys, HasGroup
  <2>3. SyncedMatchesNodes'
    BY <1>1 DEF autoVars, AutoInv, SyncedMatchesNodes
  <2> QED BY <2>1, <2>2, <2>3 DEF AutoInv
<1>2. CASE NodesChange \/ SettingsChange \/ AddOwnGroup \/ ChangeLinked
  BY <1>2, OutsideKeeps
<1>3. ASSUME NEW c \in SyncCalls,
             \/ StartSync(c) \/ ReadAutoSettings(c) \/ EnsureDefaultPool(c) \/ ListAutoPools(c)
             \/ ListCountries(c) \/ ListTagsAndPlan(c) \/ DeleteLinkedGroups(c) \/ DeletePool(c)
             \/ UpdatePool(c) \/ CreatePool(c) \/ FindLinked(c) \/ RestoreLinked(c) \/ CreateLinked(c)
             \/ FinishSync(c) \/ CutOffSync(c)
      PROVE AutoInv'
  BY <1>3, StartKeeps, ReadAutoSettingsKeeps, EnsureDefaultPoolKeeps, ListAutoPoolsKeeps, ListCountriesKeeps,
     ListTagsAndPlanKeeps, DeleteLinkedGroupsKeeps, DeletePoolKeeps, UpdatePoolKeeps, CreatePoolKeeps,
     FindLinkedKeeps, RestoreLinkedKeeps, CreateLinkedKeeps, FinishSyncKeeps, CutOffSyncKeeps
<1> QED BY <1>1, <1>2, <1>3 DEF AutoNext

(* syncAutoNodeGroups: whatever overlapped, failed or was cut off before,  *)
(* one that runs alone and does not fail leaves a node group for exactly   *)
(* the keys that are asked for and have nodes, each with a policy group    *)
(* that is on.                                                             *)
THEOREM SyncedMatchesNodesHolds == AutoSpec => []SyncedMatchesNodes
<1>1. AutoInv => SyncedMatchesNodes
  BY DEF AutoInv
<1> QED BY <1>1, AutoBegins, AutoKeeps, PTL DEF AutoSpec

(* The rows and what each sync holds keep their types, ids count upwards.  *)
THEOREM AutoTypesHold == AutoSpec => []AutoTypes
<1>1. AutoInv => AutoTypes
  <2> SUFFICES ASSUME AutoInv PROVE AutoTypes
    OBVIOUS
  <2>0. CountsOK /\ PoolsOK /\ LinkedOK /\ syncs \in [SyncCalls -> Sync]
    BY DEF AutoInv, AutoRowsOK, SyncsOK
  <2>1. \A i \in DOMAIN pools : i \in 0..MaxAutoIds /\ pools[i] \in PoolKey
    BY <2>0, AutoAssumption DEF CountsOK, PoolsOK
  <2>2. \A g \in DOMAIN linked : g \in 1..MaxAutoIds /\ linked[g] \in Linked
    BY <2>0, AutoAssumption DEF CountsOK, LinkedOK
  <2>3. ASSUME NEW c \in SyncCalls PROVE SyncTypes(syncs[c])
    <3>1. syncs[c] \in Sync
      BY <2>0
    <3>2. \A i \in DOMAIN syncs[c].listed : syncs[c].listed[i] \in AutoKeys
      BY <3>1, ListingShape DEF Sync
    <3>3. syncs[c].doomed \subseteq 0..MaxAutoIds
      BY <3>1, AutoAssumption DEF Sync
    <3> QED BY <3>1, <3>2, <3>3 DEF Sync, SyncTypes
  <2> QED BY <2>0, <2>1, <2>2, <2>3 DEF AutoTypes, CountsOK
<1> QED BY <1>1, AutoBegins, AutoKeeps, PTL DEF AutoSpec

-----------------------------------------------------------------------------
(* Remote rule sets of the catalogs.                                       *)
(***************************************************************************)
(* The rows, and what each request holds between two of its calls.         *)
TargetStates == {"missing", "off", "on"}
RowMaps == UNION {[I -> SetRow] : I \in SUBSET (1..MaxSetRows)}
SetCall == [at : SetSteps, op : SetOps, groups : {NoSets} \cup [TargetIds -> TargetStates], rows : RowMaps,
            id : Nat, body : SetBodies, group : TargetIds \cup {"none"}, seen : {NoSets} \cup SetRow,
            again : BOOLEAN, alone : BOOLEAN]
CallFits(call) ==
    /\ call.at \in {"groups", "rows", "write"} => call.op # "free"
    /\ call.at \in {"rows", "write"} => call.groups \in [TargetIds -> TargetStates]
    /\ call.at = "row" => call.op \in {"put", "delete"}
    /\ call.at = "check" => call.op \in {"post", "put"}
    /\ call.at = "update" => call.op = "put"
    /\ call.at = "insert" => call.op = "post"
    /\ call.at = "remove" => call.op = "delete"
    /\ call.op = "put" => call.body # "none"
    /\ call.op = "post" \/ call.body \in {"override", "move"} => call.group \in TargetIds
    /\ call.op = "put" /\ call.at \in {"check", "update"} => call.seen \in SetRow

OutsideOK ==
    /\ targets \in [TargetIds -> TargetStates] /\ policy \subseteq Presets /\ upstream \subseteq Presets
    /\ setChanges \in 0..MaxSetChanges
SetsOK ==
    /\ setSerial \in 0..MaxSetRows
    /\ DOMAIN sets \subseteq 1..setSerial
    /\ \A i \in DOMAIN sets : sets[i] \in SetRow
DecidedOK == decided \in [calm : BOOLEAN, off : SUBSET (1..setSerial), fresh : BOOLEAN]
SetCallsOK ==
    /\ setCalls \in [SetCalls -> SetCall]
    /\ \A c \in SetCalls : CallFits(setCalls[c])

(***************************************************************************)
(* While requests come one by one: no preset has two rows, the rows the    *)
(* operator turned off are those that are off without a note, a request    *)
(* finds the rows as it read them, and between the ensure of a PUT and its *)
(* write no row is on with a note from when it was off.                    *)
Managed == {i \in DOMAIN sets : sets[i].preset # "none"}
OneAtATime == \A c, d \in SetsInFlight : c = d
OnePerPreset == \A i, j \in Managed : sets[i].preset = sets[j].preset => i = j
OffIsKnown == \A i \in Managed : i \in decided.off <=> ~sets[i].enabled /\ ~sets[i].note
Tidy == \A i \in Managed : sets[i].enabled => ~sets[i].note
FindsAsRead(call) ==
    /\ call.at = "write" => call.rows = [i \in Managed |-> sets[i]]
    /\ call.at \in {"rows", "write"} /\ call.alone => call.groups = targets
    /\ call.op = "put" /\ call.at \in {"row", "check", "update"} => Tidy
    /\ call.op = "put" /\ call.at \in {"check", "update"} => call.id \in DOMAIN sets /\ call.seen = sets[call.id]
CalmIsCalm ==
    decided.calm => /\ OneAtATime /\ OnePerPreset /\ OffIsKnown
                    /\ \A c \in SetCalls : FindsAsRead(setCalls[c])

SetInv == OutsideOK /\ SetsOK /\ DecidedOK /\ SetCallsOK /\ CalmIsCalm /\ PresetsAreAsDecided

-----------------------------------------------------------------------------
(* Nothing read yet. *)
LEMMA NothingRead ==
    /\ NoSets \in RowMaps /\ DOMAIN NoSets = {}
    /\ \A f \in RowMaps : /\ DOMAIN f \in SUBSET (1..MaxSetRows)
                          /\ \A i \in DOMAIN f : f[i] \in SetRow
    /\ \A I \in SUBSET (1..MaxSetRows) : \A f \in [I -> SetRow] : f \in RowMaps
<1>1. DOMAIN NoSets = {} /\ NoSets \in [{} -> SetRow] /\ {} \in SUBSET (1..MaxSetRows)
  BY DEF NoSets
<1>2. \A I \in SUBSET (1..MaxSetRows) : \A f \in [I -> SetRow] : f \in RowMaps
  BY DEF RowMaps
<1>3. ASSUME NEW f \in RowMaps
      PROVE DOMAIN f \in SUBSET (1..MaxSetRows) /\ \A i \in DOMAIN f : f[i] \in SetRow
  <2>1. PICK I \in SUBSET (1..MaxSetRows) : f \in [I -> SetRow]
    BY DEF RowMaps
  <2> QED BY <2>1
<1>4. NoSets \in RowMaps
  <2> HIDE DEF NoSets
  <2> QED BY <1>1, <1>2
<1> QED BY <1>1, <1>2, <1>3, <1>4

LEMMA FreeIsCall == FreeSet \in SetCall /\ CallFits(FreeSet) /\ FreeSet.at = "free" /\ FreeSet.op = "free"
<1> USE NothingRead DEF FreeSet
<1>1. FreeSet \in SetCall
  BY DEF SetCall, SetSteps, SetOps, SetBodies
<1>2. CallFits(FreeSet)
  BY DEF CallFits
<1> QED BY <1>1, <1>2

(* What one request does to the requests, when they come one by one.       *)
LEMMA OneMoves ==
  ASSUME SetInv, NEW c \in SetCalls, setCalls[c].at # "free", NEW r \in SetCall, CallFits(r), OnSet(c, r),
         decided'.calm = decided.calm,
         decided.calm => OnePerPreset' /\ OffIsKnown' /\ FindsAsRead(setCalls[c])'
  PROVE  SetCallsOK' /\ CalmIsCalm'
<1>0. setCalls \in [SetCalls -> SetCall] /\ \A d \in SetCalls : CallFits(setCalls[d])
  BY DEF SetInv, SetCallsOK
<1>1. /\ setCalls' = [setCalls EXCEPT ![c] = r] /\ setCalls'[c] = r
      /\ \A d \in SetCalls \ {c} : setCalls'[d] = setCalls[d]
  BY <1>0 DEF OnSet
<1>2. SetCallsOK'
  <2>1. setCalls' \in [SetCalls -> SetCall]
    BY <1>0, <1>1
  <2>2. \A d \in SetCalls : CallFits(setCalls'[d])
    BY <1>0, <1>1
  <2>3. \A d \in SetCalls : CallFits(setCalls[d])'
    BY <2>2 DEF CallFits
  <2> QED BY <2>1, <2>3 DEF SetCallsOK
<1>3. ASSUME decided.calm
      PROVE OneAtATime' /\ \A d \in SetCalls : FindsAsRead(setCalls[d])'
  <2>1. \A d \in SetCalls \ {c} : setCalls[d].at = "free" /\ setCalls'[d].at = "free"
    BY <1>1, <1>3 DEF SetInv, CalmIsCalm, OneAtATime, SetsInFlight
  <2>2. OneAtATime'
    BY <2>1 DEF OneAtATime, SetsInFlight
  <2>3. \A d \in SetCalls \ {c} : FindsAsRead(setCalls[d])'
    BY <2>1 DEF FindsAsRead
  <2> QED BY <2>2, <2>3, <1>3
<1> QED BY <1>2, <1>3 DEF CalmIsCalm

(* What became stale is still what the operator decided.                   *)
LEMMA StaleKeeps ==
  ASSUME DecidedOK, Stale
  PROVE  /\ decided'.calm = decided.calm /\ decided'.off = decided.off /\ ~decided'.fresh
         /\ setSerial' = setSerial => DecidedOK'
         /\ PresetsAreAsDecided'
<1>1. decided' = [decided EXCEPT !.fresh = FALSE]
  BY DEF Stale
<1>2. decided'.calm = decided.calm /\ decided'.off = decided.off /\ ~decided'.fresh
  BY <1>1 DEF DecidedOK
<1>3. setSerial' = setSerial => DecidedOK'
  BY <1>1 DEF DecidedOK
<1> QED BY <1>2, <1>3 DEF PresetsAreAsDecided

(* A call that reads.                                                      *)
LEMMA SetReadKeeps ==
  ASSUME SetInv, NEW c \in SetCalls, setCalls[c].at # "free", NEW r \in SetCall, CallFits(r), OnSet(c, r),
         Stale, UNCHANGED setRows, decided.calm => FindsAsRead(setCalls[c])'
  PROVE  SetInv'
<1>0. OutsideOK /\ SetsOK /\ DecidedOK /\ CalmIsCalm
  BY DEF SetInv
<1>1. /\ decided'.calm = decided.calm /\ decided'.off = decided.off
      /\ DecidedOK' /\ PresetsAreAsDecided'
  BY <1>0, StaleKeeps DEF setRows
<1>2. sets' = sets /\ setSerial' = setSerial
  BY DEF setRows
<1>3. decided.calm => OnePerPreset' /\ OffIsKnown'
  BY <1>0, <1>1, <1>2 DEF CalmIsCalm, OnePerPreset, OffIsKnown, Managed
<1>4. SetCallsOK' /\ CalmIsCalm'
  BY <1>1, <1>3, OneMoves
<1>5. OutsideOK' /\ SetsOK'
  BY <1>0 DEF OutsideOK, SetsOK, setRows
<1> QED BY <1>1, <1>4, <1>5 DEF SetInv

LEMMA SetEndsKeeps ==
  ASSUME SetInv, NEW c \in SetCalls, setCalls[c].at # "free", SetEnds(c)
  PROVE  SetInv'
<1>0. setCalls \in [SetCalls -> SetCall]
  BY DEF SetInv, SetCallsOK
<1>1. OnSet(c, FreeSet) /\ Stale /\ UNCHANGED setRows
  BY DEF SetEnds
<1>2. setCalls'[c] = FreeSet
  BY <1>0, <1>1 DEF OnSet
<1>3. FindsAsRead(setCalls[c])'
  BY <1>2, FreeIsCall DEF FindsAsRead
<1> QED BY <1>1, <1>3, FreeIsCall, SetReadKeeps

LEMMA ReadTargetsKeeps == ASSUME SetInv, NEW c \in SetCalls, ReadTargets(c) PROVE SetInv'
<1>0. setCalls \in [SetCalls -> SetCall] /\ setCalls[c] \in SetCall /\ CallFits(setCalls[c]) /\ OutsideOK
  BY DEF SetInv, SetCallsOK
<1> DEFINE r == [setCalls[c] EXCEPT !.at = "rows", !.groups = targets]
<1>1. setCalls[c].at = "groups" /\ OnSet(c, r) /\ Stale /\ UNCHANGED setRows
  BY DEF ReadTargets
<1>2. /\ r \in SetCall /\ r.at = "rows" /\ r.groups = targets /\ r.op = setCalls[c].op /\ r.body = setCalls[c].body
      /\ r.group = setCalls[c].group
  BY <1>0 DEF SetCall, SetSteps, OutsideOK
<1>3. setCalls'[c] = r
  BY <1>0, <1>1 DEF OnSet
<1> HIDE DEF r
<1>4. CallFits(r)
  BY <1>0, <1>1, <1>2 DEF CallFits, OutsideOK
<1>5. FindsAsRead(setCalls[c])'
  BY <1>1, <1>2, <1>3 DEF FindsAsRead, setRows
<1> QED BY <1>1, <1>2, <1>4, <1>5, SetReadKeeps

LEMMA ReadPresetRowsKeeps == ASSUME SetInv, NEW c \in SetCalls, ReadPresetRows(c) PROVE SetInv'
<1>0. setCalls \in [SetCalls -> SetCall] /\ setCalls[c] \in SetCall /\ CallFits(setCalls[c]) /\ SetsOK
  BY DEF SetInv, SetCallsOK
<1> DEFINE rows == [i \in Managed |-> sets[i]]
           r == [setCalls[c] EXCEPT !.at = "write", !.rows = rows]
<1>1. setCalls[c].at = "rows" /\ OnSet(c, r) /\ Stale /\ UNCHANGED setRows
  BY DEF ReadPresetRows, Managed
<1>2. rows \in RowMaps
  <2>1. Managed \in SUBSET (1..MaxSetRows)
    BY <1>0, PresetAssumption DEF Managed, SetsOK
  <2>2. rows \in [Managed -> SetRow]
    BY <1>0 DEF Managed, SetsOK
  <2> HIDE DEF rows
  <2> QED BY <2>1, <2>2, NothingRead
<1> HIDE DEF rows
<1>3. /\ r \in SetCall /\ r.at = "write" /\ r.rows = rows /\ r.groups = setCalls[c].groups /\ r.op = setCalls[c].op
      /\ r.body = setCalls[c].body /\ r.group = setCalls[c].group /\ r.alone = setCalls[c].alone
  BY <1>0, <1>2 DEF SetCall, SetSteps
<1>4. setCalls'[c] = r
  BY <1>0, <1>1 DEF OnSet
<1> HIDE DEF r
<1>5. CallFits(r)
  BY <1>0, <1>1, <1>3 DEF CallFits
<1>6. decided.calm => FindsAsRead(setCalls[c])'
  BY <1>1, <1>3, <1>4 DEF SetInv, CalmIsCalm, FindsAsRead, setRows, Managed, rows
<1> QED BY <1>1, <1>3, <1>5, <1>6, SetReadKeeps

(* PUT and DELETE find the row as it is.                                   *)
LEMMA ReadSetRowKeeps == ASSUME SetInv, NEW c \in SetCalls, ReadSetRow(c) PROVE SetInv'
<1>0. setCalls \in [SetCalls -> SetCall] /\ setCalls[c] \in SetCall /\ CallFits(setCalls[c]) /\ SetsOK
  BY DEF SetInv, SetCallsOK
<1> DEFINE call == setCalls[c]
<1>1. call.at = "row" /\ call.op \in {"put", "delete"}
  BY <1>0 DEF ReadSetRow, CallFits
<1>2. CASE SetEnds(c)
  BY <1>1, <1>2, SetEndsKeeps
<1>3. CASE call.id \in DOMAIN sets /\ call.op = "delete" /\ OnSet(c, FreeSet) /\ Stale /\ UNCHANGED setRows
  BY <1>1, <1>3, SetEndsKeeps DEF SetEnds
<1>4. CASE call.op = "delete" /\ OnSet(c, [call EXCEPT !.at = "remove"]) /\ Stale /\ UNCHANGED setRows
  <2> DEFINE r == [call EXCEPT !.at = "remove"]
  <2>1. /\ r \in SetCall /\ r.at = "remove" /\ r.op = "delete" /\ r.group = call.group /\ r.body = call.body
    BY <1>0, <1>4 DEF SetCall, SetSteps
  <2>2. setCalls'[c] = r
    BY <1>0, <1>4 DEF OnSet
  <2> HIDE DEF r
  <2>3. CallFits(r)
    BY <2>1, <1>0 DEF CallFits
  <2>4. FindsAsRead(setCalls[c])'
    BY <2>1, <2>2 DEF FindsAsRead
  <2> QED BY <1>1, <1>4, <2>1, <2>3, <2>4, SetReadKeeps DEF r
<1>5. CASE /\ call.op = "put" /\ call.id \in DOMAIN sets /\ Stale /\ UNCHANGED setRows
           /\ OnSet(c, [call EXCEPT !.at = "check", !.seen = sets[call.id]])
  <2> DEFINE r == [call EXCEPT !.at = "check", !.seen = sets[call.id]]
  <2>1. sets[call.id] \in SetRow
    BY <1>0, <1>5 DEF SetsOK
  <2>2. /\ r \in SetCall /\ r.at = "check" /\ r.op = "put" /\ r.group = call.group /\ r.body = call.body
        /\ r.seen = sets[call.id] /\ r.id = call.id
    BY <1>0, <1>5, <2>1 DEF SetCall, SetSteps
  <2>3. setCalls'[c] = r
    BY <1>0, <1>5 DEF OnSet
  <2> HIDE DEF r
  <2>4. CallFits(r)
    BY <2>1, <2>2, <1>0, <1>5 DEF CallFits
  <2>5. decided.calm => FindsAsRead(setCalls[c])'
    BY <2>2, <2>3, <1>1, <1>5 DEF SetInv, CalmIsCalm, FindsAsRead, Tidy, Managed, setRows
  <2> QED BY <1>1, <1>5, <2>2, <2>4, <2>5, SetReadKeeps DEF r
<1> QED BY <1>1, <1>2, <1>3, <1>4, <1>5 DEF ReadSetRow

LEMMA CheckSetWriteKeeps == ASSUME SetInv, NEW c \in SetCalls, CheckSetWrite(c) PROVE SetInv'
<1>0. setCalls \in [SetCalls -> SetCall] /\ setCalls[c] \in SetCall /\ CallFits(setCalls[c])
  BY DEF SetInv, SetCallsOK
<1> DEFINE call == setCalls[c]
           at == IF call.op = "post" THEN "insert" ELSE "update"
           r == [call EXCEPT !.at = at]
<1>1. call.at = "check" /\ call.op \in {"post", "put"} /\ Stale /\ UNCHANGED setRows
  BY <1>0 DEF CheckSetWrite, CallFits
<1>2. CASE OnSet(c, FreeSet)
  BY <1>1, <1>2, SetEndsKeeps DEF SetEnds
<1>3. CASE OnSet(c, r)
  <2>1. /\ r \in SetCall /\ r.at = at /\ r.op = call.op /\ r.group = call.group /\ r.body = call.body
        /\ r.seen = call.seen /\ r.id = call.id
    BY <1>0 DEF SetCall, SetSteps
  <2>2. setCalls'[c] = r
    BY <1>0, <1>3 DEF OnSet
  <2> HIDE DEF r
  <2>3. CallFits(r)
    BY <2>1, <1>0, <1>1 DEF CallFits
  <2>4. decided.calm => FindsAsRead(setCalls[c])'
    BY <2>1, <2>2, <1>1 DEF SetInv, CalmIsCalm, FindsAsRead, Tidy, Managed, setRows
  <2> QED BY <1>1, <1>3, <2>1, <2>3, <2>4, SetReadKeeps
<1> QED BY <1>1, <1>2, <1>3 DEF CheckSetWrite

-----------------------------------------------------------------------------
(* The row of a preset that is kept is one of the preset's.                *)
LEMMA KeptIsListed ==
  ASSUME NEW rows \in RowMaps, NEW i \in DOMAIN rows
  PROVE  Kept(rows, rows[i].preset) \in DOMAIN rows /\ rows[Kept(rows, rows[i].preset)].preset = rows[i].preset
<1> DEFINE S == {j \in DOMAIN rows : rows[j].preset = rows[i].preset}
<1>1. S \in SUBSET (1..MaxSetRows) /\ S # {}
  BY NothingRead
<1>2. MaxSetRows \in Nat
  BY PresetAssumption
<1>3. Kept(rows, rows[i].preset) = Max(S)
  BY DEF Kept
<1> HIDE DEF S
<1>4. Max(S) \in S
  BY <1>1, <1>2, MaxIsIn
<1> QED BY <1>3, <1>4 DEF S

LEMMA SettledIsRow ==
  ASSUME NEW row \in SetRow, NEW found \in BOOLEAN, NEW wanted \in BOOLEAN
  PROVE  LET s == Settled(row, found, wanted) IN
         /\ s \in SetRow /\ s.preset = row.preset /\ s.target = row.target /\ s.override = row.override
         /\ ~row.enabled /\ ~row.note => s = row
         /\ row.enabled \/ row.note => s.enabled = (found /\ wanted) /\ s.note = ~(found /\ wanted)
<1>1. (found /\ wanted) \in BOOLEAN
  OBVIOUS
<1>2. CASE ~row.enabled /\ ~row.note
  BY <1>2 DEF Settled
<1>3. CASE row.enabled \/ row.note
  <2> DEFINE s == [row EXCEPT !.enabled = found /\ wanted, !.note = ~(found /\ wanted)]
  <2>1. Settled(row, found, wanted) = s
    BY <1>3 DEF Settled
  <2>2. /\ s \in SetRow /\ s.preset = row.preset /\ s.target = row.target /\ s.override = row.override
        /\ s.enabled = (found /\ wanted) /\ s.note = ~(found /\ wanted)
    BY DEF SetRow
  <2> HIDE DEF s
  <2> QED BY <2>1, <2>2, <1>3
<1> QED BY <1>2, <1>3

(* What the ensure decides for a preset and its row is yes or no.          *)
LEMMA DecisionsAreMade ==
  ASSUME NEW groups \in [TargetIds -> TargetStates], NEW p \in Presets
  PROVE  /\ (groups[SuggestedFor[p]] # "missing") \in BOOLEAN
         /\ \A override : Wanted(groups, p, override) \in BOOLEAN
BY DEF Wanted

LEMMA EnsureKeepsRows ==
  ASSUME OutsideOK, SetsOK, NEW call \in SetCall, call.groups \in [TargetIds -> TargetStates]
  PROVE  /\ DOMAIN EnsuredRows(call) \subseteq DOMAIN sets
         /\ \A i \in DOMAIN EnsuredRows(call) : EnsuredRows(call)[i] \in SetRow /\ EnsuredRows(call)[i].preset = sets[i].preset
<1> DEFINE rows == call.rows
           catalog == Catalog(call.op)
           found(p) == call.groups[SuggestedFor[p]] # "missing"
           listed == {rows[i].preset : i \in DOMAIN rows}
           kept == {Kept(rows, p) : p \in listed \cap catalog}
           after(i) == Settled(rows[i], found(rows[i].preset), Wanted(call.groups, rows[i].preset, rows[i].override))
           dropped == {Kept(rows, p) : p \in listed \ catalog}
           E == [i \in DOMAIN sets \ dropped |-> IF i \in kept /\ after(i) # rows[i]
                   THEN [sets[i] EXCEPT !.enabled = after(i).enabled, !.note = after(i).note]
                   ELSE sets[i]]
<1>1. EnsuredRows(call) = E
  BY DEF EnsuredRows
<1>2. rows \in RowMaps /\ catalog \subseteq Presets
  BY DEF SetCall, Catalog, OutsideOK
<1>3. ASSUME NEW i \in kept
      PROVE  after(i) \in SetRow
  <2>1. PICK p \in listed \cap catalog : i = Kept(rows, p)
    OBVIOUS
  <2> HIDE DEF rows, kept
  <2>2. PICK j \in DOMAIN rows : rows[j].preset = p
    BY <2>1
  <2>3. i \in DOMAIN rows /\ rows[i].preset = p
    BY <1>2, <2>1, <2>2, KeptIsListed
  <2>4. rows[i] \in SetRow /\ p \in Presets
    BY <1>2, <1>3, <2>1, <2>3, NothingRead
  <2>5. found(p) \in BOOLEAN /\ Wanted(call.groups, p, rows[i].override) \in BOOLEAN
    BY <2>4, DecisionsAreMade
  <2> QED BY <2>3, <2>4, <2>5, SettledIsRow
<1> HIDE DEF after, kept, dropped, catalog
<1>4. ASSUME NEW i \in DOMAIN sets, i \in kept
      PROVE  LET n == [sets[i] EXCEPT !.enabled = after(i).enabled, !.note = after(i).note]
             IN n \in SetRow /\ n.preset = sets[i].preset
  <2>1. sets[i] \in SetRow /\ after(i).enabled \in BOOLEAN /\ after(i).note \in BOOLEAN
    BY <1>3, <1>4 DEF SetsOK, SetRow
  <2> QED BY <2>1 DEF SetRow
<1>5. \A i \in DOMAIN E : E[i] \in SetRow /\ E[i].preset = sets[i].preset
  BY <1>4 DEF SetsOK
<1> QED BY <1>1, <1>5

(* One by one, the ensure settles every row of a preset, and of no preset  *)
(* that is in the catalog does it drop the row.                            *)
EnsuredAs(old, new, found, wanted) ==
    /\ new \in SetRow /\ new.preset = old.preset /\ new.override = old.override
    /\ ~old.enabled /\ ~old.note => new.enabled = FALSE /\ new.note = FALSE
    /\ old.enabled \/ old.note => new.enabled = (found /\ wanted) /\ new.note = ~(found /\ wanted)

LEMMA EnsureSettles ==
  ASSUME OutsideOK, SetsOK, NEW call \in SetCall, call.groups \in [TargetIds -> TargetStates],
         OnePerPreset, call.rows = [i \in Managed |-> sets[i]],
         NEW i \in Managed
  PROVE  LET p == sets[i].preset IN
         /\ p \in Presets
         /\ p \in Catalog(call.op) => i \in DOMAIN EnsuredRows(call)
         /\ i \in DOMAIN EnsuredRows(call) =>
              EnsuredAs(sets[i], EnsuredRows(call)[i], call.groups[SuggestedFor[p]] # "missing",
                        Wanted(call.groups, p, sets[i].override))
<1> DEFINE rows == call.rows
           catalog == Catalog(call.op)
           found(p) == call.groups[SuggestedFor[p]] # "missing"
           listed == {rows[j].preset : j \in DOMAIN rows}
           kept == {Kept(rows, p) : p \in listed \cap catalog}
           after(j) == Settled(rows[j], found(rows[j].preset), Wanted(call.groups, rows[j].preset, rows[j].override))
           dropped == {Kept(rows, p) : p \in listed \ catalog}
           p == sets[i].preset
<1>1. EnsuredRows(call) = [j \in DOMAIN sets \ dropped |-> IF j \in kept /\ after(j) # rows[j]
                   THEN [sets[j] EXCEPT !.enabled = after(j).enabled, !.note = after(j).note]
                   ELSE sets[j]]
  BY DEF EnsuredRows
<1>2. rows \in RowMaps /\ DOMAIN rows = Managed /\ \A j \in Managed : rows[j] = sets[j]
  BY DEF SetCall
<1>3. sets[i] \in SetRow /\ p \in Presets /\ i \in DOMAIN sets
  BY DEF SetsOK, Managed, SetRow
<1> HIDE DEF rows
<1>4. \A j \in Managed : Kept(rows, rows[j].preset) = j
  BY <1>2, KeptIsListed DEF OnePerPreset
<1>5. Kept(rows, p) = i /\ p \in listed
  BY <1>2, <1>4
<1>6. p \in catalog => i \in kept /\ i \notin dropped
  <2>1. ASSUME p \in catalog, NEW q \in listed \ catalog
        PROVE  Kept(rows, q) # i
    BY <2>1, <1>2, <1>4
  <2> QED BY <2>1, <1>5
<1>7. p \notin catalog => i \in dropped
  BY <1>5
<1>8. found(p) \in BOOLEAN /\ Wanted(call.groups, p, sets[i].override) \in BOOLEAN
  BY <1>3, DecisionsAreMade
<1> DEFINE s == Settled(sets[i], found(p), Wanted(call.groups, p, sets[i].override))
<1>9. /\ after(i) = s
      /\ s \in SetRow /\ s.preset = p /\ s.target = sets[i].target /\ s.override = sets[i].override
      /\ ~sets[i].enabled /\ ~sets[i].note => s = sets[i]
      /\ sets[i].enabled \/ sets[i].note =>
           /\ s.enabled = (found(p) /\ Wanted(call.groups, p, sets[i].override))
           /\ s.note = ~(found(p) /\ Wanted(call.groups, p, sets[i].override))
  <2>1. after(i) = s
    BY <1>2
  <2>2. PICK f \in BOOLEAN, w \in BOOLEAN : f = found(p) /\ w = Wanted(call.groups, p, sets[i].override)
    BY <1>8
  <2>3. s = Settled(sets[i], f, w)
    BY <2>2
  <2> HIDE DEF s, after, found
  <2>4. /\ s \in SetRow /\ s.preset = p /\ s.target = sets[i].target /\ s.override = sets[i].override
        /\ ~sets[i].enabled /\ ~sets[i].note => s = sets[i]
        /\ sets[i].enabled \/ sets[i].note => s.enabled = (f /\ w) /\ s.note = ~(f /\ w)
    BY <2>3, <1>3, SettledIsRow
  <2> QED BY <2>1, <2>2, <2>4
<1> HIDE DEF s, after, kept, dropped, catalog, found
<1>10. ASSUME i \in DOMAIN EnsuredRows(call)
       PROVE  LET n == EnsuredRows(call)[i] IN
              n \in SetRow /\ n.preset = p /\ n.override = sets[i].override /\ n.enabled = s.enabled /\ n.note = s.note
  <2>1. i \in kept /\ i \in DOMAIN sets \ dropped
    BY <1>1, <1>6, <1>7, <1>10
  <2>2. CASE s # sets[i]
    <3> DEFINE n == [sets[i] EXCEPT !.enabled = s.enabled, !.note = s.note]
    <3>1. EnsuredRows(call)[i] = n
      BY <1>1, <1>2, <1>9, <2>1, <2>2
    <3>2. s.enabled \in BOOLEAN /\ s.note \in BOOLEAN
      BY <1>9 DEF SetRow
    <3>3. n \in SetRow /\ n.preset = p /\ n.override = sets[i].override /\ n.enabled = s.enabled /\ n.note = s.note
      BY <1>3, <3>2 DEF SetRow
    <3> HIDE DEF n
    <3> QED BY <3>1, <3>3
  <2>3. CASE s = sets[i]
    BY <1>1, <1>2, <1>3, <1>9, <2>1, <2>3
  <2> QED BY <2>2, <2>3
<1>11. ASSUME i \in DOMAIN EnsuredRows(call)
       PROVE  EnsuredAs(sets[i], EnsuredRows(call)[i], found(p), Wanted(call.groups, p, sets[i].override))
  <2>1. sets[i].enabled \in BOOLEAN /\ sets[i].note \in BOOLEAN
    BY <1>3 DEF SetRow
  <2> QED BY <1>9, <1>10, <1>11, <2>1 DEF EnsuredAs
<1>12. p \in catalog => i \in DOMAIN EnsuredRows(call)
  BY <1>1, <1>3, <1>6
<1> QED BY <1>3, <1>11, <1>12 DEF catalog, found

(* What the ensure adds.                                                   *)
LEMMA NewPresetIsRow ==
  ASSUME OutsideOK, NEW call \in SetCall, call.groups \in [TargetIds -> TargetStates], NEW p \in MissingPresets(call)
  PROVE  /\ p \in Presets /\ p # "none" /\ NewPreset(call, p) \in SetRow /\ NewPreset(call, p).preset = p
         /\ NewPreset(call, p).override = "none"
         /\ NewPreset(call, p).enabled = Wanted(call.groups, p, "none")
         /\ NewPreset(call, p).note = ~Wanted(call.groups, p, "none")
<1>1. p \in Presets /\ p # "none"
  BY PresetAssumption DEF MissingPresets, Catalog, OutsideOK
<1>2. Wanted(call.groups, p, "none") \in BOOLEAN /\ SuggestedFor[p] \in TargetIds
  BY <1>1, DecisionsAreMade, PresetAssumption
<1> QED BY <1>1, <1>2 DEF NewPreset, SetRow

(* As many ids as presets that miss: each of them gets a row.              *)
LEMMA EachGetsARow ==
  ASSUME NEW new, IsFiniteSet(new), NEW n \in Nat, NEW order \in [n + 1 .. n + Cardinality(new) -> new],
         \A i, j \in n + 1 .. n + Cardinality(new) : i # j => order[i] # order[j]
  PROVE  \A p \in new : \E i \in n + 1 .. n + Cardinality(new) : order[i] = p
<1> DEFINE ids == n + 1 .. n + Cardinality(new)
<1>1. Cardinality(new) \in Nat
  BY FS_CardinalityType
<1>2. Cardinality(ids) = Cardinality(new)
  <2>1. PICK a \in Int, b \in Int : a = n + 1 /\ b = n + Cardinality(new)
    BY <1>1
  <2>2. Cardinality(a..b) = IF a > b THEN 0 ELSE b - a + 1
    BY FS_Interval
  <2>3. (IF a > b THEN 0 ELSE b - a + 1) = Cardinality(new)
    BY <1>1, <2>1
  <2> QED BY <2>1, <2>2, <2>3
<1>3. order \in Injection(ids, new)
  BY DEF Injection, IsInjective
<1> HIDE DEF ids
<1>4. order \in Surjection(ids, new)
  BY <1>2, <1>3, FS_Injection
<1> QED BY <1>4 DEF Surjection, ids

-----------------------------------------------------------------------------
(* Where a request goes after its defaults.                                *)
LEMMA AfterEnsureIsCall ==
  ASSUME NEW call \in SetCall, CallFits(call), call.op # "free"
  PROVE  LET r == AfterEnsure(call) IN
         /\ r \in SetCall /\ CallFits(r) /\ r.at \in {"free", "check", "row"}
         /\ r.op = "put" => r.at \in {"free", "row"}
<1> DEFINE cleared == [call EXCEPT !.groups = NoSets, !.rows = NoSets]
           toCheck == [cleared EXCEPT !.at = "check"]
           toRow == [cleared EXCEPT !.at = "row"]
<1>1. /\ cleared \in SetCall /\ cleared.op = call.op /\ cleared.body = call.body /\ cleared.group = call.group
  BY NothingRead DEF SetCall
<1> HIDE DEF cleared
<1>2. CASE AfterEnsure(call) = FreeSet
  BY <1>2, FreeIsCall
<1>3. CASE call.op = "post" /\ AfterEnsure(call) = toCheck
  <2>1. /\ toCheck \in SetCall /\ toCheck.at = "check" /\ toCheck.op = call.op /\ toCheck.body = call.body
        /\ toCheck.group = call.group
    BY <1>1 DEF SetCall, SetSteps
  <2> HIDE DEF toCheck
  <2>2. CallFits(toCheck)
    BY <2>1, <1>3 DEF CallFits
  <2> QED BY <1>3, <2>1, <2>2
<1>4. CASE call.op = "put" /\ AfterEnsure(call) = toRow
  <2>1. /\ toRow \in SetCall /\ toRow.at = "row" /\ toRow.op = call.op /\ toRow.body = call.body
        /\ toRow.group = call.group
    BY <1>1 DEF SetCall, SetSteps
  <2> HIDE DEF toRow
  <2>2. CallFits(toRow)
    BY <2>1, <1>4 DEF CallFits
  <2> QED BY <1>4, <2>1, <2>2
<1>5. call.op \in {"ensure", "cron", "delete", "post", "put"}
  BY DEF SetCall, SetOps
<1> QED BY <1>2, <1>3, <1>4, <1>5 DEF AfterEnsure, cleared

LEMMA WritePresetsKeeps == ASSUME SetInv, NEW c \in SetCalls, WritePresets(c) PROVE SetInv'
<1> DEFINE call == setCalls[c]
           new == MissingPresets(call)
           E == EnsuredRows(call)
           r == AfterEnsure(call)
<1>0. /\ setCalls \in [SetCalls -> SetCall] /\ call \in SetCall /\ CallFits(call)
      /\ OutsideOK /\ SetsOK /\ DecidedOK /\ CalmIsCalm
  BY DEF SetInv, SetCallsOK
<1>1. call.at = "write" /\ call.op # "free" /\ call.groups \in [TargetIds -> TargetStates]
  BY <1>0 DEF WritePresets, CallFits
<1>2. CASE SetEnds(c)
  BY <1>1, <1>2, SetEndsKeeps
<1>3. ASSUME ~SetEnds(c) PROVE SetInv'
  <2>1. IsFiniteSet(new) /\ new \subseteq Presets /\ Cardinality(new) \in Nat
    <3>1. new \in SUBSET Presets
      BY <1>0 DEF MissingPresets, Catalog, OutsideOK
    <3> HIDE DEF new
    <3> QED BY <3>1, PresetAssumption, FS_Subset, FS_CardinalityType
  <2> DEFINE ids == setSerial + 1 .. setSerial + Cardinality(new)
  <2>2. /\ setSerial + Cardinality(new) <= MaxSetRows
        /\ setSerial' = setSerial + Cardinality(new)
        /\ OnSet(c, r)
        /\ decided' = [decided EXCEPT !.off = @ \cap DOMAIN sets',
                         !.fresh = call.alone /\ call.op # "cron" /\ r = FreeSet]
        /\ UNCHANGED <<targets, policy, upstream, setChanges>>
    BY <1>3 DEF WritePresets
  <2>3. PICK order \in [ids -> new] :
          /\ \A i, j \in ids : i # j => order[i] # order[j]
          /\ sets' = [i \in DOMAIN E \cup ids |-> IF i \in ids THEN NewPreset(call, order[i]) ELSE E[i]]
    BY <1>3 DEF WritePresets
  <2>4. setSerial \in Nat /\ DOMAIN sets \subseteq 1..setSerial /\ DOMAIN E \subseteq DOMAIN sets
    BY <1>0, <1>1, EnsureKeepsRows DEF SetsOK
  <2>5. \A i \in DOMAIN E : i \notin ids
    BY <2>1, <2>4
  <2>6. /\ DOMAIN sets' = DOMAIN E \cup ids
        /\ \A i \in ids : sets'[i] = NewPreset(call, order[i]) /\ order[i] \in new
        /\ \A i \in DOMAIN E : sets'[i] = E[i]
    BY <2>3, <2>5
  <2>7. SetsOK'
    <3>1. setSerial' \in 0..MaxSetRows
      BY <2>1, <2>2, <2>4, PresetAssumption
    <3>2. DOMAIN sets' \subseteq 1..setSerial'
      <4>1. 1..setSerial \subseteq 1..(setSerial + Cardinality(new)) /\ ids \subseteq 1..(setSerial + Cardinality(new))
        BY <2>1, <2>4
      <4> QED BY <4>1, <2>2, <2>4, <2>6
    <3>3. \A i \in DOMAIN sets' : sets'[i] \in SetRow
      BY <1>0, <1>1, <2>6, EnsureKeepsRows, NewPresetIsRow
    <3> QED BY <3>1, <3>2, <3>3 DEF SetsOK
  <2> HIDE DEF ids
  <2>8. /\ decided'.calm = decided.calm /\ decided'.off = decided.off \cap DOMAIN sets'
        /\ decided'.fresh = (call.alone /\ call.op # "cron" /\ r = FreeSet)
        /\ DecidedOK'
    <3>1. decided.off \cap DOMAIN sets' \in SUBSET (1..setSerial')
      BY <2>7 DEF SetsOK
    <3>2. (call.alone /\ call.op # "cron" /\ r = FreeSet) \in BOOLEAN
      OBVIOUS
    <3> HIDE DEF r, call
    <3> QED BY <1>0, <2>2, <3>1, <3>2 DEF DecidedOK
  <2>9. r \in SetCall /\ CallFits(r) /\ r.at \in {"free", "check", "row"} /\ (r.op = "put" => r.at \in {"free", "row"})
    BY <1>0, <1>1, AfterEnsureIsCall
  <2>10. setCalls'[c] = r
    BY <1>0, <2>2 DEF OnSet
  <2>11. ASSUME decided.calm
         PROVE  /\ OnePerPreset /\ OffIsKnown /\ call.rows = [i \in Managed |-> sets[i]]
                /\ call.alone => call.groups = targets
    BY <1>0, <1>1, <2>11 DEF CalmIsCalm, FindsAsRead
  <2> DEFINE found(p) == call.groups[SuggestedFor[p]] # "missing"
             wanted(p, override) == Wanted(call.groups, p, override)
  <2>12. \A i \in ids : /\ order[i] \in new /\ order[i] \in Presets /\ order[i] # "none"
                        /\ sets'[i].preset = order[i] /\ sets'[i].override = "none"
                        /\ sets'[i].enabled = wanted(order[i], "none") /\ sets'[i].note = ~wanted(order[i], "none")
                        /\ i \in Managed' /\ i \notin decided.off
    <3>1. \A i \in ids : i \notin decided.off
      BY <1>0, <2>4 DEF DecidedOK, ids
    <3>2. \A i \in ids : /\ order[i] \in new /\ order[i] \in Presets /\ order[i] # "none"
                        /\ sets'[i].preset = order[i] /\ sets'[i].override = "none"
                        /\ sets'[i].enabled = wanted(order[i], "none") /\ sets'[i].note = ~wanted(order[i], "none")
      BY <1>0, <1>1, <2>6, NewPresetIsRow
    <3> QED BY <2>6, <3>1, <3>2 DEF Managed
  <2>13. \A i \in DOMAIN E : sets'[i].preset = sets[i].preset
    BY <1>0, <1>1, <2>6, EnsureKeepsRows
  <2>14. \A i \in Managed' : i \in ids \/ (i \in DOMAIN E /\ i \in Managed)
    BY <2>4, <2>6, <2>13 DEF Managed
  <2>15. ASSUME decided.calm, NEW i \in Managed, i \in DOMAIN E
         PROVE  /\ sets[i].preset \in Presets
                /\ EnsuredAs(sets[i], sets'[i], found(sets[i].preset), wanted(sets[i].preset, sets[i].override))
    BY <1>0, <1>1, <2>6, <2>11, <2>15, EnsureSettles
  <2>16. ASSUME decided.calm PROVE OnePerPreset'
    <3>1. ASSUME NEW i \in Managed, NEW j \in ids PROVE sets[i].preset # order[j]
      <4>1. call.rows = [k \in Managed |-> sets[k]] /\ order[j] \in new
        BY <2>11, <2>12, <2>16
      <4> QED BY <4>1 DEF MissingPresets
    <3>2. ASSUME NEW i \in Managed', NEW j \in Managed', sets'[i].preset = sets'[j].preset PROVE i = j
      <4>1. CASE i \in ids /\ j \in ids
        BY <2>3, <2>12, <3>2, <4>1
      <4>2. CASE i \in ids /\ j \in DOMAIN E /\ j \in Managed
        BY <2>12, <2>13, <3>1, <3>2, <4>2
      <4>3. CASE j \in ids /\ i \in DOMAIN E /\ i \in Managed
        BY <2>12, <2>13, <3>1, <3>2, <4>3
      <4>4. CASE i \in DOMAIN E /\ i \in Managed /\ j \in DOMAIN E /\ j \in Managed
        BY <2>11, <2>13, <2>16, <3>2, <4>4 DEF OnePerPreset
      <4> QED BY <2>14, <4>1, <4>2, <4>3, <4>4
    <3> QED BY <3>2 DEF OnePerPreset
  <2>17. ASSUME decided.calm, NEW i \in Managed'
         PROVE  /\ i \in decided'.off <=> ~sets'[i].enabled /\ ~sets'[i].note
                /\ sets'[i].enabled => ~sets'[i].note
    <3>0. i \in decided'.off <=> i \in decided.off
      BY <2>8 DEF Managed
    <3>1. CASE i \in ids
      BY <2>12, <3>0, <3>1
    <3>2. CASE i \in DOMAIN E /\ i \in Managed
      <4>1. i \in decided.off <=> ~sets[i].enabled /\ ~sets[i].note
        BY <2>11, <2>17, <3>2 DEF OffIsKnown
      <4>2. EnsuredAs(sets[i], sets'[i], found(sets[i].preset), wanted(sets[i].preset, sets[i].override))
        BY <2>15, <2>17, <3>2
      <4>3. sets[i].enabled \in BOOLEAN /\ sets[i].note \in BOOLEAN
        BY <1>0, <3>2 DEF SetsOK, Managed, SetRow
      <4> QED BY <3>0, <4>1, <4>2, <4>3 DEF EnsuredAs
    <3> QED BY <2>14, <2>17, <3>1, <3>2
  <2>18. decided.calm => OnePerPreset' /\ OffIsKnown' /\ FindsAsRead(setCalls[c])'
    <3>1. ASSUME decided.calm PROVE OffIsKnown' /\ Tidy'
      BY <2>17, <3>1 DEF OffIsKnown, Tidy
    <3>2. ASSUME Tidy' PROVE FindsAsRead(setCalls[c])'
      BY <2>9, <2>10, <3>2 DEF FindsAsRead
    <3> QED BY <2>16, <3>1, <3>2
  <2>19. SetCallsOK' /\ CalmIsCalm'
    BY <1>1, <2>2, <2>8, <2>9, <2>18, OneMoves
  <2>20. PresetsAreAsDecided'
    <3>1. SUFFICES ASSUME decided'.fresh, decided'.calm, NEW p \in Presets, targets'[SuggestedFor[p]] # "missing"
                   PROVE \E i \in DOMAIN sets' :
                           /\ sets'[i].preset = p
                           /\ \A j \in DOMAIN sets' \ {i} : sets'[j].preset # p
                           /\ sets'[i].enabled = (i \notin decided'.off /\ Wanted(targets, p, sets[i].override)')
      BY DEF PresetsAreAsDecided
    <3>2. /\ decided.calm /\ call.groups = targets /\ targets' = targets /\ policy' = policy
          /\ Catalog(call.op) = Presets /\ found(p)
      BY <2>2, <2>8, <2>11, <3>1 DEF Catalog
    <3>3. ASSUME NEW i \in Managed', sets'[i].preset = p,
                 sets'[i].enabled = (i \notin decided'.off /\ wanted(p, sets'[i].override))
          PROVE \E k \in DOMAIN sets' :
                           /\ sets'[k].preset = p
                           /\ \A j \in DOMAIN sets' \ {k} : sets'[j].preset # p
                           /\ sets'[k].enabled = (k \notin decided'.off /\ Wanted(targets, p, sets[k].override)')
      <4>1. \A j \in DOMAIN sets' \ {i} : sets'[j].preset # p
        BY <2>16, <3>2, <3>3 DEF OnePerPreset, Managed
      <4>2. Wanted(targets, p, sets[i].override)' = wanted(p, sets'[i].override)
        BY <3>2 DEF Wanted
      <4> QED BY <3>3, <4>1, <4>2 DEF Managed
    <3>4. CASE \E i \in Managed : sets[i].preset = p
      <4>1. PICK i \in Managed : sets[i].preset = p
        BY <3>4
      <4>2. i \in DOMAIN E
        BY <1>0, <1>1, <2>11, <3>2, <4>1, EnsureSettles
      <4>3. EnsuredAs(sets[i], sets'[i], found(p), wanted(p, sets[i].override))
        BY <2>15, <3>2, <4>1, <4>2
      <4>4. i \in decided'.off <=> ~sets[i].enabled /\ ~sets[i].note
        <5>1. i \in decided.off <=> ~sets[i].enabled /\ ~sets[i].note
          BY <2>11, <3>2 DEF OffIsKnown
        <5> QED BY <2>6, <2>8, <4>2, <5>1
      <4>5. sets[i].enabled \in BOOLEAN /\ sets[i].note \in BOOLEAN
        BY <1>0 DEF SetsOK, Managed, SetRow
      <4>6. wanted(p, sets[i].override) \in BOOLEAN
        BY <1>1, DecisionsAreMade
      <4>7. /\ sets'[i].preset = p /\ sets'[i].override = sets[i].override
            /\ sets'[i].enabled = (i \notin decided'.off /\ wanted(p, sets'[i].override))
        <5> HIDE DEF wanted, found
        <5> QED BY <3>2, <4>1, <4>3, <4>4, <4>5, <4>6 DEF EnsuredAs
      <4>8. i \in Managed'
        BY <2>6, <4>1, <4>2, <4>7 DEF Managed
      <4> QED BY <3>3, <4>7, <4>8
    <3>5. CASE ~\E i \in Managed : sets[i].preset = p
      <4>1. p \in new
        <5>1. call.rows = [k \in Managed |-> sets[k]]
          BY <2>11, <3>2
        <5> QED BY <5>1, <3>2, <3>5 DEF MissingPresets
      <4>2. PICK i \in ids : order[i] = p
        <5> HIDE DEF new
        <5> QED BY <2>1, <2>3, <2>4, <4>1, EachGetsARow DEF ids
      <4>3. i \notin decided'.off
        BY <2>8, <2>12
      <4>4. wanted(p, "none") \in BOOLEAN
        BY <1>1, DecisionsAreMade
      <4>5. sets'[i].preset = p /\ sets'[i].enabled = (i \notin decided'.off /\ wanted(p, sets'[i].override))
        <5> HIDE DEF wanted
        <5> QED BY <2>12, <4>2, <4>3, <4>4
      <4> QED BY <2>12, <3>3, <4>5
    <3> QED BY <3>4, <3>5
  <2>21. OutsideOK'
    BY <1>0, <2>2 DEF OutsideOK
  <2> QED BY <2>7, <2>8, <2>19, <2>20, <2>21 DEF SetInv
<1> QED BY <1>2, <1>3

-----------------------------------------------------------------------------
(* The row a PUT writes.                                                   *)
LEMMA EditedIsRow ==
  ASSUME NEW call \in SetCall, CallFits(call), call.at = "update"
  PROVE  LET e == Edited(call) IN
         /\ call.op = "put" /\ call.seen \in SetRow
         /\ e \in SetRow /\ e.preset = call.seen.preset /\ e.note = call.seen.note
         /\ call.body = "enable" => e.enabled
         /\ call.body = "disable" => ~e.enabled
         /\ call.body \notin {"enable", "disable"} => e.enabled = call.seen.enabled
<1>1. call.op = "put" /\ call.seen \in SetRow
  BY DEF CallFits
<1>2. call.body \in SetBodies /\ call.body # "none" /\ (call.body \in {"override", "move"} => call.group \in TargetIds)
  BY <1>1 DEF CallFits, SetCall
<1> DEFINE s == call.seen
<1>3. CASE call.body = "enable"
  BY <1>1, <1>3 DEF Edited, SetRow
<1>4. CASE call.body = "disable"
  BY <1>1, <1>4 DEF Edited, SetRow
<1>5. CASE call.body = "clear"
  BY <1>1, <1>5 DEF Edited, SetRow
<1>6. CASE call.body = "override"
  BY <1>1, <1>2, <1>6 DEF Edited, SetRow
<1>7. CASE call.body = "move"
  BY <1>1, <1>2, <1>7 DEF Edited, SetRow
<1> QED BY <1>2, <1>3, <1>4, <1>5, <1>6, <1>7 DEF SetBodies

LEMMA UpdateSetKeeps == ASSUME SetInv, NEW c \in SetCalls, UpdateSet(c) PROVE SetInv'
<1> DEFINE call == setCalls[c]
           e == Edited(call)
           toGroups == [call EXCEPT !.at = "groups", !.again = TRUE, !.seen = NoSets]
           r == IF call.body \in {"override", "clear"} THEN toGroups ELSE FreeSet
           off == CASE call.body = "disable" /\ call.seen.enabled -> decided.off \cup {call.id}
                    [] call.body = "enable" -> decided.off \ {call.id}
                    [] OTHER -> decided.off
<1>0. /\ setCalls \in [SetCalls -> SetCall] /\ call \in SetCall /\ CallFits(call)
      /\ OutsideOK /\ SetsOK /\ DecidedOK /\ CalmIsCalm
  BY DEF SetInv, SetCallsOK
<1>1. call.at = "update" /\ UNCHANGED <<targets, policy, upstream, setSerial, setChanges>>
  BY DEF UpdateSet
<1>2. CASE SetEnds(c)
  BY <1>1, <1>2, SetEndsKeeps
<1>3. ASSUME ~SetEnds(c) PROVE SetInv'
  <2>1. call.id \in DOMAIN sets /\ sets' = [sets EXCEPT ![call.id] = e] /\ OnSet(c, r)
    BY <1>3 DEF UpdateSet
  <2>2. decided' = [decided EXCEPT !.fresh = FALSE, !.off = off]
    BY <1>3 DEF UpdateSet
  <2>3. /\ call.op = "put" /\ call.seen \in SetRow
        /\ e \in SetRow /\ e.preset = call.seen.preset /\ e.note = call.seen.note
        /\ call.body = "enable" => e.enabled
        /\ call.body = "disable" => ~e.enabled
        /\ call.body \notin {"enable", "disable"} => e.enabled = call.seen.enabled
    BY <1>0, <1>1, EditedIsRow
  <2> HIDE DEF e
  <2>4. /\ DOMAIN sets' = DOMAIN sets /\ sets'[call.id] = e
        /\ \A i \in DOMAIN sets \ {call.id} : sets'[i] = sets[i]
    BY <2>1
  <2>5. SetsOK'
    BY <1>0, <1>1, <2>3, <2>4 DEF SetsOK
  <2>6. /\ off \in SUBSET (1..setSerial)
        /\ \A i : i # call.id => (i \in off <=> i \in decided.off)
        /\ call.body = "enable" => call.id \notin off
        /\ call.body = "disable" /\ call.seen.enabled => call.id \in off
        /\ call.body = "disable" /\ ~call.seen.enabled => (call.id \in off <=> call.id \in decided.off)
        /\ call.body \notin {"enable", "disable"} => (call.id \in off <=> call.id \in decided.off)
    <3>1. decided.off \in SUBSET (1..setSerial) /\ call.id \in 1..setSerial
      BY <1>0, <2>1 DEF DecidedOK, SetsOK
    <3> QED BY <3>1
  <2> HIDE DEF off
  <2>7. DecidedOK' /\ decided'.calm = decided.calm /\ decided'.off = off /\ ~decided'.fresh
    BY <1>0, <1>1, <2>2, <2>6 DEF DecidedOK
  <2>8. /\ r \in SetCall /\ CallFits(r) /\ r.at \in {"free", "groups"}
    <3>1. CASE call.body \in {"override", "clear"}
      <4>1. /\ toGroups \in SetCall /\ toGroups.at = "groups" /\ toGroups.op = call.op /\ toGroups.body = call.body
            /\ toGroups.group = call.group
        BY <1>0 DEF SetCall, SetSteps
      <4> HIDE DEF toGroups
      <4>2. CallFits(toGroups)
        BY <1>0, <2>3, <4>1 DEF CallFits
      <4> QED BY <3>1, <4>1, <4>2
    <3>2. CASE call.body \notin {"override", "clear"}
      BY <3>2, FreeIsCall
    <3> QED BY <3>1, <3>2
  <2>9. setCalls'[c] = r
    BY <1>0, <2>1 DEF OnSet
  <2>10. ASSUME decided.calm
         PROVE  OnePerPreset' /\ OffIsKnown' /\ FindsAsRead(setCalls[c])'
    <3>1. OnePerPreset /\ OffIsKnown /\ Tidy /\ call.seen = sets[call.id]
      BY <1>0, <1>1, <2>3, <2>10 DEF CalmIsCalm, FindsAsRead
    <3>2. \A i \in DOMAIN sets : sets'[i].preset = sets[i].preset
      BY <2>3, <2>4, <3>1
    <3>3. OnePerPreset'
      BY <2>4, <3>1, <3>2 DEF OnePerPreset, Managed
    <3>4. OffIsKnown'
      <4>1. ASSUME NEW i \in Managed' PROVE i \in decided'.off <=> ~sets'[i].enabled /\ ~sets'[i].note
        <5>1. i \in Managed /\ (i \in decided.off <=> ~sets[i].enabled /\ ~sets[i].note) /\ (sets[i].enabled => ~sets[i].note)
          BY <2>4, <3>1, <3>2 DEF Managed, OffIsKnown, Tidy
        <5>2. CASE i # call.id
          BY <2>4, <2>6, <2>7, <5>1, <5>2 DEF Managed
        <5>3. CASE i = call.id
          <6>1. sets'[i] = e /\ sets[i] = call.seen
            BY <2>4, <3>1, <5>3
          <6>2. CASE call.body = "enable"
            BY <2>3, <2>6, <2>7, <5>3, <6>1, <6>2
          <6>3. CASE call.body = "disable"
            BY <2>3, <2>6, <2>7, <5>1, <5>3, <6>1, <6>3
          <6>4. CASE call.body \notin {"enable", "disable"}
            BY <2>3, <2>6, <2>7, <5>1, <5>3, <6>1, <6>4
          <6> QED BY <6>2, <6>3, <6>4
        <5> QED BY <5>2, <5>3
      <4> QED BY <4>1 DEF OffIsKnown
    <3>5. FindsAsRead(setCalls[c])'
      BY <2>8, <2>9 DEF FindsAsRead
    <3> QED BY <3>3, <3>4, <3>5
  <2> HIDE DEF r
  <2>11. SetCallsOK' /\ CalmIsCalm'
    BY <1>1, <2>1, <2>7, <2>8, <2>10, OneMoves
  <2> QED BY <1>0, <1>1, <2>5, <2>7, <2>11 DEF SetInv, OutsideOK, PresetsAreAsDecided
<1> QED BY <1>2, <1>3

LEMMA InsertSetKeeps == ASSUME SetInv, NEW c \in SetCalls, InsertSet(c) PROVE SetInv'
<1> DEFINE call == setCalls[c]
           row == [preset |-> "none", target |-> call.group, override |-> "none", enabled |-> TRUE, note |-> FALSE]
<1>0. /\ setCalls \in [SetCalls -> SetCall] /\ call \in SetCall /\ CallFits(call)
      /\ OutsideOK /\ SetsOK /\ DecidedOK /\ CalmIsCalm
  BY DEF SetInv, SetCallsOK
<1>1. call.at = "insert" /\ call.group \in TargetIds
  BY <1>0 DEF InsertSet, CallFits
<1>2. CASE SetEnds(c)
  BY <1>1, <1>2, SetEndsKeeps
<1>3. ASSUME ~SetEnds(c) PROVE SetInv'
  <2>1. /\ setSerial < MaxSetRows /\ setSerial' = setSerial + 1 /\ OnSet(c, FreeSet) /\ Stale
        /\ sets' = [i \in DOMAIN sets \cup {setSerial + 1} |-> IF i = setSerial + 1 THEN row ELSE sets[i]]
        /\ UNCHANGED <<targets, policy, upstream, setChanges>>
    BY <1>3 DEF InsertSet
  <2>2. row \in SetRow /\ row.preset = "none"
    BY <1>1 DEF SetRow
  <2> HIDE DEF row
  <2>3. setSerial \in Nat /\ DOMAIN sets \subseteq 1..setSerial /\ setSerial + 1 \notin DOMAIN sets
    BY <1>0 DEF SetsOK
  <2>4. /\ DOMAIN sets' = DOMAIN sets \cup {setSerial + 1} /\ sets'[setSerial + 1] = row
        /\ \A i \in DOMAIN sets : sets'[i] = sets[i]
    BY <2>1, <2>3
  <2>5. SetsOK'
    <3>1. setSerial' \in 0..MaxSetRows /\ 1..setSerial \subseteq 1..setSerial' /\ setSerial + 1 \in 1..setSerial'
      BY <2>1, <2>3, PresetAssumption
    <3> QED BY <1>0, <2>2, <2>3, <2>4, <3>1 DEF SetsOK
  <2>6. Managed' = Managed
    BY <2>2, <2>4 DEF Managed
  <2>7. decided'.calm = decided.calm /\ decided'.off = decided.off /\ DecidedOK' /\ PresetsAreAsDecided'
    <3>1. decided' = [decided EXCEPT !.fresh = FALSE] /\ 1..setSerial \subseteq 1..setSerial'
      BY <2>1, <2>3 DEF Stale
    <3>2. DecidedOK'
      BY <1>0, <3>1 DEF DecidedOK
    <3> QED BY <1>0, <2>1, <3>2, StaleKeeps
  <2>8. decided.calm => OnePerPreset' /\ OffIsKnown' /\ FindsAsRead(setCalls[c])'
    <3>1. \A i \in Managed : sets'[i] = sets[i]
      BY <2>4 DEF Managed
    <3>2. setCalls'[c] = FreeSet
      BY <1>0, <2>1 DEF OnSet
    <3>3. FindsAsRead(setCalls[c])'
      BY <3>2, FreeIsCall DEF FindsAsRead
    <3>4. decided.calm => OnePerPreset' /\ OffIsKnown'
      BY <1>0, <2>6, <2>7, <3>1 DEF CalmIsCalm, OnePerPreset, OffIsKnown
    <3> QED BY <3>3, <3>4
  <2>9. SetCallsOK' /\ CalmIsCalm'
    BY <1>1, <2>1, <2>7, <2>8, FreeIsCall, OneMoves
  <2> QED BY <1>0, <2>1, <2>5, <2>7, <2>9 DEF SetInv, OutsideOK
<1> QED BY <1>2, <1>3

LEMMA DeleteSetKeeps == ASSUME SetInv, NEW c \in SetCalls, DeleteSet(c) PROVE SetInv'
<1> DEFINE call == setCalls[c]
           r == [call EXCEPT !.at = "groups"]
<1>0. /\ setCalls \in [SetCalls -> SetCall] /\ call \in SetCall /\ CallFits(call)
      /\ OutsideOK /\ SetsOK /\ DecidedOK /\ CalmIsCalm
  BY DEF SetInv, SetCallsOK
<1>1. /\ call.at = "remove" /\ sets' = [i \in DOMAIN sets \ {call.id} |-> sets[i]]
      /\ OnSet(c, r) /\ Stale /\ UNCHANGED <<targets, policy, upstream, setSerial, setChanges>>
  BY DEF DeleteSet
<1>2. DOMAIN sets' \subseteq DOMAIN sets /\ \A i \in DOMAIN sets' : sets'[i] = sets[i]
  BY <1>1
<1>3. SetsOK'
  BY <1>0, <1>1, <1>2 DEF SetsOK
<1>4. decided'.calm = decided.calm /\ decided'.off = decided.off /\ DecidedOK' /\ PresetsAreAsDecided'
  BY <1>0, <1>1, StaleKeeps
<1>5. /\ r \in SetCall /\ r.at = "groups" /\ r.op = call.op /\ r.body = call.body /\ r.group = call.group
  BY <1>0 DEF SetCall, SetSteps
<1>6. setCalls'[c] = r
  BY <1>0, <1>1 DEF OnSet
<1> HIDE DEF r
<1>7. CASE call.op # "free"
  <2>1. CallFits(r)
    BY <1>0, <1>5, <1>7 DEF CallFits
  <2>2. FindsAsRead(setCalls[c])'
    BY <1>5, <1>6 DEF FindsAsRead
  <2>3. decided.calm => OnePerPreset' /\ OffIsKnown'
    BY <1>0, <1>2, <1>4 DEF CalmIsCalm, OnePerPreset, OffIsKnown, Managed
  <2>4. SetCallsOK' /\ CalmIsCalm'
    BY <1>1, <1>4, <1>5, <2>1, <2>2, <2>3, OneMoves
  <2> QED BY <1>0, <1>1, <1>3, <1>4, <2>4 DEF SetInv, OutsideOK
<1> QED BY <1>0, <1>1, <1>7 DEF CallFits

-----------------------------------------------------------------------------
(* A request comes.                                                        *)
LEMMA ArriveAtSetsKeeps ==
  ASSUME SetInv, NEW c \in SetCalls, NEW op \in SetOps \ {"free"}, NEW id \in Nat, NEW body \in SetBodies,
         NEW group \in TargetIds \cup {"none"}, ArriveAtSets(c, op, id, body, group),
         op = "put" => body # "none",
         op = "post" \/ body \in {"override", "move"} => group \in TargetIds
  PROVE  SetInv'
<1> DEFINE at == IF op = "delete" THEN "row" ELSE "groups"
           alone == SetsInFlight = {}
           r == [FreeSet EXCEPT !.op = op, !.id = id, !.body = body, !.group = group, !.at = at, !.alone = alone]
<1>0. /\ setCalls \in [SetCalls -> SetCall] /\ \A d \in SetCalls : CallFits(setCalls[d])
      /\ OutsideOK /\ SetsOK /\ DecidedOK /\ CalmIsCalm
  BY DEF SetInv, SetCallsOK
<1>1. /\ c \notin SetsInFlight
      /\ setCalls' = [d \in SetCalls |-> IF d = c THEN r ELSE [setCalls[d] EXCEPT !.alone = FALSE]]
      /\ decided' = [decided EXCEPT !.fresh = FALSE, !.calm = @ /\ SetsInFlight = {}]
      /\ UNCHANGED setRows
  BY DEF ArriveAtSets
<1>2. at \in SetSteps /\ alone \in BOOLEAN
  BY DEF SetSteps
<1> HIDE DEF alone
<1>3. r \in SetCall /\ r.at = at /\ r.op = op /\ r.body = body /\ r.group = group
  BY <1>2, FreeIsCall DEF SetCall
<1> HIDE DEF r
<1>4. CallFits(r)
  BY <1>3 DEF CallFits
<1>5. ASSUME NEW d \in SetCalls
      PROVE  LET q == [setCalls[d] EXCEPT !.alone = FALSE] IN q \in SetCall /\ CallFits(q) /\ q.at = setCalls[d].at
  <2> DEFINE q == [setCalls[d] EXCEPT !.alone = FALSE]
  <2>1. setCalls[d] \in SetCall /\ CallFits(setCalls[d])
    BY <1>0
  <2>2. /\ q \in SetCall /\ q.at = setCalls[d].at /\ q.op = setCalls[d].op /\ q.body = setCalls[d].body
        /\ q.group = setCalls[d].group /\ q.groups = setCalls[d].groups /\ q.seen = setCalls[d].seen
    BY <2>1 DEF SetCall
  <2> HIDE DEF q
  <2>3. CallFits(q)
    BY <2>1, <2>2 DEF CallFits
  <2> QED BY <2>2, <2>3 DEF q
<1>6. \A d \in SetCalls : setCalls'[d] \in SetCall /\ CallFits(setCalls'[d])
  BY <1>1, <1>3, <1>4, <1>5
<1>7. SetCallsOK'
  <2>1. setCalls' \in [SetCalls -> SetCall]
    BY <1>1, <1>6
  <2>2. \A d \in SetCalls : CallFits(setCalls[d])'
    BY <1>6 DEF CallFits
  <2> QED BY <2>1, <2>2 DEF SetCallsOK
<1>8. /\ decided'.calm = (decided.calm /\ SetsInFlight = {}) /\ decided'.off = decided.off /\ ~decided'.fresh
      /\ DecidedOK'
  <2>1. (decided.calm /\ SetsInFlight = {}) \in BOOLEAN
    OBVIOUS
  <2> QED BY <1>0, <1>1, <2>1 DEF DecidedOK, setRows
<1>9. CalmIsCalm'
  <2>1. SUFFICES ASSUME decided'.calm
                 PROVE OneAtATime' /\ OnePerPreset' /\ OffIsKnown' /\ \A d \in SetCalls : FindsAsRead(setCalls[d])'
    BY DEF CalmIsCalm
  <2>2. decided.calm /\ SetsInFlight = {}
    BY <1>8, <2>1
  <2>3. OnePerPreset' /\ OffIsKnown'
    BY <1>0, <1>1, <1>8, <2>2 DEF CalmIsCalm, OnePerPreset, OffIsKnown, Managed, setRows
  <2>4. \A d \in SetCalls \ {c} : setCalls'[d].at = "free"
    BY <1>1, <1>5, <2>2 DEF SetsInFlight
  <2>5. setCalls'[c] = r
    BY <1>1
  <2>6. \A d \in SetCalls : FindsAsRead(setCalls[d])'
    <3>1. FindsAsRead(setCalls[c])'
      BY <1>3, <2>5 DEF FindsAsRead
    <3>2. \A d \in SetCalls \ {c} : FindsAsRead(setCalls[d])'
      BY <2>4 DEF FindsAsRead
    <3> QED BY <3>1, <3>2
  <2>7. OneAtATime'
    BY <2>4 DEF OneAtATime, SetsInFlight
  <2> QED BY <2>3, <2>6, <2>7
<1> QED BY <1>0, <1>1, <1>7, <1>8, <1>9 DEF SetInv, OutsideOK, SetsOK, setRows, PresetsAreAsDecided

(* The groups, the policy or the catalogs change.                          *)
LEMMA ElsewhereKeeps ==
  ASSUME SetInv, Elsewhere, targets' \in [TargetIds -> TargetStates], policy' \subseteq Presets, upstream' \subseteq Presets
  PROVE  SetInv'
<1>0. /\ setCalls \in [SetCalls -> SetCall] /\ \A d \in SetCalls : CallFits(setCalls[d])
      /\ OutsideOK /\ SetsOK /\ DecidedOK /\ CalmIsCalm
  BY DEF SetInv, SetCallsOK
<1>1. /\ setChanges < MaxSetChanges /\ setChanges' = setChanges + 1
      /\ setCalls' = [c \in SetCalls |-> [setCalls[c] EXCEPT !.alone = FALSE]]
      /\ decided' = [decided EXCEPT !.fresh = FALSE] /\ sets' = sets /\ setSerial' = setSerial
  BY DEF Elsewhere
<1>2. decided'.calm = decided.calm /\ decided'.off = decided.off /\ DecidedOK' /\ PresetsAreAsDecided'
  BY <1>0, <1>1, StaleKeeps DEF Stale
<1>3. ASSUME NEW d \in SetCalls
      PROVE  LET q == setCalls'[d] IN
             /\ q \in SetCall /\ q.at = setCalls[d].at /\ q.op = setCalls[d].op /\ q.body = setCalls[d].body
             /\ q.group = setCalls[d].group /\ q.groups = setCalls[d].groups /\ q.seen = setCalls[d].seen
             /\ q.rows = setCalls[d].rows /\ q.id = setCalls[d].id /\ ~q.alone
  <2>1. setCalls[d] \in SetCall
    BY <1>0
  <2>2. setCalls'[d] = [setCalls[d] EXCEPT !.alone = FALSE]
    BY <1>1
  <2> QED BY <2>1, <2>2 DEF SetCall
<1>4. SetCallsOK'
  <2>1. setCalls' \in [SetCalls -> SetCall]
    BY <1>1, <1>3
  <2>2. \A d \in SetCalls : CallFits(setCalls'[d])
    BY <1>0, <1>3 DEF CallFits
  <2>3. \A d \in SetCalls : CallFits(setCalls[d])'
    BY <2>2 DEF CallFits
  <2> QED BY <2>1, <2>3 DEF SetCallsOK
<1>5. CalmIsCalm'
  <2>1. SUFFICES ASSUME decided.calm
                 PROVE OneAtATime' /\ OnePerPreset' /\ OffIsKnown' /\ \A d \in SetCalls : FindsAsRead(setCalls[d])'
    BY <1>2 DEF CalmIsCalm
  <2>2. OneAtATime'
    BY <1>0, <1>3, <2>1 DEF CalmIsCalm, OneAtATime, SetsInFlight
  <2>3. OnePerPreset' /\ OffIsKnown'
    BY <1>0, <1>1, <1>2, <2>1 DEF CalmIsCalm, OnePerPreset, OffIsKnown, Managed
  <2>4. \A d \in SetCalls : FindsAsRead(setCalls[d])'
    BY <1>0, <1>1, <1>3, <2>1 DEF CalmIsCalm, FindsAsRead, Tidy, Managed
  <2> QED BY <2>2, <2>3, <2>4
<1>6. OutsideOK' /\ SetsOK'
  <2>1. setChanges' \in 0..MaxSetChanges
    BY <1>0, <1>1, PresetAssumption DEF OutsideOK
  <2> QED BY <1>0, <1>1, <2>1 DEF OutsideOK, SetsOK
<1> QED BY <1>2, <1>4, <1>5, <1>6 DEF SetInv

LEMMA SetInitHolds == SetInit => SetInv
<1> SUFFICES ASSUME SetInit PROVE SetInv
  OBVIOUS
<1>1. OutsideOK /\ SetsOK
  <2>1. DOMAIN sets = {} /\ setSerial = 0 /\ setChanges = 0
    BY NothingRead DEF SetInit
  <2> QED BY <2>1, PresetAssumption DEF SetInit, OutsideOK, SetsOK, TargetStates
<1>2. SetCallsOK /\ \A c \in SetCalls : setCalls[c] = FreeSet
  BY FreeIsCall DEF SetInit, SetCallsOK
<1>3. DecidedOK /\ PresetsAreAsDecided
  BY DEF SetInit, DecidedOK, PresetsAreAsDecided
<1>4. CalmIsCalm
  <2>1. Managed = {}
    BY NothingRead DEF SetInit, Managed
  <2> QED BY <1>2, <2>1, FreeIsCall DEF CalmIsCalm, OneAtATime, SetsInFlight, OnePerPreset, OffIsKnown, FindsAsRead
<1> QED BY <1>1, <1>2, <1>3, <1>4 DEF SetInv

LEMMA SetStepKeeps == SetInv /\ [SetNext]_setVars => SetInv'
<1> SUFFICES ASSUME SetInv, [SetNext]_setVars PROVE SetInv'
  OBVIOUS
<1>0. OutsideOK /\ SetsOK
  BY DEF SetInv
<1>1. CASE UNCHANGED setVars
  <2>1. OutsideOK' /\ SetsOK' /\ DecidedOK'
    BY <1>1 DEF SetInv, OutsideOK, SetsOK, DecidedOK, setVars
  <2>2. SetCallsOK'
    BY <1>1 DEF SetInv, SetCallsOK, CallFits, setVars
  <2>3. CalmIsCalm'
    BY <1>1 DEF SetInv, CalmIsCalm, OneAtATime, SetsInFlight, OnePerPreset, OffIsKnown, FindsAsRead, Tidy, Managed, setVars
  <2>4. PresetsAreAsDecided'
    BY <1>1 DEF SetInv, PresetsAreAsDecided, Wanted, setVars
  <2> QED BY <2>1, <2>2, <2>3, <2>4 DEF SetInv
<1>2. CASE TargetChanges
  <2>1. Elsewhere /\ policy' = policy /\ upstream' = upstream
    BY <1>2 DEF TargetChanges
  <2>2. targets' \in [TargetIds -> TargetStates]
    BY <1>0, <1>2 DEF TargetChanges, OutsideOK, TargetStates
  <2> QED BY <1>0, <2>1, <2>2, ElsewhereKeeps DEF OutsideOK
<1>3. CASE PolicyChanges
  BY <1>0, <1>3, ElsewhereKeeps DEF PolicyChanges, OutsideOK
<1>4. CASE UpstreamChanges
  BY <1>0, <1>4, ElsewhereKeeps DEF UpstreamChanges, OutsideOK
<1>5. ASSUME NEW c \in SetCalls, SetArrivals(c) PROVE SetInv'
  <2>0. "none" \in TargetIds \cup {"none"} /\ 0 \in Nat /\ \A i \in DOMAIN sets : i \in Nat
    BY <1>0 DEF SetsOK
  <2>1. CASE \E op \in {"ensure", "cron"} : ArriveAtSets(c, op, 0, "none", "none")
    BY <2>0, <2>1, ArriveAtSetsKeeps DEF SetOps, SetBodies
  <2>2. CASE \E i \in DOMAIN sets, body \in {"enable", "disable", "clear"} : ArriveAtSets(c, "put", i, body, "none")
    BY <2>0, <2>2, ArriveAtSetsKeeps DEF SetOps, SetBodies
  <2>3. CASE \E i \in DOMAIN sets, body \in {"override", "move"}, g \in TargetIds : ArriveAtSets(c, "put", i, body, g)
    BY <2>0, <2>3, ArriveAtSetsKeeps DEF SetOps, SetBodies
  <2>4. CASE \E g \in TargetIds : ArriveAtSets(c, "post", 0, "none", g)
    BY <2>0, <2>4, ArriveAtSetsKeeps DEF SetOps, SetBodies
  <2>5. CASE \E i \in DOMAIN sets : ArriveAtSets(c, "delete", i, "none", "none")
    BY <2>0, <2>5, ArriveAtSetsKeeps DEF SetOps, SetBodies
  <2> QED BY <1>5, <2>1, <2>2, <2>3, <2>4, <2>5 DEF SetArrivals, SetRequestArrives
<1>6. ASSUME NEW c \in SetCalls, CutOffSets(c) PROVE SetInv'
  BY <1>6, SetEndsKeeps DEF CutOffSets, SetsInFlight
<1> QED BY <1>1, <1>2, <1>3, <1>4, <1>5, <1>6, ReadTargetsKeeps, ReadPresetRowsKeeps, WritePresetsKeeps,
           ReadSetRowKeeps, CheckSetWriteKeeps, UpdateSetKeeps, InsertSetKeeps, DeleteSetKeeps DEF SetNext

(***************************************************************************)
(* Requests that come one by one: ensuring the presets leaves each of them *)
(* on exactly if its group is on and the operator did not turn it off, for *)
(* any presets, groups, suggestions and any number of requests and changes *)
(* of groups, policy and catalogs (services/default-rule-sets.ts).         *)
THEOREM PresetsAreAsDecidedHolds == SetSpec => []PresetsAreAsDecided
<1>1. SetInv => PresetsAreAsDecided
  BY DEF SetInv
<1> QED BY <1>1, SetInitHolds, SetStepKeeps, PTL DEF SetSpec

(* The rows, the groups and what the requests hold are what they are meant *)
(* to be, requests overlapping as they like.                               *)
THEOREM SetTypesHold == SetSpec => []SetTypes
<1>1. SetInv => SetTypes
  BY DEF SetInv, OutsideOK, SetsOK, DecidedOK, SetCallsOK, SetTypes, SetCall, TargetStates
<1> QED BY <1>1, SetInitHolds, SetStepKeeps, PTL DEF SetSpec

-----------------------------------------------------------------------------
(***************************************************************************)
(* Cached catalogs and domains.  What is scanned, by which version of the  *)
(* program, is kept apart from what is put in KV.                          *)
Steps == {"idle", "sources", "catalogs", "scan", "give", "dns", "fetch"}
CatalogIds == UNION {RangeOfSeq(Bundled[v]) : v \in DOMAIN Bundled}
Scanned == UNION {Scans(id) : id \in CatalogIds}
Tick == [at : Steps, version : DOMAIN Bundled, scanned : Seq(Scanned), browse : BOOLEAN]
Copies == {"none", "snapshot"}

UsableItem(item) ==
    /\ \E j \in DOMAIN item : item[j].default
    /\ \A j \in DOMAIN item : item[j].default \/ item[j].native

CacheClockOK == running \in DOMAIN Bundled /\ cacheClock \in 0..MaxCacheTime
CatalogKvOK == catalogKv \in [kind : Copies, catalogs : Seq(Scanned), at : Nat]
DnsKvOK ==
    /\ dnsKv \in [kind : Copies, catalogs : {<<>>, <<"upstream">>}, at : Nat]
    /\ dnsKv.kind = "snapshot" => dnsKv.catalogs # <<>>
TicksOK == ticking \in [Ticks -> Tick]
CacheInv == CacheClockOK /\ CatalogKvOK /\ DnsKvOK /\ TicksOK

-----------------------------------------------------------------------------
(* Sources in their places, the last of which is an override's.            *)
PlacedSources(N) == UNION {[P -> Source \cup {OverrideSource}] : P \in (SUBSET (1..N)) \ {{}}}

LEMMA WithDefaultIsUsable ==
  ASSUME NEW N \in Nat, NEW sources \in PlacedSources(N)
  PROVE  UsableItem(WithDefault(sources))
<1> DEFINE marked == Marked(sources)
           kept == {i \in DOMAIN marked : marked[i].default \/ marked[i].native}
<1>1. PICK P \in (SUBSET (1..N)) \ {{}} : sources \in [P -> Source \cup {OverrideSource}]
  BY DEF PlacedSources
<1>2. \A i \in P : /\ sources[i].default \in BOOLEAN
                     /\ \A d \in BOOLEAN : [sources[i] EXCEPT !.default = d].default = d
  <2>1. ASSUME NEW s \in Source PROVE s.default \in BOOLEAN /\ \A d \in BOOLEAN : [s EXCEPT !.default = d].default = d
    BY DEF Source
  <2>2. ASSUME NEW s, s = OverrideSource
        PROVE  s.default \in BOOLEAN /\ \A d \in BOOLEAN : [s EXCEPT !.default = d].default = d
    BY <2>2 DEF OverrideSource
  <2> QED BY <1>1, <2>1, <2>2
<1>3. PICK first \in P : \A y \in P : first <= y
  <2>1. P \in SUBSET (1..N) /\ P # {}
    BY <1>1
  <2> QED BY <2>1, FirstIsIn
<1>4. DOMAIN marked = P
  BY <1>1 DEF Marked
<1>5. \E j \in P : marked[j].default
  <2>1. CASE \E j \in P : sources[j].default
    <3>1. PICK j \in P : sources[j].default
      BY <2>1
    <3>2. marked[j].default
      BY <1>1, <1>2, <3>1 DEF Marked
    <3> QED BY <3>2
  <2>2. CASE \A j \in P : ~sources[j].default
    <3>1. marked[first].default
      BY <1>1, <1>2, <1>3, <2>2 DEF Marked
    <3> QED BY <3>1
  <2> QED BY <2>1, <2>2
<1>6. WithDefault(sources) = [i \in kept |-> marked[i]]
  BY DEF WithDefault, Restrict
<1> HIDE DEF marked
<1>7. DOMAIN WithDefault(sources) = kept /\ \A i \in kept : WithDefault(sources)[i] = marked[i]
  BY <1>6
<1> QED BY <1>4, <1>5, <1>7 DEF UsableItem

(* Whatever directories list an item, its scan is usable.                  *)
LEMMA ScansAreUsable == ASSUME NEW id, NEW scan \in Scans(id) PROVE UsableItem(scan.item)
<1> DEFINE N == Len(SourcesOf) + 1
           all == {s.name : s \in RangeOfSeq(SourcesOf)}
           places(names) == {i \in DOMAIN SourcesOf : SourcesOf[i].name \in names}
           listed(names) == Restrict(SourcesOf, places(names))
<1>1. N \in Nat /\ N \in 1..N /\ DOMAIN SourcesOf = 1..(N - 1) /\ \A i \in DOMAIN SourcesOf : SourcesOf[i] \in Source
  BY CacheAssumption
<1> HIDE DEF N
<1>2. ASSUME NEW names PROVE listed(names) \in [places(names) -> Source] /\ places(names) \in SUBSET (1..N)
                             /\ \A i \in places(names) : i # N
  BY <1>1 DEF Restrict
<1>3. ASSUME NEW names \in (SUBSET all) \ {{}} PROVE listed(names) \in PlacedSources(N)
  <2>1. PICK i \in DOMAIN SourcesOf : SourcesOf[i].name \in names
    BY DEF RangeOfSeq
  <2>2. places(names) # {}
    BY <2>1
  <2> HIDE DEF places, listed
  <2>3. listed(names) \in [places(names) -> Source \cup {OverrideSource}]
    BY <1>2
  <2> QED BY <1>2, <2>2, <2>3 DEF PlacedSources
<1>4. ASSUME NEW names PROVE WithOverride(listed(names), OverrideSource) \in PlacedSources(N)
  <2> DEFINE P == places(names) \cup {N}
             sources == WithOverride(listed(names), OverrideSource)
  <2>1. P \in (SUBSET (1..N)) \ {{}} /\ DOMAIN listed(names) = places(names)
    <3>1. P \in SUBSET (1..N) /\ N \in P
      BY <1>1, <1>2
    <3>2. listed(names) \in [places(names) -> Source]
      BY <1>2
    <3> HIDE DEF listed, places, P
    <3> QED BY <3>1, <3>2
  <2>2. \A s \in Source : [s EXCEPT !.default = FALSE] \in Source
    BY DEF Source
  <2> HIDE DEF places, listed
  <2>3. sources = [i \in P |-> IF i = N THEN OverrideSource ELSE [listed(names)[i] EXCEPT !.default = FALSE]]
    BY <2>1 DEF WithOverride, N
  <2>4. \A i \in P : (IF i = N THEN OverrideSource ELSE [listed(names)[i] EXCEPT !.default = FALSE])
                     \in Source \cup {OverrideSource}
    <3>1. \A i \in P : i # N => listed(names)[i] \in Source
      BY <1>2
    <3> HIDE DEF P
    <3> QED BY <2>2, <3>1
  <2> HIDE DEF P, sources
  <2>5. sources \in [P -> Source \cup {OverrideSource}]
    BY <2>3, <2>4
  <2> QED BY <2>1, <2>5 DEF PlacedSources, sources
<1>5. \/ \E names \in (SUBSET all) \ {{}} : scan = [id |-> id, item |-> WithDefault(listed(names))]
      \/ \E names : scan = [id |-> id, item |-> WithDefault(WithOverride(listed(names), OverrideSource))]
  BY DEF Scans
<1> HIDE DEF all, listed
<1>6. \E sources \in PlacedSources(N) : scan.item = WithDefault(sources)
  BY <1>3, <1>4, <1>5
<1> QED BY <1>1, <1>6, WithDefaultIsUsable

LEMMA ScannedAreUsable == \A scan \in Scanned : UsableItem(scan.item)
BY ScansAreUsable DEF Scanned

(* What a version scans in its turn is one of its catalogs.                *)
LEMMA VersionsHaveCatalogs ==
  ASSUME NEW v \in DOMAIN Bundled
  PROVE  /\ Len(Bundled[v]) \in Nat
         /\ \A i \in 1..Len(Bundled[v]) : Scans(Bundled[v][i]) \subseteq Scanned
<1>1. Bundled[v] \in Seq(RangeOfSeq(Bundled[v]))
  BY CacheAssumption
<1>2. Len(Bundled[v]) \in Nat /\ \A i \in 1..Len(Bundled[v]) : Bundled[v][i] \in RangeOfSeq(Bundled[v])
  BY <1>1
<1>3. \A i \in 1..Len(Bundled[v]) : Bundled[v][i] \in CatalogIds
  BY <1>2 DEF CatalogIds
<1> QED BY <1>2, <1>3 DEF Scanned

(* A trigger goes from one step to the next.                               *)
LEMMA TickMoves ==
  ASSUME TicksOK, NEW t \in Ticks, NEW r \in Tick, ticking' = [ticking EXCEPT ![t] = r]
  PROVE  TicksOK'
BY DEF TicksOK

LEMMA TickFacts ==
    /\ Idling \in Tick /\ \A v \in DOMAIN Bundled : [Idling EXCEPT !.version = v] \in Tick
    /\ \A r \in Tick, step \in Steps : [r EXCEPT !.at = step, !.scanned = <<>>] \in Tick
    /\ \A r \in Tick, list \in Seq(Scanned) : [r EXCEPT !.scanned = list] \in Tick
<1>1. 1 \in DOMAIN Bundled /\ <<>> \in Seq(Scanned)
  <2>1. Bundled \in Seq(RangeOfSeq(Bundled)) /\ Bundled # <<>>
    BY CacheAssumption
  <2> QED BY <2>1
<1>2. Idling \in Tick
  BY <1>1 DEF Idling, Tick, Steps
<1> HIDE DEF Idling
<1>3. \A v \in DOMAIN Bundled : [Idling EXCEPT !.version = v] \in Tick
  BY <1>2 DEF Tick
<1>4. \A r \in Tick, step \in Steps : [r EXCEPT !.at = step, !.scanned = <<>>] \in Tick
  BY <1>1 DEF Tick
<1>5. \A r \in Tick, list \in Seq(Scanned) : [r EXCEPT !.scanned = list] \in Tick
  BY DEF Tick
<1> QED BY <1>2, <1>3, <1>4, <1>5

LEMMA TickEnds == ASSUME TicksOK, NEW t \in Ticks, EndTick(t) PROVE TicksOK'
<1> PICK r \in Tick : r = Idling
  BY TickFacts
<1> QED BY TickMoves DEF EndTick

LEMMA TickAt == ASSUME TicksOK, NEW t \in Ticks, NEW step \in Steps, At(t, step) PROVE TicksOK'
<1>1. CASE EndTick(t)
  BY <1>1, TickEnds
<1>2. CASE ticking' = [ticking EXCEPT ![t].at = step, ![t].scanned = <<>>]
  <2>1. PICK r \in Tick : r = [ticking[t] EXCEPT !.at = step, !.scanned = <<>>]
    BY TickFacts DEF TicksOK
  <2>2. ticking' = [ticking EXCEPT ![t] = r]
    BY <1>2, <2>1 DEF TicksOK
  <2> QED BY <2>2, TickMoves
<1> QED BY <1>1, <1>2 DEF At

(* Every step of a trigger leaves what is in KV usable.                    *)
LEMMA TriggerKeeps ==
  ASSUME CacheInv, NEW t \in Ticks,
         \/ StartTick(t) \/ RefreshSourcesFirst(t) \/ CheckCatalogs(t) \/ ScanCatalog(t)
         \/ PutCatalogs(t) \/ GiveCatalogs(t) \/ CheckDomains(t) \/ FetchDomains(t) \/ CutOffTick(t)
  PROVE  CacheInv'
<1>1. TicksOK /\ CatalogKvOK /\ DnsKvOK /\ CacheClockOK /\ ticking[t] \in Tick /\ running \in DOMAIN Bundled /\ cacheClock \in Nat
  BY CacheAssumption DEF CacheInv, CacheClockOK, TicksOK
<1>2. /\ {"catalogs", "dns", "scan", "give", "fetch"} \subseteq Steps
      /\ ticking[t].version \in DOMAIN Bundled /\ ticking[t].scanned \in Seq(Scanned)
  BY <1>1 DEF Steps, Tick
<1>3. ASSUME TicksOK', UNCHANGED <<running, cacheClock, catalogKv, dnsKv>> PROVE CacheInv'
  BY <1>3 DEF CacheInv, CacheClockOK, CatalogKvOK, DnsKvOK
<1>4. CASE StartTick(t)
  <2>1. CASE ticking' = [ticking EXCEPT ![t].at = "sources", ![t].version = running]
    <3>1. PICK r \in Tick : r = [ticking[t] EXCEPT !.at = "sources", !.version = running]
      BY <1>1 DEF Tick, Steps
    <3>2. ticking' = [ticking EXCEPT ![t] = r]
      BY <2>1, <3>1, <1>1 DEF TicksOK
    <3> QED BY <1>1, <1>3, <1>4, <3>2, TickMoves DEF StartTick
  <2>2. CASE ticking' = [ticking EXCEPT ![t].at = "catalogs", ![t].version = running, ![t].browse = TRUE]
    <3>1. PICK r \in Tick : r = [ticking[t] EXCEPT !.at = "catalogs", !.version = running, !.browse = TRUE]
      BY <1>1 DEF Tick, Steps
    <3>2. ticking' = [ticking EXCEPT ![t] = r]
      BY <2>2, <3>1, <1>1 DEF TicksOK
    <3> QED BY <1>1, <1>3, <1>4, <3>2, TickMoves DEF StartTick
  <2> QED BY <1>4, <2>1, <2>2 DEF StartTick
<1>5. CASE RefreshSourcesFirst(t)
  <2>1. TicksOK'
    BY <1>1, <1>2, <1>5, TickAt, TickEnds DEF RefreshSourcesFirst
  <2> QED BY <1>3, <1>5, <2>1 DEF RefreshSourcesFirst
<1>6. CASE CheckCatalogs(t)
  <2>1. \E step \in Steps : At(t, step)
    BY <1>2, <1>6 DEF CheckCatalogs
  <2>2. TicksOK'
    BY <1>1, <2>1, TickAt
  <2> QED BY <1>3, <1>6, <2>2 DEF CheckCatalogs
<1>7. CASE ScanCatalog(t)
  <2>1. CASE At(t, "dns")
    BY <1>1, <1>2, <1>3, <1>7, <2>1, TickAt DEF ScanCatalog
  <2>2. ASSUME NEW scan \in Scans(Bundled[ticking[t].version][Len(ticking[t].scanned) + 1]),
               ticking' = [ticking EXCEPT ![t].scanned = Append(@, scan)]
        PROVE  TicksOK'
    <3>1. Len(ticking[t].scanned) + 1 \in 1..Len(Bundled[ticking[t].version])
      BY <1>2, <1>7, VersionsHaveCatalogs DEF ScanCatalog
    <3>2. scan \in Scanned
      BY <1>2, <3>1, VersionsHaveCatalogs
    <3>3. PICK list \in Seq(Scanned) : list = Append(ticking[t].scanned, scan)
      <4>1. \A T, s, x : s \in Seq(T) /\ x \in T => Append(s, x) \in Seq(T)
        OBVIOUS
      <4> QED BY <1>2, <3>2, <4>1, Zenon
    <3>4. PICK r \in Tick : r = [ticking[t] EXCEPT !.scanned = list]
      BY <1>1, TickFacts
    <3>5. ticking' = [ticking EXCEPT ![t] = r]
      BY <1>1, <2>2, <3>3, <3>4 DEF TicksOK
    <3> QED BY <1>1, <3>5, TickMoves
  <2> QED BY <1>3, <1>7, <2>1, <2>2 DEF ScanCatalog
<1>8. CASE PutCatalogs(t)
  <2>1. TicksOK'
    BY <1>1, <1>2, <1>8, TickAt DEF PutCatalogs
  <2>2. CatalogKvOK'
    <3>1. catalogKv' = [kind |-> "snapshot", catalogs |-> ticking[t].scanned, at |-> cacheClock] \/ catalogKv' = catalogKv
      BY <1>8 DEF PutCatalogs
    <3>2. [kind |-> "snapshot", catalogs |-> ticking[t].scanned, at |-> cacheClock]
            \in [kind : Copies, catalogs : Seq(Scanned), at : Nat]
      BY <1>1, <1>2 DEF Copies
    <3> QED BY <1>1, <3>1, <3>2 DEF CatalogKvOK
  <2>3. UNCHANGED <<running, cacheClock, dnsKv>>
    BY <1>8 DEF PutCatalogs
  <2> QED BY <1>1, <2>1, <2>2, <2>3 DEF CacheInv, CacheClockOK, DnsKvOK
<1>9. CASE GiveCatalogs(t)
  <2>1. TicksOK'
    BY <1>1, <1>2, <1>9, TickAt DEF GiveCatalogs
  <2> QED BY <1>3, <1>9, <2>1 DEF GiveCatalogs
<1>10. CASE CheckDomains(t)
  <2>1. TicksOK'
    BY <1>1, <1>2, <1>10, TickAt, TickEnds DEF CheckDomains
  <2> QED BY <1>3, <1>10, <2>1 DEF CheckDomains
<1>11. CASE FetchDomains(t)
  <2>1. TicksOK'
    BY <1>1, <1>11, TickEnds DEF FetchDomains
  <2>2. DnsKvOK'
    <3>1. CASE UNCHANGED dnsKv
      BY <1>1, <3>1 DEF DnsKvOK
    <3>2. ASSUME NEW list \in {<<>>, <<"upstream">>},
                 dnsKv' = IF Parsed(list) THEN [kind |-> "snapshot", catalogs |-> list, at |-> cacheClock] ELSE dnsKv
          PROVE  DnsKvOK'
      <4>1. CASE Parsed(list)
        BY <1>1, <3>2, <4>1 DEF DnsKvOK, Parsed, Copies
      <4>2. CASE ~Parsed(list)
        BY <1>1, <3>2, <4>2 DEF DnsKvOK
      <4> QED BY <4>1, <4>2
    <3> QED BY <1>11, <3>1, <3>2 DEF FetchDomains
  <2>3. UNCHANGED <<running, cacheClock, catalogKv>>
    BY <1>11 DEF FetchDomains
  <2> QED BY <1>1, <2>1, <2>2, <2>3 DEF CacheInv, CacheClockOK, CatalogKvOK
<1>12. CASE CutOffTick(t)
  <2>1. TicksOK'
    BY <1>1, <1>12, TickEnds DEF CutOffTick
  <2> QED BY <1>3, <1>12, <2>1 DEF CutOffTick
<1> QED BY <1>4, <1>5, <1>6, <1>7, <1>8, <1>9, <1>10, <1>11, <1>12

LEMMA NothingCopied ==
    /\ Unknown \in [kind : Copies, catalogs : Seq(Scanned), at : Nat]
    /\ Unknown \in [kind : Copies, catalogs : {<<>>, <<"upstream">>}, at : Nat] /\ Unknown.kind = "none"
<1>1. <<>> \in Seq(Scanned)
  OBVIOUS
<1> QED BY <1>1 DEF Unknown, Copies

LEMMA CacheBegins == CacheInit => CacheInv
<1> SUFFICES ASSUME CacheInit PROVE CacheInv
  OBVIOUS
<1>1. CacheClockOK
  <2>1. Bundled \in Seq(RangeOfSeq(Bundled)) /\ Bundled # <<>> /\ 0 \in 0..MaxCacheTime
    BY CacheAssumption
  <2> QED BY <2>1 DEF CacheInit, CacheClockOK
<1>2. CatalogKvOK /\ DnsKvOK
  BY NothingCopied DEF CacheInit, CatalogKvOK, DnsKvOK
<1>3. TicksOK
  BY TickFacts DEF CacheInit, TicksOK
<1> QED BY <1>1, <1>2, <1>3 DEF CacheInv

LEMMA CacheKeeps == CacheInv /\ [CacheNext]_cacheVars => CacheInv'
<1> SUFFICES ASSUME CacheInv, [CacheNext]_cacheVars PROVE CacheInv'
  OBVIOUS
<1>1. CASE UNCHANGED cacheVars
  BY <1>1 DEF cacheVars, CacheInv, CacheClockOK, CatalogKvOK, DnsKvOK, TicksOK
<1>2. CASE CacheTimePasses \/ Deploy
  <2>1. CacheClockOK'
    <3>1. DOMAIN Bundled = 1..Len(Bundled) /\ Len(Bundled) \in Nat /\ MaxCacheTime \in Nat
      <4>1. Bundled \in Seq(RangeOfSeq(Bundled)) /\ MaxCacheTime \in Nat
        BY CacheAssumption
      <4> QED BY <4>1
    <3> QED BY <1>2, <3>1 DEF CacheTimePasses, Deploy, CacheInv, CacheClockOK
  <2>2. UNCHANGED <<catalogKv, dnsKv, ticking>>
    BY <1>2 DEF CacheTimePasses, Deploy
  <2> QED BY <2>1, <2>2 DEF CacheInv, CatalogKvOK, DnsKvOK, TicksOK
<1>3. CASE Garble
  BY <1>3, NothingCopied DEF Garble, CacheInv, CacheClockOK, CatalogKvOK, DnsKvOK, TicksOK
<1> QED BY <1>1, <1>2, <1>3, TriggerKeeps DEF CacheNext

(* rule-set-catalogs.ts and managed-dns-resources.ts: whatever fails,      *)
(* overlaps, is cut off or is deployed, the catalogs served are the ones   *)
(* the running version knows, every item has a default source and no       *)
(* source nobody would use, and the list of domains is never empty.        *)
THEOREM ServedCopiesAreUsableHolds == CacheSpec => []ServedCopiesAreUsable
<1>1. CacheInv => ServedCopiesAreUsable
  <2> SUFFICES ASSUME CacheInv PROVE ServedCopiesAreUsable
    OBVIOUS
  <2>1. ServedCatalogs = RangeOfSeq(Bundled[running])
    BY DEF ServedCatalogs, Current, HasCurrentCatalogs
  <2>2. \A i \in DOMAIN catalogKv.catalogs : UsableItem(catalogKv.catalogs[i].item)
    <3>1. catalogKv.catalogs \in Seq(Scanned)
      BY DEF CacheInv, CatalogKvOK
    <3>2. \A i \in DOMAIN catalogKv.catalogs : catalogKv.catalogs[i] \in Scanned
      BY <3>1
    <3> QED BY <3>2, ScannedAreUsable
  <2>3. dnsKv.kind = "snapshot" => dnsKv.catalogs # <<>>
    BY DEF CacheInv, DnsKvOK
  <2> QED BY <2>1, <2>2, <2>3 DEF ServedCopiesAreUsable, UsableItem
<1> QED BY <1>1, CacheBegins, CacheKeeps, PTL DEF CacheSpec

(* The version, the clock, the copies and the triggers are what they are   *)
(* meant to be.                                                            *)
THEOREM CacheTypesHold == CacheSpec => []CacheTypes
<1>1. CacheInv => CacheTypes
  BY DEF CacheInv, CacheClockOK, CatalogKvOK, DnsKvOK, TicksOK, Tick, Steps, Copies, CacheTypes
<1> QED BY <1>1, CacheBegins, CacheKeeps, PTL DEF CacheSpec

-----------------------------------------------------------------------------
(* A group's place in two sequences joined is counted on from the first.    *)
LEMMA JoinedSequences ==
  ASSUME NEW S, NEW s \in Seq(S), NEW t \in Seq(S)
  PROVE  /\ s \o t \in Seq(S) /\ Len(s \o t) = Len(s) + Len(t)
         /\ \A i \in 1..Len(s) + Len(t) : (s \o t)[i] = IF i <= Len(s) THEN s[i] ELSE t[i - Len(s)]
OBVIOUS

(* Every group has a place among the rows, and no two the same.            *)
LEMMA GeneratedAre ==
    /\ GeneratedNames = {"PROXY", "AI", "Microsoft", "DIRECT", "AutoSelect"}
    /\ Generated \in Seq(GeneratedNames) /\ Len(Generated) = 5
    /\ Range(ScenarioIds) = {"ai-development", "platform"}
BY DEF Generated, GeneratedNames, ScenarioIds, Range

Rows == GeneratedNames \cup NodeGroupIds
LEMMA Places ==
    /\ \A g \in Rows : PlaceOf(g) \in Nat \ {0}
    /\ \E N \in Nat : \A g \in Rows : PlaceOf(g) \in 1..N
    /\ \A g, h \in Rows : PlaceOf(g) = PlaceOf(h) => g = h
<1> DEFINE m == Cardinality(NodeGroupIds)
           f == SetToSeq(NodeGroupIds)
<1>1. m \in Nat /\ ExistsBijection(1..m, NodeGroupIds)
  BY FS_CardinalityType, RoutingAssumption
<1>2. f \in [1..m -> NodeGroupIds] /\ IsInjective(f)
  <2>1. f = CHOOSE h \in [1..m -> NodeGroupIds] : IsInjective(h)
    BY DEF SetToSeq
  <2>2. \E h \in [1..m -> NodeGroupIds] : IsInjective(h)
    BY <1>1 DEF ExistsBijection, Bijection, Injection
  <2> QED BY <2>1, <2>2
<1>3. \A g \in NodeGroupIds : \E i \in 1..m : f[i] = g
  <2>1. IsFiniteSet(1..m) /\ Cardinality(1..m) = m
    BY <1>1, FS_Interval
  <2>2. f \in Injection(1..m, NodeGroupIds)
    BY <1>2 DEF Injection
  <2> HIDE DEF f
  <2>3. f \in Surjection(1..m, NodeGroupIds)
    BY <2>1, <2>2, FS_Injection, RoutingAssumption
  <2> QED BY <2>3 DEF Surjection
<1> HIDE DEF f
<1>4. f \in Seq(Rows) /\ Len(f) = m
  <2>1. f \in Seq(NodeGroupIds)
    BY <1>1, <1>2
  <2> QED BY <1>1, <1>2, <2>1 DEF Rows
<1>5. Generated \in Seq(Rows) /\ Len(Generated) = 5
  BY GeneratedAre DEF Rows
<1>6. RowOrder = Generated \o f
  BY DEF RowOrder, f
<1>7. /\ DOMAIN RowOrder = 1..(5 + m)
      /\ \A i \in 1..5 : RowOrder[i] = Generated[i]
      /\ \A i \in 1..m : RowOrder[5 + i] = f[i]
  <2>0. /\ Generated \o f \in Seq(Rows) /\ Len(Generated \o f) = Len(Generated) + Len(f)
        /\ \A i \in 1..Len(Generated) + Len(f) : (Generated \o f)[i] = IF i <= Len(Generated) THEN Generated[i] ELSE f[i - Len(Generated)]
    BY <1>4, <1>5, JoinedSequences
  <2>1. Len(RowOrder) = 5 + m /\ RowOrder \in Seq(Rows)
    BY <1>4, <1>5, <1>6, <2>0
  <2>2. \A i \in 1..(5 + m) : RowOrder[i] = IF i <= 5 THEN Generated[i] ELSE f[i - 5]
    BY <1>4, <1>5, <1>6, <2>0
  <2> HIDE DEF m
  <2>3. \A i \in 1..m : 5 + i \in 1..(5 + m) /\ 5 + i - 5 = i /\ ~(5 + i <= 5)
    BY <1>1
  <2>4. \A i \in 1..5 : i \in 1..(5 + m) /\ i <= 5
    BY <1>1
  <2>5. DOMAIN RowOrder = 1..Len(RowOrder)
    BY <2>1
  <2> QED BY <2>1, <2>2, <2>3, <2>4, <2>5
<1>8. \A g \in Rows : \E i \in 1..(5 + m) : RowOrder[i] = g
  <2>1. ASSUME NEW g \in GeneratedNames PROVE \E i \in 1..(5 + m) : RowOrder[i] = g
    <3>1. PICK i \in 1..5 : Generated[i] = g
      BY GeneratedAre DEF Generated
    <3> HIDE DEF m
    <3>2. RowOrder[i] = Generated[i] /\ i \in 1..(5 + m)
      BY <1>1, <1>7, <3>1
    <3> QED BY <3>1, <3>2
  <2>2. ASSUME NEW g \in NodeGroupIds PROVE \E i \in 1..(5 + m) : RowOrder[i] = g
    <3>1. PICK i \in 1..m : f[i] = g
      BY <1>3
    <3> HIDE DEF m
    <3>2. RowOrder[5 + i] = f[i] /\ 5 + i \in 1..(5 + m)
      BY <1>1, <1>7, <3>1
    <3> QED BY <3>1, <3>2
  <2> QED BY <2>1, <2>2 DEF Rows
<1>9. \A g \in Rows : PlaceOf(g) \in 1..(5 + m) /\ RowOrder[PlaceOf(g)] = g
  BY <1>7, <1>8 DEF PlaceOf
<1> HIDE DEF m
<1>10. 5 + m \in Nat /\ \A i \in 1..(5 + m) : i \in Nat \ {0}
  BY <1>1
<1> QED BY <1>9, <1>10

(* The turns of the outlets: the preferred ones first, all of them last.   *)
LEMMA FourInARow ==
  ASSUME NEW X, NEW a \in X, NEW b \in X, NEW s \in Seq(X), NEW t \in Seq(X)
  PROVE  LET u == <<a>> \o s \o t \o <<b>> IN
         /\ Len(u) \in Nat /\ DOMAIN u = 1..Len(u) /\ 1 \in DOMAIN u /\ Len(u) \in DOMAIN u
         /\ u[1] = a /\ u[Len(u)] = b
<1> DEFINE u1 == <<a>> \o s
           u2 == u1 \o t
           bs == <<b>>
           u3 == u2 \o bs
<1>1. <<a>> \in Seq(X) /\ bs \in Seq(X) /\ Len(<<a>>) = 1 /\ Len(bs) = 1 /\ <<a>>[1] = a /\ bs[1] = b
      /\ Len(s) \in Nat /\ Len(t) \in Nat
  OBVIOUS
<1>2. u1 \in Seq(X) /\ Len(u1) = 1 + Len(s) /\ u1[1] = a
  <2>1. /\ u1 \in Seq(X) /\ Len(u1) = Len(<<a>>) + Len(s)
        /\ \A i \in 1..Len(<<a>>) + Len(s) : u1[i] = IF i <= Len(<<a>>) THEN <<a>>[i] ELSE s[i - Len(<<a>>)]
    BY <1>1, JoinedSequences
  <2> HIDE DEF u1
  <2> QED BY <1>1, <2>1
<1> HIDE DEF u1
<1>3. u2 \in Seq(X) /\ Len(u2) = 1 + Len(s) + Len(t) /\ u2[1] = a
  <2>1. /\ u2 \in Seq(X) /\ Len(u2) = Len(u1) + Len(t)
        /\ \A i \in 1..Len(u1) + Len(t) : u2[i] = IF i <= Len(u1) THEN u1[i] ELSE t[i - Len(u1)]
    BY <1>2, JoinedSequences
  <2> HIDE DEF u2
  <2> QED BY <1>1, <1>2, <2>1
<1> HIDE DEF u2
<1> HIDE DEF bs
<1>3a. u2 \in Seq(X) /\ bs \in Seq(X)
  BY <1>1, <1>3
<1>4. u3 \in Seq(X) /\ Len(u3) = 2 + Len(s) + Len(t) /\ u3[1] = a /\ u3[2 + Len(s) + Len(t)] = b
  <2>1. /\ u3 \in Seq(X) /\ Len(u3) = Len(u2) + Len(bs)
        /\ \A i \in 1..Len(u2) + Len(bs) : u3[i] = IF i <= Len(u2) THEN u2[i] ELSE bs[i - Len(u2)]
    BY <1>3a, JoinedSequences
  <2>2. 1 \in 1..Len(u2) + Len(bs) /\ 1 <= Len(u2)
    BY <1>1, <1>3
  <2>3. 2 + Len(s) + Len(t) \in 1..Len(u2) + Len(bs) /\ ~(2 + Len(s) + Len(t) <= Len(u2)) /\ 2 + Len(s) + Len(t) - Len(u2) = 1
    BY <1>1, <1>3
  <2> HIDE DEF u3
  <2>4. Len(u3) = 2 + Len(s) + Len(t)
    BY <1>1, <1>3, <2>1
  <2>5. u3[1] = u2[1]
    BY <2>1, <2>2
  <2>6. u3[2 + Len(s) + Len(t)] = bs[2 + Len(s) + Len(t) - Len(u2)]
    BY <2>1, <2>3
  <2> QED BY <1>1, <1>3, <2>1, <2>3, <2>4, <2>5, <2>6
<1>5. u3 = <<a>> \o s \o t \o <<b>>
  BY DEF u3, u2, u1, bs
<1> HIDE DEF u3
<1>6. DOMAIN u3 = 1..Len(u3)
  BY <1>4
<1> QED BY <1>1, <1>4, <1>5, <1>6

LEMMA TurnsAre ==
  ASSUME NEW n \in GeneratedNames, NEW outlets \in SUBSET Rows, NEW backed, DOMAIN backed \subseteq Rows, NEW outlet, NEW keys,
         Preferred(outlet, outlets, keys) \subseteq Rows
  PROVE  LET turns == Turns(n, outlets, backed, outlet, keys) IN
         /\ Len(turns) \in Nat /\ DOMAIN turns = 1..Len(turns) /\ 1 \in DOMAIN turns /\ Len(turns) \in DOMAIN turns
         /\ turns[1] = (IF n = "AI" THEN Preferred(outlet, outlets, keys) ELSE {}) /\ turns[Len(turns)] = outlets
<1> DEFINE X == SUBSET Rows
           a == IF n = "AI" THEN Preferred(outlet, outlets, keys) ELSE {}
           s == [i \in DOMAIN Prefers[n] |-> {g \in DOMAIN backed : backed[g] = Prefers[n][i]}]
           t == [i \in DOMAIN OutletOrder |-> {OutletOrder[i]}]
<1>1. a \in X /\ outlets \in X
  OBVIOUS
<1>2. s \in Seq(X)
  <2>1. CASE n = "AI"
    <3>1. Prefers[n] = <<"us">>
      BY <2>1 DEF Prefers
    <3>2. DOMAIN Prefers[n] = 1..1
      BY <3>1
    <3>3. s \in [1..1 -> X]
      BY <3>2
    <3> QED BY <3>3
  <2>2. CASE n # "AI"
    <3>1. Prefers[n] = <<>>
      BY <2>2 DEF Prefers
    <3>2. DOMAIN Prefers[n] = 1..0
      BY <3>1
    <3>3. s \in [1..0 -> X]
      BY <3>2
    <3> QED BY <3>3
  <2> QED BY <2>1, <2>2
<1>3. t \in Seq(X)
  <2>1. DOMAIN OutletOrder = 1..3 /\ \A i \in 1..3 : OutletOrder[i] \in GeneratedNames
    BY GeneratedAre DEF OutletOrder
  <2>2. t \in [1..3 -> X]
    BY <2>1 DEF Rows
  <2> QED BY <2>2
<1>4. Turns(n, outlets, backed, outlet, keys) = <<a>> \o s \o t \o <<outlets>>
  BY DEF Turns
<1> HIDE DEF X, a, s, t
<1>5. LET u == <<a>> \o s \o t \o <<outlets>> IN
      /\ Len(u) \in Nat /\ DOMAIN u = 1..Len(u) /\ 1 \in DOMAIN u /\ Len(u) \in DOMAIN u
      /\ u[1] = a /\ u[Len(u)] = outlets
  BY <1>1, <1>2, <1>3, FourInARow
<1> QED BY <1>4, <1>5 DEF a

LEMMA BeforeIs ==
  ASSUME NEW outlets, NEW turns, NEW x \in outlets, NEW y \in outlets
  PROVE  <<x, y>> \in Before(outlets, turns) <=>
           (TurnOf(x, turns) < TurnOf(y, turns) \/ (TurnOf(x, turns) = TurnOf(y, turns) /\ PlaceOf(x) < PlaceOf(y)))
<1> DEFINE p == <<x, y>>
           Earlier(g, h) == TurnOf(g, turns) < TurnOf(h, turns) \/ (TurnOf(g, turns) = TurnOf(h, turns) /\ PlaceOf(g) < PlaceOf(h))
<1>1. p[1] = x /\ p[2] = y /\ p \in outlets \X outlets
  OBVIOUS
<1>2. Before(outlets, turns) = {q \in outlets \X outlets : Earlier(q[1], q[2])}
  BY DEF Before
<1> HIDE DEF p, Earlier
<1>3. p \in Before(outlets, turns) <=> Earlier(x, y)
  BY <1>1, <1>2
<1> QED BY <1>3 DEF p, Earlier

(* sortRoutingMemberGroupIds: every open outlet but the group itself, each *)
(* once, and a preferred one first if there is one.                        *)
LEMMA ListsTheOutlets ==
  ASSUME NEW n \in GeneratedNames, NEW rows, NEW backed, NEW outlet, NEW keys,
         OpenOutlets(rows, backed) \subseteq Rows,
         Preferred(outlet, OpenOutlets(rows, backed) \ {n}, keys) \subseteq OpenOutlets(rows, backed) \ {n}
  PROVE  LET list == RoutingMembers(n, rows, backed, outlet, keys)
             outlets == OpenOutlets(rows, backed) \ {n}
             first == Preferred(outlet, outlets, keys)
         IN  /\ list \in Seq(Rows) /\ Range(list) = outlets /\ IsInjective(list)
             /\ n = "AI" /\ first # {} => list[1] \in first
<1> DEFINE outlets == OpenOutlets(rows, backed) \ {n}
           first == Preferred(outlet, outlets, keys)
           turns == Turns(n, outlets, backed, outlet, keys)
           before == Before(outlets, turns)
           list == Arranged(outlets, before)
           T(g) == TurnOf(g, turns)
<1>1. list = RoutingMembers(n, rows, backed, outlet, keys)
  BY DEF RoutingMembers
<1>2. outlets \in SUBSET Rows /\ first \subseteq outlets /\ DOMAIN backed \subseteq Rows
  BY DEF OpenOutlets
<1>3. IsFiniteSet(outlets)
  <2>1. IsFiniteSet({"PROXY", "AI", "Microsoft", "DIRECT", "AutoSelect"})
    <3>1. IsFiniteSet({"PROXY"} \cup {"AI"})
      BY FS_Singleton, FS_AddElement
    <3>2. IsFiniteSet(({"PROXY"} \cup {"AI"}) \cup {"Microsoft"})
      BY <3>1, FS_AddElement
    <3>3. IsFiniteSet((({"PROXY"} \cup {"AI"}) \cup {"Microsoft"}) \cup {"DIRECT"})
      BY <3>2, FS_AddElement
    <3>4. IsFiniteSet(((({"PROXY"} \cup {"AI"}) \cup {"Microsoft"}) \cup {"DIRECT"}) \cup {"AutoSelect"})
      BY <3>3, FS_AddElement
    <3>5. ((({"PROXY"} \cup {"AI"}) \cup {"Microsoft"}) \cup {"DIRECT"}) \cup {"AutoSelect"} = {"PROXY", "AI", "Microsoft", "DIRECT", "AutoSelect"}
      OBVIOUS
    <3> QED BY <3>4, <3>5
  <2>2. IsFiniteSet(Rows)
    BY <2>1, GeneratedAre, RoutingAssumption, FS_Union DEF Rows
  <2> HIDE DEF outlets
  <2> QED BY <1>2, <2>2, FS_Subset
<1> HIDE DEF outlets
<1>4. /\ Len(turns) \in Nat /\ DOMAIN turns = 1..Len(turns) /\ 1 \in DOMAIN turns /\ Len(turns) \in DOMAIN turns
      /\ turns[1] = (IF n = "AI" THEN first ELSE {}) /\ turns[Len(turns)] = outlets
  BY <1>2, TurnsAre
<1> HIDE DEF first, turns
<1>5. ASSUME NEW g \in outlets
      PROVE  T(g) \in 1..Len(turns) /\ g \in turns[T(g)] /\ \A j \in 1..Len(turns) : g \in turns[j] => T(g) <= j
  <2> DEFINE S == {i \in 1..Len(turns) : g \in turns[i]}
  <2>1. Len(turns) \in S /\ S \in SUBSET (1..Len(turns))
    BY <1>4
  <2>2. PICK i \in S : \A j \in S : i <= j
    <3> HIDE DEF S
    <3> QED BY <1>4, <2>1, FirstIsIn
  <2>3. i \in DOMAIN turns /\ g \in turns[i] /\ \A j \in DOMAIN turns : g \in turns[j] => i <= j
    BY <1>4, <2>2
  <2>4. T(g) \in DOMAIN turns /\ g \in turns[T(g)] /\ \A j \in DOMAIN turns : g \in turns[j] => T(g) <= j
    BY <2>3 DEF TurnOf
  <2> QED BY <1>4, <2>4
<1> HIDE DEF before, T
<1>6. \A x, y \in outlets : <<x, y>> \in before <=> (T(x) < T(y) \/ (T(x) = T(y) /\ PlaceOf(x) < PlaceOf(y)))
  BY BeforeIs DEF before, T
<1>6a. before \subseteq outlets \X outlets
  BY DEF Before, before
<1>7. \A x \in outlets : T(x) \in Int /\ PlaceOf(x) \in Int
  <2> SUFFICES ASSUME NEW x \in outlets PROVE T(x) \in Int /\ PlaceOf(x) \in Int
    OBVIOUS
  <2>1. T(x) \in 1..Len(turns) /\ Len(turns) \in Nat
    BY <1>4, <1>5 DEF T
  <2>2. PlaceOf(x) \in Nat
    BY <1>2, Places
  <2> QED BY <2>1, <2>2
<1>8. \A x, y \in outlets : PlaceOf(x) = PlaceOf(y) => x = y
  BY <1>2, Places
<1>9. StrictOrder(outlets, before)
  <2>1. \A x \in outlets : <<x, x>> \notin before
    BY <1>6, <1>7
  <2>2. \A x, y, z \in outlets : <<x, y>> \in before /\ <<y, z>> \in before => <<x, z>> \in before
    BY <1>6, <1>7
  <2>3. \A x, y \in outlets : x # y => <<x, y>> \in before \/ <<y, x>> \in before
    BY <1>6, <1>7, <1>8
  <2> QED BY <1>6a, <2>1, <2>2, <2>3 DEF StrictOrder
<1>10. list \in Seq(outlets) /\ Range(list) = outlets /\ IsInjective(list) /\ (outlets # {} => \A y \in outlets : <<y, list[1]>> \notin before)
  BY <1>3, <1>9, ArrangedLists
<1> HIDE DEF list
<1>11. list \in Seq(Rows)
  BY <1>2, <1>10
<1>12. ASSUME n = "AI", first # {} PROVE list[1] \in first
  <2>1. PICK y \in first : y \in outlets
    BY <1>2, <1>12
  <2>2. turns[1] = first /\ 1 \in 1..Len(turns)
    BY <1>4, <1>12
  <2>3. T(y) = 1
    <3>1. T(y) \in 1..Len(turns) /\ T(y) <= 1
      BY <1>5, <2>1, <2>2
    <3> QED BY <1>4, <3>1
  <2>4. list[1] \in outlets
    <3>1. list # <<>>
      BY <1>10, <2>1 DEF Range
    <3>2. 1 \in DOMAIN list
      BY <1>10, <3>1
    <3> QED BY <1>10, <3>2 DEF Range
  <2>5. ~(T(y) < T(list[1]))
    BY <1>6, <1>10, <2>1, <2>4
  <2>6. T(list[1]) = 1
    <3>1. T(list[1]) \in 1..Len(turns)
      BY <1>5, <2>4
    <3> QED BY <1>4, <2>3, <2>5, <3>1
  <2>7. list[1] \in turns[T(list[1])]
    BY <1>5, <2>4
  <2> QED BY <2>2, <2>6, <2>7
<1> QED BY <1>1, <1>10, <1>11, <1>12 DEF outlets, first

-----------------------------------------------------------------------------
(* What the settings, the rows and the calls are; that a call which says   *)
(* it is alone is the only one; and how far such a call has come: what it  *)
(* wrote is so still, and what it read is what the store holds.            *)
RoutingSteps == {"idle", "insert", "canonical", "scenarios", "apply", "rows", "outlet", "keys", "write"}
Settings == [scenarios : Seq(Range(ScenarioIds)), readable : BOOLEAN, outlet : Outlet]
Views == UNION {[D -> RoutingRow] : D \in SUBSET GeneratedNames}
KeyMaps == UNION {[D -> {"us", "own"}] : D \in SUBSET NodeGroupIds}
RoutingCall == [at : RoutingSteps, chosen : SUBSET Range(ScenarioIds), rows : Views, backed : KeyMaps, outlet : Outlet,
                keys : KeyMaps, alone : BOOLEAN]

StoreOK == setting \in Settings /\ generated \in [GeneratedNames -> RoutingRow] /\ nodeGroups \in KeyMaps
RoutingCallsOK == routingCalls \in [RoutingCalls -> RoutingCall]
RoutingIsAlone == \A c, d \in RoutingCalls : routingCalls[c].alone /\ d # c => routingCalls[d].at = "idle"

AllThere == \A n \in GeneratedNames : generated[n].there
AllInForm == \A n \in GeneratedNames : generated[n].there /\ generated[n].canonical
SwitchedAsChosen == \A n \in GeneratedNames : generated[n].enabled = (n \in ActiveNames(ChosenScenarios))
Shown == {n \in GeneratedNames : generated[n].there /\ generated[n].enabled}
ComesAlong(call) ==
    /\ call.at = "canonical" => AllThere
    /\ call.at \in {"scenarios", "apply", "rows", "outlet", "keys", "write"} => AllInForm
    /\ call.at = "apply" => call.chosen = ChosenScenarios
    /\ call.at \in {"rows", "outlet", "keys", "write"} => SwitchedAsChosen
    /\ call.at \in {"outlet", "keys", "write"} =>
         call.backed = nodeGroups /\ call.rows = [n \in Shown |-> [generated[n] EXCEPT !.list = <<>>]]
    /\ call.at \in {"keys", "write"} => call.outlet = setting.outlet
    /\ call.at = "write" => call.keys = nodeGroups
AloneComesAlong == \A c \in RoutingCalls : routingCalls[c].alone => ComesAlong(routingCalls[c])
RoutingInv == /\ StoreOK /\ RoutingCallsOK /\ settled \in BOOLEAN
              /\ RoutingIsAlone /\ AloneComesAlong /\ RoutingFollowsSettings

LEMMA IdleRoutingIsCall == IdleCall \in RoutingCall /\ IdleCall.at = "idle" /\ ~IdleCall.alone
<1>1. NoView \in Views
  <2>1. NoView \in [{} -> RoutingRow] /\ {} \in SUBSET GeneratedNames
    BY DEF NoView
  <2> QED BY <2>1 DEF Views
<1>2. NoView \in KeyMaps
  <2>1. NoView \in [{} -> {"us", "own"}] /\ {} \in SUBSET NodeGroupIds
    BY DEF NoView
  <2> QED BY <2>1 DEF KeyMaps
<1> QED BY <1>1, <1>2 DEF IdleCall, RoutingCall, RoutingSteps, NoOutlet, Outlet

(* A call that moves on: the others stay as they were, and nothing counts  *)
(* as settled.                                                             *)
LEMMA RoutingMoves ==
  ASSUME RoutingInv, NEW c \in RoutingCalls, NEW record \in RoutingCall, Proceed(c, record), StoreOK',
         routingCalls[c].at # "idle", record.alone => routingCalls[c].alone, record.alone => ComesAlong(record)'
  PROVE  RoutingInv'
<1>1. routingCalls' = [routingCalls EXCEPT ![c] = record] /\ settled' = FALSE
  BY DEF Proceed
<1>2. RoutingCallsOK'
  BY <1>1 DEF RoutingInv, RoutingCallsOK
<1>3. routingCalls'[c] = record /\ \A d \in RoutingCalls : d # c => routingCalls'[d] = routingCalls[d]
  BY <1>1 DEF RoutingInv, RoutingCallsOK
<1>4. ASSUME NEW d \in RoutingCalls, d # c PROVE ~routingCalls[d].alone
  BY <1>4 DEF RoutingInv, RoutingIsAlone
<1>5. RoutingIsAlone'
  BY <1>3, <1>4 DEF RoutingInv, RoutingIsAlone
<1>6. AloneComesAlong'
  <2> SUFFICES ASSUME NEW d \in RoutingCalls, routingCalls'[d].alone PROVE ComesAlong(routingCalls[d])'
    BY DEF AloneComesAlong
  <2>1. d = c
    BY <1>3, <1>4
  <2>2. routingCalls'[d] = record
    BY <1>3, <2>1
  <2>3. record.alone
    BY <2>2
  <2>4. ComesAlong(record)'
    BY <2>3
  <2> QED BY <2>2, <2>4 DEF ComesAlong, AllThere, AllInForm, SwitchedAsChosen, Shown, ChosenScenarios
<1>7. RoutingFollowsSettings'
  BY <1>1 DEF RoutingFollowsSettings
<1> QED BY <1>1, <1>2, <1>5, <1>6, <1>7 DEF RoutingInv

(* A step after which no call counts as alone.                             *)
LEMMA NobodyIsAlone ==
  ASSUME StoreOK', RoutingCallsOK', settled' = FALSE, \A c \in RoutingCalls : ~routingCalls'[c].alone
  PROVE  RoutingInv'
BY DEF RoutingInv, RoutingIsAlone, AloneComesAlong, RoutingFollowsSettings

LEMMA NobodyAloneIs ==
  ASSUME RoutingCallsOK
  PROVE  /\ NobodyAlone \in [RoutingCalls -> RoutingCall]
         /\ \A c \in RoutingCalls : ~NobodyAlone[c].alone /\ NobodyAlone[c].at = routingCalls[c].at
BY DEF RoutingCallsOK, NobodyAlone, RoutingCall

(* A request that starts its sync.  It is alone if no other is under way.  *)
LEMMA SyncStarts ==
  ASSUME RoutingInv, NEW c \in RoutingCalls, StoreOK', settled' = FALSE,
         routingCalls' = [NobodyAlone EXCEPT ![c] = [IdleCall EXCEPT !.at = "insert", !.alone = (InRouting = {})]]
  PROVE  RoutingInv'
<1> DEFINE new == [IdleCall EXCEPT !.at = "insert", !.alone = (InRouting = {})]
<1>1. new \in RoutingCall /\ new.at = "insert" /\ (new.alone <=> InRouting = {})
  <2>1. IdleCall \in RoutingCall
    BY IdleRoutingIsCall
  <2> QED BY <2>1 DEF RoutingCall, RoutingSteps
<1> HIDE DEF new
<1>2. /\ NobodyAlone \in [RoutingCalls -> RoutingCall]
      /\ \A d \in RoutingCalls : ~NobodyAlone[d].alone /\ NobodyAlone[d].at = routingCalls[d].at
  BY NobodyAloneIs DEF RoutingInv
<1>3. routingCalls' = [NobodyAlone EXCEPT ![c] = new]
  BY DEF new
<1>4. RoutingCallsOK' /\ routingCalls'[c] = new /\ \A d \in RoutingCalls : d # c => routingCalls'[d] = NobodyAlone[d]
  BY <1>1, <1>2, <1>3 DEF RoutingCallsOK
<1>5. InRouting = {} => \A d \in RoutingCalls : routingCalls[d].at = "idle"
  BY DEF InRouting
<1>6. RoutingIsAlone'
  BY <1>1, <1>2, <1>4, <1>5 DEF RoutingIsAlone
<1>7. AloneComesAlong'
  <2> SUFFICES ASSUME NEW d \in RoutingCalls, routingCalls'[d].alone PROVE ComesAlong(routingCalls[d])'
    BY DEF AloneComesAlong
  <2>1. routingCalls'[d].at = "insert"
    BY <1>1, <1>2, <1>4
  <2> QED BY <2>1 DEF ComesAlong
<1> QED BY <1>4, <1>6, <1>7 DEF RoutingInv, RoutingFollowsSettings

LEMMA StartRoutingSyncKeeps == ASSUME RoutingInv, NEW c \in RoutingCalls, StartRoutingSync(c) PROVE RoutingInv'
<1>1. StoreOK'
  BY DEF StartRoutingSync, routingStore, RoutingInv, StoreOK
<1> QED BY <1>1, SyncStarts DEF StartRoutingSync

LEMMA PutSettingsKeeps == ASSUME RoutingInv, NEW c \in RoutingCalls, PutSettings(c) PROVE RoutingInv'
<1>1. PICK patch \in AcceptedPatches :
        /\ setting' = SettingsUpdate(patch)
        /\ routingCalls' = [NobodyAlone EXCEPT ![c] =
              IF patch.fields \cap {"scenarios", "outlet"} = {} THEN IdleCall
              ELSE [IdleCall EXCEPT !.at = "insert", !.alone = (InRouting = {})]]
  BY DEF PutSettings
<1>2. settled' = FALSE /\ generated' = generated /\ nodeGroups' = nodeGroups
  BY DEF PutSettings
<1>3. setting' \in Settings
  <2>1. patch \in Patches /\ ("scenarios" \in patch.fields => Range(patch.scenarios) \subseteq Range(ScenarioIds))
    BY DEF AcceptedPatches, ValidateSettingsPatch
  <2>2. patch.scenarios \in {<<"platform">>, <<"platform", "platform">>, <<"other">>} /\ patch.outlet \in Outlet
    BY <2>1 DEF Patches
  <2>3. <<"platform">> \in Seq(Range(ScenarioIds)) /\ <<"platform", "platform">> \in Seq(Range(ScenarioIds))
    BY GeneratedAre
  <2>4. "other" \in Range(<<"other">>) /\ "other" \notin Range(ScenarioIds)
    BY GeneratedAre DEF Range
  <2>5. "scenarios" \in patch.fields => patch.scenarios \in Seq(Range(ScenarioIds))
    BY <2>1, <2>2, <2>3, <2>4
  <2>6. setting \in Settings
    BY DEF RoutingInv, StoreOK
  <2> QED BY <1>1, <2>2, <2>5, <2>6 DEF SettingsUpdate, Settings
<1>4. StoreOK'
  BY <1>2, <1>3 DEF RoutingInv, StoreOK
<1>5. CASE patch.fields \cap {"scenarios", "outlet"} = {}
  <2>1. routingCalls' = [NobodyAlone EXCEPT ![c] = IdleCall]
    BY <1>1, <1>5
  <2>2. /\ NobodyAlone \in [RoutingCalls -> RoutingCall]
        /\ \A d \in RoutingCalls : ~NobodyAlone[d].alone
    BY NobodyAloneIs DEF RoutingInv
  <2>3. RoutingCallsOK' /\ \A d \in RoutingCalls : ~routingCalls'[d].alone
    BY <2>1, <2>2, IdleRoutingIsCall DEF RoutingCallsOK
  <2> QED BY <1>2, <1>4, <2>3, NobodyIsAlone
<1>6. CASE patch.fields \cap {"scenarios", "outlet"} # {}
  <2>1. routingCalls' = [NobodyAlone EXCEPT ![c] = [IdleCall EXCEPT !.at = "insert", !.alone = (InRouting = {})]]
    BY <1>1, <1>6
  <2> QED BY <1>2, <1>4, <2>1, SyncStarts
<1> QED BY <1>5, <1>6

LEMMA CallFacts ==
  ASSUME RoutingInv, NEW c \in RoutingCalls
  PROVE  /\ routingCalls[c] \in RoutingCall
         /\ routingCalls[c].alone => ComesAlong(routingCalls[c])
         /\ setting \in Settings /\ generated \in [GeneratedNames -> RoutingRow] /\ nodeGroups \in KeyMaps
BY DEF RoutingInv, RoutingCallsOK, StoreOK, AloneComesAlong

LEMMA InsertGeneratedKeeps == ASSUME RoutingInv, NEW c \in RoutingCalls, InsertGenerated(c) PROVE RoutingInv'
<1> DEFINE call == routingCalls[c]
           record == [call EXCEPT !.at = "canonical"]
<1>1. call \in RoutingCall /\ call.at = "insert" /\ Proceed(c, record) /\ setting' = setting /\ nodeGroups' = nodeGroups
  BY CallFacts DEF InsertGenerated
<1>2. /\ generated' \in [GeneratedNames -> RoutingRow]
      /\ \A n \in GeneratedNames : generated'[n].there
  <2>1. generated' = [n \in GeneratedNames |-> IF generated[n].there THEN generated[n]
                       ELSE [there |-> TRUE, enabled |-> TRUE, canonical |-> TRUE, list |-> <<>>]]
    BY DEF InsertGenerated
  <2>2. [there |-> TRUE, enabled |-> TRUE, canonical |-> TRUE, list |-> <<>>] \in RoutingRow
    BY DEF RoutingRow
  <2> QED BY <2>1, <2>2, CallFacts
<1>3. StoreOK'
  BY <1>1, <1>2, CallFacts DEF StoreOK
<1>4. PICK r \in RoutingCall : r = record /\ r.at = "canonical" /\ r.alone = call.alone
  BY <1>1 DEF RoutingCall, RoutingSteps
<1> HIDE DEF record
<1>5. ComesAlong(r)'
  BY <1>2, <1>4 DEF ComesAlong, AllThere
<1> QED BY <1>1, <1>3, <1>4, <1>5, RoutingMoves

LEMMA MakeCanonicalKeeps == ASSUME RoutingInv, NEW c \in RoutingCalls, MakeCanonical(c) PROVE RoutingInv'
<1> DEFINE call == routingCalls[c]
           record == [call EXCEPT !.at = "scenarios"]
<1>1. call \in RoutingCall /\ call.at = "canonical" /\ Proceed(c, record) /\ setting' = setting /\ nodeGroups' = nodeGroups
  BY CallFacts DEF MakeCanonical
<1>2. /\ generated' \in [GeneratedNames -> RoutingRow]
      /\ call.alone => \A n \in GeneratedNames : generated'[n].there /\ generated'[n].canonical
  <2>1. generated' = [n \in GeneratedNames |-> [generated[n] EXCEPT !.canonical = generated[n].there]]
    BY DEF MakeCanonical
  <2>2. call.alone => \A n \in GeneratedNames : generated[n].there
    BY <1>1, CallFacts DEF ComesAlong, AllThere
  <2>3. ASSUME NEW n \in GeneratedNames
        PROVE  /\ generated'[n] \in RoutingRow /\ generated'[n].there = generated[n].there
               /\ generated'[n].canonical = generated[n].there
    <3>1. generated[n] \in RoutingRow
      BY CallFacts
    <3> QED BY <2>1, <3>1 DEF RoutingRow
  <2> QED BY <2>1, <2>2, <2>3
<1>3. StoreOK'
  BY <1>1, <1>2, CallFacts DEF StoreOK
<1>4. PICK r \in RoutingCall : r = record /\ r.at = "scenarios" /\ r.alone = call.alone
  BY <1>1 DEF RoutingCall, RoutingSteps
<1> HIDE DEF record
<1>5. call.alone => ComesAlong(r)'
  BY <1>2, <1>4 DEF ComesAlong, AllInForm
<1> QED BY <1>1, <1>3, <1>4, <1>5, RoutingMoves

(* A call that only reads.                                                 *)
LEMMA RoutingReads ==
  ASSUME RoutingInv, NEW c \in RoutingCalls, NEW record \in RoutingCall, Proceed(c, record), UNCHANGED routingStore,
         routingCalls[c].at # "idle", record.alone => routingCalls[c].alone, record.alone => ComesAlong(record)
  PROVE  RoutingInv'
<1>1. setting' = setting /\ generated' = generated /\ nodeGroups' = nodeGroups
  BY DEF routingStore
<1>2. StoreOK'
  BY <1>1 DEF RoutingInv, StoreOK
<1>3. record.alone => ComesAlong(record)'
  BY <1>1 DEF ComesAlong, AllThere, AllInForm, SwitchedAsChosen, Shown, ChosenScenarios
<1> QED BY <1>2, <1>3, RoutingMoves

LEMMA ChosenAreScenarios == ASSUME setting \in Settings PROVE ChosenScenarios \subseteq Range(ScenarioIds)
BY GeneratedAre DEF ChosenScenarios, DefaultScenarios

LEMMA ReadScenariosKeeps == ASSUME RoutingInv, NEW c \in RoutingCalls, ReadScenarios(c) PROVE RoutingInv'
<1> DEFINE call == routingCalls[c]
           record == [call EXCEPT !.at = "apply", !.chosen = ChosenScenarios]
<1>1. call \in RoutingCall /\ call.at = "scenarios" /\ Proceed(c, record) /\ UNCHANGED routingStore
  BY CallFacts DEF ReadScenarios
<1>2. ChosenScenarios \subseteq Range(ScenarioIds)
  BY CallFacts, ChosenAreScenarios
<1>3. record \in RoutingCall /\ record.at = "apply" /\ record.chosen = ChosenScenarios /\ record.alone = call.alone
  BY <1>1, <1>2 DEF RoutingCall, RoutingSteps
<1> HIDE DEF record
<1>4. call.alone => ComesAlong(record)
  BY <1>1, <1>3, CallFacts DEF ComesAlong
<1> QED BY <1>1, <1>3, <1>4, RoutingReads

LEMMA ApplyScenariosKeeps == ASSUME RoutingInv, NEW c \in RoutingCalls, ApplyScenarios(c) PROVE RoutingInv'
<1> DEFINE call == routingCalls[c]
           record == [call EXCEPT !.at = "rows", !.chosen = {}]
<1>1. call \in RoutingCall /\ call.at = "apply" /\ Proceed(c, record) /\ setting' = setting /\ nodeGroups' = nodeGroups
  BY CallFacts DEF ApplyScenarios
<1>2. ASSUME NEW n \in GeneratedNames
      PROVE  /\ generated'[n] \in RoutingRow /\ generated'[n].there = generated[n].there
             /\ generated'[n].canonical = generated[n].canonical
             /\ generated'[n].enabled = (generated[n].there /\ n \in ActiveNames(call.chosen))
  <2>1. generated'[n] = [generated[n] EXCEPT !.enabled = generated[n].there /\ n \in ActiveNames(call.chosen)]
    BY DEF ApplyScenarios
  <2>2. generated[n] \in RoutingRow
    BY CallFacts
  <2> HIDE DEF call
  <2> QED BY <2>1, <2>2 DEF RoutingRow
<1>3. StoreOK'
  <2>1. generated' = [n \in GeneratedNames |-> generated'[n]]
    BY DEF ApplyScenarios
  <2> QED BY <1>1, <1>2, <2>1, CallFacts DEF StoreOK
<1>4. PICK r \in RoutingCall : r = record /\ r.at = "rows" /\ r.alone = call.alone
  <2>1. {} \in SUBSET Range(ScenarioIds)
    OBVIOUS
  <2>2. record \in RoutingCall /\ record.at = "rows" /\ record.alone = call.alone
    <3> HIDE DEF call
    <3> QED BY <1>1, <2>1 DEF RoutingCall, RoutingSteps
  <2> HIDE DEF record
  <2> QED BY <2>2
<1> HIDE DEF record
<1>5. ASSUME call.alone PROVE ComesAlong(r)'
  <2>1. call.chosen = ChosenScenarios /\ \A n \in GeneratedNames : generated[n].there /\ generated[n].canonical
    BY <1>1, <1>5, CallFacts DEF ComesAlong, AllInForm
  <2>2. ChosenScenarios' = ChosenScenarios
    BY <1>1 DEF ChosenScenarios
  <2>3. \A n \in GeneratedNames : generated'[n].there /\ generated'[n].canonical
    BY <1>2, <2>1
  <2>4. ASSUME NEW n \in GeneratedNames PROVE generated'[n].enabled = (n \in ActiveNames(ChosenScenarios)')
    <3>1. ActiveNames(ChosenScenarios)' = ActiveNames(ChosenScenarios)
      BY <2>2 DEF ActiveNames
    <3> QED BY <1>2, <2>1, <3>1
  <2> QED BY <1>4, <2>3, <2>4 DEF ComesAlong, AllInForm, SwitchedAsChosen
<1> QED BY <1>1, <1>3, <1>4, <1>5, RoutingMoves

LEMMA ReadGroupRowsKeeps == ASSUME RoutingInv, NEW c \in RoutingCalls, ReadGroupRows(c) PROVE RoutingInv'
<1> DEFINE call == routingCalls[c]
           view == [n \in Shown |-> [generated[n] EXCEPT !.list = <<>>]]
           record == [call EXCEPT !.at = "outlet", !.backed = nodeGroups, !.rows = view]
<1>1. call \in RoutingCall /\ call.at = "rows" /\ Proceed(c, record) /\ UNCHANGED routingStore
  BY CallFacts DEF ReadGroupRows, Shown
<1>2. view \in Views
  <2>1. ASSUME NEW n \in Shown PROVE [generated[n] EXCEPT !.list = <<>>] \in RoutingRow
    <3>1. generated[n] \in RoutingRow
      BY CallFacts DEF Shown
    <3>2. <<>> \in Seq(GeneratedNames \cup NodeGroupIds)
      OBVIOUS
    <3> QED BY <3>1, <3>2 DEF RoutingRow
  <2>2. view \in [Shown -> RoutingRow] /\ Shown \in SUBSET GeneratedNames
    BY <2>1 DEF Shown
  <2> HIDE DEF view
  <2> QED BY <2>2 DEF Views
<1>3. record \in RoutingCall /\ record.at = "outlet" /\ record.backed = nodeGroups /\ record.rows = view /\ record.alone = call.alone
  <2> HIDE DEF view
  <2> QED BY <1>1, <1>2, CallFacts DEF RoutingCall, RoutingSteps
<1> HIDE DEF record
<1>4. call.alone => ComesAlong(record)
  BY <1>1, <1>3, CallFacts DEF ComesAlong
<1> QED BY <1>1, <1>3, <1>4, RoutingReads

LEMMA ReadOutletKeeps == ASSUME RoutingInv, NEW c \in RoutingCalls, ReadOutlet(c) PROVE RoutingInv'
<1> DEFINE call == routingCalls[c]
           record == [call EXCEPT !.at = "keys", !.outlet = setting.outlet]
<1>1. call \in RoutingCall /\ call.at = "outlet" /\ Proceed(c, record) /\ UNCHANGED routingStore
  BY CallFacts DEF ReadOutlet
<1>2. /\ record \in RoutingCall /\ record.at = "keys" /\ record.outlet = setting.outlet /\ record.alone = call.alone
      /\ record.backed = call.backed /\ record.rows = call.rows
  BY <1>1, CallFacts DEF RoutingCall, RoutingSteps, Settings
<1> HIDE DEF record
<1>3. call.alone => ComesAlong(record)
  BY <1>1, <1>2, CallFacts DEF ComesAlong
<1> QED BY <1>1, <1>2, <1>3, RoutingReads

LEMMA ReadKeysKeeps == ASSUME RoutingInv, NEW c \in RoutingCalls, ReadKeys(c) PROVE RoutingInv'
<1> DEFINE call == routingCalls[c]
           record == [call EXCEPT !.at = "write", !.keys = nodeGroups]
<1>1. call \in RoutingCall /\ call.at = "keys" /\ Proceed(c, record) /\ UNCHANGED routingStore
  BY CallFacts DEF ReadKeys
<1>2. /\ record \in RoutingCall /\ record.at = "write" /\ record.keys = nodeGroups /\ record.alone = call.alone
      /\ record.backed = call.backed /\ record.rows = call.rows /\ record.outlet = call.outlet
  BY <1>1, CallFacts DEF RoutingCall, RoutingSteps
<1> HIDE DEF record
<1>3. call.alone => ComesAlong(record)
  BY <1>1, <1>2, CallFacts DEF ComesAlong
<1> QED BY <1>1, <1>2, <1>3, RoutingReads

LEMMA CutOffRoutingKeeps == ASSUME RoutingInv, NEW c \in RoutingCalls, CutOffRouting(c) PROVE RoutingInv'
<1>1. routingCalls[c].at # "idle" /\ Proceed(c, IdleCall) /\ UNCHANGED routingStore
  BY DEF CutOffRouting, InRouting
<1> QED BY <1>1, IdleRoutingIsCall, RoutingReads

(* resolveOutletPreferenceId: only outlets, and some outlet if one answers *)
(* to the preference.                                                      *)
LEMMA PreferredAre ==
  ASSUME NEW outlets \in SUBSET Rows, NEW outlet \in Outlet, NEW keys
  PROVE  LET first == Preferred(outlet, outlets, keys)
             bearers == {g \in outlets : g \in DOMAIN keys /\ keys[g] = outlet.of}
         IN  /\ first \subseteq outlets
             /\ outlet.by = "none" => first = {}
             /\ outlet.by = "group" => first = outlets \cap {outlet.of}
             /\ outlet.by = "auto" => first \subseteq bearers /\ (bearers # {} => first # {})
<1> DEFINE first == Preferred(outlet, outlets, keys)
           bearers == {g \in outlets \cap DOMAIN keys : keys[g] = outlet.of}
<1>1. outlet.by \in {"none", "group", "auto"}
  BY DEF Outlet
<1>2. outlet.by = "none" => first = {}
  BY DEF Preferred
<1>3. outlet.by = "group" => first = outlets \cap {outlet.of}
  BY DEF Preferred
<1>4. outlet.by = "auto" => first = {g \in bearers : \A h \in bearers : PlaceOf(g) <= PlaceOf(h)}
  BY DEF Preferred
<1> HIDE DEF first
<1>5. ASSUME bearers # {} PROVE \E g \in bearers : \A h \in bearers : PlaceOf(g) <= PlaceOf(h)
  <2>1. PICK N \in Nat : \A g \in Rows : PlaceOf(g) \in 1..N
    BY Places
  <2> DEFINE S == {PlaceOf(g) : g \in bearers}
  <2>2. S \in SUBSET (1..N) /\ S # {}
    BY <1>5, <2>1
  <2>3. PICK x \in S : \A y \in S : x <= y
    <3> HIDE DEF S
    <3> QED BY <2>1, <2>2, FirstIsIn
  <2> QED BY <2>3
<1>6. bearers = {g \in outlets : g \in DOMAIN keys /\ keys[g] = outlet.of}
  OBVIOUS
<1> HIDE DEF bearers
<1>7. first \subseteq outlets
  <2>1. bearers \subseteq outlets
    BY DEF bearers
  <2> QED BY <1>1, <1>2, <1>3, <1>4, <2>1
<1> QED BY <1>2, <1>3, <1>4, <1>5, <1>6, <1>7 DEF first

LEMMA WhatIsShown ==
  ASSUME NEW call \in RoutingCall, NEW keys, NEW n \in GeneratedNames
  PROVE  LET outlets == OpenOutlets(call.rows, call.backed) \ {n} IN
         /\ OpenOutlets(call.rows, call.backed) \subseteq Rows
         /\ Preferred(call.outlet, outlets, keys) \subseteq outlets
<1>1. call.rows \in Views /\ call.backed \in KeyMaps /\ call.outlet \in Outlet
  BY DEF RoutingCall
<1>2. DOMAIN call.rows \subseteq GeneratedNames /\ DOMAIN call.backed \subseteq NodeGroupIds
  BY <1>1 DEF Views, KeyMaps
<1>3. OpenOutlets(call.rows, call.backed) \subseteq Rows
  BY <1>2 DEF OpenOutlets, Rows
<1> QED BY <1>1, <1>3, PreferredAre

(* What is left when a sync has run alone.                                 *)
LEMMA SettlesAsSet ==
  ASSUME RoutingInv, NEW c \in RoutingCalls, WriteLists(c), routingCalls[c].alone,
         setting' = setting, nodeGroups' = nodeGroups, NEW n \in GeneratedNames
  PROVE  LET row == generated'[n]
             wanted == n \in Foundation \/ \E s \in (IF setting.readable THEN Range(setting.scenarios) ELSE DefaultScenarios) :
                                               s \in DOMAIN GroupsOf /\ n \in GroupsOf[s]
             open == {"PROXY", "DIRECT", "AutoSelect"} \cup DOMAIN nodeGroups
             answers == {g \in open : \/ setting.outlet = [by |-> "group", of |-> g]
                                      \/ setting.outlet.by = "auto" /\ g \in DOMAIN nodeGroups /\ nodeGroups[g] = setting.outlet.of}
         IN  /\ row.there /\ row.canonical /\ (row.enabled <=> wanted)
             /\ n \in {"PROXY", "AI", "Microsoft"} /\ row.enabled =>
                  /\ Range(row.list) = open \ {n} /\ IsInjective(row.list)
                  /\ n = "AI" /\ answers # {} => row.list[1] \in answers
<1> DEFINE call == routingCalls[c]
           row == generated'[n]
           chosen == IF setting.readable THEN Range(setting.scenarios) ELSE DefaultScenarios
           wanted == n \in Foundation \/ \E s \in chosen : s \in DOMAIN GroupsOf /\ n \in GroupsOf[s]
           open == {"PROXY", "DIRECT", "AutoSelect"} \cup DOMAIN nodeGroups
           answers == {g \in open : \/ setting.outlet = [by |-> "group", of |-> g]
                                    \/ setting.outlet.by = "auto" /\ g \in DOMAIN nodeGroups /\ nodeGroups[g] = setting.outlet.of}
           list == RoutingMembers(n, call.rows, call.backed, call.outlet, call.keys)
<1>1. call \in RoutingCall /\ call.at = "write" /\ ComesAlong(call)
  BY CallFacts DEF WriteLists
<1>2. /\ \A m \in GeneratedNames : generated[m].there /\ generated[m].canonical
      /\ \A m \in GeneratedNames : generated[m].enabled = (m \in ActiveNames(ChosenScenarios))
      /\ call.backed = nodeGroups /\ call.outlet = setting.outlet /\ call.keys = nodeGroups
      /\ call.rows = [m \in Shown |-> [generated[m] EXCEPT !.list = <<>>]]
  BY <1>1 DEF ComesAlong, AllInForm, SwitchedAsChosen
<1>3. row = IF n \in RoutingNames(call.rows) THEN [generated[n] EXCEPT !.list = list] ELSE generated[n]
  BY <1>2 DEF WriteLists
<1>4. generated[n] \in RoutingRow /\ setting.outlet \in Outlet /\ nodeGroups \in KeyMaps
  BY CallFacts DEF Settings
<1>5. \A m \in Shown : m \in GeneratedNames /\ call.rows[m].canonical
  <2> SUFFICES ASSUME NEW m \in Shown PROVE m \in GeneratedNames /\ call.rows[m].canonical
    OBVIOUS
  <2>1. m \in GeneratedNames /\ generated[m] \in RoutingRow /\ generated[m].canonical
    BY <1>2, CallFacts DEF Shown
  <2>2. call.rows[m] = [generated[m] EXCEPT !.list = <<>>]
    BY <1>2
  <2> HIDE DEF call
  <2> QED BY <2>1, <2>2 DEF RoutingRow
<1>6. DOMAIN call.rows = Shown
  BY <1>2
<1>7. \A m \in Shown : HasNodes(call.rows[m], m) <=> m = "AutoSelect"
  BY <1>5 DEF HasNodes
<1>8. Shown = GeneratedNames \cap ActiveNames(ChosenScenarios) /\ Foundation \subseteq Shown
  BY <1>2, GeneratedAre DEF Shown, ActiveNames, Foundation
<1>9. OpenOutlets(call.rows, call.backed) = open
  BY <1>2, <1>6, <1>7, <1>8 DEF OpenOutlets, Foundation
<1>10. /\ list \in Seq(Rows) /\ Range(list) = open \ {n} /\ IsInjective(list)
       /\ n = "AI" /\ Preferred(setting.outlet, open \ {n}, nodeGroups) # {} => list[1] \in Preferred(setting.outlet, open \ {n}, nodeGroups)
  <2> DEFINE shown == OpenOutlets(call.rows, call.backed)
             first == Preferred(call.outlet, shown \ {n}, call.keys)
  <2>1. shown \subseteq Rows /\ first \subseteq shown \ {n}
    BY <1>1, WhatIsShown
  <2>2. /\ list \in Seq(Rows) /\ Range(list) = shown \ {n} /\ IsInjective(list)
        /\ n = "AI" /\ first # {} => list[1] \in first
    BY <2>1, ListsTheOutlets
  <2> HIDE DEF list
  <2> QED BY <1>2, <1>9, <2>2
<1> HIDE DEF list
<1>11. wanted <=> n \in ActiveNames(ChosenScenarios)
  <2>1. DOMAIN GroupsOf = Range(ScenarioIds)
    BY DEF GroupsOf
  <2>2. ChosenScenarios = chosen \cap Range(ScenarioIds)
    BY GeneratedAre DEF ChosenScenarios, DefaultScenarios
  <2> HIDE DEF chosen
  <2> QED BY <2>1, <2>2 DEF ActiveNames
<1> HIDE DEF wanted
<1>12. row.there /\ row.canonical /\ (row.enabled <=> wanted)
  BY <1>2, <1>3, <1>4, <1>11 DEF RoutingRow
<1>13. ASSUME n \in {"PROXY", "AI", "Microsoft"}, row.enabled PROVE row.list = list
  <2>1. n \in Shown
    BY <1>8, <1>11, <1>12, <1>13
  <2>2. n \in RoutingNames(call.rows)
    BY <1>6, <1>7, <1>13, <2>1 DEF RoutingNames
  <2> QED BY <1>3, <1>4, <2>2 DEF RoutingRow
<1>14. ASSUME n = "AI", answers # {}
       PROVE  /\ Preferred(setting.outlet, open \ {n}, nodeGroups) # {}
              /\ Preferred(setting.outlet, open \ {n}, nodeGroups) \subseteq answers
  <2> DEFINE outlets == open \ {n}
             first == Preferred(setting.outlet, outlets, nodeGroups)
             bearers == {g \in outlets : g \in DOMAIN nodeGroups /\ nodeGroups[g] = setting.outlet.of}
  <2>1. "AI" \notin open /\ outlets = open
    <3>1. DOMAIN nodeGroups \subseteq NodeGroupIds
      BY <1>4 DEF KeyMaps
    <3> QED BY <1>14, <3>1, GeneratedAre, RoutingAssumption
  <2>2. open \subseteq Rows
    BY <1>1, <1>9, WhatIsShown
  <2>3. /\ first \subseteq outlets
        /\ setting.outlet.by = "none" => first = {}
        /\ setting.outlet.by = "group" => first = outlets \cap {setting.outlet.of}
        /\ setting.outlet.by = "auto" => first \subseteq bearers /\ (bearers # {} => first # {})
    BY <1>4, <2>1, <2>2, PreferredAre
  <2> HIDE DEF first
  <2>4. CASE setting.outlet.by = "none"
    <3>1. answers = {}
      BY <2>4
    <3> QED BY <1>14, <3>1
  <2>5. CASE setting.outlet.by = "group"
    <3>1. setting.outlet = [by |-> "group", of |-> setting.outlet.of]
      BY <1>4, <2>5 DEF Outlet
    <3>2. \A g \in answers : g \in open /\ g = setting.outlet.of
      BY <2>5
    <3>3. setting.outlet.of \in open => setting.outlet.of \in answers
      BY <3>1
    <3> HIDE DEF answers, open
    <3> QED BY <1>14, <2>1, <2>3, <2>5, <3>2, <3>3 DEF first
  <2>6. CASE setting.outlet.by = "auto"
    <3>1. answers = bearers
      BY <2>1, <2>6
    <3> HIDE DEF answers, bearers
    <3> QED BY <1>14, <2>3, <2>6, <3>1 DEF first
  <2> QED BY <1>4, <2>4, <2>5, <2>6 DEF Outlet
<1> HIDE DEF row, answers, open
<1>15. n \in {"PROXY", "AI", "Microsoft"} /\ row.enabled =>
         /\ Range(row.list) = open \ {n} /\ IsInjective(row.list)
         /\ n = "AI" /\ answers # {} => row.list[1] \in answers
  BY <1>10, <1>13, <1>14
<1> QED BY <1>12, <1>15 DEF row, wanted, answers, open, chosen

LEMMA WriteListsKeeps == ASSUME RoutingInv, NEW c \in RoutingCalls, WriteLists(c) PROVE RoutingInv'
<1> DEFINE call == routingCalls[c]
           list(n) == RoutingMembers(n, call.rows, call.backed, call.outlet, call.keys)
<1>1. /\ routingCalls' = [routingCalls EXCEPT ![c] = IdleCall] /\ settled' = call.alone
      /\ setting' = setting /\ nodeGroups' = nodeGroups
      /\ generated' = [n \in GeneratedNames |-> IF n \in RoutingNames(call.rows) /\ generated[n].there
             THEN [generated[n] EXCEPT !.list = list(n)] ELSE generated[n]]
  BY DEF WriteLists
<1>2. call \in RoutingCall
  BY CallFacts
<1>3. ASSUME NEW n \in GeneratedNames PROVE list(n) \in Seq(GeneratedNames \cup NodeGroupIds)
  BY <1>2, WhatIsShown, ListsTheOutlets DEF Rows
<1> HIDE DEF list
<1>4. StoreOK'
  <2>1. ASSUME NEW n \in GeneratedNames PROVE [generated[n] EXCEPT !.list = list(n)] \in RoutingRow
    <3>1. generated[n] \in RoutingRow
      BY CallFacts
    <3> QED BY <1>3, <3>1 DEF RoutingRow
  <2>2. generated' \in [GeneratedNames -> RoutingRow]
    BY <1>1, <2>1, CallFacts
  <2> QED BY <1>1, <2>2, CallFacts DEF StoreOK
<1>5. RoutingCallsOK'
  BY <1>1, IdleRoutingIsCall DEF RoutingInv, RoutingCallsOK
<1>6. routingCalls'[c] = IdleCall /\ \A d \in RoutingCalls : d # c => routingCalls'[d] = routingCalls[d]
  BY <1>1 DEF RoutingInv, RoutingCallsOK
<1>7. \A d \in RoutingCalls : ~routingCalls'[d].alone
  <2>1. call.at = "write"
    BY DEF WriteLists
  <2>2. \A d \in RoutingCalls : d # c => ~routingCalls[d].alone
    BY <2>1 DEF RoutingInv, RoutingIsAlone
  <2> QED BY <1>6, <2>2, IdleRoutingIsCall
<1>8. RoutingFollowsSettings'
  <2>1. CASE ~call.alone
    BY <1>1, <2>1 DEF RoutingFollowsSettings
  <2>2. CASE call.alone
    BY <1>1, <2>2, SettlesAsSet DEF RoutingFollowsSettings
  <2> QED BY <2>1, <2>2
<1>9. settled' \in BOOLEAN
  BY <1>1, <1>2 DEF RoutingCall
<1> QED BY <1>4, <1>5, <1>7, <1>8, <1>9 DEF RoutingInv, RoutingIsAlone, AloneComesAlong

LEMMA OthersWriteKeeps == ASSUME RoutingInv, OthersWrite PROVE RoutingInv'
<1>1. routingCalls' = NobodyAlone /\ settled' = FALSE
  BY DEF OthersWrite
<1>2. RoutingCallsOK' /\ \A c \in RoutingCalls : ~routingCalls'[c].alone
  BY <1>1, NobodyAloneIs DEF RoutingInv, RoutingCallsOK
<1>3. setting \in Settings /\ generated \in [GeneratedNames -> RoutingRow] /\ nodeGroups \in KeyMaps
  BY DEF RoutingInv, StoreOK
<1>4. CASE NodeGroupsMove
  <2>1. setting' = setting /\ generated' = generated
    BY <1>4 DEF NodeGroupsMove
  <2>2. PICK D \in SUBSET NodeGroupIds : nodeGroups \in [D -> {"us", "own"}]
    BY <1>3 DEF KeyMaps
  <2>3. nodeGroups' \in KeyMaps
    <3>1. ASSUME NEW g \in NodeGroupIds, NEW key \in {"us", "own"},
                 nodeGroups' = [h \in DOMAIN nodeGroups \cup {g} |-> IF h = g THEN key ELSE nodeGroups[h]]
          PROVE  nodeGroups' \in KeyMaps
      <4>1. nodeGroups' \in [D \cup {g} -> {"us", "own"}] /\ D \cup {g} \in SUBSET NodeGroupIds
        BY <2>2, <3>1
      <4> QED BY <4>1 DEF KeyMaps
    <3>2. ASSUME NEW g \in NodeGroupIds, nodeGroups' = [h \in DOMAIN nodeGroups \ {g} |-> nodeGroups[h]]
          PROVE  nodeGroups' \in KeyMaps
      <4>1. nodeGroups' \in [D \ {g} -> {"us", "own"}] /\ D \ {g} \in SUBSET NodeGroupIds
        BY <2>2, <3>2
      <4> QED BY <4>1 DEF KeyMaps
    <3>3. DOMAIN nodeGroups \subseteq NodeGroupIds
      BY <2>2
    <3> QED BY <1>4, <3>1, <3>2, <3>3 DEF NodeGroupsMove
  <2>4. StoreOK'
    BY <1>3, <2>1, <2>3 DEF StoreOK
  <2> QED BY <1>1, <1>2, <2>4, NobodyIsAlone
<1>5. CASE RestoreBackup
  <2>1. PICK n \in {"Microsoft", "AutoSelect"}, there \in BOOLEAN, readable \in BOOLEAN :
          /\ generated' = [m \in GeneratedNames |-> IF m = n THEN [NoRow EXCEPT !.there = there]
                            ELSE [there |-> TRUE, enabled |-> m # "AI", canonical |-> TRUE, list |-> <<"DIRECT">>]]
          /\ setting' = [setting EXCEPT !.readable = readable]
    BY <1>5 DEF RestoreBackup
  <2>2. nodeGroups' = nodeGroups
    BY <1>5 DEF RestoreBackup
  <2>3. <<"DIRECT">> \in Seq(GeneratedNames \cup NodeGroupIds) /\ <<>> \in Seq(GeneratedNames \cup NodeGroupIds)
    BY GeneratedAre
  <2>4. [NoRow EXCEPT !.there = there] \in RoutingRow
    BY <2>3 DEF NoRow, RoutingRow
  <2>5. \A m \in GeneratedNames : [there |-> TRUE, enabled |-> m # "AI", canonical |-> TRUE, list |-> <<"DIRECT">>] \in RoutingRow
    BY <2>3 DEF RoutingRow
  <2>6. generated' \in [GeneratedNames -> RoutingRow]
    BY <2>1, <2>4, <2>5
  <2>7. setting' \in Settings
    BY <1>3, <2>1 DEF Settings
  <2>8. StoreOK'
    BY <1>3, <2>2, <2>6, <2>7 DEF StoreOK
  <2> QED BY <1>1, <1>2, <2>8, NobodyIsAlone
<1> QED BY <1>4, <1>5 DEF OthersWrite

LEMMA RoutingBegins == RoutingInit => RoutingInv
<1> SUFFICES ASSUME RoutingInit PROVE RoutingInv
  OBVIOUS
<1>1. setting \in Settings
  <2>1. <<"ai-development">> \in Seq(Range(ScenarioIds))
    BY GeneratedAre
  <2> QED BY <2>1 DEF RoutingInit, Settings, NoOutlet, Outlet
<1>2. generated \in [GeneratedNames -> RoutingRow]
  <2>1. <<>> \in Seq(GeneratedNames \cup NodeGroupIds)
    OBVIOUS
  <2>2. NoRow \in RoutingRow
    BY <2>1 DEF NoRow, RoutingRow
  <2> QED BY <2>2 DEF RoutingInit
<1>3. nodeGroups \in KeyMaps
  <2>1. nodeGroups \in [{} -> {"us", "own"}] /\ {} \in SUBSET NodeGroupIds
    BY DEF RoutingInit
  <2> QED BY <2>1 DEF KeyMaps
<1>4. routingCalls \in [RoutingCalls -> RoutingCall] /\ \A c \in RoutingCalls : ~routingCalls[c].alone
  BY IdleRoutingIsCall DEF RoutingInit
<1>5. settled = FALSE
  BY DEF RoutingInit
<1> QED BY <1>1, <1>2, <1>3, <1>4, <1>5
     DEF RoutingInv, StoreOK, RoutingCallsOK, RoutingIsAlone, AloneComesAlong, RoutingFollowsSettings

LEMMA RoutingKeeps == RoutingInv /\ [RoutingNext]_routingVars => RoutingInv'
<1> SUFFICES ASSUME RoutingInv, [RoutingNext]_routingVars PROVE RoutingInv'
  OBVIOUS
<1>1. CASE OthersWrite
  BY <1>1, OthersWriteKeeps
<1>2. ASSUME NEW c \in RoutingCalls, PutSettings(c) PROVE RoutingInv'
  BY <1>2, PutSettingsKeeps
<1>3. ASSUME NEW c \in RoutingCalls, StartRoutingSync(c) PROVE RoutingInv'
  BY <1>3, StartRoutingSyncKeeps
<1>4. ASSUME NEW c \in RoutingCalls, InsertGenerated(c) PROVE RoutingInv'
  BY <1>4, InsertGeneratedKeeps
<1>5. ASSUME NEW c \in RoutingCalls, MakeCanonical(c) PROVE RoutingInv'
  BY <1>5, MakeCanonicalKeeps
<1>6. ASSUME NEW c \in RoutingCalls, ReadScenarios(c) PROVE RoutingInv'
  BY <1>6, ReadScenariosKeeps
<1>7. ASSUME NEW c \in RoutingCalls, ApplyScenarios(c) PROVE RoutingInv'
  BY <1>7, ApplyScenariosKeeps
<1>8. ASSUME NEW c \in RoutingCalls, ReadGroupRows(c) PROVE RoutingInv'
  BY <1>8, ReadGroupRowsKeeps
<1>9. ASSUME NEW c \in RoutingCalls, ReadOutlet(c) PROVE RoutingInv'
  BY <1>9, ReadOutletKeeps
<1>10. ASSUME NEW c \in RoutingCalls, ReadKeys(c) \/ WriteLists(c) PROVE RoutingInv'
  BY <1>10, ReadKeysKeeps, WriteListsKeeps
<1>11. ASSUME NEW c \in RoutingCalls, CutOffRouting(c) PROVE RoutingInv'
  BY <1>11, CutOffRoutingKeeps
<1>12. CASE UNCHANGED routingVars
  BY <1>12 DEF routingVars, RoutingInv, StoreOK, RoutingCallsOK, RoutingIsAlone, AloneComesAlong, ComesAlong,
       AllThere, AllInForm, SwitchedAsChosen, Shown, ChosenScenarios, RoutingFollowsSettings
<1> QED BY <1>1, <1>2, <1>3, <1>4, <1>5, <1>6, <1>7, <1>8, <1>9, <1>10, <1>11, <1>12 DEF RoutingNext

LEMMA RoutingAlways == RoutingSpec => []RoutingInv
<1>1. RoutingInit => RoutingInv
  BY RoutingBegins
<1>2. RoutingInv /\ [RoutingNext]_routingVars => RoutingInv'
  BY RoutingKeeps
<1> QED BY <1>1, <1>2, PTL DEF RoutingSpec

(* However settings, restores, node groups that come and go and syncs that *)
(* are cut off follow one another: what a sync that ran alone leaves is    *)
(* what the settings ask of the generated groups, with every open outlet   *)
(* once in each list and the preferred one first.                          *)
THEOREM RoutingFollowsSettingsHolds == RoutingSpec => []RoutingFollowsSettings
<1>1. RoutingInv => RoutingFollowsSettings
  BY DEF RoutingInv
<1> QED BY <1>1, RoutingAlways, PTL

(* The settings, the generated groups and the calls keep their shape.      *)
THEOREM RoutingTypesHold == RoutingSpec => []RoutingTypes
<1>1. RoutingInv => RoutingTypes
  <2> SUFFICES ASSUME RoutingInv PROVE RoutingTypes
    OBVIOUS
  <2>1. setting.outlet \in Outlet /\ setting.readable \in BOOLEAN
    BY DEF RoutingInv, StoreOK, Settings
  <2>2. \A n \in GeneratedNames : generated[n] \in RoutingRow
    BY DEF RoutingInv, StoreOK
  <2>3. DOMAIN nodeGroups \subseteq NodeGroupIds /\ \A g \in DOMAIN nodeGroups : nodeGroups[g] \in {"us", "own"}
    BY DEF RoutingInv, StoreOK, KeyMaps
  <2>4. ASSUME NEW c \in RoutingCalls
        PROVE  /\ routingCalls[c].outlet \in Outlet /\ DOMAIN routingCalls[c].rows \subseteq GeneratedNames
               /\ routingCalls[c].chosen \subseteq Range(ScenarioIds)
    <3>1. routingCalls[c] \in RoutingCall
      BY CallFacts
    <3>2. routingCalls[c].rows \in Views /\ routingCalls[c].outlet \in Outlet /\ routingCalls[c].chosen \in SUBSET Range(ScenarioIds)
      BY <3>1 DEF RoutingCall
    <3> QED BY <3>2 DEF Views
  <2> QED BY <2>1, <2>2, <2>3, <2>4 DEF RoutingTypes, RoutingInv
<1> QED BY <1>1, RoutingAlways, PTL
=============================================================================
