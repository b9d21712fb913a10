---------------------------- MODULE ManagedCaches ----------------------------
(***************************************************************************)
(* What the scheduled trigger of index.ts keeps in KV: the catalogs of     *)
(* rule sets (services/rule-set-catalogs.ts), which it also hands to each  *)
(* workspace, and the list of real-IP domains                              *)
(* (services/managed-dns-resources.ts).  Triggers may overlap, any fetch   *)
(* or call to KV may fail, and a deployment may change which catalogs the  *)
(* program knows.                                                          *)
(***************************************************************************)
EXTENDS Naturals, Sequences, FiniteSets, Functions

CONSTANTS
    Bundled,       \* catalogs of each version of the program, in their order: a sequence of sequences
    SourcesOf,     \* the directories of a catalog, in their order: [name, default, native]
    Ticks,         \* triggers and requests that may run together
    CacheInterval, \* how long a copy is fresh, for both copies
    MaxCacheTime   \* bound on the clock

(* Every version has a list of catalogs, and there is a first version.     *)
RangeOfSeq(s) == {s[i] : i \in DOMAIN s}
Source == [name : {s.name : s \in RangeOfSeq(SourcesOf)}, default : BOOLEAN, native : BOOLEAN]

ASSUME CacheAssumption ==
    /\ Bundled \in Seq(RangeOfSeq(Bundled)) /\ Bundled # <<>>
    /\ \A v \in DOMAIN Bundled : Bundled[v] \in Seq(RangeOfSeq(Bundled[v]))
    /\ SourcesOf \in Seq(Source)
    /\ MaxCacheTime \in Nat

VARIABLES
    running,    \* version of the program
    cacheClock, \* Date.now()
    catalogKv,  \* the cached snapshot
    dnsKv,      \* the cached domains
    ticking     \* where each trigger is

cacheVars == <<running, cacheClock, catalogKv, dnsKv, ticking>>

Unknown == [kind |-> "none", catalogs |-> <<>>, at |-> 0]
Idling == [at |-> "idle", version |-> 1, scanned |-> <<>>, browse |-> FALSE]

CacheInit ==
    /\ running = 1 /\ cacheClock = 0
    /\ catalogKv = Unknown /\ dnsKv = Unknown
    /\ ticking = [t \in Ticks |-> Idling]

-----------------------------------------------------------------------------
(* getRuleSetCatalogSnapshot: the cached copy if it has the catalogs this  *)
(* version knows, the bundled one otherwise.                               *)
HasCurrentCatalogs(snapshot) ==
    {snapshot.catalogs[i].id : i \in DOMAIN snapshot.catalogs} = RangeOfSeq(Bundled[running])

CurrentSlipAny == catalogKv.kind = "snapshot"
Current == catalogKv.kind = "snapshot" /\ HasCurrentCatalogs(catalogKv)

ServedCatalogs ==
    IF Current THEN {catalogKv.catalogs[i].id : i \in DOMAIN catalogKv.catalogs}
    ELSE RangeOfSeq(Bundled[running])

Fresh(copy) == cacheClock - copy.at < CacheInterval

(* The sources of an item, by their place in the order of the directories: *)
(* one that is left out leaves its place empty, an override comes last.    *)
(* ensureDefaultCatalogSource: the first source becomes the default when   *)
(* none is; a source that is neither the default nor native to a client    *)
(* goes.                                                                   *)
WithDefaultSlipFirst(sources) ==
    Restrict(sources, {i \in DOMAIN sources : sources[i].default \/ sources[i].native})

Marked(sources) ==
    LET none == \A i \in DOMAIN sources : ~sources[i].default
        first(i) == \A j \in DOMAIN sources : i <= j
    IN  [i \in DOMAIN sources |-> [sources[i] EXCEPT !.default = @ \/ (none /\ first(i))]]
WithDefault(sources) ==
    LET marked == Marked(sources)
    IN  Restrict(marked, {i \in DOMAIN marked : marked[i].default \/ marked[i].native})

(* appendCatalogSource: a default source of an override is the only one.   *)
WithOverride(sources, override) ==
    LET place == Len(SourcesOf) + 1
    IN  [i \in DOMAIN sources \cup {place} |->
            IF i = place THEN override ELSE [sources[i] EXCEPT !.default = FALSE]]

OverrideSource == [name |-> "override", default |-> TRUE, native |-> FALSE]

(* What scanCatalog can make of a catalog: the directories that list the   *)
(* item, at least one unless an override brings the item along.            *)
Scans(id) ==
    LET listed(names) == Restrict(SourcesOf, {i \in DOMAIN SourcesOf : SourcesOf[i].name \in names})
        all == {s.name : s \in RangeOfSeq(SourcesOf)}
    IN {[id |-> id, item |-> WithDefault(listed(names))] : names \in (SUBSET all) \ {{}}}
       \cup {[id |-> id, item |-> WithDefault(WithOverride(listed(names), OverrideSource))] : names \in SUBSET all}

-----------------------------------------------------------------------------
EndTick(t) == ticking' = [ticking EXCEPT ![t] = Idling]
At(t, step) ==
    IF ticking[t].browse /\ step \in {"give", "dns"} THEN EndTick(t)
    ELSE ticking' = [ticking EXCEPT ![t].at = step, ![t].scanned = <<>>]

(* A trigger, in which refreshDueSources comes first, and what it throws   *)
(* ends the trigger; or GET /rule-set-catalogs/quixotic, which refreshes   *)
(* the catalogs when they are due too.                                     *)
StartTick(t) ==
    /\ ticking[t].at = "idle"
    /\ \/ ticking' = [ticking EXCEPT ![t].at = "sources", ![t].version = running]
       \/ ticking' = [ticking EXCEPT ![t].at = "catalogs", ![t].version = running, ![t].browse = TRUE]
    /\ UNCHANGED <<running, cacheClock, catalogKv, dnsKv>>

RefreshSourcesFirst(t) ==
    /\ ticking[t].at = "sources"
    /\ At(t, "catalogs") \/ EndTick(t)
    /\ UNCHANGED <<running, cacheClock, catalogKv, dnsKv>>

(* refreshRuleSetCatalogSnapshotIfDue: a copy that cannot be read, or that *)
(* is not this version's, is refreshed at once.  A trigger runs on in the  *)
(* version it started with.                                                *)
CheckCatalogs(t) ==
    /\ ticking[t].at = "catalogs"
    /\ \/ At(t, IF Current /\ Fresh(catalogKv) THEN "dns" ELSE "scan")
       \/ At(t, "scan")
    /\ UNCHANGED <<running, cacheClock, catalogKv, dnsKv>>

ScanCatalog(t) ==
    /\ ticking[t].at = "scan" /\ Len(ticking[t].scanned) < Len(Bundled[ticking[t].version])
    /\ \/ \E scan \in Scans(Bundled[ticking[t].version][Len(ticking[t].scanned) + 1]) :
            ticking' = [ticking EXCEPT ![t].scanned = Append(@, scan)]
       \/ At(t, "dns")
    /\ UNCHANGED <<running, cacheClock, catalogKv, dnsKv>>

(* One put, once every catalog was scanned. *)
PutCatalogs(t) ==
    /\ ticking[t].at = "scan" /\ Len(ticking[t].scanned) = Len(Bundled[ticking[t].version])
    /\ \/ /\ catalogKv' = [kind |-> "snapshot", catalogs |-> ticking[t].scanned, at |-> cacheClock]
          /\ At(t, "give")
       \/ At(t, "dns") /\ UNCHANGED catalogKv
    /\ UNCHANGED <<running, cacheClock, dnsKv>>

(* Each workspace gets the snapshot, in PresetRuleSets; the first one that  *)
(* fails ends the loop, and the copy in KV is fresh by then.  A request    *)
(* that refreshed the copy gives it to nobody.                             *)
GiveCatalogs(t) ==
    /\ ticking[t].at = "give" /\ At(t, "dns")
    /\ UNCHANGED <<running, cacheClock, catalogKv, dnsKv>>

-----------------------------------------------------------------------------
(* refreshManagedDnsResourcesIfDue, and the refresh, which refuses an      *)
(* empty list or one that is too large; a copy that cannot be read is      *)
(* fetched anew, fresh or not.                                             *)
CheckDomains(t) ==
    /\ ticking[t].at = "dns"
    /\ \/ dnsKv.kind = "snapshot" /\ Fresh(dnsKv) /\ EndTick(t)
       \/ At(t, "fetch")
    /\ UNCHANGED <<running, cacheClock, catalogKv, dnsKv>>

ParsedSlipEmpty(list) == TRUE
Parsed(list) == list # <<>>

FetchDomains(t) ==
    /\ ticking[t].at = "fetch"
    /\ \/ \E list \in {<<>>, <<"upstream">>} :
            dnsKv' = IF Parsed(list) THEN [kind |-> "snapshot", catalogs |-> list, at |-> cacheClock] ELSE dnsKv
       \/ UNCHANGED dnsKv
    /\ EndTick(t) /\ UNCHANGED <<running, cacheClock, catalogKv>>

-----------------------------------------------------------------------------
(* Time passes, a version is deployed, KV loses or garbles a value, and a  *)
(* trigger is cut off.                                                     *)
CacheTimePasses ==
    /\ cacheClock < MaxCacheTime /\ cacheClock' = cacheClock + 1
    /\ UNCHANGED <<running, catalogKv, dnsKv, ticking>>

Deploy ==
    /\ running < Len(Bundled) /\ running' = running + 1
    /\ UNCHANGED <<cacheClock, catalogKv, dnsKv, ticking>>

Garble ==
    /\ catalogKv' = Unknown /\ dnsKv' = Unknown
    /\ UNCHANGED <<running, cacheClock, ticking>>

CutOffTick(t) ==
    /\ ticking[t].at # "idle" /\ EndTick(t)
    /\ UNCHANGED <<running, cacheClock, catalogKv, dnsKv>>

CacheNext ==
    \/ CacheTimePasses \/ Deploy \/ Garble
    \/ \E t \in Ticks : \/ StartTick(t) \/ RefreshSourcesFirst(t) \/ CheckCatalogs(t) \/ ScanCatalog(t)
                        \/ PutCatalogs(t) \/ GiveCatalogs(t) \/ CheckDomains(t) \/ FetchDomains(t)
                        \/ CutOffTick(t)

CacheSpec == CacheInit /\ [][CacheNext]_cacheVars

-----------------------------------------------------------------------------
CacheTypes ==
    /\ running \in DOMAIN Bundled /\ cacheClock \in 0..MaxCacheTime
    /\ {catalogKv.kind, dnsKv.kind} \subseteq {"none", "snapshot"}
    /\ \A t \in Ticks : ticking[t].at \in {"idle", "sources", "catalogs", "scan", "give", "dns", "fetch"}

(* Whatever fails, overlaps, is cut off or is deployed: the catalogs that  *)
(* are served are the ones the running version knows, every item in them   *)
(* has the default source that the presets are made from and no source     *)
(* that nobody would use, and the list of domains is never empty.          *)
ServedCopiesAreUsable ==
    /\ ServedCatalogs = RangeOfSeq(Bundled[running])
    /\ Current => \A i \in DOMAIN catalogKv.catalogs :
         LET item == catalogKv.catalogs[i].item IN
         /\ \E j \in DOMAIN item : item[j].default
         /\ \A j \in DOMAIN item : item[j].default \/ item[j].native
    /\ dnsKv.kind = "snapshot" => dnsKv.catalogs # <<>>
=============================================================================
