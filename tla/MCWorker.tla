------------------------------ MODULE MCWorker ------------------------------
(***************************************************************************)
(* The handlers and services of the worker that share no row with each     *)
(* other in these models, composed so that one of them moves: the one that *)
(* task names, chosen with the initial state.  The others stay as they     *)
(* begin.                                                                  *)
(***************************************************************************)
EXTENDS MCExports, GroupReferenceGraph, RuleList, DefaultProfile, AutoNodeGroups, PresetRuleSets,
        Backup, ManagedCaches, SafeFetch, SourceFollowers, RateLimit,
        RoutingSettings, RuleSetConversion, ImportPlan, ManualNodes,
        ShareLinks, Graphs

CONSTANTS a, b, c

VARIABLE task

Tasks == {"references", "export", "rules", "profile", "node groups", "presets", "backup", "caches",
          "fetch", "linked sets", "rate limit", "settings", "conversion", "import",
          "nodes", "source groups", "links"}

(* Every list of up to three groups, with repeated and with missing ids.   *)
Lists == {<<>>} \cup {<<i>> : i \in Ids} \cup {<<i, j>> : i, j \in Ids}
ListsOfIds == {<<>>, <<a>>, <<a, a>>, <<a, b>>, <<a, b, a>>, <<a, b, b>>, <<a, b, c>>}
InputsValue ==
    UNION {{[i \in DOMAIN ids |-> [id |-> ids[i], groupIds |-> lists[i]]] :
                lists \in [DOMAIN ids -> Lists]} : ids \in ListsOfIds}

(* Acyclic is what the library of graphs calls a directed acyclic graph. *)
ASSUME AcyclicIsDag ==
    \A edges \in SUBSET (Ids \X Ids) :
        LET G == [node |-> Ids, edge |-> edges]
            refs == [id \in Ids |-> SetToSeq(Successors(G, id))]
        IN Acyclic(refs) <=> IsDag(G)

SuggestedValue == [p \in Presets |-> "g"]
BundledValue == <<<<"a">>, <<"b">>>>
SourcesValue == <<[name |-> "yaml", default |-> FALSE, native |-> FALSE],
                  [name |-> "srs", default |-> TRUE, native |-> TRUE]>>

FollowsValue == [p |-> "G", q |-> "H"]
(* What a provider serves: nodes that come and go, two of one name, one    *)
(* without its credentials, the line that tells of the quota.              *)
FilesValue ==
    {[nodes |-> <<ServedNode("a", 1, FALSE), ServedNode("b", 2, FALSE)>>,
      groups |-> <<ServedGroup("G", <<"a", "b", "DIRECT">>), ServedGroup("H", <<"b">>)>>],
     [nodes |-> <<ServedNode("a", 3, FALSE), ServedNode("info", 4, FALSE)>>,
      groups |-> <<ServedGroup("G", <<"a", "info", "H">>), ServedGroup("H", <<"info">>)>>],
     [nodes |-> <<ServedNode("a", 1, FALSE), ServedNode("a", 3, FALSE), ServedNode("b", 2, TRUE)>>,
      groups |-> <<ServedGroup("G", <<"a", "b">>), ServedGroup("H", <<"DIRECT">>)>>]}

(* What an import starts from: one row too many for a base, a set the      *)
(* presets manage, groups whose names differ in their case only.           *)
UpTo2(set) == {<<>>} \cup {<<x>> : x \in set} \cup {<<x, y>> : x \in set, y \in set}
Disputed == {<<"DOMAIN", "x", "Proxy">>, <<"DOMAIN", "x", "DIRECT">>}
FileLines ==
    Disputed \cup
    {<<"DST-PORT", "80", "Proxy">>, <<"PORT", "80", "g">>,
     <<"IP-CIDR", "v4", "Proxy", "no-resolve">>, <<"IP-CIDR", "v4", "Proxy">>, <<"DOMAIN", "x">>, <<"DOMAIN", "", "Proxy">>,
     <<"IP-CIDR", "v4", "Proxy", "src">>, <<"MATCH", "Proxy">>, <<"", "">>}
SetLines == {<<"RULE-SET", "p", "Proxy">>, <<"RULE-SET", "p", "DIRECT">>, <<"RULE-SET", "p">>}
Provider == [name : {"p"}, http : BOOLEAN, url : {"u"}, behavior : {"domain", "ipcidr", "other"}, hours : {0, 1, 12}]
ImportNode == [name : {"n", "m"}, endpoint : {"e", "f"}, protocol : {"p"}, config : {"c", "d"}]

DomainRule(id, target) == EntryOf(id, "rule", <<"DOMAIN", <<"x">>, FALSE>>, target, <<>>, FALSE)
KnownSet(target, managed) == EntryOf(1, "set", "u", target, <<"domain", 24>>, managed)
FirstRules ==
    {{}, {DomainRule(1, "g")}, {DomainRule(1, "h")}, {DomainRule(1, "g"), DomainRule(2, "h")},
     {EntryOf(1, "rule", <<"PORT", <<"80">>, FALSE>>, "h", <<>>, FALSE)}}
FirstSets == {{}, {KnownSet("g", FALSE)}, {KnownSet("h", FALSE)}, {KnownSet("h", TRUE)}}

ImportStartsValue ==
    LET starts(imports, rows, others) ==
          [file : imports, policies : {[g |-> "Proxy", h |-> "DIRECT"], [g |-> "PROXY 2", h |-> "Proxy"]},
           entries : rows, oldNodes : others]
        withLines(lines) == [lines : lines, providers : {<<>>}, nodes : {<<>>}]
    IN starts(withLines(UpTo2(FileLines) \cup [1..3 -> Disputed]), FirstRules, {{}})
         \cup [file : withLines(UpTo2(Disputed)), policies : {[g |-> "Proxy", h |-> "DIRECT", k |-> "Other"]},
               entries : {{DomainRule(1, "k")}}, oldNodes : {{}}]
         \cup starts([lines : UpTo2(SetLines), providers : {<<provider>> : provider \in Provider}, nodes : {<<>>}], FirstSets, {{}})
         \cup starts([lines : {<<>>}, providers : {<<>>}, nodes : UpTo2(ImportNode)], {{}}, {{}} \cup {{node} : node \in ImportNode})

EmptySpace == [table \in {"sources", "nodes", "pools", "groups", "rules", "sets"} |-> <<>>]
Unconverted == [source |-> SetSource("text", "text", "domain", <<FirstLine("domain")>>, <<>>, NoDoc),
                target |-> "loon", result |-> NoResult]
Unshared == Sharing("unwritable", NoNode, Link, "links", NoNode)
UnplannedImport ==
    /\ file = EmptyFile /\ policies = [g |-> "Proxy"] /\ entries = {} /\ oldNodes = {} /\ planned = Unplanned
    /\ planEdits = 0 /\ baseline = [rows |-> {}, groups |-> policies, edited |-> {}, alone |-> TRUE]

-----------------------------------------------------------------------------
(* What does not move begins in one of its initial states only. *)
WorkerInit ==
    /\ task \in Tasks
    /\ IF task = "export" THEN ServingInit ELSE ServingFrom(EmptySpace)
    /\ FetchInit /\ (task # "fetch" => hop.first = "a" /\ ~hop.secret /\ hop.method = "GET"
                                          /\ hop.url.verdict = "public")
    /\ BackupInit /\ (task # "backup" => stored["w"] = NoBackup)
    /\ RateInit /\ (task # "rate limit" => minute = 1)
    /\ ListInit /\ ProfileInit /\ AutoInit /\ SetInit /\ CacheInit /\ LinkInit /\ RoutingInit
    /\ GroupInit
    /\ IF task = "links" THEN ShareInit ELSE sharing = Unshared
    /\ ManualInit /\ (task # "nodes" => DOMAIN owners = {"s"})
    /\ IF task = "conversion" THEN ConversionInit ELSE conversion = Unconverted
    /\ IF task = "import" THEN PlanInit ELSE UnplannedImport
    /\ \E groups \in (IF task = "references" THEN Inputs ELSE {<<>>}) : Begin(groups)

workerVars == <<task, vars, servingVars, listVars, profileVars, autoVars, setVars, backupVars, cacheVars, fetchVars,
                linkVars, rateVars, routingVars, conversionVars, planVars, nodeVars,
                groupVars, shareVars>>

(* One part moves; the others stay as they are. *)
Moves(part) ==
    /\ task = part /\ UNCHANGED task
    /\ IF part = "references" THEN TRUE ELSE UNCHANGED vars
    /\ IF part = "export" THEN TRUE ELSE UNCHANGED servingVars
    /\ IF part = "rules" THEN TRUE ELSE UNCHANGED listVars
    /\ IF part = "profile" THEN TRUE ELSE UNCHANGED profileVars
    /\ IF part = "node groups" THEN TRUE ELSE UNCHANGED autoVars
    /\ IF part = "presets" THEN TRUE ELSE UNCHANGED setVars
    /\ IF part = "backup" THEN TRUE ELSE UNCHANGED backupVars
    /\ IF part = "caches" THEN TRUE ELSE UNCHANGED cacheVars
    /\ IF part = "fetch" THEN TRUE ELSE UNCHANGED fetchVars
    /\ IF part = "linked sets" THEN TRUE ELSE UNCHANGED linkVars
    /\ IF part = "rate limit" THEN TRUE ELSE UNCHANGED rateVars
    /\ IF part = "settings" THEN TRUE ELSE UNCHANGED routingVars
    /\ IF part = "conversion" THEN TRUE ELSE UNCHANGED conversionVars
    /\ IF part = "import" THEN TRUE ELSE UNCHANGED planVars
    /\ IF part = "nodes" THEN TRUE ELSE UNCHANGED nodeVars
    /\ IF part = "source groups" THEN TRUE ELSE UNCHANGED groupVars
    /\ IF part = "links" THEN TRUE ELSE UNCHANGED shareVars

WorkerNext ==
    \/ Moves("references") /\ Next
    \/ Moves("export") /\ ServingNext
    \/ Moves("rules") /\ ListNext
    \/ Moves("profile") /\ ProfileNext
    \/ Moves("node groups") /\ AutoNext
    \/ Moves("presets") /\ SetNext
    \/ Moves("backup") /\ BackupNext
    \/ Moves("caches") /\ CacheNext
    \/ Moves("fetch") /\ FetchNext
    \/ Moves("linked sets") /\ LinkNext
    \/ Moves("rate limit") /\ RateNext
    \/ Moves("settings") /\ RoutingNext
    \/ Moves("conversion") /\ ConversionNext
    \/ Moves("import") /\ PlanNext
    \/ Moves("nodes") /\ ManualNext
    \/ Moves("source groups") /\ GroupNext
    \/ Moves("links") /\ ShareNext

(* The search for cycles is a loop, which runs to its end. *)
WorkerSpec == WorkerInit /\ [][WorkerNext]_workerVars /\ WF_vars(task = "references" /\ Next)

-----------------------------------------------------------------------------
(* The part that moves keeps to its types. *)
WorkerTypes ==
    CASE task = "references" -> TypeOK
      [] task = "export" -> ServingTypes
      [] task = "rules" -> ListTypes
      [] task = "profile" -> ProfileTypes
      [] task = "node groups" -> AutoTypes
      [] task = "presets" -> SetTypes
      [] task = "backup" -> BackupTypes
      [] task = "caches" -> CacheTypes
      [] task = "fetch" -> FetchTypes
      [] task = "linked sets" -> LinkTypes
      [] task = "rate limit" -> RateTypes
      [] task = "settings" -> RoutingTypes
      [] task = "conversion" -> ConversionTypes
      [] task = "import" -> PlanTypes
      [] task = "nodes" -> ManualTypes
      [] task = "source groups" -> GroupTypes
      [] task = "links" -> ShareTypes

(* Every search for a cycle in the references ends with a verdict. *)
SearchDecides == task = "references" => Decides
=============================================================================
