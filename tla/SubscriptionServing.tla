-------------------------- MODULE SubscriptionServing ------------------------
(* One client at a subscription link, or the operator at the page that shows  *)
(* a preview or downloads a file, and the workspace whose rows the operator   *)
(* edits meanwhile.  An export reads the database in a dozen calls; each of   *)
(* them is a step, so an edit can fall between any two.  Then come the        *)
(* checks, the preflight of the conversions in strict mode, and the rendered  *)
(* file with its own check.  After a file the client fetches the converted    *)
(* rule sets the file names.                                                  *)
EXTENDS ArtifactChecks

CONSTANTS Workspaces,  \* the workspaces an instance starts from
          Calm,        \* those among them nobody edits during an export
          Editable,    \* the rows that are switched on and off
          AllRows,     \* the ids of nodes, groups, rules and rule sets
          MaxRowEdits  \* bound: edits the operator makes

VARIABLES ws,      \* the rows: settings, profile, nodes, sources, pools, groups, rules, sets
          req,     \* the request: where it is and what it has read
          rowEdits, \* edits made so far
          around,  \* history: the rows that were on at some moment since the request began
          quiet    \* history: no edit since the last file was asked for

servingVars == <<ws, req, rowEdits, around, quiet>>

------------------------------------------------------------------------------
(* The rows as they are stored.  A name is a sequence; what a column may be   *)
(* without holds None.  Ids are the keys of their tables, and rules and rule  *)
(* sets, whose ids are UUIDs, never share one.                                *)
Text == STRING \cup {None}
Chosen == {None, "proxy"}  \* the groups an edit hands the traffic of a rule set to
StoredNode ==
  [id : AllRows, source : Text, protocol : Text, network : Text, endpoint : Text, secret : Text,
   complete : BOOLEAN, raw : Text, name : Seq(Text), region : Text, enabled : BOOLEAN]
StoredSource == [id : Text, enabled : BOOLEAN, failed : BOOLEAN, refreshed : BOOLEAN, count : Nat]
StoredPool ==
  [id : Text, enabled : BOOLEAN, nodes : SUBSET AllRows, sources : SUBSET Text,
   filters : Seq([enabled : BOOLEAN, field : Text, values : SUBSET Text, selects : BOOLEAN]),
   rename : Text, dedup : Text, sort : [by : Text, countries : Seq(Text)]]
StoredGroup ==
  [id : AllRows, name : Seq(Text), type : Text, enabled : BOOLEAN, groupIds : Seq(Text), pools : Seq(Text),
   builtins : Seq(Seq(Text)), likes : Seq(Text), hint : Text]
StoredRule(payload) ==
  [id : AllRows, type : RuleTypes, payload : {payload}, target : Text, override : {None}, enabled : BOOLEAN,
   noResolve : BOOLEAN, valid : BOOLEAN]
StoredSet ==
  [id : AllRows, name : Seq(Text), format : RuleSetFormats, preset : BOOLEAN, overrides : SUBSET FullFormats,
   target : Text, override : Text \cup Chosen, enabled : BOOLEAN, safe : BOOLEAN, upstream : {"whole", "partial", "down"}]
StoredProfile ==
  [token : Nat, enabled : BOOLEAN, default : BOOLEAN, format : Formats, policy : Text,
   groups : SUBSET Text, rules : SUBSET Text, sets : SUBSET Text, pools : SUBSET Text]

Tables == {"nodes", "sources", "pools", "groups", "rules", "sets"}
IsWorkspace(w) ==
  /\ DOMAIN w = Tables \cup {"settings", "profile"}
  /\ w.nodes \in Seq(StoredNode) /\ w.sources \in Seq(StoredSource) /\ w.pools \in Seq(StoredPool)
  /\ w.groups \in Seq(StoredGroup) /\ w.sets \in Seq(StoredSet)
  /\ w.rules \in Seq(ToSet(w.rules)) /\ \A r \in ToSet(w.rules) : r \in StoredRule(r.payload)
  /\ w.profile \in StoredProfile /\ IsFiniteSet(w.profile.pools) /\ w.settings.shown \in BOOLEAN
  /\ \A t \in Tables : \A i, j \in DOMAIN w[t] : w[t][i].id = w[t][j].id => i = j
  /\ RowIds(w.rules) \cap RowIds(w.sets) = {}

ASSUME ServingAssumption ==
  /\ \A w \in Workspaces : IsWorkspace(w)
  /\ Alphabet \in Seq(Text) /\ None \in STRING \ Formats /\ MaxRowEdits \in Nat

------------------------------------------------------------------------------
On(rows) == Where(rows, LAMBDA row : row.enabled)

(* Nodes count when their source is on too.                                   *)
NodesOn(w) == Where(On(w.nodes), LAMBDA n : n.source \in RowIds(On(w.sources)))

IdsOn(rows) == {row.id : row \in {x \in ToSet(rows) : x.enabled}}
RowsOn(w) ==
  {n.id : n \in {x \in ToSet(w.nodes) : x.enabled /\ x.source \in IdsOn(w.sources)}}
    \cup IdsOn(w.groups) \cup IdsOn(w.rules) \cup IdsOn(w.sets)

Steps == <<"profile", "settings", "nodes", "pools", "groups", "rules", "sets", "names", "sources",
           "build", "policy", "check", "preflight", "render">>
ExportReads == {Steps[i] : i \in 1..9}

Nothing == [nodes |-> <<>>, groups |-> <<>>, sets |-> <<>>, rules |-> <<>>, final |-> DIRECT,
            detour |-> DIRECT]
NoUrl == [id |-> None, to |-> None, for |-> None]
Idle == [at |-> "idle", route |-> "link", format |-> "mihomo", token |-> 0, url |-> NoUrl, got |-> <<>>, data |-> <<>>,
         answer |-> "none", file |-> Nothing, known |-> {}]

ServingFrom(workspace) ==
  /\ ws = workspace
  /\ req = Idle /\ rowEdits = (IF ws \in Calm THEN MaxRowEdits ELSE 0) /\ around = {} /\ quiet = TRUE
ServingInit == \E workspace \in Workspaces : ServingFrom(workspace)

------------------------------------------------------------------------------
(* A request.  The link knows a token; a preview and a download are asked for *)
(* by the profile.                                                            *)

Waiting == req.at \in ToSet(Steps)
ForFile == req.route # "rules"
NextStep(step) == Steps[(CHOOSE i \in DOMAIN Steps : Steps[i] = step) + 1]

Ask(route, format) ==
  /\ req.at = "idle"
  /\ req' = [Idle EXCEPT !.at = "profile", !.route = route, !.format = format, !.token = ws.profile.token]
  /\ around' = RowsOn(ws) /\ quiet' = TRUE
  /\ UNCHANGED <<ws, rowEdits>>

(* A client that got a file fetches a rule set from the endpoint it names.    *)
FollowUrl ==
  /\ req.at = "answered" /\ req.answer = "served" /\ req.route = "link"
  /\ \E set \in ToSet(req.file.sets) :
       /\ set.url.to # None
       /\ req' = [req EXCEPT !.at = "profile", !.route = "rules", !.url = set.url, !.got = <<>>, !.data = <<>>,
                             !.format = IF set.url.for = None THEN set.url.to ELSE set.url.for]
  /\ UNCHANGED <<ws, rowEdits, around, quiet>>

Answer(what) == req' = [req EXCEPT !.at = "answered", !.answer = what]

(* getEnabledExportConfigByToken or getExportConfigById, and the format.      *)
FindProfile ==
  /\ req.at = "profile"
  /\ IF \/ ~ws.profile.enabled
        \/ req.route \notin {"download", "preview"} /\ ws.profile.token # req.token
        \/ ~ws.profile.default /\ ws.profile.format # req.format
     THEN Answer("unavailable")
     ELSE req' = [req EXCEPT !.at = "settings", !.got = [profile |-> ws.profile]]
  /\ UNCHANGED <<ws, rowEdits, around, quiet>>

GotSlipSource(step) ==
  CASE step = "nodes" -> On(ws.nodes)
    [] step = "settings" -> ws.settings
    [] step = "names" -> [s \in RowIds(ws.sources) |-> s]
    [] step = "policy" -> ws.settings.policy
    [] OTHER -> On(ws[step])
Got(step) ==
  CASE step = "settings" -> ws.settings
    [] step = "nodes" -> NodesOn(ws)
    [] step = "names" -> [s \in RowIds(ws.sources) |-> s]
    [] step = "policy" -> ws.settings.policy
    [] OTHER -> On(ws[step])

(* The reads of buildExportData in their order, then what it makes of them,  *)
(* and the settings once more for the policy of conversions (a download and a *)
(* preview read them first; nothing tells the two orders apart here).         *)
Read ==
  /\ req.at \in (ExportReads \ {"profile"}) \cup {"policy"}
  /\ req' = [req EXCEPT !.at = NextStep(@),
               !.got = [k \in DOMAIN @ \cup {req.at} |-> IF k = req.at THEN Got(k) ELSE @[k]]]
  /\ UNCHANGED <<ws, rowEdits, around, quiet>>

Build ==
  /\ req.at = "build"
  /\ req' = [req EXCEPT !.at = "policy", !.data = ExportData(req.got, req.got.profile, req.format)]
  /\ UNCHANGED <<ws, rowEdits, around, quiet>>

Data == req.data
Policy == IF req.got.profile.policy # None THEN req.got.profile.policy ELSE req.got.policy

(* findBlockingExportWarning.  Only a preview (inspectExport) tells what else *)
(* was found of the export, and not all of it unless the settings ask for it; *)
(* a link and a download say nothing beside the file.  A preview shows its    *)
(* file whatever is found, and says whether it is ready: here its answer is   *)
(* the first reason why it is not, found in the order of the other routes.    *)
Told ==
  IF req.route = "preview" THEN ExportWarnings(Data, req.format, req.got.settings.shown) ELSE {}
Check ==
  /\ req.at = "check"
  /\ IF req.route = "rules" THEN req' = [req EXCEPT !.at = "preflight"]
     ELSE IF BlockingWarnings(Data, req.format) # {} THEN Answer("not ready")
     ELSE req' = [req EXCEPT !.at = "preflight", !.known = Told]
  /\ UNCHANGED <<ws, rowEdits, around, quiet>>

(* What a set comes to when it is downloaded and converted.                   *)
Conversion(id) == RowOf(ws.sets, id).upstream

(* In strict mode every set that has to be converted is tried.                *)
PreflightSlipTarget(d, f) ==
  {s.id : s \in {x \in ToSet(d.sets) : x.enabled /\ ConversionTarget(PublishedFormat(x, f), f) = f}}
Preflight(d, f) ==
  {s.id : s \in {x \in ToSet(d.sets) : x.enabled /\ PublishedFormat(x, f) # "none" /\ IsConverted(x, f)
                                         /\ ConversionTarget(PublishedFormat(x, f), f) # "none"}}

Convert ==
  /\ req.at = "preflight" /\ req.route # "rules"
  /\ IF Policy = "strict" /\ \E id \in Preflight(Data, req.format) : Conversion(id) # "whole"
     THEN Answer("incomplete") ELSE req' = [req EXCEPT !.at = "render"]
  /\ UNCHANGED <<ws, rowEdits, around, quiet>>

Render ==
  /\ req.at = "render"
  /\ LET file == Rendered(Data, req.format) IN
     IF ArtifactIssues(file, req.format) # {} THEN Answer("invalid")
     ELSE req' = [req EXCEPT !.at = "answered", !.answer = "served", !.file = file]
  /\ UNCHANGED <<ws, rowEdits, around, quiet>>

(* The endpoint that converts a rule set of the export.                       *)
ServeRules ==
  /\ req.at = "preflight" /\ req.route = "rules"
  /\ LET inScope == {s \in ToSet(Data.sets) : s.id = req.url.id /\ s.enabled}
         set == RowOf(Data.sets, req.url.id) IN
     IF inScope = {} THEN Answer("out of scope")
     ELSE IF Preflight([Data EXCEPT !.sets = <<set>>], req.format) = {} THEN Answer("not required")
     ELSE IF ConversionTarget(PublishedFormat(set, req.format), req.format) # req.url.to
          THEN Answer("not required")
     ELSE IF Conversion(set.id) = "down" THEN Answer("upstream unavailable")
     ELSE IF Policy = "strict" /\ Conversion(set.id) = "partial" THEN Answer("incomplete")
     ELSE Answer("rules")
  /\ UNCHANGED <<ws, rowEdits, around, quiet>>

------------------------------------------------------------------------------
(* The operator: a row is switched, a set is given another group or loses it, *)
(* the profile is paused or gets a new token, an address answers differently. *)

Switched(rows, id) == [i \in DOMAIN rows |-> [rows[i] EXCEPT !.enabled = IF rows[i].id = id THEN ~@ ELSE @]]

EditedRows(w) ==
  (UNION {{[w EXCEPT ![t] = Switched(@, id)] : id \in (Editable \ DefaultMembers) \cap RowIds(w[t])} : t \in Tables})
  \cup {[w EXCEPT !.sets[i].override = g] : i \in DOMAIN w.sets, g \in Chosen}
  \cup {[w EXCEPT !.sets[i].upstream = "down"] : i \in DOMAIN w.sets}
  \cup {[w EXCEPT !.profile.enabled = ~@], [w EXCEPT !.profile.token = @ + 1]}

EditRows ==
  /\ rowEdits < MaxRowEdits /\ (Waiting \/ req.at = "answered")
  /\ ws' \in EditedRows(ws) \ {ws}
  /\ rowEdits' = rowEdits + 1 /\ quiet' = FALSE
  /\ around' = IF Waiting /\ ForFile THEN around \cup RowsOn(ws') ELSE around
  /\ UNCHANGED req

Asked == \E route \in {"link", "download", "preview"}, format \in Formats : Ask(route, format)
Handle == FindProfile \/ Read \/ Build \/ Check \/ Convert \/ Render \/ ServeRules
Finished == req.at = "answered" /\ UNCHANGED servingVars

ServingNext == Asked \/ FollowUrl \/ Handle \/ EditRows \/ Finished
ServingSpec == ServingInit /\ [][ServingNext]_servingVars

------------------------------------------------------------------------------
Served == req.at = "answered" /\ req.answer = "served"
Followed == req.at = "answered" /\ req.route = "rules"
FullFile == Served /\ req.format \in FullFormats

(* Every part of a request is one the handlers can be in, and the history     *)
(* holds rows of the workspace only.                                          *)
ServingTypes ==
  /\ req.at \in ToSet(Steps) \cup {"idle", "answered"}
  /\ req.format \in Formats /\ req.route \in {"link", "download", "preview", "rules"}
  /\ rowEdits \in 0..MaxRowEdits /\ quiet \in BOOLEAN
  /\ around \subseteq UNION {RowIds(ws[t]) : t \in Tables}

(* A file implements what ServedConfig promises, whatever the operator edits  *)
(* between the dozen reads the file is made from: every row in it was on      *)
(* while the client waited, and every name it uses is one it defines.         *)
FileOut(c) ==
  [state |-> "served",
   rows |-> RowIds(c.nodes) \cup RowIds(c.groups) \cup RowIds(c.sets) \cup RowIds(c.rules),
   refers |-> (UNION {g.members : g \in ToSet(c.groups)}) \cup {r.policy : r \in ToSet(c.rules)} \cup {c.final, c.detour},
   offers |-> Targets(c)]
NoFile(state) == [state |-> state, rows |-> {}, refers |-> {}, offers |-> {}]
Out ==
  IF Served \/ ~ForFile THEN FileOut(req.file)
  ELSE NoFile(IF Waiting THEN "waiting" ELSE IF req.at = "idle" THEN "idle" ELSE "refused")

Promise == INSTANCE ServedConfig WITH Rows <- AllRows, on <- RowsOn(ws), around <- around, out <- Out
ServesWhatItPromises == Promise!Spec

(* A rule, and in the clients written from mapped rows a rule set, hands its  *)
(* traffic to the group the operator chose last, or to its own default one    *)
(* (db/helpers targetGroupId); when that group is not in the file, neither is *)
(* the rule.                                                                  *)
AimsAt(row, file) ==
  LET chosen == IF row.override = None THEN row.target ELSE row.override
      name == PolicyName(RowOf(req.got.groups, chosen))
  IN  \A r \in ToSet(file.rules) : r.id = row.id => chosen \in RowIds(req.got.groups) /\ r.policy = name
TrafficGoesWhereItIsSent ==
  FullFile => /\ \A row \in ToSet(req.got.rules) : AimsAt(row, req.file)
              /\ req.format \in Mapped => \A row \in ToSet(req.got.sets) : AimsAt(row, req.file)

(* The hint beside a rule set in the web client: its traffic goes to the      *)
(* selected group, whatever the client the file is for.                       *)
SelectedGroupDecides == FullFile => \A row \in ToSet(req.got.sets) : AimsAt(row, req.file)

(* A policy group that uses node groups offers exactly their nodes, each by   *)
(* the name under which its connection is in the file, although names are all *)
(* a file knows nodes by.  Where names repeat, of which a preview warns, a    *)
(* group can get a namesake of its node, and so it can, of which nothing      *)
(* warns, when a node has the name of a policy: both are left out here.       *)
GroupHasItsNodes ==
  FullFile /\ Namesakes(Data) = {} =>
    LET poolRows == PoolRows(req.got.nodes, req.got.pools) IN
    \A g \in {x \in ToSet(req.file.groups) : RowOf(req.got.groups, x.id).pools # <<>>} :
      LET row == RowOf(req.got.groups, g.id)
          mine == {Fingerprint(n) : n \in UNION {ToSet(poolRows[p]) : p \in ToSet(row.pools) \cap DOMAIN poolRows}}
          policies == ToSet(row.builtins) \cup {PolicyName(h) : h \in ToSet(req.got.groups)} \cup {DIRECT}
          nodes == {n \in ToSet(req.file.nodes) : n.name \notin policies}
      IN  {n \in nodes : n.name \in g.members} = {n \in nodes : Fingerprint(n) \in mine}

(* What a file lacks although it was exported is told to the operator who     *)
(* previews it, whatever is edited meanwhile: nodes with their credentials,   *)
(* rules and rule sets the client cannot take.  (In a sing-box file one of    *)
(* two sets stands for both when their names leave the same tag; that nobody  *)
(* is told.  Who asks for no preview, or has warnings of compatibility        *)
(* switched off, is told of no loss at all.)  In strict mode a rule set that  *)
(* a file has to have converted converts without losses for the client that   *)
(* fetches it.                                                                *)
NothingIsLostSilently ==
  /\ FullFile /\ req.route = "preview" /\ req.got.settings.shown =>
    LET missing(rows, kept) == {x \in ToSet(rows) : x.id \notin RowIds(kept)}
        told == {w.id : w \in req.known}
    IN  /\ \A n \in missing(Data.nodes, req.file.nodes) : n.complete => n.id \in told
        /\ \A x \in missing(Data.rules, req.file.rules) : x.type # "MATCH" => x.id \in told
        /\ \A s \in missing(Data.sets, req.file.sets) :
             s.id \in told \/ (req.format = "singbox" /\ \E kept \in ToSet(req.file.sets) : kept.tag = SafeName(s.name))
  /\ Followed /\ quiet /\ req.answer \notin {"rules", "unavailable"} => Policy # "strict"

(* A client that reads the file and then downloads a set the file names gets  *)
(* an answer made for that set, unless the workspace changed in between: the  *)
(* address says everything the endpoint needs.                                *)
ConvertedUrlsAnswer == Followed /\ quiet => req.answer \in {"rules", "incomplete", "upstream unavailable"}
=============================================================================
