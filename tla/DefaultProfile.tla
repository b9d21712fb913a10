--------------------------- MODULE DefaultProfile ---------------------------
(***************************************************************************)
(* The export profiles of a workspace, the link the dashboard shows, and   *)
(* the defaults that are ensured on the way: routes/export.ts,             *)
(* services/default-export-config.ts, services/zero-setup.ts, and the      *)
(* requests of routes/initialization.ts, routes/workspaces.ts and          *)
(* routes/data.ts that end in them.  A database call is a step; requests   *)
(* run between the steps of others and may be cut off at any of them.      *)
(***************************************************************************)
EXTENDS Integers

CONSTANTS
    Profiles,      \* ids of export profiles, with Standard among them
    Standard,      \* defaultExportConfigId
    ProfileCalls,  \* requests that may be in flight together
    MaxTokens,     \* bound on the tokens handed out
    Deletions      \* whether the workspace is one that can be deleted

ASSUME DefaultProfileAssumption ==
    Standard \in Profiles /\ MaxTokens \in Nat /\ Deletions \in BOOLEAN

VARIABLES
    space,     \* whether the workspace has its row
    link,      \* default_export_token: 0 for NULL, -1 while there is no settings row
    profiles,  \* the rows of export_configs, by id
    version,   \* whether KV holds the current version of the defaults
    graph,     \* whether the other defaults are complete (groups, node groups, presets)
    tokens,    \* tokens handed out so far
    asks,      \* the requests in flight
    ready      \* history: see ReadyWhenAlone

profileVars == <<space, link, profiles, version, graph, tokens, asks, ready>>
profileRows == <<space, link, profiles, version, graph, tokens>>

Profile == [token : 1..MaxTokens, enabled : BOOLEAN]

(* at: the call to make next; id: the profile it is about; seen: the token *)
(* read; new: the token to write.                                          *)
Unasked == [at |-> "free", op |-> "free", id |-> Standard, seen |-> 0, new |-> 0, alone |-> TRUE]

Ops == {"initialize", "list", "create", "toggle", "delete", "reset", "clear", "drop"}
ProfileSteps ==
    {"free", "version", "initialized", "insert", "find", "update", "remove", "swap", "follow", "wipe",
     "dropped", "settings", "link", "byToken", "standard", "found", "insertStandard", "setLink", "others", "mark"}

ProfileInit ==
    /\ space = TRUE /\ link = -1 /\ profiles = [id \in {} |-> Unasked]
    /\ version = FALSE /\ graph = FALSE /\ tokens = 0
    /\ asks = [c \in ProfileCalls |-> Unasked]
    /\ ready = [alone |-> FALSE, torn |-> FALSE]

-----------------------------------------------------------------------------
InFlight == {c \in ProfileCalls : asks[c].at # "free"}

GoTo(c, step) == asks' = [asks EXCEPT ![c].at = step]

(* On to the defaults: of what the request was about only the way it ends  *)
(* matters from here.                                                      *)
Ensure(c) ==
    asks' = [asks EXCEPT ![c] = [Unasked EXCEPT !.at = "settings", !.alone = asks[c].alone,
               !.op = IF asks[c].op \in {"initialize", "list", "clear"} THEN asks[c].op ELSE "ensure"]]

(* The answer; "torn" stays once a clearing of the data was cut off.       *)
Answered(c) ==
    /\ asks' = [asks EXCEPT ![c] = Unasked]
    /\ ready' = [ready EXCEPT !.alone = asks[c].alone]
Fails(c) ==
    /\ asks' = [asks EXCEPT ![c] = Unasked]
    /\ ready' = [alone |-> FALSE, torn |-> ready.torn \/ asks[c].op = "clear"]
    /\ UNCHANGED profileRows
(* Refused before anything was written. *)
Refuse(c) == asks' = [asks EXCEPT ![c] = Unasked] /\ UNCHANGED <<profileRows, ready>>

FirstStep(op) ==
    CASE op = "initialize" -> "version"
      [] op = "list" -> "settings"
      [] op = "create" -> "insert"
      [] op \in {"toggle", "delete", "reset"} -> "find"
      [] op = "clear" -> "wipe"
      [] op = "drop" -> "dropped"

ArriveForProfile(c, op, id) ==
    /\ c \notin InFlight
    /\ asks' = [d \in ProfileCalls |->
         IF d = c THEN [Unasked EXCEPT !.at = FirstStep(op), !.op = op, !.id = id, !.alone = (InFlight = {})]
         ELSE [asks[d] EXCEPT !.alone = FALSE]]
    /\ UNCHANGED <<profileRows, ready>>

(* Rows of a workspace can only be written while it has its own row.       *)
OwnRow(c, write) == IF space THEN write ELSE Fails(c)

-----------------------------------------------------------------------------
(* ensureWorkspaceInitialized: KV, then whether the link names a profile   *)
(* that is on.                                                             *)
ReadVersion(c) ==
    /\ asks[c].at = "version"
    /\ IF version THEN GoTo(c, "initialized") ELSE Ensure(c)
    /\ UNCHANGED <<profileRows, ready>>

HasInitializedStateSlipVersion == TRUE
HasInitializedState == \E id \in DOMAIN profiles : profiles[id].token = link /\ profiles[id].enabled

ReadInitialized(c) ==
    /\ asks[c].at = "initialized"
    /\ IF HasInitializedState THEN Answered(c) ELSE Ensure(c) /\ UNCHANGED ready
    /\ UNCHANGED profileRows

(* POST /configs. *)
InsertProfile(c) ==
    /\ asks[c].at = "insert"
    /\ OwnRow(c, /\ tokens < MaxTokens
                 /\ profiles' = [id \in DOMAIN profiles \cup {asks[c].id} |->
                      IF id = asks[c].id THEN [token |-> tokens + 1, enabled |-> TRUE] ELSE profiles[id]]
                 /\ tokens' = tokens + 1 /\ Ensure(c)
                 /\ UNCHANGED <<space, link, version, graph, ready>>)

(* The row a PUT, a DELETE or a reset is about.                            *)
FindRow(c) ==
    /\ asks[c].at = "find"
    /\ LET id == asks[c].id IN
       IF id \notin DOMAIN profiles \/ (asks[c].op = "delete" /\ id = Standard) THEN Refuse(c)
       ELSE /\ asks' = [asks EXCEPT ![c].seen = profiles[id].token, ![c].at =
                  CASE asks[c].op = "toggle" -> "update"
                    [] asks[c].op = "delete" -> "remove"
                    [] asks[c].op = "reset" -> "swap"]
            /\ UNCHANGED <<profileRows, ready>>

(* PUT /configs/:id writes the columns the body names, here enabled; of    *)
(* the default profile it takes no other.                                  *)
ToggleProfile(c) ==
    /\ asks[c].at = "update"
    /\ \E on \in BOOLEAN :
         profiles' = [id \in DOMAIN profiles |->
                        IF id = asks[c].id THEN [profiles[id] EXCEPT !.enabled = on] ELSE profiles[id]]
    /\ Ensure(c) /\ UNCHANGED <<space, link, version, graph, tokens, ready>>

DeleteProfile(c) ==
    /\ asks[c].at = "remove"
    /\ profiles' = [id \in DOMAIN profiles \ {asks[c].id} |-> profiles[id]]
    /\ Ensure(c) /\ UNCHANGED <<space, link, version, graph, tokens, ready>>

(* POST /configs/:id/reset-token, and syncDefaultExportTokenAfterReset.    *)
ResetToken(c) ==
    /\ asks[c].at = "swap" /\ tokens < MaxTokens
    /\ tokens' = tokens + 1
    /\ profiles' = [id \in DOMAIN profiles |->
         IF id = asks[c].id THEN [profiles[id] EXCEPT !.token = tokens + 1] ELSE profiles[id]]
    /\ asks' = [asks EXCEPT ![c].new = tokens + 1, ![c].at = "follow"]
    /\ UNCHANGED <<space, link, version, graph, ready>>

FollowReset(c) ==
    /\ asks[c].at = "follow"
    /\ link' = IF link = asks[c].seen THEN asks[c].new ELSE link
    /\ Ensure(c) /\ UNCHANGED <<space, profiles, version, graph, tokens, ready>>

(* DELETE /api/data: one batch; the builtin groups stay.                   *)
WipeData(c) ==
    /\ asks[c].at = "wipe"
    /\ profiles' = [id \in {} |-> Unasked] /\ graph' = FALSE
    /\ link' = IF link = -1 THEN -1 ELSE 0
    /\ Ensure(c) /\ UNCHANGED <<space, version, tokens, ready>>

(* DELETE /workspaces/:id takes every row along, then the key in KV.       *)
DropSpace(c) ==
    /\ asks[c].at = "dropped"
    /\ IF space THEN /\ space' = FALSE /\ link' = -1 /\ profiles' = [id \in {} |-> Unasked] /\ graph' = FALSE
                     /\ GoTo(c, "mark")
                     /\ UNCHANGED <<version, tokens, ready>>
       ELSE Refuse(c)

-----------------------------------------------------------------------------
(* ensureDefaultExportConfig.                                              *)
InsertSettings(c) ==
    /\ asks[c].at = "settings"
    /\ OwnRow(c, /\ link' = IF link = -1 THEN 0 ELSE link
                 /\ GoTo(c, "link")
                 /\ UNCHANGED <<space, profiles, version, graph, tokens, ready>>)

ReadLink(c) ==
    /\ asks[c].at = "link"
    /\ asks' = [asks EXCEPT ![c].seen = link, ![c].at = IF link > 0 THEN "byToken" ELSE "standard"]
    /\ UNCHANGED <<profileRows, ready>>

ProfileFound(c) ==
    IF asks[c].op = "list" THEN Answered(c)
    ELSE asks' = [asks EXCEPT ![c].at = "others", ![c].seen = 0, ![c].new = 0] /\ UNCHANGED ready

ReadByToken(c) ==
    /\ asks[c].at = "byToken"
    /\ IF \E id \in DOMAIN profiles : profiles[id].token = asks[c].seen /\ profiles[id].enabled
         THEN ProfileFound(c) ELSE asks' = [asks EXCEPT ![c].at = "standard", ![c].seen = 0] /\ UNCHANGED ready
    /\ UNCHANGED profileRows

ReadStandard(c) ==
    /\ asks[c].at = "standard"
    /\ IF Standard \in DOMAIN profiles
         THEN asks' = [asks EXCEPT ![c].new = profiles[Standard].token, ![c].seen = 0, ![c].at = "setLink"]
         ELSE GoTo(c, "insertStandard")
    /\ UNCHANGED <<profileRows, ready>>

(* The second of two requests that both found none meets the first one's   *)
(* row, and fails.                                                         *)
InsertStandard(c) ==
    /\ asks[c].at = "insertStandard"
    /\ IF Standard \in DOMAIN profiles THEN Fails(c)
       ELSE OwnRow(c, /\ tokens < MaxTokens /\ tokens' = tokens + 1
                      /\ profiles' = [id \in DOMAIN profiles \cup {Standard} |->
                           IF id = Standard THEN [token |-> tokens + 1, enabled |-> TRUE] ELSE profiles[id]]
                      /\ asks' = [asks EXCEPT ![c].new = tokens + 1, ![c].at = "setLink"]
                      /\ UNCHANGED <<space, link, version, graph, ready>>)

(* setDefaultExportToken: whatever the link is by now.                     *)
SetLink(c) ==
    /\ asks[c].at = "setLink"
    /\ link' = IF link = -1 THEN -1 ELSE asks[c].new
    /\ ProfileFound(c)
    /\ UNCHANGED <<space, profiles, version, graph, tokens>>

-----------------------------------------------------------------------------
(* The rest of ensureZeroSetupDefaults, in modules of its own; then KV.    *)
EnsureOthers(c) ==
    /\ asks[c].at = "others"
    /\ OwnRow(c, IF link = -1 THEN Fails(c)
                 ELSE /\ graph' = TRUE
                      /\ IF asks[c].op = "initialize" THEN GoTo(c, "mark") /\ UNCHANGED ready ELSE Answered(c)
                      /\ UNCHANGED <<space, link, profiles, version, tokens>>)

MarkVersion(c) ==
    /\ asks[c].at = "mark"
    /\ version' = (asks[c].op # "drop")
    /\ Answered(c) /\ UNCHANGED <<space, link, profiles, graph, tokens>>

(* The invocation ends between two calls. *)
CutOffProfile(c) == c \in InFlight /\ Fails(c)

-----------------------------------------------------------------------------
ProfileArrivals(c) ==
    \/ \E op \in {"initialize", "list", "clear"} : ArriveForProfile(c, op, Standard)
    \/ Deletions /\ ArriveForProfile(c, "drop", Standard)
    \/ \E id \in Profiles \ ({Standard} \cup DOMAIN profiles \cup {asks[d].id : d \in ProfileCalls}) :
         ArriveForProfile(c, "create", id)
    \/ \E op \in {"toggle", "delete", "reset"}, id \in DOMAIN profiles : ArriveForProfile(c, op, id)

ProfileNext ==
    \E c \in ProfileCalls :
        \/ ProfileArrivals(c) \/ CutOffProfile(c)
        \/ ReadVersion(c) \/ ReadInitialized(c)
        \/ InsertProfile(c) \/ FindRow(c) \/ ToggleProfile(c) \/ DeleteProfile(c)
        \/ ResetToken(c) \/ FollowReset(c) \/ WipeData(c) \/ DropSpace(c)
        \/ InsertSettings(c) \/ ReadLink(c) \/ ReadByToken(c) \/ ReadStandard(c)
        \/ InsertStandard(c) \/ SetLink(c) \/ EnsureOthers(c) \/ MarkVersion(c)

-----------------------------------------------------------------------------
ProfileTypes ==
    /\ {space, version, graph} \subseteq BOOLEAN
    /\ tokens \in 0..MaxTokens /\ link \in -1..tokens
    /\ DOMAIN profiles \subseteq Profiles /\ profiles \in [DOMAIN profiles -> Profile]
    /\ \A c \in ProfileCalls : asks[c].at \in ProfileSteps /\ asks[c].op \in Ops \cup {"free", "ensure"}
    /\ ready \in [alone : BOOLEAN, torn : BOOLEAN]

(* However requests overlapped before, and wherever they were cut off: one *)
(* more request that runs alone and is answered leaves the link the        *)
(* dashboard shows at the token under which the profile is served, and the *)
(* other defaults complete, unless a clearing of the data was cut off.     *)
ReadyWhenAlone ==
    ready.alone /\ InFlight = {} /\ space =>
        /\ Standard \in DOMAIN profiles /\ link = profiles[Standard].token
        /\ graph \/ ready.torn \/ ~version
=============================================================================
