------------------------------- MODULE Backup -------------------------------
(***************************************************************************)
(* Backup and restore of a workspace: routes/data.ts.  An export reads the *)
(* tables one after another while requests go on changing them; a restore  *)
(* checks the file and replaces every row of a workspace in one batch.     *)
(* One row stands for each table; the history of imports, which refers to  *)
(* nothing in a backup, is left out.  The ensure of the defaults that follows *)
(* a restore is in DefaultProfile, the check of the group graph in         *)
(* GroupReferenceGraph.                                                    *)
(***************************************************************************)
EXTENDS Naturals, Sequences

CONSTANTS
    Spaces,         \* workspaces of one instance
    MaxBackupEdits  \* bound on the changes made by other requests

TABLESSlipNoRules == <<"sources", "nodes", "collections", "groups", "remote_rule_sets",
                       "export_configs", "app_settings">>
TABLES == <<"sources", "nodes", "collections", "groups", "rules", "remote_rule_sets",
            "export_configs", "app_settings">>

VARIABLES
    stored,      \* the rows of each workspace, each with what it refers to
    exporting,   \* an export in progress: its workspace, tables read, whether it was disturbed
    backup,      \* the file, and the rows its workspace had when it was made
    restoring,   \* a restore that passed validation: its workspace
    outcome,     \* how the restore ended that was the last thing to happen
    backupEdits

backupVars == <<stored, exporting, backup, restoring, outcome, backupEdits>>

(* Foreign keys, a row that goes taking the ones along that cascade; and   *)
(* references in JSON columns and in the settings, which the database does *)
(* not know of.  The override of a rule set is a foreign key too.          *)
Requires(t) == CASE t = "nodes" -> {"sources"}
                 [] t \in {"rules", "remote_rule_sets"} -> {"groups"}
                 [] OTHER -> {}
Cascades(t) == IF t = "sources" THEN {"sources", "nodes"} ELSE {t}
Mentions(t) == CASE t = "collections" -> {"sources", "nodes"}
                 [] t = "groups" -> {"collections"}
                 [] t = "export_configs" -> {"rules", "remote_rule_sets"}
                 [] t = "app_settings" -> {"export_configs"}
                 [] OTHER -> {}

Names == {"sources", "nodes", "collections", "groups", "rules", "remote_rule_sets", "export_configs", "app_settings"}
NoBackup == [t \in {} |-> {}]
Whole == [t \in Names |-> Requires(t) \cup Mentions(t)]

BackupInit ==
    /\ \E own \in Spaces : stored = [w \in Spaces |-> IF w = own THEN Whole ELSE NoBackup]
    /\ exporting = [space |-> "none", read |-> 0, calm |-> TRUE, start |-> NoBackup, copy |-> NoBackup]
    /\ backup = [made |-> FALSE, calm |-> FALSE, start |-> NoBackup, rows |-> NoBackup]
    /\ restoring = "none" /\ outcome = [kind |-> "none", before |-> NoBackup, space |-> "none"]
    /\ backupEdits = 0

NoOutcome == outcome' = [kind |-> "none", before |-> NoBackup, space |-> "none"]
NoExport == [space |-> "none", read |-> 0, calm |-> TRUE, start |-> NoBackup, copy |-> NoBackup]

-----------------------------------------------------------------------------
(* GET /export: one query per table. *)
BeginExport(w) ==
    /\ exporting.space = "none" /\ ~backup.made
    /\ exporting' = [NoExport EXCEPT !.space = w, !.start = stored[w]]
    /\ NoOutcome /\ UNCHANGED <<stored, backup, restoring, backupEdits>>

ReadTable ==
    /\ exporting.space # "none" /\ exporting.read < Len(TABLES)
    /\ LET t == TABLES[exporting.read + 1]
           rows == stored[exporting.space]
       IN exporting' = [exporting EXCEPT !.read = @ + 1,
            !.copy = IF t \in DOMAIN rows THEN [u \in DOMAIN @ \cup {t} |-> IF u = t THEN rows[t] ELSE @[u]] ELSE @]
    /\ NoOutcome /\ UNCHANGED <<stored, backup, restoring, backupEdits>>

EndExport ==
    /\ exporting.space # "none" /\ exporting.read = Len(TABLES)
    /\ backup' = [made |-> TRUE, calm |-> exporting.calm, start |-> exporting.start, rows |-> exporting.copy]
    /\ exporting' = NoExport
    /\ NoOutcome /\ UNCHANGED <<stored, restoring, backupEdits>>

-----------------------------------------------------------------------------
(* validateBackupRelations: every reference must be met in the file, but   *)
(* for the override of a rule set, which nobody checks.                    *)
Meets(rows) == \A t \in DOMAIN rows : Requires(t) \cup (rows[t] \cap Mentions(t)) \subseteq DOMAIN rows

ValidateSlipNoMentions(rows) == \A t \in DOMAIN rows : Requires(t) \subseteq DOMAIN rows
Validate(rows) == Meets(rows)

(* POST /import checks the file, which may have been edited out of shape,  *)
(* before it asks the database anything.                                   *)
BeginRestore(w) ==
    /\ backup.made /\ restoring = "none"
    /\ \E wellFormed \in BOOLEAN :
         IF wellFormed /\ Validate(backup.rows) THEN restoring' = w /\ NoOutcome
         ELSE /\ outcome' = [kind |-> IF wellFormed THEN "refused" ELSE "malformed", before |-> stored[w], space |-> w]
              /\ UNCHANGED restoring
    /\ UNCHANGED <<stored, exporting, backup, backupEdits>>

(* The batch: the rows of the workspace go, those of the file come.  Ids   *)
(* are unique over all workspaces, but for the settings, whose id is the   *)
(* workspace's; a conflict takes everything back.  So does a rule set      *)
(* whose override names a group the file does not have.                    *)
Conflict(w) ==
    \E v \in Spaces \ {w} : (DOMAIN stored[v] \cap DOMAIN backup.rows) \ {"app_settings"} # {}

WriteRestore ==
    /\ restoring # "none"
    /\ LET w == restoring IN
       \/ /\ ~Conflict(w)
          /\ stored' = [stored EXCEPT ![w] = backup.rows]
          /\ outcome' = [kind |-> "restored", before |-> stored[w], space |-> w]
       \/ /\ Conflict(w) \/ "remote_rule_sets" \in DOMAIN backup.rows
          /\ outcome' = [kind |-> "failed", before |-> stored[w], space |-> w]
          /\ UNCHANGED stored
    /\ restoring' = "none"
    /\ exporting' = IF stored' # stored /\ exporting.space = restoring THEN [exporting EXCEPT !.calm = FALSE] ELSE exporting
    /\ UNCHANGED <<backup, backupEdits>>

CutOffRestore ==
    /\ restoring # "none" /\ restoring' = "none"
    /\ NoOutcome /\ UNCHANGED <<stored, exporting, backup, backupEdits>>

(* DELETE / : every row but the settings, which forget the default token,  *)
(* and the builtin groups, whose lists stay until the defaults are ensured.*)
ClearRows(rows) ==
    [t \in DOMAIN rows \cap {"groups", "app_settings"} |-> IF t = "groups" THEN rows[t] ELSE {}]

-----------------------------------------------------------------------------
Touch(w, rows) ==
    /\ backupEdits < MaxBackupEdits /\ backupEdits' = backupEdits + 1
    /\ stored' = [stored EXCEPT ![w] = rows]
    /\ exporting' = IF exporting.space = w THEN [exporting EXCEPT !.calm = FALSE] ELSE exporting
    /\ NoOutcome /\ UNCHANGED <<backup, restoring>>

(* Other requests: a row is deleted, which a foreign key may forbid; a row *)
(* comes; lists in JSON columns change, and what they name is there then.  *)
DeleteRow(w) ==
    \E t \in DOMAIN stored[w] \ {"app_settings"} :
        LET gone == Cascades(t) IN
        /\ \A u \in DOMAIN stored[w] \ gone : Requires(u) \cap gone = {}
        /\ t = "collections" => ("groups" \in DOMAIN stored[w] => t \notin stored[w]["groups"])
        /\ Touch(w, [u \in DOMAIN stored[w] \ gone |-> stored[w][u]])

AddRow(w) ==
    \E t \in Names \ DOMAIN stored[w] : \E names \in SUBSET (Mentions(t) \cap DOMAIN stored[w]) :
        /\ Requires(t) \subseteq DOMAIN stored[w]
        /\ \A v \in Spaces : v # w => t \notin DOMAIN stored[v] \/ t = "app_settings"
        /\ Touch(w, [u \in DOMAIN stored[w] \cup {t} |-> IF u = t THEN Requires(t) \cup names ELSE stored[w][u]])

ClearSpace(w) == Touch(w, ClearRows(stored[w]))

BackupNext ==
    \/ \E w \in Spaces : \/ BeginExport(w) \/ BeginRestore(w)
                         \/ DeleteRow(w) \/ AddRow(w) \/ ClearSpace(w)
    \/ ReadTable \/ EndExport \/ WriteRestore \/ CutOffRestore

-----------------------------------------------------------------------------
BackupTypes ==
    /\ \A w \in Spaces : DOMAIN stored[w] \subseteq Names
    /\ exporting.space \in Spaces \cup {"none"} /\ exporting.read \in 0..Len(TABLES)
    /\ DOMAIN backup.rows \subseteq Names /\ restoring \in Spaces \cup {"none"}
    /\ outcome.kind \in {"none", "refused", "malformed", "failed", "restored"}
    /\ backupEdits \in 0..MaxBackupEdits

(* A backup that nothing disturbed brings its workspace back row by row;   *)
(* one whose rows named only rows that were there is not refused; and a    *)
(* restore that is refused or fails leaves the workspace as it was.        *)
BackupIsFaithful ==
    /\ outcome.kind = "restored" /\ backup.calm => stored[outcome.space] = backup.start
    /\ outcome.kind = "restored" => Meets(stored[outcome.space])
    /\ outcome.kind = "refused" /\ backup.calm => ~Meets(backup.start)
    /\ outcome.kind \in {"refused", "malformed", "failed"} => stored[outcome.space] = outcome.before
=============================================================================
