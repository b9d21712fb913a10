---------------------------- MODULE ServiceProofs ----------------------------
(***************************************************************************)
(* Proofs about services of their own: the fetch of a remote text, for any *)
(* origins and any bound on redirects; the rate limit, for any requests in *)
(* flight, windows and limit; the backup, for any number of workspaces and *)
(* of changes by other requests; the check of a graph of groups, for any   *)
(* list of groups.                                                         *)
(***************************************************************************)
EXTENDS SafeFetch, RateLimit, Backup, GroupReferenceGraph, SequenceTheorems, TLAPS

(***************************************************************************)
(* SafeFetch.  RequestsStaySafe is about requests already sent; what makes *)
(* it hold is SecretStaysHome, which is about the one to be sent next.     *)
(***************************************************************************)

FetchInv == FetchTypes /\ RequestsStaySafe /\ SecretStaysHome

(* The fetch begins inside the invariant. *)
LEMMA FetchBegins == FetchInit => FetchInv
<1> SUFFICES ASSUME FetchInit PROVE FetchInv
  OBVIOUS
<1>1. PICK url \in Url, method \in Methods, secret \in BOOLEAN :
        hop = [at |-> "idle", url |-> url, first |-> url.origin, left |-> FALSE, redirects |-> 0,
               method |-> method, secret |-> secret]
  BY DEF FetchInit
<1>2. sent = {}
  BY DEF FetchInit
<1>3. FetchTypes
  BY <1>1, <1>2, SafeFetchAssumption DEF FetchTypes, Hop, Url
<1>4. RequestsStaySafe /\ SecretStaysHome
  BY <1>1, <1>2 DEF RequestsStaySafe, SecretStaysHome
<1> QED BY <1>3, <1>4 DEF FetchInv

(* Every step of a fetch keeps it; following a redirect is the one that    *)
(* could not.                                                              *)
LEMMA FetchKeeps == FetchInv /\ [FetchNext]_fetchVars => FetchInv'
<1> SUFFICES ASSUME FetchInv, [FetchNext]_fetchVars PROVE FetchInv'
  OBVIOUS
<1>0. FetchTypes /\ RequestsStaySafe /\ SecretStaysHome
  BY DEF FetchInv
<1>1. CASE BeginFetch
  <2>1. hop' = [hop EXCEPT !.at = IF ParseSafe(hop.url) THEN "send" ELSE "thrown"] /\ sent' = sent
    BY <1>1 DEF BeginFetch
  <2>2. FetchTypes'
    BY <2>1, <1>0 DEF FetchTypes, Hop
  <2>3. RequestsStaySafe'
    BY <2>1, <1>0 DEF RequestsStaySafe
  <2>4. SecretStaysHome'
    BY <2>1, <1>0 DEF SecretStaysHome, ParseSafe, FetchTypes, Hop
  <2> QED BY <2>2, <2>3, <2>4 DEF FetchInv
<1>2. CASE SendRequest
  <2> DEFINE request == [url |-> hop.url, secret |-> hop.secret, first |-> hop.first]
  <2>1. hop.at = "send" /\ hop' = [hop EXCEPT !.at = "wait"] /\ sent' = sent \cup {request}
    BY <1>2 DEF SendRequest
  <2>2. request \in Request
    BY <1>0 DEF FetchTypes, Hop, Request
  <2>3. FetchTypes'
    BY <2>1, <2>2, <1>0 DEF FetchTypes, Hop
  <2>4. hop.url.verdict = "public" /\ (hop.secret => hop.url.origin = hop.first)
    BY <2>1, <1>0 DEF SecretStaysHome, FetchTypes, Hop
  <2>5. RequestsStaySafe'
    BY <2>1, <2>4, <1>0 DEF RequestsStaySafe
  <2>6. SecretStaysHome'
    BY <2>1, <1>0 DEF SecretStaysHome, FetchTypes, Hop
  <2> QED BY <2>3, <2>5, <2>6 DEF FetchInv
<1>3. CASE AnswerFetch \/ ThrowFetch
  <2>1. \E end \in {"returned", "thrown"} : hop' = [hop EXCEPT !.at = end]
    BY <1>3 DEF AnswerFetch, ThrowFetch
  <2>2. sent' = sent
    BY <1>3 DEF AnswerFetch, ThrowFetch
  <2>3. FetchTypes'
    BY <2>1, <2>2, <1>0 DEF FetchTypes, Hop
  <2>4. RequestsStaySafe'
    BY <2>2, <1>0 DEF RequestsStaySafe
  <2>5. SecretStaysHome'
    BY <2>1, <1>0 DEF SecretStaysHome, FetchTypes, Hop
  <2> QED BY <2>3, <2>4, <2>5 DEF FetchInv
<1>4. CASE FollowRedirect
  <2>1. PICK url \in Url, seeOther \in BOOLEAN :
          hop' = IF ~ParseSafe(url) THEN [hop EXCEPT !.at = "thrown"]
                 ELSE [hop EXCEPT !.at = "send", !.url = url, !.redirects = @ + 1,
                                  !.left = @ \/ url.origin # hop.url.origin,
                                  !.secret = KeepsSecret(url),
                                  !.method = IF seeOther /\ @ # "HEAD" THEN "GET" ELSE @]
    BY <1>4 DEF FollowRedirect
  <2>2. sent' = sent /\ hop.redirects < MaxRedirects
    BY <1>4 DEF FollowRedirect
  <2>3. RequestsStaySafe'
    BY <2>2, <1>0 DEF RequestsStaySafe
  <2>4. CASE ~ParseSafe(url)
    <3>1. hop' = [hop EXCEPT !.at = "thrown"]
      BY <2>1, <2>4
    <3>2. FetchTypes'
      BY <3>1, <2>2, <1>0 DEF FetchTypes, Hop
    <3>3. SecretStaysHome'
      BY <3>1, <1>0 DEF SecretStaysHome, FetchTypes, Hop
    <3> QED BY <3>2, <3>3, <2>3 DEF FetchInv
  <2>5. CASE ParseSafe(url)
    <3> DEFINE method == IF seeOther /\ hop.method # "HEAD" THEN "GET" ELSE hop.method
    <3>1. hop' = [hop EXCEPT !.at = "send", !.url = url, !.redirects = hop.redirects + 1,
                             !.left = hop.left \/ url.origin # hop.url.origin,
                             !.secret = KeepsSecret(url), !.method = method]
      BY <2>1, <2>5
    <3>2. hop \in Hop /\ hop.redirects + 1 \in Nat /\ hop.redirects + 1 <= MaxRedirects
      BY <2>2, <1>0, SafeFetchAssumption DEF FetchTypes, Hop
    <3>3. KeepsSecret(url) \in BOOLEAN /\ method \in Methods /\ (hop.left \/ url.origin # hop.url.origin) \in BOOLEAN
      BY <3>2 DEF KeepsSecret, Hop, Methods
    <3>4. /\ hop'.at = "send" /\ hop'.url = url /\ hop'.redirects = hop.redirects + 1
          /\ hop'.left = (hop.left \/ url.origin # hop.url.origin)
          /\ hop'.secret = KeepsSecret(url) /\ hop'.first = hop.first
      BY <3>1, <3>2 DEF Hop
    <3>5. hop' \in Hop
      BY <3>1, <3>2, <3>3 DEF Hop
    <3>6. FetchTypes'
      BY <3>2, <3>4, <3>5, <2>2, <1>0 DEF FetchTypes
    <3>7. url.verdict = "public"
      BY <2>5 DEF ParseSafe
    <3>8. SecretStaysHome'
      BY <3>2, <3>4, <3>7, <1>0 DEF SecretStaysHome, KeepsSecret, Hop
    <3> QED BY <3>6, <3>8, <2>3 DEF FetchInv
  <2> QED BY <2>4, <2>5
<1>5. CASE UNCHANGED fetchVars
  BY <1>5, <1>0 DEF fetchVars, FetchInv, FetchTypes, RequestsStaySafe, SecretStaysHome
<1> QED BY <1>1, <1>2, <1>3, <1>4, <1>5 DEF FetchNext

(* safeRemoteFetch: along every chain of redirects only checked addresses  *)
(* are asked, and credentials reach no origin but the first.               *)
THEOREM FetchesStaySafe == FetchSpec => []RequestsStaySafe
<1>1. FetchInv => RequestsStaySafe
  BY DEF FetchInv
<1> QED BY <1>1, FetchBegins, FetchKeeps, PTL DEF FetchSpec

(* A fetch follows at most options.maxRedirects redirects, and its state   *)
(* keeps its types.                                                        *)
THEOREM FetchTypesHold == FetchSpec => []FetchTypes
<1>1. FetchInv => FetchTypes
  BY DEF FetchInv
<1> QED BY <1>1, FetchBegins, FetchKeeps, PTL DEF FetchSpec

(***************************************************************************)
(* RateLimit.  Overlapping requests make the count too low, never too high.*)
(***************************************************************************)

RateInv == RateTypes /\ CountsAreLower /\ RefusedOnlyAtLimit

(* Nothing is counted and nobody refused at first. *)
LEMMA RateBegins == RateInit => RateInv
<1> SUFFICES ASSUME RateInit PROVE RateInv
  OBVIOUS
<1>1. RateTypes
  BY DEF RateInit, RateTypes, RateCall
<1>2. CountsAreLower /\ RefusedOnlyAtLimit
  BY DEF RateInit, CountsAreLower, RefusedOnlyAtLimit
<1> QED BY <1>1, <1>2 DEF RateInv

(* Asking reads a count that is not too high; refusing needs one at the    *)
(* limit; answering counts one more before it stores one more.             *)
LEMMA RateKeeps == RateInv /\ [RateNext]_rateVars => RateInv'
<1> SUFFICES ASSUME RateInv, [RateNext]_rateVars PROVE RateInv'
  OBVIOUS
<1>0. RateTypes /\ CountsAreLower /\ RefusedOnlyAtLimit
  BY DEF RateInv
<1>1. CASE NextMinute
  BY <1>1, <1>0 DEF NextMinute, RateInv, RateTypes, CountsAreLower, RefusedOnlyAtLimit
<1>2. ASSUME NEW c \in RateCalls, Ask429(c) PROVE RateInv'
  <2>0. UNCHANGED <<minute, kvCount, counted>> /\ minute \in Minutes
    BY <1>2, <1>0 DEF Ask429, RateTypes
  <2>1. CASE Admits(kvCount[minute])
    <3> DEFINE call == [at |-> "handled", window |-> minute, current |-> kvCount[minute]]
    <3>1. rateCalls' = [rateCalls EXCEPT ![c] = call] /\ refused' = refused
      BY <1>2, <2>1 DEF Ask429
    <3>2. call \in RateCall
      BY <2>0, <1>0 DEF RateTypes, RateCall
    <3>3. RateTypes'
      BY <3>1, <3>2, <2>0, <1>0 DEF RateTypes
    <3>4. ASSUME NEW d \in RateCalls, rateCalls'[d].at = "handled"
          PROVE rateCalls'[d].current <= counted'[rateCalls'[d].window]
      <4>1. CASE d = c
        BY <4>1, <3>1, <2>0, <1>0 DEF RateTypes, CountsAreLower
      <4>2. CASE d # c
        BY <4>2, <3>1, <3>4, <2>0, <1>0 DEF RateTypes, CountsAreLower
      <4> QED BY <4>1, <4>2
    <3>5. CountsAreLower'
      BY <3>4, <2>0, <1>0 DEF CountsAreLower
    <3>6. RefusedOnlyAtLimit'
      BY <3>1, <2>0, <1>0 DEF RefusedOnlyAtLimit
    <3> QED BY <3>3, <3>5, <3>6 DEF RateInv
  <2>2. CASE ~Admits(kvCount[minute])
    <3>1. refused' = refused \cup {minute} /\ rateCalls' = rateCalls
      BY <1>2, <2>2 DEF Ask429
    <3>2. counted[minute] >= Limit
      BY <2>0, <2>2, <1>0, RateLimitAssumption DEF Admits, CountsAreLower, RateTypes
    <3> QED
      BY <3>1, <3>2, <2>0, <1>0 DEF RateInv, RateTypes, CountsAreLower, RefusedOnlyAtLimit
  <2> QED BY <2>1, <2>2
<1>3. ASSUME NEW c \in RateCalls, Answer429(c) PROVE RateInv'
  <2> DEFINE w == rateCalls[c].window
  <2>0. rateCalls[c] \in RateCall /\ w \in Minutes /\ rateCalls[c].at = "handled"
    BY <1>3, <1>0 DEF Answer429, RateTypes, RateCall
  <2>1. rateCalls' = [rateCalls EXCEPT ![c].at = "idle"] /\ UNCHANGED <<minute, refused>>
    BY <1>3 DEF Answer429
  <2>2. [rateCalls[c] EXCEPT !.at = "idle"] \in RateCall
    BY <2>0 DEF RateCall
  <2>3. rateCalls' \in [RateCalls -> RateCall]
    BY <2>1, <2>2, <1>0 DEF RateTypes
  <2>4. \A v \in Minutes : counted'[v] \in Nat /\ counted'[v] >= counted[v]
    BY <1>3, <2>0, <1>0 DEF Answer429, RateTypes
  <2>5. counted' \in [Minutes -> Nat]
    BY <1>3, <2>0, <1>0 DEF Answer429, RateTypes
  <2>6. kvCount' \in [Minutes -> Nat] /\ \A v \in Minutes : kvCount'[v] <= counted'[v]
    <3>1. CASE kvCount' = kvCount
      BY <3>1, <2>4, <1>0 DEF RateTypes, CountsAreLower
    <3>2. CASE kvCount' # kvCount
      <4>1. /\ counted' = [counted EXCEPT ![w] = @ + 1]
            /\ kvCount' = [kvCount EXCEPT ![w] = Counted(rateCalls[c].current)]
        BY <3>2, <1>3 DEF Answer429
      <4>2. rateCalls[c].current \in Nat /\ rateCalls[c].current <= counted[w]
        BY <2>0, <1>0 DEF CountsAreLower, RateCall
      <4> QED BY <4>1, <4>2, <2>0, <1>0 DEF RateTypes, CountsAreLower, Counted
    <3> QED BY <3>1, <3>2
  <2>7. ASSUME NEW d \in RateCalls, rateCalls'[d].at = "handled"
        PROVE rateCalls'[d].current <= counted'[rateCalls'[d].window]
    <3>1. d # c
      BY <2>7, <2>1, <2>0, <1>0 DEF RateTypes
    <3>2. rateCalls'[d] = rateCalls[d] /\ rateCalls[d] \in RateCall
      BY <3>1, <2>1, <1>0 DEF RateTypes
    <3>3. rateCalls[d].current \in Nat /\ rateCalls[d].window \in Minutes
      BY <3>2 DEF RateCall
    <3>4. rateCalls[d].current <= counted[rateCalls[d].window]
      BY <3>2, <2>7, <1>0 DEF CountsAreLower
    <3>5. counted[rateCalls[d].window] \in Nat
      BY <3>3, <1>0 DEF RateTypes
    <3> QED BY <3>2, <3>3, <3>4, <3>5, <2>4
  <2>8. RefusedOnlyAtLimit'
    <3>1. \A v \in refused : v \in Minutes /\ counted[v] \in Nat /\ counted[v] >= Limit
      BY <1>0 DEF RateTypes, RefusedOnlyAtLimit
    <3> QED BY <3>1, <2>1, <2>4, RateLimitAssumption DEF RefusedOnlyAtLimit
  <2>9. RateTypes'
    BY <2>1, <2>3, <2>5, <2>6, <1>0 DEF RateTypes
  <2>10. CountsAreLower'
    BY <2>6, <2>7 DEF CountsAreLower
  <2> QED BY <2>8, <2>9, <2>10 DEF RateInv
<1>4. CASE UNCHANGED rateVars
  BY <1>4, <1>0 DEF rateVars, RateInv, RateTypes, CountsAreLower, RefusedOnlyAtLimit
<1> QED BY <1>1, <1>2, <1>3, <1>4 DEF RateNext

(* kvRateLimit: however requests overlap and writes fail, who is refused   *)
(* in a minute has had as many counted answers in it as the limit allows.  *)
THEOREM RefusalsAreEarned == RateSpec => []RefusedOnlyAtLimit
<1>1. RateInv => RefusedOnlyAtLimit
  BY DEF RateInv
<1> QED BY <1>1, RateBegins, RateKeeps, PTL DEF RateSpec

(* The minutes, the counts and the requests keep their types.              *)
THEOREM RateTypesHold == RateSpec => []RateTypes
<1>1. RateInv => RateTypes
  BY DEF RateInv
<1> QED BY <1>1, RateBegins, RateKeeps, PTL DEF RateSpec

(***************************************************************************)
(* Backup: what a restore makes of a workspace, and what it leaves when it *)
(* does not succeed.                                                       *)
(***************************************************************************)

BackupSpec == BackupInit /\ [][BackupNext]_backupVars

-----------------------------------------------------------------------------
Rows == UNION {[D -> SUBSET Names] : D \in SUBSET Names}
Space == Spaces \cup {"none"}
Counts == 0..8
Export == [space : Space, read : Counts, calm : BOOLEAN, start : Rows, copy : Rows]
File == [made : BOOLEAN, calm : BOOLEAN, start : Rows, rows : Rows]
Outcome == [kind : {"none", "refused", "malformed", "failed", "restored"},
            before : Rows, space : Space]

ExportOK == exporting \in Export
FileOK == backup \in File
RestOK ==
    /\ stored \in [Spaces -> Rows]
    /\ restoring \in Space /\ outcome \in Outcome

(* The tables an export has read, and what it has of them. *)
TablesRead(n) == {TABLES[i] : i \in 1..n}
Copied(rows, n) == [t \in DOMAIN rows \cap TablesRead(n) |-> rows[t]]

(* An export that nothing disturbed has seen one state of its workspace. *)
ExportIsOneState ==
    exporting.space # "none" /\ exporting.calm =>
        /\ stored[exporting.space] = exporting.start
        /\ exporting.copy = Copied(exporting.start, exporting.read)
FileIsWhole ==
    /\ backup.made => exporting.space = "none"
    /\ backup.calm => backup.rows = backup.start
RestoreIsChecked == restoring # "none" => backup.made /\ Meets(backup.rows)

BackupInv ==
    /\ ExportOK /\ FileOK /\ RestOK
    /\ ExportIsOneState /\ FileIsWhole /\ RestoreIsChecked /\ BackupIsFaithful

-----------------------------------------------------------------------------
(* The rows of a workspace. *)
LEMMA NamesOfTables ==
  /\ Len(TABLES) = 8 /\ TablesRead(0) = {} /\ Names = TablesRead(8)
  /\ \A n \in 0..7 : /\ TABLES[n + 1] \in Names
                      /\ TablesRead(n + 1) = TablesRead(n) \cup {TABLES[n + 1]}
<1>1. Len(TABLES) = 8
  BY DEF TABLES
<1>2. TablesRead(0) = {}
  BY DEF TablesRead
<1>3. Names = TablesRead(8)
  <2>1. /\ TABLES[1] = "sources" /\ TABLES[2] = "nodes" /\ TABLES[3] = "collections"
        /\ TABLES[4] = "groups" /\ TABLES[5] = "rules" /\ TABLES[6] = "remote_rule_sets"
        /\ TABLES[7] = "export_configs" /\ TABLES[8] = "app_settings"
    BY DEF TABLES
  <2>2. 1..8 = {1, 2, 3, 4, 5, 6, 7, 8}
    OBVIOUS
  <2> HIDE DEF TABLES
  <2>3. TablesRead(8) = {TABLES[1], TABLES[2], TABLES[3], TABLES[4], TABLES[5], TABLES[6],
                         TABLES[7], TABLES[8]}
    BY <2>2 DEF TablesRead
  <2> QED BY <2>1, <2>3 DEF Names
<1>4. ASSUME NEW n \in 0..7
      PROVE  /\ TABLES[n + 1] \in Names
             /\ TablesRead(n + 1) = TablesRead(n) \cup {TABLES[n + 1]}
  <2>1. n + 1 \in 1..8 /\ 1..(n + 1) = (1..n) \cup {n + 1}
    OBVIOUS
  <2> HIDE DEF TABLES
  <2> QED BY <1>3, <2>1 DEF TablesRead
<1> QED BY <1>1, <1>2, <1>3, <1>4

LEMMA RowsFacts ==
  /\ NoBackup \in Rows /\ Whole \in Rows
  /\ \A D \in SUBSET Names : \A f \in [D -> SUBSET Names] : f \in Rows
  /\ \A f \in Rows : /\ DOMAIN f \in SUBSET Names /\ f = [t \in DOMAIN f |-> f[t]]
                     /\ \A t \in DOMAIN f : f[t] \in SUBSET Names
<1>1. \A D \in SUBSET Names : \A f \in [D -> SUBSET Names] : f \in Rows
  BY DEF Rows
<1>2. NoBackup \in [{} -> SUBSET Names]
  BY DEF NoBackup
<1>3. \A t : Requires(t) \cup Mentions(t) \in SUBSET Names
  BY DEF Requires, Mentions, Names
<1>4. Whole \in [Names -> SUBSET Names]
  BY <1>3 DEF Whole
<1>5. \A f \in Rows : /\ DOMAIN f \in SUBSET Names /\ f = [t \in DOMAIN f |-> f[t]]
                      /\ \A t \in DOMAIN f : f[t] \in SUBSET Names
  BY DEF Rows
<1> QED BY <1>1, <1>2, <1>4, <1>5

LEMMA NothingHappened ==
  ASSUME NoOutcome PROVE outcome' \in Outcome /\ outcome'.kind = "none"
  BY RowsFacts DEF NoOutcome, Outcome, Space

LEMMA NoExportIsExport ==
  /\ NoExport \in Export /\ NoExport.space = "none" /\ NoExport.calm
  /\ NoExport.read = 0 /\ NoExport.copy = NoBackup
  BY RowsFacts DEF NoExport, Export, Counts, Space

LEMMA BackupBegins == ASSUME BackupInit PROVE BackupInv
<1>1. exporting = NoExport
  BY DEF BackupInit, NoExport
<1>2. ExportOK /\ exporting.space = "none"
  BY <1>1, NoExportIsExport DEF ExportOK
<1>3. FileOK /\ ~ backup.made /\ ~ backup.calm
  BY RowsFacts DEF BackupInit, FileOK, File
<1>4. /\ stored \in [Spaces -> Rows] /\ restoring = "none"
      /\ outcome.kind = "none" /\ outcome \in Outcome
  BY RowsFacts DEF BackupInit, Outcome, Space
<1> QED BY <1>2, <1>3, <1>4
    DEF BackupInv, RestOK, Space, ExportIsOneState, FileIsWhole, RestoreIsChecked, BackupIsFaithful

-----------------------------------------------------------------------------
(* Export. *)
LEMMA ExportBegins ==
  ASSUME BackupInv, NEW w \in Spaces, BeginExport(w) PROVE BackupInv'
<1>1. UNCHANGED <<stored, backup, restoring>> /\ outcome' \in Outcome /\ outcome'.kind = "none"
  BY NothingHappened DEF BeginExport
<1>2. stored[w] \in Rows
  BY DEF BackupInv, RestOK
<1>3. /\ exporting' \in Export /\ exporting'.space = w /\ exporting'.start = stored[w]
      /\ exporting'.read = 0 /\ exporting'.copy = NoBackup
  BY <1>2, NoExportIsExport DEF BeginExport, Export, Counts, Space
<1>4. ~ backup.made
  BY DEF BeginExport
<1>5. Copied(stored[w], 0) = NoBackup
  BY NamesOfTables DEF Copied, NoBackup
<1> QED BY <1>1, <1>3, <1>4, <1>5
    DEF BackupInv, ExportOK, FileOK, RestOK, ExportIsOneState, FileIsWhole, RestoreIsChecked,
        BackupIsFaithful, Meets

LEMMA TableIsRead == ASSUME BackupInv, ReadTable PROVE BackupInv'
<1> DEFINE t == TABLES[exporting.read + 1]
           rows == stored[exporting.space]
           copy == exporting.copy
           more == [u \in DOMAIN copy \cup {t} |-> IF u = t THEN rows[t] ELSE copy[u]]
<1>1. UNCHANGED <<stored, backup, restoring>> /\ outcome' \in Outcome /\ outcome'.kind = "none"
  BY NothingHappened DEF ReadTable
<1>2. exporting \in Export /\ exporting.space \in Spaces /\ exporting.read \in 0..7
  BY NamesOfTables DEF ReadTable, BackupInv, ExportOK, Export, Counts, Space
<1>3. rows \in Rows /\ copy \in Rows /\ t \in Names
  BY <1>2, NamesOfTables DEF BackupInv, RestOK, Export
<1>4. t \in DOMAIN rows => more \in Rows
  <2> HIDE DEF t, rows, copy
  <2>1. t \in DOMAIN rows => more \in [DOMAIN copy \cup {t} -> SUBSET Names]
    BY <1>3, RowsFacts
  <2> HIDE DEF more
  <2> QED BY <1>3, <2>1, RowsFacts
<1>5. exporting' = [exporting EXCEPT !.read = exporting.read + 1,
                      !.copy = IF t \in DOMAIN rows THEN more ELSE copy]
  BY DEF ReadTable
<1> DEFINE next == IF t \in DOMAIN rows THEN more ELSE copy
<1>6. next \in Rows /\ exporting' = [exporting EXCEPT !.read = exporting.read + 1, !.copy = next]
  BY <1>3, <1>4, <1>5
<1> HIDE DEF more, t, rows, next
<1>7. /\ exporting' \in Export /\ exporting'.space = exporting.space
      /\ exporting'.start = exporting.start /\ exporting'.calm = exporting.calm
      /\ exporting'.read = exporting.read + 1
      /\ exporting'.copy = next
  <2>1. PICK n \in Counts : n = exporting.read + 1
    BY <1>2 DEF Counts
  <2>2. exporting' = [exporting EXCEPT !.read = n, !.copy = next]
    BY <1>6, <2>1
  <2>3. /\ exporting' \in Export /\ exporting'.space = exporting.space
        /\ exporting'.start = exporting.start /\ exporting'.calm = exporting.calm
        /\ exporting'.read = n /\ exporting'.copy = next
    BY <1>2, <1>6, <2>2 DEF Export
  <2> QED BY <2>1, <2>3
<1>8. ASSUME rows = exporting.start, copy = Copied(rows, exporting.read)
      PROVE  next = Copied(rows, exporting.read + 1)
  <2>1. TablesRead(exporting.read + 1) = TablesRead(exporting.read) \cup {t}
    BY <1>2, NamesOfTables DEF t
  <2>2. CASE t \in DOMAIN rows
    <3>1. DOMAIN copy \cup {t} = DOMAIN rows \cap TablesRead(exporting.read + 1)
      BY <1>8, <2>1, <2>2 DEF Copied
    <3>2. \A u \in DOMAIN copy \cup {t} : (IF u = t THEN rows[t] ELSE copy[u]) = rows[u]
      BY <1>8 DEF Copied
    <3>3. more = Copied(rows, exporting.read + 1)
      BY <3>1, <3>2 DEF more, Copied
    <3> QED BY <2>2, <3>3 DEF next
  <2>3. CASE t \notin DOMAIN rows
    <3>1. DOMAIN rows \cap TablesRead(exporting.read + 1)
            = DOMAIN rows \cap TablesRead(exporting.read)
      BY <2>1, <2>3
    <3> QED BY <1>8, <2>3, <3>1 DEF next, Copied
  <2> QED BY <2>2, <2>3
<1>9. ExportIsOneState'
  BY <1>1, <1>2, <1>7, <1>8 DEF BackupInv, ExportIsOneState, rows
<1> QED BY <1>1, <1>2, <1>7, <1>9
    DEF BackupInv, ExportOK, FileOK, RestOK, FileIsWhole, RestoreIsChecked, BackupIsFaithful

LEMMA ExportEnds == ASSUME BackupInv, EndExport PROVE BackupInv'
<1>1. /\ UNCHANGED <<stored, restoring>> /\ outcome' \in Outcome /\ outcome'.kind = "none"
      /\ exporting' = NoExport
  BY NothingHappened DEF EndExport
<1>2. /\ exporting \in Export /\ exporting.space # "none" /\ exporting.read = 8
      /\ restoring = "none"
  BY NamesOfTables DEF EndExport, BackupInv, ExportOK, FileIsWhole, RestoreIsChecked
<1>3. /\ backup' \in File /\ backup'.rows = exporting.copy /\ backup'.start = exporting.start
      /\ backup'.calm = exporting.calm
  BY <1>2 DEF EndExport, Export, Counts, File
<1>4. Copied(exporting.start, 8) = exporting.start
  <2>1. exporting.start \in Rows
    BY <1>2 DEF Export
  <2>2. DOMAIN exporting.start \cap TablesRead(8) = DOMAIN exporting.start
    BY <2>1, RowsFacts, NamesOfTables
  <2> QED BY <2>1, <2>2, RowsFacts DEF Copied
<1>5. FileIsWhole'
  BY <1>1, <1>2, <1>3, <1>4, NoExportIsExport DEF BackupInv, ExportIsOneState, FileIsWhole
<1> QED BY <1>1, <1>2, <1>3, <1>5, NoExportIsExport
    DEF BackupInv, ExportOK, FileOK, RestOK, ExportIsOneState, RestoreIsChecked, BackupIsFaithful

-----------------------------------------------------------------------------
(* Restore. *)
LEMMA RestoreBegins ==
  ASSUME BackupInv, NEW w \in Spaces, BeginRestore(w) PROVE BackupInv'
<1>1. UNCHANGED <<stored, exporting, backup>> /\ backup.made
  BY DEF BeginRestore
<1>2. stored[w] \in Rows
  BY DEF BackupInv, RestOK
<1>3. \/ /\ restoring' = w /\ Meets(backup.rows)
         /\ outcome' \in Outcome /\ outcome'.kind = "none"
      \/ /\ UNCHANGED restoring
         /\ outcome' = [kind |-> "malformed", before |-> stored[w], space |-> w]
      \/ /\ UNCHANGED restoring /\ ~ Meets(backup.rows)
         /\ outcome' = [kind |-> "refused", before |-> stored[w], space |-> w]
  BY NothingHappened DEF BeginRestore, Validate
<1>4. outcome' \in Outcome /\ restoring' \in Space
  BY <1>2, <1>3 DEF Outcome, Space, BackupInv, RestOK
<1>5. ExportOK' /\ FileOK' /\ RestOK' /\ ExportIsOneState' /\ FileIsWhole'
  BY <1>1, <1>4 DEF BackupInv, ExportOK, FileOK, RestOK, ExportIsOneState, FileIsWhole
<1>6. RestoreIsChecked'
  BY <1>1, <1>3 DEF BackupInv, RestoreIsChecked, Meets
<1>7. BackupIsFaithful'
  <2>1. outcome'.kind = "refused" => ~ Meets(backup.rows)
    BY <1>3
  <2>2. outcome'.kind = "refused" /\ backup'.calm => ~ Meets(backup.start)
    BY <1>1, <2>1 DEF BackupInv, FileIsWhole
  <2>3. /\ outcome'.kind # "restored"
        /\ outcome'.kind # "none" => stored'[outcome'.space] = outcome'.before
    BY <1>1, <1>3
  <2> QED BY <1>1, <2>2, <2>3 DEF BackupIsFaithful, Meets
<1> QED BY <1>5, <1>6, <1>7 DEF BackupInv

LEMMA RestoreWrites == ASSUME BackupInv, WriteRestore PROVE BackupInv'
<1>1. /\ restoring \in Spaces /\ restoring' = "none" /\ UNCHANGED backup
      /\ backup.rows \in Rows /\ stored \in [Spaces -> Rows] /\ stored[restoring] \in Rows
  BY DEF WriteRestore, BackupInv, RestOK, FileOK, File, Space
<1>2. exporting.space = "none" /\ Meets(backup.rows) /\ exporting' = exporting
  BY <1>1 DEF WriteRestore, BackupInv, RestoreIsChecked, FileIsWhole
<1>3. \/ /\ stored' = [stored EXCEPT ![restoring] = backup.rows]
         /\ outcome' = [kind |-> "restored", before |-> stored[restoring], space |-> restoring]
      \/ /\ UNCHANGED stored
         /\ outcome' = [kind |-> "failed", before |-> stored[restoring], space |-> restoring]
  BY DEF WriteRestore
<1>4. stored' \in [Spaces -> Rows] /\ outcome' \in Outcome
  BY <1>1, <1>3 DEF Outcome, Space
<1>5. ExportOK' /\ FileOK' /\ RestOK' /\ ExportIsOneState' /\ FileIsWhole' /\ RestoreIsChecked'
  BY <1>1, <1>2, <1>4 DEF BackupInv, ExportOK, FileOK, RestOK, Space, ExportIsOneState,
                         FileIsWhole, RestoreIsChecked
<1>6. BackupIsFaithful'
  <2>1. CASE /\ stored' = [stored EXCEPT ![restoring] = backup.rows]
             /\ outcome' = [kind |-> "restored", before |-> stored[restoring], space |-> restoring]
    <3>1. stored'[outcome'.space] = backup.rows /\ outcome'.kind = "restored"
      BY <1>1, <2>1
    <3>2. backup.calm => backup.rows = backup.start
      BY DEF BackupInv, FileIsWhole
    <3>3. Meets(stored'[outcome'.space])
      BY <1>2, <3>1
    <3> QED BY <1>1, <3>1, <3>2, <3>3 DEF BackupIsFaithful, Meets
  <2>2. CASE /\ UNCHANGED stored
             /\ outcome' = [kind |-> "failed", before |-> stored[restoring], space |-> restoring]
    BY <1>1, <2>2 DEF BackupIsFaithful
  <2> QED BY <1>3, <2>1, <2>2
<1> QED BY <1>5, <1>6 DEF BackupInv

LEMMA RestoreIsCutOff == ASSUME BackupInv, CutOffRestore PROVE BackupInv'
<1>1. /\ UNCHANGED <<stored, exporting, backup>> /\ restoring' = "none"
      /\ outcome' \in Outcome /\ outcome'.kind = "none"
  BY NothingHappened DEF CutOffRestore
<1> QED BY <1>1 DEF BackupInv, ExportOK, FileOK, RestOK, Space, ExportIsOneState, FileIsWhole,
                    RestoreIsChecked, BackupIsFaithful

-----------------------------------------------------------------------------
(* Other requests. *)
LEMMA Touched ==
  ASSUME BackupInv, NEW w \in Spaces, NEW rows \in Rows, Touch(w, rows) PROVE BackupInv'
<1>1. /\ UNCHANGED <<backup, restoring>> /\ stored' = [stored EXCEPT ![w] = rows]
      /\ outcome' \in Outcome /\ outcome'.kind = "none"
  BY NothingHappened DEF Touch
<1>2. stored \in [Spaces -> Rows] /\ exporting \in Export
  BY DEF BackupInv, RestOK, ExportOK
<1>3. /\ exporting' \in Export /\ exporting'.space = exporting.space
      /\ exporting'.start = exporting.start /\ exporting'.copy = exporting.copy
      /\ exporting'.read = exporting.read
      /\ exporting'.calm => exporting.calm /\ exporting.space # w
  BY <1>2 DEF Touch, Export
<1>4. stored' \in [Spaces -> Rows] /\ \A v \in Spaces : v # w => stored'[v] = stored[v]
  BY <1>1, <1>2
<1>5. ExportIsOneState'
  BY <1>2, <1>3, <1>4 DEF BackupInv, ExportIsOneState, Export, Space
<1> QED BY <1>1, <1>3, <1>4, <1>5
    DEF BackupInv, ExportOK, FileOK, RestOK, FileIsWhole, RestoreIsChecked, BackupIsFaithful

LEMMA OthersTouch ==
  ASSUME BackupInv, NEW w \in Spaces, DeleteRow(w) \/ AddRow(w) \/ ClearSpace(w)
  PROVE  BackupInv'
<1>1. /\ stored[w] \in Rows /\ DOMAIN stored[w] \in SUBSET Names
      /\ \A t \in DOMAIN stored[w] : stored[w][t] \in SUBSET Names
  BY RowsFacts DEF BackupInv, RestOK
<1>2. \A gone : [u \in DOMAIN stored[w] \ gone |-> stored[w][u]] \in Rows
  <2> TAKE gone
  <2>1. [u \in DOMAIN stored[w] \ gone |-> stored[w][u]]
          \in [DOMAIN stored[w] \ gone -> SUBSET Names]
    BY <1>1
  <2> QED BY <1>1, <2>1, RowsFacts
<1>3. ASSUME NEW t \in Names, NEW new \in SUBSET Names
      PROVE  [u \in DOMAIN stored[w] \cup {t} |-> IF u = t THEN new ELSE stored[w][u]] \in Rows
  <2> DEFINE more == [u \in DOMAIN stored[w] \cup {t} |-> IF u = t THEN new ELSE stored[w][u]]
  <2>1. more \in [DOMAIN stored[w] \cup {t} -> SUBSET Names]
    BY <1>1
  <2> HIDE DEF more
  <2>2. more \in Rows
    BY <1>1, <2>1, RowsFacts
  <2> QED BY <2>2 DEF more
<1>4. ClearRows(stored[w]) \in Rows
  <2>1. ClearRows(stored[w]) \in [DOMAIN stored[w] \cap {"groups", "app_settings"} -> SUBSET Names]
    BY <1>1 DEF ClearRows
  <2> QED BY <1>1, <2>1, RowsFacts
<1>5. CASE DeleteRow(w)
  BY <1>2, <1>5, Touched DEF DeleteRow
<1>6. CASE AddRow(w)
  <2>1. PICK t \in Names : \E names \in SUBSET Mentions(t) :
          Touch(w, [u \in DOMAIN stored[w] \cup {t} |->
                      IF u = t THEN Requires(t) \cup names ELSE stored[w][u]])
    BY <1>6 DEF AddRow
  <2>2. \A names \in SUBSET Mentions(t) : Requires(t) \cup names \in SUBSET Names
    BY DEF Requires, Mentions, Names
  <2> QED BY <1>3, <2>1, <2>2, Touched
<1>7. CASE ClearSpace(w)
  BY <1>4, <1>7, Touched DEF ClearSpace
<1> QED BY <1>5, <1>6, <1>7

LEMMA BackupKeeps == ASSUME BackupInv, [BackupNext]_backupVars PROVE BackupInv'
<1>1. CASE UNCHANGED backupVars
  BY <1>1 DEF backupVars, BackupInv, ExportOK, FileOK, RestOK, ExportIsOneState, FileIsWhole,
              RestoreIsChecked, BackupIsFaithful, Meets
<1>2. CASE BackupNext
  BY <1>2, ExportBegins, TableIsRead, ExportEnds, RestoreBegins, RestoreWrites, RestoreIsCutOff,
     OthersTouch DEF BackupNext
<1> QED BY <1>1, <1>2

(* However exports, restores, deletions and edits overlap, a restore of a  *)
(* backup that nothing disturbed gives the workspace back as it was, it is *)
(* refused only for rows that name others which were not there, and one    *)
(* that does not succeed leaves the workspace alone.                       *)
THEOREM BackupIsFaithfulHolds == BackupSpec => []BackupIsFaithful
<1>1. BackupInv => BackupIsFaithful
  BY DEF BackupInv
<1> QED BY <1>1, BackupBegins, BackupKeeps, PTL DEF BackupSpec

(* The tables, the export, the file and the restore keep their types.      *)
THEOREM BackupTypesHold == ASSUME MaxBackupEdits \in Nat PROVE BackupSpec => []BackupTypes
<1> DEFINE Edits == backupEdits \in 0..MaxBackupEdits
<1>1. BackupInit => Edits
  BY DEF BackupInit
<1>2. Edits /\ [BackupNext]_backupVars => Edits'
  <2> SUFFICES ASSUME Edits, [BackupNext]_backupVars PROVE Edits'
    OBVIOUS
  <2>1. ASSUME NEW w, NEW rows, Touch(w, rows) PROVE Edits'
    BY <2>1 DEF Touch
  <2>2. ASSUME NEW w, DeleteRow(w) \/ AddRow(w) \/ ClearSpace(w) PROVE Edits'
    BY <2>1, <2>2 DEF DeleteRow, AddRow, ClearSpace
  <2>3. ASSUME NEW w, BeginExport(w) \/ BeginRestore(w) PROVE Edits'
    BY <2>3 DEF BeginExport, BeginRestore
  <2>4. CASE ReadTable \/ EndExport \/ WriteRestore \/ CutOffRestore
    BY <2>4 DEF ReadTable, EndExport, WriteRestore, CutOffRestore
  <2>5. CASE UNCHANGED backupVars
    BY <2>5 DEF backupVars
  <2> QED BY <2>2, <2>3, <2>4, <2>5 DEF BackupNext
<1>3. BackupInv /\ Edits => BackupTypes
  <2> SUFFICES ASSUME BackupInv, Edits PROVE BackupTypes
    OBVIOUS
  <2>1. \A rows \in Rows : DOMAIN rows \subseteq Names
    BY DEF Rows
  <2>2. Len(TABLES) = 8
    BY NamesOfTables
  <2> QED BY <2>1, <2>2 DEF BackupInv, ExportOK, FileOK, RestOK, BackupTypes, Export, File, Outcome,
                        Space, Counts
<1> QED BY <1>1, <1>2, <1>3, BackupBegins, BackupKeeps, PTL DEF BackupSpec

(***************************************************************************)
(* GroupReferenceGraph: validateGroupReferenceGraph decides correctly for  *)
(* every list of groups: a list that is accepted is acyclic, and a path it *)
(* reports is a cycle.  The invariant is that of depth-first search: the   *)
(* frames of the stack form a path, state 1 marks just them, and the       *)
(* finished groups refer only to finished groups and form no cycle.        *)
(***************************************************************************)

IdAt(i) == nodes[i].id

(* The first n nodes are registered, under different ids. *)
Loaded(n) ==
    /\ DOMAIN references = {IdAt(i) : i \in 1..n}
    /\ \A i, j \in 1..n : IdAt(i) = IdAt(j) => i = j
    /\ \A i \in 1..n : references[IdAt(i)] = nodes[i].groupIds

Registration ==
    /\ phase = "register" => cursor <= Len(nodes) + 1 /\ Loaded(cursor - 1)
    /\ phase \in {"targets", "search"} => Loaded(Len(nodes))
    /\ phase = "search" => Closed(references)
    /\ phase \in {"register", "targets"} => stack = <<>> /\ state = [id \in Ids |-> 0]
    /\ phase # "done" => verdict = Verdict("none")

Finished == {id \in Ids : state[id] = 2}

OnStack(id) == \E i \in 1..Len(stack) : stack[i].id = id

(* A frame has looked at its children before nextChild: they are finished, *)
(* but for the one whose frame is next on the stack.                       *)
Looked(i, j) ==
    /\ j \in DOMAIN references[stack[i].id]
    /\ IF i < Len(stack) /\ j = stack[i].nextChild - 1
         THEN references[stack[i].id][j] = stack[i + 1].id
         ELSE references[stack[i].id][j] \in Finished

Search ==
    /\ \A id \in Ids : state[id] = 1 <=> OnStack(id)
    /\ \A i, j \in 1..Len(stack) : stack[i].id = stack[j].id => i = j
    /\ \A i \in 1..Len(stack) : stack[i].id \in DOMAIN references
    /\ \A i \in 1..(Len(stack) - 1) : stack[i].nextChild > 1
    /\ \A i \in 1..Len(stack) : \A j \in 1..(stack[i].nextChild - 1) : Looked(i, j)

Past ==
    /\ \A id \in Finished : id \in DOMAIN references /\ Members(references[id]) \subseteq Finished
    /\ AcyclicOn(references, Finished)

Visited ==
    phase = "search" => cursor <= Len(nodes) + 1
                        /\ \A i \in 1..(cursor - 1) : state[IdAt(i)] # 0

IInv ==
    /\ TypeOK
    /\ Registration
    /\ phase # "done" => Search /\ Past /\ Visited
    /\ AcceptedIsSound
    /\ ReportedIsCycle

-----------------------------------------------------------------------------
(* The stack of a search in progress. *)
LEMMA TopFacts ==
  ASSUME TypeOK, Searching
  PROVE  /\ Len(stack) \in Nat \ {0}
         /\ Top \in Frame
         /\ Top.id \in Ids /\ Top.nextChild \in Nat \ {0}
<1>1. stack \in Seq(Frame) /\ stack # <<>>
  BY DEF TypeOK, Searching
<1>2. Len(stack) \in Nat \ {0}
  BY <1>1, EmptySeq
<1>3. Top \in Frame
  BY <1>1, <1>2, ElementOfSeq DEF Top
<1> QED
  BY <1>2, <1>3 DEF Frame

LEMMA ChildFacts ==
  ASSUME TypeOK, Searching, Search, Top.nextChild <= Len(Children)
  PROVE  /\ Top.id \in DOMAIN references
         /\ Children \in Seq(Ids)
         /\ Top.nextChild \in DOMAIN Children
         /\ Child \in Ids
<1>1. Top.id \in DOMAIN references
  BY TopFacts DEF Search, Top
<1>2. Children \in Seq(Ids)
  BY <1>1 DEF Children, TypeOK
<1> QED
  BY <1>1, <1>2, TopFacts, ElementOfSeq, LenProperties DEF Child

LEMMA AdvancedFacts ==
  ASSUME TypeOK, Searching
  PROVE  /\ Advanced \in Seq(Frame)
         /\ Len(Advanced) = Len(stack)
         /\ \A i \in 1..Len(stack) :
              /\ Advanced[i].id = stack[i].id
              /\ Advanced[i].nextChild = IF i = Len(stack) THEN stack[i].nextChild + 1
                                                           ELSE stack[i].nextChild
<1> DEFINE new == [Top EXCEPT !.nextChild = Top.nextChild + 1]
<1>1. new \in Frame /\ new.id = Top.id /\ new.nextChild = Top.nextChild + 1
  BY TopFacts DEF Frame
<1>2. Advanced = [stack EXCEPT ![Len(stack)] = new]
  BY DEF Advanced, Top
<1>3. stack \in Seq(Frame) /\ Len(stack) \in 1..Len(stack)
  BY TopFacts DEF TypeOK
<1>4. /\ Advanced \in Seq(Frame)
      /\ Len(Advanced) = Len(stack)
      /\ \A i \in 1..Len(stack) : Advanced[i] = IF i = Len(stack) THEN new ELSE stack[i]
  BY <1>1, <1>2, <1>3, ExceptSeq
<1> HIDE DEF new
<1> QED
  BY <1>1, <1>4 DEF Top

LEMMA PoppedFacts ==
  ASSUME TypeOK, Searching, stack' = SubSeq(stack, 1, Len(stack) - 1)
  PROVE  /\ stack' \in Seq(Frame)
         /\ Len(stack') = Len(stack) - 1
         /\ \A i \in 1..Len(stack') : stack'[i] = stack[i]
<1>1. PICK n \in Nat \ {0} : Len(stack) = n
  BY TopFacts
<1>2. \A i \in 1..(n - 1) : stack[i] \in Frame
  BY <1>1 DEF TypeOK
<1>3. stack' = SubSeq(stack, 1, n - 1)
  BY <1>1
<1>4. /\ stack' \in Seq(Frame)
      /\ Len(stack') = IF 1 <= n - 1 THEN (n - 1) - 1 + 1 ELSE 0
      /\ \A i \in 1..((n - 1) - 1 + 1) : stack'[i] = stack[1 + i - 1]
  BY <1>2, <1>3, SubSeqProperties
<1>5. Len(stack') = n - 1
  BY <1>4
<1>6. \A i \in 1..(n - 1) : stack'[i] = stack[i]
  <2> TAKE i \in 1..(n - 1)
  <2>1. i \in 1..((n - 1) - 1 + 1) /\ 1 + i - 1 = i
    OBVIOUS
  <2> QED
    BY <1>4, <2>1
<1> QED
  BY <1>1, <1>4, <1>5, <1>6

-----------------------------------------------------------------------------
(* Registration: nothing is on the stack and no group is finished. *)
NoSearchYet == phase \in {"register", "targets"}

LEMMA NothingSearched == Registration /\ NoSearchYet => Search /\ Past /\ Visited
<1> SUFFICES ASSUME Registration, NoSearchYet
             PROVE  Search /\ Past /\ Visited
  OBVIOUS
<1>1. stack = <<>> /\ state = [id \in Ids |-> 0]
  BY DEF Registration, NoSearchYet
<1>2. Len(stack) = 0 /\ 1..0 = {}
  BY <1>1
<1>3. Finished = {}
  BY <1>1 DEF Finished
<1>4. Search
  <2>1. \A i \in 1..(Len(stack) - 1) : FALSE
    BY <1>2
  <2>2. \A i \in 1..Len(stack) : FALSE
    BY <1>2
  <2> QED
    BY <1>1, <2>1, <2>2 DEF Search, OnStack
<1>5. Past
  BY <1>3 DEF Past, AcyclicOn
<1> QED
  BY <1>4, <1>5 DEF Visited, NoSearchYet

LEMMA InitInv == Init => IInv
<1> SUFFICES ASSUME Init PROVE IInv
  OBVIOUS
<1>1. TypeOK
  BY InputsAssumption, EmptySeq DEF Init, Begin, TypeOK, Verdict
<1>2. Registration
  <2>1. Loaded(0)
    BY DEF Loaded, Init, Begin
  <2>2. 1 <= Len(nodes) + 1 /\ 1 - 1 = 0
    BY <1>1, LenProperties DEF TypeOK
  <2> QED
    BY <2>1, <2>2 DEF Registration, Init, Begin
<1>3. phase = "register" /\ verdict.kind = "none"
  BY DEF Init, Begin, Verdict
<1> QED
  BY <1>1, <1>2, <1>3, NothingSearched
  DEF IInv, AcceptedIsSound, ReportedIsCycle, NoSearchYet

LEMMA RegisterInv == ASSUME IInv, Register PROVE IInv'
<1> DEFINE node == nodes[cursor]
<1>1. TypeOK /\ Registration /\ phase = "register"
  BY DEF IInv, Register
<1>2. cursor \in 1..Len(nodes) /\ cursor \in Nat
  BY <1>1 DEF TypeOK, Register
<1>3. node \in GroupReferenceNode /\ node.id \in Ids /\ node.groupIds \in Seq(Ids)
  <2>1. node \in GroupReferenceNode
    BY <1>1, <1>2, ElementOfSeq DEF TypeOK
  <2> QED
    BY <2>1 DEF GroupReferenceNode
<1>4. stack' = stack /\ state' = state /\ nodes' = nodes
  BY DEF Register
<1>5. CASE node.id \in DOMAIN references
  <2>1. phase' = "done" /\ verdict' = Verdict("duplicate") /\ UNCHANGED <<references, cursor>>
    BY <1>5 DEF Register, Return
  <2>2. TypeOK'
    BY <1>1, <1>4, <2>1, EmptySeq DEF TypeOK, Verdict
  <2>3. Registration'
    BY <2>1 DEF Registration
  <2> QED
    BY <2>1, <2>2, <2>3 DEF IInv, AcceptedIsSound, ReportedIsCycle, Verdict
<1>6. CASE node.id \notin DOMAIN references
  <2>1. /\ references' = [id \in DOMAIN references \cup {node.id} |->
                            IF id = node.id THEN node.groupIds ELSE references[id]]
        /\ cursor' = cursor + 1 /\ phase' = phase /\ verdict' = verdict
    BY <1>6 DEF Register
  <2>2. TypeOK'
    <3>1. /\ DOMAIN references' \subseteq Ids
          /\ references' \in [DOMAIN references' -> Seq(Ids)]
      BY <1>1, <1>3, <2>1 DEF TypeOK
    <3> QED
      BY <1>1, <1>2, <1>4, <2>1, <3>1 DEF TypeOK
  <2> PICK m \in Nat : m = cursor
    BY <1>2
  <2>3. Loaded(m - 1)
    BY <1>1 DEF Registration
  <2>4. Loaded(m)'
    <3>1. 1..m = 1..(m - 1) \cup {m}
      BY <1>2
    <3>2. IdAt(m) = node.id
      BY DEF IdAt
    <3>3. DOMAIN references' = {IdAt(i) : i \in 1..m}
      BY <2>1, <2>3, <3>1, <3>2 DEF Loaded
    <3>4. \A i \in 1..(m - 1) : IdAt(i) \in DOMAIN references /\ IdAt(i) # node.id
      BY <1>6, <2>3 DEF Loaded
    <3>5. \A i, j \in 1..m : IdAt(i) = IdAt(j) => i = j
      BY <2>3, <3>1, <3>2, <3>4 DEF Loaded
    <3>6. \A i \in 1..m : references'[IdAt(i)] = nodes[i].groupIds
      BY <2>1, <2>3, <3>1, <3>2, <3>4 DEF Loaded
    <3>7. \A i : IdAt(i)' = IdAt(i)
      BY <1>4 DEF IdAt
    <3> QED
      BY <1>4, <3>3, <3>5, <3>6, <3>7 DEF Loaded
  <2>5. Registration'
    <3>1. cursor' <= Len(nodes') + 1 /\ cursor' - 1 = m
      BY <1>2, <1>4, <2>1
    <3>2. Loaded(cursor - 1)'
      BY <2>4, <3>1 DEF Loaded
    <3> QED
      BY <1>1, <1>4, <2>1, <3>1, <3>2 DEF Registration
  <2>6. Search' /\ Past' /\ Visited'
    <3>1. NoSearchYet'
      BY <1>1, <2>1 DEF NoSearchYet
    <3> QED
      BY <2>5, <3>1, NothingSearched, PTL
  <2>7. verdict'.kind = "none"
    BY <1>1, <2>1 DEF Registration, Verdict
  <2> QED
    BY <2>2, <2>5, <2>6, <2>7 DEF IInv, AcceptedIsSound, ReportedIsCycle
<1> QED
  BY <1>5, <1>6

LEMMA AllRegisteredInv == ASSUME IInv, AllRegistered PROVE IInv'
<1>1. /\ TypeOK /\ Registration /\ phase = "register" /\ cursor > Len(nodes)
      /\ phase' = "targets" /\ UNCHANGED <<nodes, references, cursor, state, stack, verdict>>
  BY DEF IInv, AllRegistered
<1>2. TypeOK'
  BY <1>1 DEF TypeOK
<1>3. Registration'
  <2>1. PICK n \in Nat : n = Len(nodes)
    BY <1>1, LenProperties DEF TypeOK
  <2>2. cursor - 1 = n
    BY <1>1, <2>1 DEF TypeOK, Registration
  <2>3. Loaded(Len(nodes))
    BY <1>1, <2>1, <2>2 DEF Registration
  <2>4. Loaded(Len(nodes))'
    BY <1>1, <2>3 DEF Loaded, IdAt
  <2> QED
    BY <1>1, <2>4 DEF Registration
<1>4. Search' /\ Past' /\ Visited'
  <2>1. NoSearchYet'
    BY <1>1 DEF NoSearchYet
  <2> QED
    BY <1>3, <2>1, NothingSearched, PTL
<1> QED
  BY <1>1, <1>2, <1>3, <1>4
  DEF IInv, AcceptedIsSound, ReportedIsCycle, Registration, Verdict

LEMMA CheckTargetsInv == ASSUME IInv, CheckTargets PROVE IInv'
<1>1. /\ TypeOK /\ Registration /\ Search /\ Past /\ phase = "targets"
      /\ UNCHANGED <<nodes, references, state, stack>>
  BY DEF IInv, CheckTargets
<1>2. CASE ~Closed(references)
  <2>1. phase' = "done" /\ verdict' = Verdict("missing") /\ cursor' = cursor
    BY <1>2 DEF CheckTargets, Return
  <2>2. TypeOK'
    BY <1>1, <2>1, EmptySeq DEF TypeOK, Verdict
  <2> QED
    BY <2>1, <2>2 DEF IInv, Registration, AcceptedIsSound, ReportedIsCycle, Verdict
<1>3. CASE Closed(references)
  <2>1. phase' = "search" /\ cursor' = 1 /\ verdict' = verdict
    BY <1>3 DEF CheckTargets
  <2>2. TypeOK'
    BY <1>1, <2>1 DEF TypeOK
  <2>3. Loaded(Len(nodes))'
    BY <1>1 DEF Registration, Loaded, IdAt
  <2>4. Registration'
    BY <1>1, <1>3, <2>1, <2>3 DEF Registration, Closed
  <2>5. Search' /\ Past'
    BY <1>1 DEF Search, OnStack, Looked, Past, Finished, AcyclicOn
  <2>6. Visited'
    <3>1. PICK n \in Nat : n = Len(nodes')
      BY <2>2, LenProperties DEF TypeOK
    <3>2. 1 <= n + 1 /\ 1..(1 - 1) = {}
      OBVIOUS
    <3> QED
      BY <2>1, <3>1, <3>2 DEF Visited
  <2> QED
    BY <1>1, <2>1, <2>2, <2>4, <2>5, <2>6
    DEF IInv, AcceptedIsSound, ReportedIsCycle, Registration, Verdict
<1> QED
  BY <1>2, <1>3

-----------------------------------------------------------------------------
(* The search does not touch what was registered. *)
LEMMA SearchKeeps ==
  ASSUME IInv, phase = "search", UNCHANGED <<nodes, references, phase, verdict>>
  PROVE  Registration' /\ AcceptedIsSound' /\ ReportedIsCycle'
<1>1. Loaded(Len(nodes))'
  BY DEF IInv, Registration, Loaded, IdAt
<1>2. Registration'
  BY <1>1 DEF IInv, Registration, Closed
<1> QED
  BY <1>2 DEF IInv, Registration, AcceptedIsSound, ReportedIsCycle, Verdict

LEMMA StartInv == ASSUME IInv, Start PROVE IInv'
<1> DEFINE id == IdAt(cursor)
<1>1. /\ TypeOK /\ Registration /\ Search /\ Past /\ Visited
      /\ phase = "search" /\ stack = <<>> /\ cursor <= Len(nodes)
      /\ cursor' = cursor + 1
      /\ UNCHANGED <<nodes, references, phase, verdict>>
  BY DEF IInv, Start
<1>2. PICK n \in Nat : n = Len(nodes)
  BY <1>1, LenProperties DEF TypeOK
<1>3. cursor \in 1..n /\ cursor' \in Nat \ {0} /\ cursor' <= n + 1 /\ cursor' - 1 = cursor
      /\ \A i \in 1..cursor : i \in 1..n /\ (i = cursor \/ i \in 1..(cursor - 1))
  <2>1. PICK m \in Nat \ {0} : m = cursor
    BY <1>1 DEF TypeOK
  <2>2. m <= n /\ cursor' = m + 1
    BY <1>1, <1>2, <2>1
  <2> QED
    BY <2>1, <2>2
<1>4. nodes[cursor] \in GroupReferenceNode
  BY <1>1, <1>2, <1>3, ElementOfSeq DEF TypeOK
<1>5. id \in Ids /\ id \in DOMAIN references
  BY <1>1, <1>2, <1>3, <1>4 DEF GroupReferenceNode, IdAt, Registration, Loaded
<1>6. Registration' /\ AcceptedIsSound' /\ ReportedIsCycle'
  BY <1>1, SearchKeeps
<1>7. \A i : IdAt(i)' = IdAt(i)
  BY <1>1 DEF IdAt
<1>8. CASE state[id] = 2
  <2>1. UNCHANGED <<state, stack>>
    BY <1>8 DEF Start, IdAt
  <2>2. TypeOK'
    BY <1>1, <1>3, <2>1 DEF TypeOK
  <2>3. Search' /\ Past'
    BY <1>1, <2>1 DEF Search, OnStack, Looked, Past, Finished, AcyclicOn
  <2>4. \A i \in 1..cursor : state[IdAt(i)] # 0
    BY <1>1, <1>3, <1>8 DEF Visited
  <2>5. Visited'
    BY <1>1, <1>2, <1>3, <1>7, <2>1, <2>4 DEF Visited
  <2> QED
    BY <1>1, <1>6, <2>2, <2>3, <2>5 DEF IInv
<1>9. CASE state[id] # 2
  <2>1. stack' = <<FrameOf(id)>> /\ state' = [state EXCEPT ![id] = 1]
    BY <1>9 DEF Start, IdAt
  <2>2. FrameOf(id) \in Frame /\ FrameOf(id).id = id /\ FrameOf(id).nextChild = 1
    BY <1>5 DEF FrameOf, Frame
  <2>3. stack' \in Seq(Frame) /\ Len(stack') = 1 /\ stack'[1] = FrameOf(id)
    BY <2>1, <2>2
  <2>4. TypeOK'
    BY <1>1, <1>3, <2>1, <2>3 DEF TypeOK
  <2>5. \A x \in Ids : state[x] # 1
    <3>1. Len(stack) = 0
      BY <1>1
    <3> QED
      BY <1>1, <3>1 DEF Search, OnStack
  <2>6. \A x \in Ids : state'[x] = IF x = id THEN 1 ELSE state[x]
    BY <1>1, <1>5, <2>1 DEF TypeOK
  <2>7. Finished' = Finished
    BY <1>9, <2>6 DEF Finished
  <2>8. Past'
    BY <1>1, <2>7 DEF Past, AcyclicOn
  <2>9. Search'
    <3>1. \A x \in Ids : state'[x] = 1 <=> OnStack(x)'
      BY <2>2, <2>3, <2>5, <2>6 DEF OnStack
    <3>2. \A i \in 1..Len(stack') : i = 1 /\ stack'[i].id = id /\ stack'[i].nextChild = 1
      BY <2>2, <2>3
    <3>3. 1..(1 - 1) = {}
      OBVIOUS
    <3> QED
      BY <1>1, <1>5, <2>3, <3>1, <3>2, <3>3 DEF Search
  <2>10. \A i \in 1..cursor : state'[IdAt(i)] # 0
    <3> TAKE i \in 1..cursor
    <3>1. IdAt(i) \in Ids
      <4>1. nodes[i] \in GroupReferenceNode
        BY <1>1, <1>2, <1>3, ElementOfSeq DEF TypeOK
      <4> QED
        BY <4>1 DEF IdAt, GroupReferenceNode
    <3> QED
      BY <1>1, <1>3, <2>6, <3>1 DEF Visited
  <2>11. Visited'
    BY <1>1, <1>2, <1>3, <1>7, <2>10 DEF Visited
  <2> QED
    BY <1>6, <2>4, <2>8, <2>9, <2>11 DEF IInv
<1> QED
  BY <1>8, <1>9

LEMMA AcceptInv == ASSUME IInv, Accept PROVE IInv'
<1>1. /\ TypeOK /\ Registration /\ Search /\ Past /\ Visited
      /\ phase = "search" /\ stack = <<>> /\ cursor > Len(nodes)
      /\ phase' = "done" /\ verdict' = Verdict("valid")
      /\ UNCHANGED <<nodes, references, cursor, state, stack>>
  BY DEF IInv, Accept, Return
<1>2. TypeOK'
  BY <1>1, EmptySeq DEF TypeOK, Verdict
<1>3. PICK n \in Nat : n = Len(nodes)
  BY <1>1, LenProperties DEF TypeOK
<1>4. DOMAIN references = {IdAt(i) : i \in 1..n} /\ DOMAIN references \subseteq Ids
  BY <1>1, <1>3 DEF Registration, Loaded, TypeOK
<1>5. DOMAIN references \subseteq Finished
  <2>1. \A id \in Ids : state[id] # 1
    <3>1. Len(stack) = 0
      BY <1>1
    <3> QED
      BY <1>1, <3>1 DEF Search, OnStack
  <2>2. PICK m \in Nat \ {0} : m = cursor
    BY <1>1 DEF TypeOK
  <2>3. n <= m - 1
    <3>1. m > n
      BY <1>1, <1>3, <2>2
    <3> QED
      BY <3>1
  <2>4. \A i \in 1..n : state[IdAt(i)] # 0
    BY <1>1, <2>2, <2>3 DEF Visited
  <2> QED
    BY <1>1, <1>4, <2>1, <2>4 DEF Finished, TypeOK
<1>6. Acyclic(references)
  BY <1>1, <1>5 DEF Past, AcyclicOn, Acyclic
<1>7. DOMAIN nodes = 1..n
  BY <1>1, <1>3, LenProperties DEF TypeOK
<1>8. AcceptedIsSound'
  <2>1. Loaded(n) /\ Closed(references)
    BY <1>1, <1>3 DEF Registration
  <2>2. /\ DOMAIN references = {nodes[i].id : i \in DOMAIN nodes}
        /\ \A i, j \in DOMAIN nodes : nodes[i].id = nodes[j].id => i = j
        /\ \A i \in DOMAIN nodes : references[nodes[i].id] = nodes[i].groupIds
    BY <1>7, <2>1 DEF Loaded, IdAt
  <2>3. AcceptedIsSound'
        <=> (verdict'.kind = "valid" =>
               /\ DOMAIN references = {nodes[i].id : i \in DOMAIN nodes}
               /\ \A i, j \in DOMAIN nodes : nodes[i].id = nodes[j].id => i = j
               /\ \A i \in DOMAIN nodes : references[nodes[i].id] = nodes[i].groupIds
               /\ Closed(references)
               /\ Acyclic(references))
    BY <1>1 DEF AcceptedIsSound, Closed, Acyclic, AcyclicOn
  <2> QED
    BY <1>6, <2>1, <2>2, <2>3
<1> QED
  BY <1>1, <1>2, <1>8 DEF IInv, Registration, ReportedIsCycle, Verdict

(* No group is forgotten once it has been seen. *)
LEMMA VisitedKept ==
  ASSUME TypeOK, Visited, phase = "search", UNCHANGED <<nodes, cursor, phase>>,
         \A id \in Ids : state[id] # 0 => state'[id] # 0
  PROVE  Visited'
<1>1. \A i : IdAt(i)' = IdAt(i)
  BY DEF IdAt
<1>2. PICK k \in Nat : k = Len(nodes)
  BY LenProperties DEF TypeOK
<1>3. \A i \in 1..(cursor - 1) : i \in 1..k
  BY <1>2 DEF Visited, TypeOK
<1>4. \A i \in 1..k : nodes[i] \in GroupReferenceNode
  BY <1>2, ElementOfSeq DEF TypeOK
<1>5. \A i \in 1..(cursor - 1) : IdAt(i) \in Ids
  BY <1>3, <1>4 DEF IdAt, GroupReferenceNode
<1> QED
  BY <1>1, <1>5 DEF Visited

LEMMA FinishInv == ASSUME IInv, Finish PROVE IInv'
<1> DEFINE top == Top.id
<1>1. /\ TypeOK /\ Registration /\ Search /\ Past /\ Visited /\ Searching /\ phase = "search"
      /\ Top.nextChild > Len(Children)
      /\ state' = [state EXCEPT ![top] = 2]
      /\ stack' = SubSeq(stack, 1, Len(stack) - 1)
      /\ UNCHANGED <<nodes, references, cursor, phase, verdict>>
  BY DEF IInv, Finish, Searching
<1>2. PICK n \in Nat \ {0} : n = Len(stack)
  BY <1>1, TopFacts
<1>3. Len(stack') = n - 1 /\ stack' \in Seq(Frame) /\ \A i \in 1..(n - 1) : stack'[i] = stack[i]
  BY <1>1, <1>2, PoppedFacts
<1>4. top \in Ids /\ top = stack[n].id /\ Top.nextChild \in Nat \ {0}
  BY <1>1, <1>2, TopFacts DEF Top
<1>5. top \in DOMAIN references /\ Children \in Seq(Ids)
  BY <1>1, <1>2, <1>4 DEF Search, Children, TypeOK
<1>6. TypeOK'
  BY <1>1, <1>3, <1>4 DEF TypeOK
<1>7. Registration' /\ AcceptedIsSound' /\ ReportedIsCycle'
  BY <1>1, SearchKeeps
<1>8. \A x \in Ids : state'[x] = IF x = top THEN 2 ELSE state[x]
  BY <1>1, <1>4 DEF TypeOK
<1>9. Finished' = Finished \cup {top}
  BY <1>4, <1>8 DEF Finished
<1>10. Members(Children) \subseteq Finished
  <2>1. PICK m \in Nat : m = Len(Children)
    BY <1>5, LenProperties
  <2>2. DOMAIN Children = 1..m
    BY <1>5, <2>1, LenProperties
  <2>3. 1..m \subseteq 1..(Top.nextChild - 1)
    <3>1. m < Top.nextChild
      BY <1>1, <1>4, <2>1
    <3> QED
      BY <1>4, <3>1
  <2>4. \A j \in 1..(Top.nextChild - 1) : Looked(n, j)
    BY <1>1, <1>2 DEF Search, Top
  <2>5. \A j \in 1..m : Children[j] \in Finished
    BY <1>2, <1>4, <2>3, <2>4 DEF Looked, Children
  <2> QED
    BY <2>2, <2>5 DEF Members
<1>11. top \notin Finished
  <2>1. state[top] = 1
    BY <1>1, <1>2, <1>4 DEF Search, OnStack
  <2> QED
    BY <2>1 DEF Finished
<1>12. Past'
  <2>1. \A id \in Finished' : id \in DOMAIN references' /\ Members(references'[id]) \subseteq Finished'
    BY <1>1, <1>5, <1>9, <1>10 DEF Past, Children
  <2>2. ASSUME NEW C \in SUBSET (Finished \cup {top}), C # {}
        PROVE  \E id \in C : Members(references[id]) \cap C = {}
    <3>1. CASE C \cap Finished = {}
      <4>1. C = {top}
        BY <2>2, <3>1
      <4> QED
        BY <1>10, <1>11, <4>1 DEF Children
    <3>2. CASE C \cap Finished # {}
      <4>1. PICK id \in C \cap Finished : Members(references[id]) \cap (C \cap Finished) = {}
        BY <1>1, <3>2 DEF Past, AcyclicOn
      <4>2. Members(references[id]) \subseteq Finished
        BY <1>1 DEF Past
      <4> QED
        BY <4>1, <4>2
    <3> QED
      BY <3>1, <3>2
  <2>3. AcyclicOn(references, Finished)'
    BY <1>1, <1>9, <2>2 DEF AcyclicOn
  <2> QED
    BY <2>1, <2>3 DEF Past
<1>13. Search'
  <2>1. \A id \in Ids : state'[id] = 1 <=> OnStack(id)'
    <3> TAKE id \in Ids
    <3>1. OnStack(id) <=> id = top \/ \E i \in 1..(n - 1) : stack[i].id = id
      BY <1>2, <1>4 DEF OnStack
    <3>2. ~ \E i \in 1..(n - 1) : stack[i].id = top
      BY <1>1, <1>2, <1>4 DEF Search
    <3>3. OnStack(id)' <=> \E i \in 1..(n - 1) : stack[i].id = id
      BY <1>3 DEF OnStack
    <3>4. state[id] = 1 <=> OnStack(id)
      BY <1>1 DEF Search
    <3> QED
      BY <1>8, <3>1, <3>2, <3>3, <3>4
  <2>2. \A i, j \in 1..(n - 1) : stack'[i].id = stack'[j].id => i = j
    BY <1>1, <1>2, <1>3 DEF Search
  <2>3. \A i \in 1..(n - 1) : stack'[i].id \in DOMAIN references'
    BY <1>1, <1>2, <1>3 DEF Search
  <2>4. \A i \in 1..(n - 1 - 1) : stack'[i].nextChild > 1
    BY <1>1, <1>2, <1>3 DEF Search
  <2>5. ASSUME NEW i \in 1..(n - 1), NEW j \in 1..(stack'[i].nextChild - 1) PROVE Looked(i, j)'
    <3>1. stack'[i] = stack[i] /\ Looked(i, j) /\ i < n
      BY <1>1, <1>2, <1>3 DEF Search
    <3>2. CASE i = n - 1
      <4>1. references[stack[i].id][j] \in Finished \cup {top}
        BY <1>2, <1>4, <3>1, <3>2 DEF Looked
      <4> QED
        BY <1>1, <1>3, <1>9, <3>1, <3>2, <4>1 DEF Looked
    <3>3. CASE i < n - 1
      <4>1. i + 1 \in 1..(n - 1)
        BY <3>3
      <4> QED
        BY <1>1, <1>2, <1>3, <1>9, <3>1, <3>3, <4>1 DEF Looked
    <3> QED
      BY <3>2, <3>3
  <2> QED
    BY <1>3, <2>1, <2>2, <2>3, <2>4, <2>5 DEF Search
<1>14. Visited'
  BY <1>1, <1>8, VisitedKept
<1> QED
  BY <1>6, <1>7, <1>12, <1>13, <1>14 DEF IInv

LEMMA SkipFinishedInv == ASSUME IInv, SkipFinished PROVE IInv'
<1>1. /\ TypeOK /\ Registration /\ Search /\ Past /\ Visited /\ Searching /\ phase = "search"
      /\ Top.nextChild <= Len(Children) /\ state[Child] = 2
      /\ stack' = Advanced
      /\ UNCHANGED <<nodes, references, cursor, state, phase, verdict>>
  BY DEF IInv, SkipFinished, Follow, Searching
<1>2. PICK n \in Nat \ {0} : n = Len(stack)
  BY <1>1, TopFacts
<1>3. /\ stack' \in Seq(Frame) /\ Len(stack') = n
      /\ \A i \in 1..n : /\ stack'[i].id = stack[i].id
                        /\ stack'[i].nextChild = IF i = n THEN stack[i].nextChild + 1
                                                          ELSE stack[i].nextChild
  BY <1>1, <1>2, AdvancedFacts
<1>4. TypeOK'
  BY <1>1, <1>3 DEF TypeOK
<1>5. Registration' /\ AcceptedIsSound' /\ ReportedIsCycle'
  BY <1>1, SearchKeeps
<1>6. Finished' = Finished /\ Past'
  BY <1>1 DEF Finished, Past, AcyclicOn
<1>7. Visited'
  BY <1>1, VisitedKept
<1>8. Search'
  <2>1. \A id \in Ids : state'[id] = 1 <=> OnStack(id)'
    BY <1>1, <1>2, <1>3 DEF Search, OnStack
  <2>2. \A i, j \in 1..n : stack'[i].id = stack'[j].id => i = j
    BY <1>1, <1>2, <1>3 DEF Search
  <2>3. \A i \in 1..n : stack'[i].id \in DOMAIN references'
    BY <1>1, <1>2, <1>3 DEF Search
  <2>4. \A i \in 1..(n - 1) : stack'[i].nextChild > 1
    BY <1>1, <1>2, <1>3 DEF Search
  <2>5. ASSUME NEW i \in 1..n, NEW j \in 1..(stack'[i].nextChild - 1) PROVE Looked(i, j)'
    <3>1. CASE i < n
      <4>1. j \in 1..(stack[i].nextChild - 1) /\ i + 1 \in 1..n
        BY <1>3, <3>1
      <4>2. Looked(i, j)
        BY <1>1, <1>2, <4>1 DEF Search
      <4> QED
        BY <1>1, <1>2, <1>3, <1>6, <3>1, <4>1, <4>2 DEF Looked
    <3>2. CASE i = n
      <4>1. stack[n] = Top /\ Top.nextChild \in Nat \ {0}
        BY <1>1, <1>2, TopFacts DEF Top
      <4>2. CASE j = Top.nextChild
        <5>1. j \in DOMAIN Children /\ Child \in Finished
          BY <1>1, <4>2, ChildFacts DEF Finished
        <5> QED
          BY <1>1, <1>3, <1>6, <3>2, <4>1, <4>2, <5>1 DEF Looked, Child, Children
      <4>3. CASE j # Top.nextChild
        <5>1. j \in 1..(stack[n].nextChild - 1)
          BY <1>3, <3>2, <4>1, <4>3
        <5>2. Looked(n, j)
          BY <1>1, <1>2, <5>1 DEF Search
        <5> QED
          BY <1>1, <1>2, <1>3, <1>6, <3>2, <5>2 DEF Looked
      <4> QED
        BY <4>2, <4>3
    <3> QED
      BY <3>1, <3>2
  <2> QED
    BY <1>3, <2>1, <2>2, <2>3, <2>4, <2>5 DEF Search
<1> QED
  BY <1>4, <1>5, <1>6, <1>7, <1>8 DEF IInv

LEMMA DescendInv == ASSUME IInv, Descend PROVE IInv'
<1>1. /\ TypeOK /\ Registration /\ Search /\ Past /\ Visited /\ Searching /\ phase = "search"
      /\ Top.nextChild <= Len(Children) /\ state[Child] = 0
      /\ stack' = Append(Advanced, FrameOf(Child))
      /\ state' = [state EXCEPT ![Child] = 1]
      /\ UNCHANGED <<nodes, references, cursor, phase, verdict>>
  BY DEF IInv, Descend, Follow, Searching
<1>2. PICK n \in Nat \ {0} : n = Len(stack)
  BY <1>1, TopFacts
<1>3. /\ Top.id \in DOMAIN references /\ Child \in Ids
      /\ Top.nextChild \in DOMAIN Children
      /\ stack[n] = Top /\ Top.nextChild \in Nat \ {0}
  BY <1>1, <1>2, ChildFacts, TopFacts DEF Top
<1>4. Child \in DOMAIN references
  BY <1>1, <1>3 DEF Registration, Closed, Members, Child, Children
<1>5. FrameOf(Child) \in Frame /\ FrameOf(Child).id = Child /\ FrameOf(Child).nextChild = 1
  BY <1>3 DEF FrameOf, Frame
<1>6. /\ Advanced \in Seq(Frame) /\ Len(Advanced) = n
      /\ \A i \in 1..n : /\ Advanced[i].id = stack[i].id
                        /\ Advanced[i].nextChild = IF i = n THEN stack[i].nextChild + 1
                                                            ELSE stack[i].nextChild
  BY <1>1, <1>2, AdvancedFacts
<1>7. /\ stack' \in Seq(Frame) /\ Len(stack') = n + 1
      /\ stack'[n + 1] = FrameOf(Child)
      /\ \A i \in 1..n : stack'[i] = Advanced[i]
  BY <1>1, <1>5, <1>6
<1>8. \A x \in Ids : state'[x] = IF x = Child THEN 1 ELSE state[x]
  BY <1>1, <1>3 DEF TypeOK
<1>9. TypeOK'
  BY <1>1, <1>3, <1>7 DEF TypeOK
<1>10. Registration' /\ AcceptedIsSound' /\ ReportedIsCycle'
  BY <1>1, SearchKeeps
<1>11. Finished' = Finished
  BY <1>1, <1>3, <1>8 DEF Finished
<1>12. Past'
  BY <1>1, <1>11 DEF Past, AcyclicOn
<1>13. Visited'
  BY <1>1, <1>8, VisitedKept
<1>14. \A i \in 1..n : stack[i].id # Child
  BY <1>1, <1>2, <1>3 DEF Search, OnStack
<1>15. \A i \in 1..(n + 1) : i \in 1..n \/ i = n + 1
  OBVIOUS
<1>16. Search'
  <2>1. \A id \in Ids : state'[id] = 1 <=> OnStack(id)'
    <3> TAKE id \in Ids
    <3>1. OnStack(id)' <=> id = Child \/ \E i \in 1..n : stack[i].id = id
      BY <1>5, <1>6, <1>7, <1>15 DEF OnStack
    <3>2. state[id] = 1 <=> \E i \in 1..n : stack[i].id = id
      BY <1>1, <1>2 DEF Search, OnStack
    <3> QED
      BY <1>8, <3>1, <3>2
  <2>2. \A i, j \in 1..n : stack'[i].id = stack'[j].id => i = j
    BY <1>1, <1>2, <1>6, <1>7 DEF Search
  <2>3. \A i, j \in 1..(n + 1) : stack'[i].id = stack'[j].id => i = j
    BY <1>5, <1>6, <1>7, <1>14, <1>15, <2>2
  <2>4. \A i \in 1..(n + 1) : stack'[i].id \in DOMAIN references'
    BY <1>1, <1>2, <1>4, <1>5, <1>6, <1>7, <1>15 DEF Search
  <2>5. \A i \in 1..n : stack'[i].nextChild > 1
    BY <1>1, <1>2, <1>3, <1>6, <1>7 DEF Search
  <2>6. ASSUME NEW i \in 1..n, NEW j \in 1..(stack'[i].nextChild - 1) PROVE Looked(i, j)'
    <3>1. CASE i < n
      <4>1. /\ j \in 1..(stack[i].nextChild - 1) /\ i + 1 \in 1..n
            /\ stack'[i].nextChild = stack[i].nextChild
            /\ stack'[i].id = stack[i].id /\ stack'[i + 1].id = stack[i + 1].id
        BY <1>6, <1>7, <3>1
      <4>2. Looked(i, j)
        BY <1>1, <1>2, <4>1 DEF Search
      <4> QED
        BY <1>1, <1>2, <1>7, <1>11, <3>1, <4>1, <4>2 DEF Looked
    <3>2. CASE i = n
      <4>1. stack'[n].id = Top.id /\ stack'[n].nextChild = Top.nextChild + 1
        BY <1>3, <1>6, <1>7
      <4>2. CASE j = Top.nextChild
        BY <1>1, <1>3, <1>5, <1>7, <3>2, <4>1, <4>2 DEF Looked, Child, Children
      <4>3. CASE j # Top.nextChild
        <5>1. j \in 1..(stack[n].nextChild - 1)
          BY <1>3, <3>2, <4>1, <4>3
        <5>2. n \in 1..Len(stack) /\ Search
          BY <1>1, <1>2
        <5>3. Looked(n, j)
          BY <5>1, <5>2 DEF Search
        <5>4. j # stack'[n].nextChild - 1
          BY <1>3, <4>1, <4>3
        <5> QED
          BY <1>1, <1>2, <1>3, <1>11, <3>2, <4>1, <5>3, <5>4 DEF Looked
      <4> QED
        BY <4>2, <4>3
    <3> QED
      BY <3>1, <3>2
  <2>7. \A j \in 1..(stack'[n + 1].nextChild - 1) : FALSE
    BY <1>5, <1>7
  <2>8. \A i \in 1..(n + 1) : \A j \in 1..(stack'[i].nextChild - 1) : Looked(i, j)'
    BY <1>15, <2>6, <2>7
  <2> QED
    BY <1>7, <2>1, <2>3, <2>4, <2>5, <2>8 DEF Search
<1> QED
  BY <1>9, <1>10, <1>12, <1>13, <1>16 DEF IInv

(* The frames from the first one of the child on, and the child again, are *)
(* a cycle.                                                                *)
LEMMA CycleFromIsCycle ==
  ASSUME TypeOK, Registration, Search, Searching,
         Top.nextChild <= Len(Children),
         NEW start \in 1..Len(stack), stack[start].id = Child
  PROVE  /\ CycleFrom(start) \in Seq(Ids)
         /\ IsCycle(references, CycleFrom(start))
         /\ \A i, j \in 1..(Len(CycleFrom(start)) - 1) :
              CycleFrom(start)[i] = CycleFrom(start)[j] => i = j
<1>1. PICK n \in Nat \ {0} : n = Len(stack)
  BY TopFacts
<1>2. /\ Top.id \in DOMAIN references /\ Child \in Ids
      /\ Top.nextChild \in DOMAIN Children
      /\ stack[n] = Top /\ Top.nextChild \in Nat \ {0}
  BY <1>1, ChildFacts, TopFacts DEF Top
<1>3. Child \in DOMAIN references /\ Child \in Members(references[stack[n].id])
  BY <1>2 DEF Registration, Closed, Members, Child, Children, Searching
<1>4. start \in 1..n
  BY <1>1
<1>5. PICK len \in Nat : len = n - start + 2
  BY <1>4
<1> DEFINE path == CycleFrom(start)
           at(i) == IF i = len THEN Child ELSE stack[start + i - 1].id
<1>6. path = [i \in 1..len |-> at(i)]
  BY <1>1, <1>5 DEF CycleFrom
<1>7. \A i \in 1..len : i # len => start + i - 1 \in 1..n
  BY <1>4, <1>5
<1>8. \A i \in 1..n : stack[i].id \in DOMAIN references /\ stack[i].id \in Ids
  BY <1>1 DEF Search, TypeOK
<1>9. \A i \in 1..len : at(i) \in DOMAIN references /\ at(i) \in Ids
  BY <1>2, <1>3, <1>7, <1>8
<1>10. path \in [1..len -> Ids]
  BY <1>6, <1>9
<1>11. path \in Seq(Ids)
  BY <1>5, <1>10, SeqDef
<1>12. Len(path) = len /\ len > 1 /\ len \in 1..len /\ 1 \in 1..len /\ 1 # len
  <2>1. len > 1 /\ len \in 1..len /\ 1 \in 1..len /\ 1 # len
    BY <1>4, <1>5
  <2>2. DOMAIN path = 1..len /\ DOMAIN path = 1..Len(path) /\ Len(path) \in Nat
    BY <1>10, <1>11, LenProperties
  <2> HIDE DEF path
  <2>3. PICK k \in Nat : k = Len(path)
    BY <2>2
  <2>4. k = len
    <3>1. 1..k = 1..len
      BY <2>2, <2>3
    <3>2. \A i \in Nat : i \in 1..k <=> i \in 1..len
      BY <3>1
    <3>3. k \in 1..len \/ k = 0
      BY <3>2
    <3>4. len \in 1..k
      BY <2>1, <3>2
    <3> QED
      BY <3>3, <3>4
  <2> QED
    BY <2>1, <2>3, <2>4
<1>13. \A i \in 1..len : path[i] = at(i)
  BY <1>6
<1> HIDE DEF path
<1>14. path[1] = path[len]
  <2>1. at(1) = stack[start].id
    BY <1>4, <1>12
  <2>2. at(len) = Child
    OBVIOUS
  <2> QED
    BY <1>12, <1>13, <2>1, <2>2
<1>15. ASSUME NEW i \in 1..(len - 1)
       PROVE  path[i + 1] \in Members(references[path[i]])
  <2>1. PICK k \in 1..n : k = start + i - 1
    BY <1>4, <1>5
  <2>2. i \in 1..len /\ i + 1 \in 1..len /\ i # len
    BY <1>5
  <2>3. path[i] = stack[k].id
    BY <1>13, <2>1, <2>2
  <2>4. CASE i + 1 = len
    <3>1. k = n
      BY <1>4, <1>5, <2>1, <2>4
    <3>2. path[i + 1] = Child
      BY <1>13, <2>2, <2>4
    <3> QED
      BY <1>3, <2>3, <3>1, <3>2
  <2>5. CASE i + 1 # len
    <3>1. k \in 1..(n - 1) /\ start + (i + 1) - 1 = k + 1
      BY <1>4, <1>5, <2>1, <2>5
    <3>2. path[i + 1] = stack[k + 1].id
      BY <1>13, <2>2, <2>5, <3>1
    <3>3. stack[k].nextChild > 1 /\ stack[k].nextChild \in Nat
      <4>1. stack[k] \in Frame
        BY <1>1, <3>1, ElementOfSeq DEF TypeOK
      <4>2. stack[k].nextChild > 1
        BY <1>1, <3>1 DEF Search
      <4> QED
        BY <4>1, <4>2 DEF Frame
    <3>4. PICK j \in 1..(stack[k].nextChild - 1) : j = stack[k].nextChild - 1
      BY <3>3
    <3>5. Looked(k, j)
      BY <1>1, <2>1, <3>4 DEF Search
    <3>6. k < Len(stack)
      BY <1>1, <3>1
    <3>7. j \in DOMAIN references[stack[k].id] /\ references[stack[k].id][j] = stack[k + 1].id
      BY <3>4, <3>5, <3>6 DEF Looked
    <3> QED
      BY <2>3, <3>2, <3>7 DEF Members
  <2> QED
    BY <2>4, <2>5
<1>16. ASSUME NEW i \in 1..(len - 1), NEW j \in 1..(len - 1), path[i] = path[j]
       PROVE  i = j
  <2>1. i \in 1..len /\ i # len /\ j \in 1..len /\ j # len
    BY <1>5
  <2>2. start + i - 1 \in 1..n /\ start + j - 1 \in 1..n
    BY <1>7, <2>1
  <2>3. stack[start + i - 1].id = stack[start + j - 1].id
    BY <1>13, <1>16, <2>1
  <2>4. start + i - 1 = start + j - 1
    BY <1>1, <2>2, <2>3 DEF Search
  <2> QED
    BY <1>4, <2>4
<1>17. IsCycle(references, path)
  BY <1>9, <1>12, <1>13, <1>14, <1>15 DEF IsCycle
<1>18. \A i, j \in 1..(Len(path) - 1) : path[i] = path[j] => i = j
  BY <1>12, <1>16
<1> QED
  BY <1>11, <1>17, <1>18 DEF path

LEMMA ReportCycleInv == ASSUME IInv, ReportCycle PROVE IInv'
<1>1. /\ TypeOK /\ Registration /\ Search /\ Searching
      /\ Top.nextChild <= Len(Children)
      /\ phase' = "done" /\ stack' = Advanced
      /\ UNCHANGED <<nodes, references, cursor, state>>
  BY DEF IInv, ReportCycle, Follow, Searching, Return
<1>2. PICK start \in 1..Len(stack) :
        stack[start].id = Child /\ verdict' = [kind |-> "cycle", path |-> CycleFrom(start)]
  BY DEF ReportCycle, Return
<1>3. /\ CycleFrom(start) \in Seq(Ids)
      /\ IsCycle(references, CycleFrom(start))
      /\ \A i, j \in 1..(Len(CycleFrom(start)) - 1) :
           CycleFrom(start)[i] = CycleFrom(start)[j] => i = j
  BY <1>1, <1>2, CycleFromIsCycle
<1>4. TypeOK'
  BY <1>1, <1>2, <1>3, AdvancedFacts DEF TypeOK
<1>5. verdict'.kind = "cycle" /\ verdict'.path = CycleFrom(start)
  BY <1>2
<1>6. ReportedIsCycle'
  BY <1>1, <1>3, <1>5 DEF ReportedIsCycle, IsCycle
<1> QED
  BY <1>1, <1>4, <1>5, <1>6 DEF IInv, Registration, AcceptedIsSound

-----------------------------------------------------------------------------
LEMMA StepInv == IInv /\ [Next]_vars => IInv'
<1> SUFFICES ASSUME IInv, [Next]_vars PROVE IInv'
  OBVIOUS
<1>1. CASE Register
  BY <1>1, RegisterInv
<1>2. CASE AllRegistered
  BY <1>2, AllRegisteredInv
<1>3. CASE CheckTargets
  BY <1>3, CheckTargetsInv
<1>4. CASE Start
  BY <1>4, StartInv
<1>5. CASE Accept
  BY <1>5, AcceptInv
<1>6. CASE Finish
  BY <1>6, FinishInv
<1>7. CASE SkipFinished
  BY <1>7, SkipFinishedInv
<1>8. CASE Descend
  BY <1>8, DescendInv
<1>9. CASE ReportCycle
  BY <1>9, ReportCycleInv
<1>10. CASE UNCHANGED vars
  <2>1. UNCHANGED <<nodes, references, cursor, state, stack, phase, verdict>>
    BY <1>10 DEF vars
  <2>2. TypeOK'
    BY <2>1 DEF IInv, TypeOK
  <2>3. Registration'
    BY <2>1 DEF IInv, Registration, Loaded, IdAt, Closed
  <2>4. phase' # "done" => Search' /\ Past' /\ Visited'
    BY <2>1 DEF IInv, Search, OnStack, Looked, Finished, Past, AcyclicOn, Visited, IdAt
  <2>5. AcceptedIsSound' /\ ReportedIsCycle'
    BY <2>1 DEF IInv, AcceptedIsSound, Acyclic, AcyclicOn, Closed, ReportedIsCycle, IsCycle
  <2> QED
    BY <2>2, <2>3, <2>4, <2>5 DEF IInv
<1> QED
  BY <1>1, <1>2, <1>3, <1>4, <1>5, <1>6, <1>7, <1>8, <1>9, <1>10 DEF Next

LEMMA Invariance == Spec => []IInv
BY InitInv, StepInv, PTL DEF Spec

(* The variables keep their types, for any ids and any lists of groups. *)
THEOREM TypeCorrect == Spec => []TypeOK
<1>1. IInv => TypeOK
  BY DEF IInv
<1> QED
  BY Invariance, <1>1, PTL

(* A list of groups of any size that the validation accepts refers only to *)
(* its own groups and has no cycle.                                        *)
THEOREM AcceptedIsSoundHolds == Spec => []AcceptedIsSound
<1>1. IInv => AcceptedIsSound
  BY DEF IInv
<1> QED
  BY Invariance, <1>1, PTL

(* The path it reports for a list it rejects is a simple cycle. *)
THEOREM ReportedIsCycleHolds == Spec => []ReportedIsCycle
<1>1. IInv => ReportedIsCycle
  BY DEF IInv
<1> QED
  BY Invariance, <1>1, PTL
=============================================================================
