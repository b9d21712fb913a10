--------------------------- MODULE LinkedRuleSets ---------------------------
(***************************************************************************)
(* Remote rule sets that follow the providers of a subscription:           *)
(* services/source-rule-sets.ts, and the requests that link one.  What a   *)
(* source offers is read off its cached content; a sync after a refresh    *)
(* brings the linked rows up to it.                                        *)
(***************************************************************************)
EXTENDS Naturals

CONSTANTS
    ProviderKeys,   \* names of rule-providers
    ProviderUrls,   \* what a provider can say: URL, format, behavior, interval
    LinkedIds,      \* rows of remote_rule_sets
    LinkCalls,      \* requests and refreshes that may run together
    MaxContents     \* bound on the changes of the content

ASSUME LinkedRuleSetsAssumption == MaxContents \in Nat

VARIABLES
    content,     \* rule-providers in the cached content that can be used; "gone" without the source
    linkedRows,  \* the rows linked to the source, by id
    linkCalls,   \* what each call holds between two calls of the database
    contents,    \* changes of the content so far
    followed     \* history: a sync that ran alone was the last thing to happen

linkVars == <<content, linkedRows, linkCalls, contents, followed>>
linkStore == <<content, linkedRows, contents>>

LinkedRow == [key : ProviderKeys, url : ProviderUrls, missing : BOOLEAN]
NoEntry == [k \in {} |-> 0]
IdleLink == [at |-> "idle", id |-> 0, key |-> "none", found |-> NoEntry, rows |-> NoEntry, alone |-> FALSE]

(* An entry of rule-providers; what else it holds decides whether it can   *)
(* be used at all.                                                         *)
Entry == [url : ProviderUrls, http : BOOLEAN, mrsClassical : BOOLEAN, safeUrl : BOOLEAN]

(* discoverSourceRemoteRuleSets: the providers fetched over HTTP, from a   *)
(* public address, that are not an MRS file of a behavior it cannot have.  *)
DiscoverSlipAny(entries) == [k \in DOMAIN entries |-> entries[k].url]
Discover(entries) ==
    [k \in {j \in DOMAIN entries : entries[j].http /\ ~entries[j].mrsClassical /\ entries[j].safeUrl}
        |-> entries[k].url]

LinkInit ==
    /\ content = [there |-> TRUE, entries |-> NoEntry]
    /\ linkedRows = NoEntry /\ contents = 0 /\ followed = FALSE
    /\ linkCalls = [c \in LinkCalls |-> IdleLink]

-----------------------------------------------------------------------------
InLink == {c \in LinkCalls : linkCalls[c].at # "idle"}
LinkGoes(c, record) == linkCalls' = [linkCalls EXCEPT ![c] = record]
OthersDisturbed == [d \in LinkCalls |-> [linkCalls[d] EXCEPT !.alone = FALSE]]

(* The content is fetched anew, or the source goes: its rows lose the link,*)
(* and are plain rule sets from then on.                                   *)
ContentChanges ==
    /\ contents < MaxContents /\ contents' = contents + 1
    /\ \/ \E k \in ProviderKeys, entry \in Entry :
            content' = [there |-> content.there, entries |-> [j \in DOMAIN content.entries \cup {k} |->
                          IF j = k THEN entry ELSE content.entries[j]]] /\ UNCHANGED linkedRows
       \/ content' = [content EXCEPT !.entries = NoEntry] /\ UNCHANGED linkedRows
       \/ content' = [there |-> FALSE, entries |-> NoEntry] /\ linkedRows' = NoEntry
    /\ linkCalls' = OthersDisturbed /\ followed' = FALSE

(* A sync; or POST /remote-rule-sets with a source and a key.              *)
StartLink(c) ==
    /\ c \notin InLink
    /\ \E id \in (LinkedIds \ ({linkCalls[d].id : d \in LinkCalls} \cup DOMAIN linkedRows)) \cup {0}, k \in ProviderKeys :
         linkCalls' = [OthersDisturbed EXCEPT ![c] = [IdleLink EXCEPT !.at = "candidates", !.id = id,
           !.key = IF id = 0 THEN "none" ELSE k, !.alone = (InLink = {})]]
    /\ followed' = FALSE /\ UNCHANGED linkStore

(* listSourceRemoteRuleSets *)
ListCandidates(c) ==
    /\ linkCalls[c].at = "candidates"
    /\ LET found == Discover(content.entries)
           call == linkCalls[c]
       IN IF ~content.there \/ (call.id # 0 /\ call.key \notin DOMAIN found) THEN LinkGoes(c, IdleLink)
          ELSE LinkGoes(c, [call EXCEPT !.at = IF call.id = 0 THEN "rows" ELSE "insert", !.found = found])
    /\ followed' = FALSE /\ UNCHANGED linkStore

(* One row per source and key; the source may be gone by now. *)
InsertLinked(c) ==
    /\ linkCalls[c].at = "insert"
    /\ LET call == linkCalls[c]
           taken == \E i \in DOMAIN linkedRows : linkedRows[i].key = call.key
       IN IF taken \/ ~content.there THEN UNCHANGED linkedRows
          ELSE linkedRows' = [i \in DOMAIN linkedRows \cup {call.id} |-> IF i = call.id
                 THEN [key |-> call.key, url |-> call.found[call.key], missing |-> FALSE] ELSE linkedRows[i]]
    /\ LinkGoes(c, IdleLink) /\ followed' = FALSE /\ UNCHANGED <<content, contents>>

ReadLinkedRows(c) ==
    /\ linkCalls[c].at = "rows"
    /\ LinkGoes(c, [linkCalls[c] EXCEPT !.at = "write", !.rows = linkedRows])
    /\ followed' = FALSE /\ UNCHANGED linkStore

UpToDate(row, found) ==
    IF row.key \in DOMAIN found THEN [row EXCEPT !.url = found[row.key], !.missing = FALSE]
    ELSE [row EXCEPT !.missing = TRUE]

(* One batch; rows found to be right are left alone, and so are rows that  *)
(* no longer belong to the source.                                         *)
WriteLinkedRows(c) ==
    /\ linkCalls[c].at = "write"
    /\ LET call == linkCalls[c]
           changed == {i \in DOMAIN call.rows : UpToDate(call.rows[i], call.found) # call.rows[i]}
       IN linkedRows' = [i \in DOMAIN linkedRows |->
            IF i \in changed THEN UpToDate(linkedRows[i], call.found) ELSE linkedRows[i]]
    /\ LinkGoes(c, IdleLink) /\ followed' = linkCalls[c].alone
    /\ UNCHANGED <<content, contents>>

(* PUT /remote-rule-sets/:id writes the URL it read back, or a new one; a  *)
(* linked row can be deleted like any other.                               *)
EditLinked ==
    /\ contents < MaxContents /\ contents' = contents + 1
    /\ \E i \in DOMAIN linkedRows :
         \/ \E url \in ProviderUrls : linkedRows' = [linkedRows EXCEPT ![i].url = url]
         \/ linkedRows' = [j \in DOMAIN linkedRows \ {i} |-> linkedRows[j]]
    /\ linkCalls' = OthersDisturbed /\ followed' = FALSE /\ UNCHANGED content

CutOffLink(c) == c \in InLink /\ LinkGoes(c, IdleLink) /\ followed' = FALSE /\ UNCHANGED linkStore

LinkNext ==
    \/ ContentChanges \/ EditLinked
    \/ \E c \in LinkCalls : \/ StartLink(c) \/ ListCandidates(c) \/ InsertLinked(c)
                            \/ ReadLinkedRows(c) \/ WriteLinkedRows(c) \/ CutOffLink(c)

LinkSpec == LinkInit /\ [][LinkNext]_linkVars

-----------------------------------------------------------------------------
LinkTypes ==
    /\ content.there \in BOOLEAN /\ DOMAIN content.entries \subseteq ProviderKeys
    /\ \A i \in DOMAIN linkedRows : i \in LinkedIds /\ linkedRows[i] \in LinkedRow
    /\ \A c \in LinkCalls : linkCalls[c].at \in {"idle", "candidates", "insert", "rows", "write"}
    /\ contents \in 0..MaxContents /\ followed \in BOOLEAN

(* However refreshes, edits and links overlapped before: a sync that runs  *)
(* alone leaves every linked rule set at what its provider says in the     *)
(* cached content, from an address that may be fetched, and marked missing *)
(* exactly if the content has no such provider.  No two rows share one.    *)
LinkedRowsFollow ==
    /\ followed => \A i \in DOMAIN linkedRows :
         LET row == linkedRows[i]
             usable == \E k \in DOMAIN content.entries :
                         /\ k = row.key /\ content.entries[k].http
                         /\ content.entries[k].safeUrl /\ ~content.entries[k].mrsClassical
         IN /\ row.missing = ~usable
            /\ usable => row.url = content.entries[row.key].url
    /\ \A i, j \in DOMAIN linkedRows : linkedRows[i].key = linkedRows[j].key => i = j
=============================================================================
