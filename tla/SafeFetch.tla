------------------------------ MODULE SafeFetch ------------------------------
(***************************************************************************)
(* safeRemoteFetch of services/safe-remote-fetch.ts, through which sources,*)
(* catalogs, rule sets and the domain list are fetched: redirects are      *)
(* followed by hand, each new URL is checked, and headers with credentials *)
(* stay with the origin they were meant for.                               *)
(***************************************************************************)
EXTENDS Naturals

CONSTANTS
    Origins,      \* scheme, host and port of the URLs there are
    MaxRedirects  \* options.maxRedirects

ASSUME SafeFetchAssumption == MaxRedirects \in Nat

VARIABLES
    hop,   \* the fetch in progress, or how it ended
    sent   \* history: the requests sent since it began

fetchVars == <<hop, sent>>

(* What a URL is to parseSafeRemoteHttpUrl: one of the codes it throws, or *)
(* "public".  The host decides it: names of this machine and of local      *)
(* networks, and private, reserved and embedded addresses are refused.     *)
Verdicts == {"public", "invalid_url", "unsupported_protocol", "credentials_not_allowed",
             "private_address", "blocked_hostname"}
Url == [origin : Origins, verdict : Verdicts]

Methods == {"GET", "HEAD", "POST"}
Hop == [at : {"idle", "send", "wait", "returned", "thrown"}, url : Url, first : Origins, left : BOOLEAN,
        redirects : Nat, method : Methods, secret : BOOLEAN]

Request == [url : Url, secret : BOOLEAN, first : Origins]

FetchInit ==
    /\ \E url \in Url, method \in Methods, secret \in BOOLEAN :
         hop = [at |-> "idle", url |-> url, first |-> url.origin, left |-> FALSE, redirects |-> 0,
                method |-> method, secret |-> secret]
    /\ sent = {}

(* isBlockedHostname, isBlockedIpv4, isBlockedIpv6 and the rest. *)
ParseSafeSlipScheme(url) == url.verdict \in {"public", "private_address", "blocked_hostname"}
ParseSafe(url) == url.verdict = "public"

BeginFetch ==
    /\ hop.at = "idle"
    /\ hop' = [hop EXCEPT !.at = IF ParseSafe(hop.url) THEN "send" ELSE "thrown"]
    /\ UNCHANGED sent

SendRequest ==
    /\ hop.at = "send"
    /\ hop' = [hop EXCEPT !.at = "wait"]
    /\ sent' = sent \cup {[url |-> hop.url, secret |-> hop.secret, first |-> hop.first]}

AnswerFetch ==
    /\ hop.at = "wait"
    /\ hop' = [hop EXCEPT !.at = "returned"]
    /\ UNCHANGED sent

(* Where a redirect leads; 303 makes a GET of anything but a HEAD.         *)
KeepsSecretSlipSubdomain(url) == hop.secret
KeepsSecret(url) == hop.secret /\ url.origin = hop.url.origin

FollowRedirect ==
    /\ hop.at = "wait" /\ hop.redirects < MaxRedirects
    /\ \E url \in Url, seeOther \in BOOLEAN :
         hop' = IF ~ParseSafe(url) THEN [hop EXCEPT !.at = "thrown"]
                ELSE [hop EXCEPT !.at = "send", !.url = url, !.redirects = @ + 1,
                                 !.left = @ \/ url.origin # hop.url.origin,
                                 !.secret = KeepsSecret(url),
                                 !.method = IF seeOther /\ @ # "HEAD" THEN "GET" ELSE @]
    /\ UNCHANGED sent

(* Too many redirects, no Location, the timeout, or a failing connection.  *)
ThrowFetch ==
    /\ hop.at = "wait"
    /\ hop' = [hop EXCEPT !.at = "thrown"]
    /\ UNCHANGED sent

FetchNext == BeginFetch \/ SendRequest \/ AnswerFetch \/ FollowRedirect \/ ThrowFetch

FetchSpec == FetchInit /\ [][FetchNext]_fetchVars

-----------------------------------------------------------------------------
FetchTypes ==
    /\ hop \in Hop /\ hop.redirects <= MaxRedirects
    /\ sent \subseteq Request

(* Over any chain of redirects, back to the first origin included: no      *)
(* request goes to an address that was not checked, and credentials reach  *)
(* no origin but the one they were sent to first.                          *)
RequestsStaySafe ==
    \A request \in sent :
        /\ request.url.verdict = "public"
        /\ request.secret => request.url.origin = request.first

(* What carries it: once the fetch has left its first origin the secret is *)
(* gone, and until then it is there.                                       *)
SecretStaysHome ==
    /\ hop.at \in {"send", "wait"} => hop.url.verdict = "public"
    /\ ~hop.left => hop.url.origin = hop.first
    /\ hop.left => ~hop.secret
=============================================================================
