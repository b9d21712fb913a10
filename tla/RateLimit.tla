------------------------------ MODULE RateLimit ------------------------------
(***************************************************************************)
(* kvRateLimit of middleware/rate-limit.ts: a count per caller and minute  *)
(* in KV, read before a request is handled and written after it, while     *)
(* other requests of the same caller are handled.                          *)
(***************************************************************************)
EXTENDS Naturals

CONSTANTS
    RateCalls,  \* requests of one caller that may be in flight
    Minutes,    \* windows
    Limit,      \* options.limit
    MaxAnswers  \* bound on the answers that count in a minute

ASSUME RateLimitAssumption == Limit \in Nat /\ MaxAnswers \in Nat

VARIABLES
    minute,   \* the window it is now
    kvCount,  \* the value of each window's key, 0 where there is none
    rateCalls, \* what each request read, and the window it read it for
    counted,  \* history: responses that count, by the window they were asked in
    refused   \* history: windows in which a request was refused

rateVars == <<minute, kvCount, rateCalls, counted, refused>>

RateCall == [at : {"idle", "handled"}, window : Minutes, current : Nat]

RateInit ==
    /\ minute \in Minutes
    /\ kvCount = [w \in Minutes |-> 0] /\ counted = [w \in Minutes |-> 0]
    /\ rateCalls = [c \in RateCalls |-> [at |-> "idle", window |-> minute, current |-> 0]]
    /\ refused = {}

NextMinute ==
    /\ minute' \in {w \in Minutes : w > minute}
    /\ UNCHANGED <<kvCount, rateCalls, counted, refused>>

(* The count is at the limit: 429.  If KV cannot be read the request is    *)
(* handled, and not counted.                                               *)
Admits(current) == current < Limit

Ask429(c) ==
    /\ rateCalls[c].at = "idle" /\ counted[minute] < MaxAnswers
    /\ IF Admits(kvCount[minute])
         THEN /\ rateCalls' = [rateCalls EXCEPT ![c] = [at |-> "handled", window |-> minute, current |-> kvCount[minute]]]
              /\ UNCHANGED refused
         ELSE refused' = refused \cup {minute} /\ UNCHANGED rateCalls
    /\ UNCHANGED <<minute, kvCount, counted>>

CountedSlipTwice(current) == current + 2
Counted(current) == current + 1

(* countResponse decides by the status whether it counts; the value was    *)
(* read before, and the write may fail.                                    *)
Answer429(c) ==
    /\ rateCalls[c].at = "handled"
    /\ rateCalls' = [rateCalls EXCEPT ![c].at = "idle"]
    /\ LET w == rateCalls[c].window IN
       \/ /\ counted' = [counted EXCEPT ![w] = @ + 1]
          /\ \/ kvCount' = [kvCount EXCEPT ![w] = Counted(rateCalls[c].current)]
             \/ UNCHANGED kvCount
       \/ UNCHANGED <<counted, kvCount>>
    /\ UNCHANGED <<minute, refused>>

RateNext == NextMinute \/ \E c \in RateCalls : Ask429(c) \/ Answer429(c)

RateSpec == RateInit /\ [][RateNext]_rateVars

-----------------------------------------------------------------------------
RateTypes ==
    /\ minute \in Minutes /\ refused \subseteq Minutes
    /\ kvCount \in [Minutes -> Nat] /\ counted \in [Minutes -> Nat]
    /\ rateCalls \in [RateCalls -> RateCall]

(* The count may miss requests that overlap, and so let more through, but  *)
(* it never refuses a caller early: who is refused has had as many counted *)
(* answers in that minute as the limit allows.                             *)
RefusedOnlyAtLimit == \A w \in refused : counted[w] >= Limit

(* What carries it: no value read or stored is above what was counted.     *)
CountsAreLower ==
    /\ \A w \in Minutes : kvCount[w] <= counted[w]
    /\ \A c \in RateCalls : rateCalls[c].at = "handled" => rateCalls[c].current <= counted[rateCalls[c].window]
=============================================================================
