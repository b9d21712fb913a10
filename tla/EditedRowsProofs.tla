------------------------- MODULE EditedRowsProofs --------------------------
(***************************************************************************)
(* Proofs about the rows the operator edits: the rule list, for any rules, *)
(* requests in flight and arrivals; the nodes added by hand, for any       *)
(* requests in flight and arrivals; the export profiles, for any profiles, *)
(* requests in flight and number of tokens.                                *)
(***************************************************************************)
EXTENDS RuleList, ManualNodes, DefaultProfile, FiniteSetTheorems, TLAPS

-----------------------------------------------------------------------------
(* No order is negative: ListTypes, made inductive. *)
Row == [order : Nat, enabled : Nat, born : Nat, imported : BOOLEAN]
SeenOrders == {n \in Int : n >= -1}
ListOps == {"none", "reorder", "create", "batch", "import", "toggle", "edit", "delete"}
HeldCall ==
    [op : ListOps, step : {"arrived", "read"}, ids : Seq(RuleIds), seen : SeenOrders, row : Row,
     ts : Nat, lone : BOOLEAN]

RulesOK == DOMAIN rules \subseteq RuleIds /\ rules \in [DOMAIN rules -> Row]
CallsOK == listCalls \in [ListCalls -> HeldCall]
ClockOK == listClock \in 0..MaxListCalls
AskedOK == asked \in [known : BOOLEAN, list : Seq(RuleIds)]

(* The ids of a request: no two alike, and one where the path names it. *)
IdsOK == \A c \in ListCalls :
    /\ Named(listCalls[c].ids)
    /\ listCalls[c].op \in {"create", "toggle", "edit", "delete"} => Len(listCalls[c].ids) = 1

(* A request that has been alone since it came is the only one in flight,  *)
(* and what it has read is still so.                                       *)
Lone(c) == c \in Busy /\ listCalls[c].lone
LoneIsAlone == \A c \in ListCalls : Lone(c) => Busy = {c}

Adding == {"create", "batch", "import"}
HasReadWell(c) ==
    /\ listCalls[c].op \in Adding => listCalls[c].seen = MaxOrder
    /\ listCalls[c].op = "reorder" => IdsOf(c) = DOMAIN rules
    /\ listCalls[c].op \in {"edit", "delete"} => listCalls[c].ids[1] \in DOMAIN rules
    /\ listCalls[c].op = "edit" => listCalls[c].row = rules[listCalls[c].ids[1]]
LoneIsReady == \A c \in ListCalls : Lone(c) =>
    /\ listCalls[c].op \in Adding => IdsOf(c) \cap DOMAIN rules = {}
    /\ listCalls[c].step = "read" => HasReadWell(c)

ListInv ==
    /\ RulesOK /\ CallsOK /\ ClockOK /\ AskedOK
    /\ IdsOK /\ LoneIsAlone /\ LoneIsReady /\ ListIsAsAsked

-----------------------------------------------------------------------------
(* A largest value of a function on a finite set: a smallest subset        *)
(* without one would lose an element and then have one.                    *)
LEMMA LargestExists ==
  ASSUME NEW S, IsFiniteSet(S), S # {}, NEW f \in [S -> Int]
  PROVE  \E x \in S : \A y \in S : f[y] <= f[x]
<1> DEFINE Topped(T) == \E x \in T : \A y \in T : f[y] <= f[x]
           Bad == {T \in SUBSET S : T # {} /\ ~Topped(T)}
<1>1. SUFFICES ASSUME Bad # {} PROVE FALSE
  <2>1. S \notin Bad BY <1>1
  <2> QED BY <2>1
<1>2. FiniteSubsetsOf(S) = SUBSET S
  BY FS_FiniteSubsetsOfFinite
<1>3. IsWellFoundedOn(StrictSubsetOrdering(S), FiniteSubsetsOf(S))
  BY FS_StrictSubsetOrderingWellFounded
<1>4. PICK T \in Bad : \A U \in Bad : ~(<<U, T>> \in StrictSubsetOrdering(S))
  <2>1. Bad \subseteq FiniteSubsetsOf(S) BY <1>2
  <2> HIDE DEF Bad
  <2> QED BY <1>1, <1>3, <2>1, WFMin
<1>5. PICK x \in T : TRUE
  OBVIOUS
<1>6. T \ {x} # {}
  <2>1. SUFFICES ASSUME T = {x} PROVE FALSE OBVIOUS
  <2>2. f[x] \in Int OBVIOUS
  <2> QED BY <2>1, <2>2
<1>7. T \ {x} \notin Bad
  <2>1. <<T \ {x}, T>> \in StrictSubsetOrdering(S)
    BY <1>5 DEF StrictSubsetOrdering
  <2> HIDE DEF Bad
  <2> QED BY <1>4, <2>1
<1>8. PICK y \in T \ {x} : \A z \in T \ {x} : f[z] <= f[y]
  BY <1>6, <1>7
<1>9. f[x] \in Int /\ f[y] \in Int /\ \A z \in T : f[z] \in Int
  OBVIOUS
<1>10. CASE f[x] <= f[y]
  BY <1>8, <1>9, <1>10
<1>11. CASE f[y] <= f[x]
  <2>1. \A z \in T : f[z] <= f[x]
    BY <1>8, <1>9, <1>11
  <2> QED BY <2>1
<1> QED BY <1>9, <1>10, <1>11

LEMMA MaxOrderIsLargest ==
  ASSUME RulesOK
  PROVE  /\ MaxOrder \in SeenOrders
         /\ \A id \in DOMAIN rules : rules[id].order <= MaxOrder
<1>1. CASE DOMAIN rules = {}
  BY <1>1 DEF MaxOrder, SeenOrders
<1>2. CASE DOMAIN rules # {}
  <2> DEFINE orders == [id \in DOMAIN rules |-> rules[id].order]
             Top(n) == \A id \in DOMAIN rules : rules[id].order <= n
             All == {rules[id].order : id \in DOMAIN rules}
  <2>1. \A id \in DOMAIN rules : rules[id] \in Row /\ rules[id].order \in Nat
    BY DEF RulesOK, Row
  <2>2. IsFiniteSet(DOMAIN rules)
    BY RuleListAssumption, FS_Subset DEF RulesOK
  <2>3. PICK x \in DOMAIN rules : \A y \in DOMAIN rules : orders[y] <= orders[x]
    <3>1. orders \in [DOMAIN rules -> Int] BY <2>1
    <3> HIDE DEF orders
    <3> QED BY <1>2, <2>2, <3>1, LargestExists
  <2>4. rules[x].order \in All /\ Top(rules[x].order)
    BY <2>3
  <2>5. MaxOrder = CHOOSE n \in All : Top(n)
    BY <1>2 DEF MaxOrder
  <2>6. MaxOrder \in All /\ Top(MaxOrder)
    <3> HIDE DEF All, Top
    <3> QED BY <2>4, <2>5
  <2>7. All \subseteq Nat
    BY <2>1
  <2> HIDE DEF All
  <2> QED BY <2>6, <2>7 DEF SeenOrders
<1> QED BY <1>1, <1>2

-----------------------------------------------------------------------------
(* What the steps do to the requests. *)
LEMMA NoCallIsHeld == NoCall \in HeldCall /\ NoCall.op = "none" /\ NoCall.lone
                      /\ NoCall.ids = <<>> /\ NoCall.step = "arrived"
  BY DEF NoCall, HeldCall, NoRule, Row, ListOps, SeenOrders

(* A request that ends leaves nobody in flight that has always been alone. *)
LEMMA LeavingKeeps ==
  ASSUME CallsOK, IdsOK, LoneIsAlone, NEW c \in Busy, LeaveList(c)
  PROVE  CallsOK' /\ IdsOK' /\ LoneIsAlone' /\ LoneIsReady'
<1>1. c \in ListCalls /\ Busy \subseteq ListCalls
  BY DEF Busy
<1>2. CallsOK'
  BY <1>1, NoCallIsHeld DEF CallsOK, LeaveList
<1>3. /\ listCalls'[c] = NoCall
      /\ \A d \in ListCalls \ {c} : listCalls'[d] = listCalls[d]
  BY <1>1 DEF CallsOK, LeaveList
<1>4. IdsOK'
  <2>1. Named(NoCall.ids) /\ NoCall.op = "none"
    BY NoCallIsHeld DEF Named
  <2> QED BY <1>3, <2>1 DEF IdsOK
<1>5. \A d \in ListCalls : ~Lone(d)'
  <2>1. ~Lone(c)'
    BY <1>3, NoCallIsHeld DEF Lone, Busy
  <2>2. ASSUME NEW d \in ListCalls \ {c}, Lone(d)' PROVE FALSE
    <3>1. Lone(d) BY <1>3, <2>2 DEF Lone, Busy
    <3> QED BY <3>1, <2>2 DEF LoneIsAlone
  <2> QED BY <2>1, <2>2
<1> QED BY <1>2, <1>4, <1>5 DEF LoneIsAlone, LoneIsReady

(* A request that has read goes on, and what the others hold is as it was. *)
LEMMA ReadingKeeps ==
  ASSUME CallsOK, IdsOK, LoneIsAlone, LoneIsReady, NEW c \in Busy, UNCHANGED rules,
         NEW next \in HeldCall,
         next.op = listCalls[c].op, next.ids = listCalls[c].ids,
         next.lone = listCalls[c].lone,
         listCalls' = [listCalls EXCEPT ![c] = next],
         Lone(c) => HasReadWell(c)'
  PROVE  CallsOK' /\ IdsOK' /\ LoneIsAlone' /\ LoneIsReady'
<1>1. c \in ListCalls /\ Busy \subseteq ListCalls
  BY DEF Busy
<1>2. CallsOK'
  BY <1>1 DEF CallsOK
<1>3. /\ listCalls'[c] = next
      /\ \A d \in ListCalls \ {c} : listCalls'[d] = listCalls[d]
  BY <1>1 DEF CallsOK
<1>4. IdsOK'
  BY <1>3 DEF IdsOK
<1>5. Busy' = Busy /\ \A d \in ListCalls : Lone(d)' <=> Lone(d)
  BY <1>3 DEF Busy, Lone
<1>6. LoneIsAlone'
  BY <1>5 DEF LoneIsAlone
<1>7. LoneIsReady'
  <2>1. SUFFICES ASSUME NEW d \in ListCalls, Lone(d)
                 PROVE  (/\ listCalls[d].op \in Adding => IdsOf(d) \cap DOMAIN rules = {}
                         /\ listCalls[d].step = "read" => HasReadWell(d))'
    BY <1>5 DEF LoneIsReady
  <2>2. d = c
    BY <2>1, <1>1 DEF LoneIsAlone
  <2>3. IdsOf(c)' = IdsOf(c)
    BY <1>3 DEF IdsOf
  <2> QED BY <1>3, <2>1, <2>2, <2>3 DEF LoneIsReady
<1> QED BY <1>2, <1>4, <1>6, <1>7

(* A request that arrives is alone with itself, or nobody is. *)
LEMMA ArrivingKeeps ==
  ASSUME CallsOK, ClockOK, RulesOK, NEW c \in ListCalls, NEW op \in ListOps, NEW ids \in Seq(RuleIds),
         IdsOK, Named(ids), op \in {"create", "toggle", "edit", "delete"} => Len(ids) = 1,
         op \in Adding => RangeOf(ids) \cap DOMAIN rules = {},
         ArriveAtList(c, op, ids)
  PROVE  CallsOK' /\ ClockOK' /\ IdsOK' /\ LoneIsAlone' /\ LoneIsReady'
<1> DEFINE came == [NoCall EXCEPT !.op = op, !.ids = ids, !.ts = listClock + 1,
                                  !.lone = (Busy = {})]
           other(d) == [listCalls[d] EXCEPT !.lone = FALSE]
<1>1. ClockOK' /\ listClock + 1 \in Nat
  <2>1. listClock < MaxListCalls /\ listClock' = listClock + 1
    BY DEF ArriveAtList
  <2> QED BY <2>1, RuleListAssumption DEF ClockOK
<1>2. /\ came \in HeldCall /\ came.op = op /\ came.ids = ids /\ came.lone = (Busy = {})
      /\ came.step = "arrived"
  <2>1. (Busy = {}) \in BOOLEAN OBVIOUS
  <2> QED BY <1>1, <2>1, NoCallIsHeld DEF HeldCall
<1>3. \A d \in ListCalls : /\ other(d) \in HeldCall /\ ~other(d).lone
                           /\ other(d).op = listCalls[d].op /\ other(d).ids = listCalls[d].ids
  BY DEF CallsOK, HeldCall
<1>4. /\ listCalls' \in [ListCalls -> HeldCall] /\ listCalls'[c] = came
      /\ \A d \in ListCalls \ {c} : listCalls'[d] = other(d)
  <2> HIDE DEF came, other
  <2>1. listCalls' = [d \in ListCalls |-> IF d = c THEN came ELSE other(d)]
    BY DEF ArriveAtList, came, other
  <2> QED BY <1>2, <1>3, <2>1
<1> HIDE DEF came, other
<1>5. IdsOK'
  <2>1. ASSUME NEW d \in ListCalls
        PROVE  (/\ Named(listCalls[d].ids)
                /\ listCalls[d].op \in {"create", "toggle", "edit", "delete"} =>
                      Len(listCalls[d].ids) = 1)'
    <3>1. CASE d = c BY <1>2, <1>4, <3>1
    <3>2. CASE d # c BY <1>3, <1>4, <3>2 DEF IdsOK
    <3> QED BY <3>1, <3>2
  <2> QED BY <2>1 DEF IdsOK
<1>6. \A d \in ListCalls : Lone(d)' => d = c /\ Busy = {}
  BY <1>2, <1>3, <1>4 DEF Lone
<1>7. LoneIsAlone'
  <2>1. \A d \in ListCalls \ {c} : d \in Busy' <=> d \in Busy
    BY <1>3, <1>4 DEF Busy
  <2>2. Busy' \subseteq ListCalls
    BY DEF Busy
  <2>3. SUFFICES ASSUME NEW d \in ListCalls, Lone(d)' PROVE Busy' = {d}
    BY DEF LoneIsAlone
  <2>4. d = c /\ Busy = {} /\ d \in Busy'
    BY <1>6, <2>3 DEF Lone
  <2> QED BY <2>1, <2>2, <2>4
<1>8. LoneIsReady'
  <2>1. IdsOf(c)' = RangeOf(ids) /\ rules' = rules
    BY <1>2, <1>4 DEF IdsOf, ArriveAtList
  <2>2. SUFFICES ASSUME NEW d \in ListCalls, Lone(d)'
                 PROVE  (/\ listCalls[d].op \in Adding => IdsOf(d) \cap DOMAIN rules = {}
                         /\ listCalls[d].step = "read" => HasReadWell(d))'
    BY DEF LoneIsReady
  <2>3. d = c
    BY <1>6, <2>2
  <2> QED BY <1>2, <1>4, <2>1, <2>3
<1> QED BY <1>1, <1>4, <1>5, <1>7, <1>8 DEF CallsOK

-----------------------------------------------------------------------------
(* What a request that ends leaves in the list. *)
LEMMA PlaceInNamed ==
  ASSUME NEW s, Named(s), NEW i \in DOMAIN s
  PROVE  (CHOOSE j \in DOMAIN s : s[j] = s[i]) = i
  BY DEF Named

LEMMA WhatIsAsked ==
  ASSUME NEW c, NEW list \in Seq(RuleIds), NEW always \in BOOLEAN, AskedOK, Asks(c, list, always)
  PROVE  /\ AskedOK'
         /\ asked'.known => /\ listCalls[c].lone /\ (asked.known \/ always)
                            /\ asked'.list = list
<1>1. <<>> \in Seq(RuleIds)
  OBVIOUS
<1>2. CASE listCalls[c].lone /\ (asked.known \/ always)
  <2>1. asked' = [known |-> TRUE, list |-> list]
    BY <1>2 DEF Asks
  <2> QED BY <1>2, <2>1 DEF AskedOK
<1>3. CASE ~(listCalls[c].lone /\ (asked.known \/ always))
  <2>1. asked' = [known |-> FALSE, list |-> <<>>]
    BY <1>3 DEF Asks
  <2> QED BY <1>1, <2>1 DEF AskedOK
<1> QED BY <1>2, <1>3

(* The rows rs, listed as s names them. *)
Listed(rs, s) ==
    /\ DOMAIN rs = RangeOf(s) /\ Named(s)
    /\ \A i, j \in DOMAIN s : i < j =>
         \/ rs[s[i]].order < rs[s[j]].order
         \/ rs[s[i]].order = rs[s[j]].order /\ rs[s[i]].born < rs[s[j]].born

LEMMA AskedIsListed ==
  /\ ListIsAsAsked <=> (asked.known => Listed(rules, asked.list))
  /\ ListIsAsAsked' <=> (asked'.known => Listed(rules', asked'.list))
  BY DEF ListIsAsAsked, ListedBefore, Listed

(* Rows that come after all the others, in their order, go to the end. *)
LEMMA AppendedIsListed ==
  ASSUME NEW rs, NEW ss, NEW list \in Seq(RuleIds), NEW ids \in Seq(RuleIds), NEW top \in Int,
         Listed(rs, list), Named(ids), RangeOf(ids) \cap DOMAIN rs = {},
         DOMAIN ss = DOMAIN rs \cup RangeOf(ids),
         \A i \in DOMAIN list : /\ ss[list[i]] = rs[list[i]]
                                /\ rs[list[i]].order \in Int /\ rs[list[i]].order <= top,
         \A i \in DOMAIN ids : ss[ids[i]].order = top + i
  PROVE  Listed(ss, list \o ids)
<1> DEFINE all == list \o ids
           n == Len(list)
<1>1. /\ n \in Nat /\ Len(ids) \in Nat /\ DOMAIN list = 1..n /\ DOMAIN ids = 1..Len(ids)
      /\ DOMAIN all = 1..(n + Len(ids))
      /\ \A i \in 1..n : all[i] = list[i]
      /\ \A i \in 1..(n + Len(ids)) : i > n => i - n \in 1..Len(ids) /\ all[i] = ids[i - n]
  OBVIOUS
<1> HIDE DEF all, n
<1>2. \A i \in DOMAIN list : list[i] \in DOMAIN rs
  BY DEF Listed, RangeOf
<1>3. \A i \in DOMAIN ids : ids[i] \notin DOMAIN rs
  BY DEF RangeOf
<1>4. RangeOf(all) = RangeOf(list) \cup RangeOf(ids)
  <2>1. \A i \in DOMAIN all : all[i] \in RangeOf(list) \cup RangeOf(ids)
    BY <1>1 DEF RangeOf
  <2>2. \A i \in DOMAIN list : i \in DOMAIN all /\ all[i] = list[i]
    BY <1>1
  <2>3. \A i \in DOMAIN ids : n + i \in DOMAIN all /\ all[n + i] = ids[i]
    <3>1. \A i \in 1..Len(ids) : n + i \in 1..(n + Len(ids)) /\ n + i > n /\ (n + i) - n = i
      BY <1>1
    <3> QED BY <1>1, <3>1
  <2> QED BY <2>1, <2>2, <2>3 DEF RangeOf
<1>5. DOMAIN ss = RangeOf(all)
  BY <1>4 DEF Listed
<1>6. ASSUME NEW i \in DOMAIN all, NEW j \in DOMAIN all, i < j
      PROVE  /\ all[i] # all[j]
             /\ \/ ss[all[i]].order < ss[all[j]].order
                \/ ss[all[i]].order = ss[all[j]].order /\ ss[all[i]].born < ss[all[j]].born
  <2>1. i \in Int /\ j \in Int
    BY <1>1
  <2>2. CASE j <= n
    <3>1. i \in DOMAIN list /\ j \in DOMAIN list /\ all[i] = list[i] /\ all[j] = list[j]
      BY <1>1, <1>6, <2>1, <2>2
    <3>2. list[i] # list[j]
      BY <1>6, <2>1, <3>1 DEF Listed, Named
    <3> QED BY <1>6, <3>1, <3>2 DEF Listed
  <2>3. CASE i <= n /\ n < j
    <3>1. i \in DOMAIN list /\ all[i] = list[i] /\ j - n \in DOMAIN ids /\ all[j] = ids[j - n]
      BY <1>1, <2>1, <2>3
    <3>2. ss[all[j]].order = top + (j - n) /\ j - n > 0
      BY <1>1, <2>1, <2>3, <3>1
    <3> QED BY <1>1, <1>2, <1>3, <2>1, <3>1, <3>2
  <2>4. CASE n < i
    <3>1. /\ i - n \in DOMAIN ids /\ all[i] = ids[i - n]
          /\ j - n \in DOMAIN ids /\ all[j] = ids[j - n]
      BY <1>1, <1>6, <2>1, <2>4
    <3>2. ss[all[i]].order = top + (i - n) /\ ss[all[j]].order = top + (j - n)
      BY <3>1
    <3>3. i - n # j - n /\ top + (i - n) < top + (j - n)
      BY <1>1, <1>6, <2>1
    <3> QED BY <3>1, <3>2, <3>3 DEF Named
  <2> QED BY <1>1, <2>1, <2>2, <2>3, <2>4
<1>7. Named(all)
  <2>1. \A i \in DOMAIN all : i \in Int
    BY <1>1
  <2> QED BY <1>6, <2>1 DEF Named
<1> QED BY <1>5, <1>6, <1>7 DEF Listed, all

(* Without one row, the others stay in their order. *)
RowsWithout(rs, id) == [other \in DOMAIN rs \ {id} |-> rs[other]]
ListWithout(list, k) == [i \in 1..(Len(list) - 1) |-> list[IF i < k THEN i ELSE i + 1]]

LEMMA RemovedIsListed ==
  ASSUME NEW rs, NEW list \in Seq(RuleIds), Listed(rs, list), NEW k \in DOMAIN list, NEW ss,
         ss = RowsWithout(rs, list[k]), NEW rest, rest = ListWithout(list, k)
  PROVE  rest \in Seq(RuleIds) /\ Listed(ss, rest)
<1> DEFINE n == Len(list)
           old(i) == IF i < k THEN i ELSE i + 1
<1> USE DEF RowsWithout, ListWithout
<1>1. n \in Nat \ {0} /\ DOMAIN list = 1..n /\ k \in 1..n /\ n - 1 \in Nat
  OBVIOUS
<1>2. DOMAIN rest = 1..(n - 1) /\ \A i \in 1..(n - 1) : rest[i] = list[old(i)]
  OBVIOUS
<1> HIDE DEF n
<1>3. \A i \in 1..(n - 1) : old(i) \in 1..n /\ old(i) # k
  BY <1>1
<1>4. \A i, j \in 1..(n - 1) : (i < j => old(i) < old(j)) /\ (old(i) = old(j) => i = j)
  BY <1>1
<1>5. \A m \in 1..n : m # k => \E i \in 1..(n - 1) : old(i) = m
  <2>1. SUFFICES ASSUME NEW m \in 1..n, m # k PROVE \E i \in 1..(n - 1) : old(i) = m
    OBVIOUS
  <2>2. CASE m < k
    <3>1. m \in 1..(n - 1) /\ old(m) = m BY <1>1, <2>2
    <3> QED BY <3>1
  <2>3. CASE m > k
    <3>1. m - 1 \in 1..(n - 1) /\ old(m - 1) = m BY <1>1, <2>3
    <3> QED BY <3>1
  <2> QED BY <1>1, <2>1, <2>2, <2>3
<1> HIDE DEF old
<1>6. rest \in Seq(RuleIds)
  <2>1. \A i \in 1..(n - 1) : rest[i] \in RuleIds
    <3>1. \A i \in 1..n : list[i] \in RuleIds BY <1>1
    <3> QED BY <1>2, <1>3, <3>1
  <2>2. rest \in [1..(n - 1) -> RuleIds]
    <3>1. rest = [i \in DOMAIN rest |-> rest[i]] OBVIOUS
    <3> QED BY <1>2, <2>1, <3>1
  <2> QED BY <1>1, <2>2
<1>7. Named(rest)
  BY <1>1, <1>2, <1>3, <1>4 DEF Listed, Named
<1>8. RangeOf(rest) = RangeOf(list) \ {list[k]}
  <2>1. \A i \in 1..(n - 1) : rest[i] \in RangeOf(list) /\ rest[i] # list[k]
    BY <1>1, <1>2, <1>3 DEF RangeOf, Listed, Named
  <2>2. \A m \in 1..n : list[m] # list[k] => \E i \in 1..(n - 1) : rest[i] = list[m]
    BY <1>2, <1>5
  <2>3. RangeOf(rest) \subseteq RangeOf(list) \ {list[k]}
    <3>1. \A x \in RangeOf(rest) : \E i \in 1..(n - 1) : x = rest[i]
      BY <1>2 DEF RangeOf
    <3> QED BY <2>1, <3>1
  <2>4. RangeOf(list) \ {list[k]} \subseteq RangeOf(rest)
    <3>1. SUFFICES ASSUME NEW x \in RangeOf(list), x # list[k] PROVE x \in RangeOf(rest)
      OBVIOUS
    <3>2. PICK m \in 1..n : x = list[m]
      BY <1>1 DEF RangeOf
    <3>3. PICK i \in 1..(n - 1) : rest[i] = list[m]
      BY <2>2, <3>1, <3>2
    <3> QED BY <1>2, <3>2, <3>3 DEF RangeOf
  <2> QED BY <2>3, <2>4
<1>9. DOMAIN ss = RangeOf(rest)
  BY <1>8 DEF Listed
<1>10. \A i \in 1..(n - 1) : ss[rest[i]] = rs[list[old(i)]]
  <2>1. \A id \in DOMAIN ss : ss[id] = rs[id]
    OBVIOUS
  <2>2. \A i \in 1..(n - 1) : rest[i] \in DOMAIN ss
    BY <1>2, <1>9 DEF RangeOf
  <2> QED BY <1>2, <2>1, <2>2
<1>11. ASSUME NEW i \in 1..(n - 1), NEW j \in 1..(n - 1), i < j
       PROVE  \/ ss[rest[i]].order < ss[rest[j]].order
              \/ ss[rest[i]].order = ss[rest[j]].order /\ ss[rest[i]].born < ss[rest[j]].born
  <2>1. old(i) \in DOMAIN list /\ old(j) \in DOMAIN list /\ old(i) < old(j)
    BY <1>1, <1>3, <1>4, <1>11
  <2>2. ss[rest[i]] = rs[list[old(i)]] /\ ss[rest[j]] = rs[list[old(j)]]
    BY <1>10
  <2> QED BY <2>1, <2>2 DEF Listed
<1> QED BY <1>2, <1>6, <1>7, <1>9, <1>11 DEF Listed

(* The same places in the same rows are the same list. *)
LEMMA SameListed ==
  ASSUME ListIsAsAsked, asked'.known => asked.known /\ asked'.list = asked.list,
         DOMAIN rules' = DOMAIN rules,
         \A id \in DOMAIN rules : /\ rules'[id].order = rules[id].order
                                  /\ rules'[id].born = rules[id].born
  PROVE  ListIsAsAsked'
<1>1. SUFFICES ASSUME asked'.known, Listed(rules, asked.list) PROVE Listed(rules', asked.list)
  BY AskedIsListed
<1>2. \A i \in DOMAIN asked.list : asked.list[i] \in DOMAIN rules
  BY <1>1 DEF Listed, RangeOf
<1> QED BY <1>1, <1>2 DEF Listed

LEMMA OneId ==
  ASSUME NEW s \in Seq(RuleIds), Len(s) = 1
  PROVE  RangeOf(s) = {s[1]}
  BY DEF RangeOf

(* What the invariant says of a request in flight. *)
LEMMA HeldBy ==
  ASSUME ListInv, NEW c \in Busy
  PROVE  /\ c \in ListCalls /\ listCalls[c] \in HeldCall
         /\ listCalls[c].ids \in Seq(RuleIds) /\ Named(listCalls[c].ids)
         /\ IdsOf(c) \subseteq RuleIds
<1>1. c \in ListCalls
  BY DEF Busy
<1>2. listCalls[c] \in HeldCall /\ Named(listCalls[c].ids)
  BY <1>1 DEF ListInv, CallsOK, IdsOK
<1>3. listCalls[c].ids \in Seq(RuleIds)
  BY <1>2 DEF HeldCall
<1>4. \A i \in DOMAIN listCalls[c].ids : listCalls[c].ids[i] \in RuleIds
  BY <1>3
<1> QED BY <1>1, <1>2, <1>3, <1>4 DEF IdsOf, RangeOf

LEMMA RowsOfRules ==
  ASSUME RulesOK, NEW id \in DOMAIN rules
  PROVE  rules[id] \in Row /\ rules[id].order \in Nat /\ rules[id].enabled \in Nat
  BY DEF RulesOK, Row

(* The list that a reorder wrote is the one that it sent. *)
LEMMA ReorderKeeps ==
  ASSUME ListInv, NEW c \in ListCalls, WriteReorder(c)
  PROVE  ListInv'
<1> DEFINE ids == listCalls[c].ids
<1>1. c \in Busy /\ listCalls[c].op = "reorder" /\ listCalls[c].step = "read"
  BY DEF WriteReorder, Writes, Busy
<1>2. CallsOK' /\ IdsOK' /\ LoneIsAlone' /\ LoneIsReady'
  BY <1>1, LeavingKeeps DEF ListInv, WriteReorder
<1>3. ClockOK'
  BY DEF ListInv, ClockOK, WriteReorder
<1>4. ids \in Seq(RuleIds) /\ Named(ids)
  BY <1>1, HeldBy
<1> HIDE DEF ids
<1>5. /\ AskedOK'
      /\ asked'.known => listCalls[c].lone /\ asked'.list = ids
  BY <1>4, WhatIsAsked DEF ListInv, WriteReorder, ids
<1>6. /\ DOMAIN rules' = DOMAIN rules
      /\ \A i \in DOMAIN ids : ids[i] \in DOMAIN rules =>
            rules'[ids[i]] = [rules[ids[i]] EXCEPT !.order = i - 1]
      /\ \A id \in DOMAIN rules : id \notin RangeOf(ids) => rules'[id] = rules[id]
  <2>1. rules' = Reordered(ids)
    BY DEF WriteReorder, ids
  <2>2. \A i \in DOMAIN ids : ids[i] \in RangeOf(ids)
    BY DEF RangeOf
  <2> QED BY <1>4, <2>1, <2>2, PlaceInNamed DEF Reordered
<1>7. \A i \in DOMAIN ids : i - 1 \in Nat
  BY <1>4
<1>8. RulesOK'
  <2>1. ASSUME NEW id \in DOMAIN rules PROVE rules'[id] \in Row
    <3>1. rules[id] \in Row
      BY RowsOfRules DEF ListInv
    <3>2. CASE id \in RangeOf(ids)
      <4>1. PICK i \in DOMAIN ids : ids[i] = id
        BY <3>2 DEF RangeOf
      <4>2. rules'[id] = [rules[id] EXCEPT !.order = i - 1]
        BY <1>6, <4>1
      <4> QED BY <1>7, <3>1, <4>2 DEF Row
    <3> QED BY <1>6, <3>1, <3>2
  <2>2. rules' = [id \in DOMAIN rules' |-> rules'[id]]
    BY DEF WriteReorder, Reordered
  <2> QED BY <1>6, <2>1, <2>2 DEF RulesOK, ListInv
<1>9. ListIsAsAsked'
  <2>1. SUFFICES ASSUME asked'.known PROVE Listed(rules', ids)
    BY <1>5, AskedIsListed
  <2>2. RangeOf(ids) = DOMAIN rules
    BY <1>1, <1>5, <2>1 DEF ListInv, LoneIsReady, Lone, HasReadWell, IdsOf, ids
  <2>3. \A i \in DOMAIN ids : rules'[ids[i]].order = i - 1
    <3>1. \A i \in DOMAIN ids : ids[i] \in DOMAIN rules
      BY <2>2 DEF RangeOf
    <3>2. \A i \in DOMAIN ids : rules[ids[i]] \in Row
      BY <3>1, RowsOfRules DEF ListInv
    <3> QED BY <1>6, <1>7, <3>1, <3>2 DEF Row
  <2>4. \A i \in DOMAIN ids : i \in Int
    BY <1>4
  <2> QED BY <1>4, <1>6, <2>2, <2>3, <2>4 DEF Listed
<1> QED BY <1>2, <1>3, <1>5, <1>8, <1>9 DEF ListInv

(* Positions after the largest one: the new rules come last, as they came. *)
LEMMA InsertKeeps ==
  ASSUME ListInv, NEW c \in ListCalls, InsertRules(c)
  PROVE  ListInv'
<1> DEFINE row(i) == [NoRule EXCEPT !.order = Position(c, i), !.born = listCalls[c].ts]
<1>1. c \in Busy /\ listCalls[c].op \in Adding /\ listCalls[c].step = "read"
  BY DEF InsertRules, Writes, Busy, Adding
<1>2. CallsOK' /\ IdsOK' /\ LoneIsAlone' /\ LoneIsReady'
  BY <1>1, LeavingKeeps DEF ListInv, InsertRules
<1>3. ClockOK'
  BY DEF ListInv, ClockOK, InsertRules
<1>4. PICK ids : ids = listCalls[c].ids
  OBVIOUS
<1>5. /\ ids \in Seq(RuleIds) /\ Named(ids) /\ RangeOf(ids) \subseteq RuleIds
      /\ listCalls[c] \in HeldCall
  BY <1>1, <1>4, HeldBy DEF IdsOf
<1>6. PICK seen \in SeenOrders : seen = listCalls[c].seen
  BY <1>5 DEF HeldCall
<1>7. \A i \in Nat \ {0} : row(i) \in Row /\ row(i).order = seen + i
  <2>1. listCalls[c].ts \in Nat
    BY <1>5 DEF HeldCall
  <2>2. \A i \in Nat \ {0} : Position(c, i) = seen + i /\ seen + i \in Nat
    BY <1>6 DEF Position, SeenOrders
  <2> QED BY <2>1, <2>2 DEF NoRule, Row
<1>8. \A i \in DOMAIN ids : i \in Nat \ {0} /\ ids[i] \in RangeOf(ids)
  BY <1>5 DEF RangeOf
<1> HIDE DEF row
<1>9. /\ DOMAIN rules' = DOMAIN rules \cup RangeOf(ids)
      /\ \A i \in DOMAIN ids : rules'[ids[i]] = row(i)
      /\ \A id \in DOMAIN rules \ RangeOf(ids) : rules'[id] = rules[id]
      /\ rules' = [id \in DOMAIN rules' |-> rules'[id]]
  <2> DEFINE at(id) == CHOOSE i \in DOMAIN ids : ids[i] = id
             rows == [id \in RangeOf(ids) |-> row(at(id))]
  <2>1. rules' = AddedRules(rows)
    <3>1. rules' = AddedRules([id \in RangeOf(listCalls[c].ids) |->
                      row(CHOOSE i \in DOMAIN listCalls[c].ids : listCalls[c].ids[i] = id)])
      BY DEF InsertRules, row
    <3> QED BY <1>4, <3>1
  <2>2. \A i \in DOMAIN ids : at(ids[i]) = i
    BY <1>5, PlaceInNamed
  <2>3. DOMAIN rows = RangeOf(ids) /\ \A i \in DOMAIN ids : rows[ids[i]] = row(i)
    BY <1>8, <2>2
  <2> HIDE DEF rows
  <2> QED BY <1>8, <2>1, <2>3 DEF AddedRules
<1>10. RulesOK'
  <2>1. ASSUME NEW id \in DOMAIN rules' PROVE rules'[id] \in Row
    <3>1. CASE id \in RangeOf(ids)
      <4>1. PICK i \in DOMAIN ids : ids[i] = id
        BY <3>1 DEF RangeOf
      <4> QED BY <1>7, <1>8, <1>9, <4>1
    <3>2. CASE id \notin RangeOf(ids)
      BY <1>9, <3>2, RowsOfRules DEF ListInv
    <3> QED BY <3>1, <3>2
  <2> QED BY <1>5, <1>9, <2>1 DEF RulesOK, ListInv
<1>11. /\ asked.list \in Seq(RuleIds)
       /\ AskedOK'
       /\ asked'.known => listCalls[c].lone /\ asked.known /\ asked'.list = asked.list \o ids
  <2>1. asked.list \in Seq(RuleIds)
    BY DEF ListInv, AskedOK
  <2>2. asked.list \o ids \in Seq(RuleIds)
    BY <1>5, <2>1
  <2> QED BY <1>4, <2>1, <2>2, WhatIsAsked DEF ListInv, InsertRules
<1>12. ListIsAsAsked'
  <2>1. SUFFICES ASSUME asked'.known PROVE Listed(rules', asked'.list)
    BY AskedIsListed
  <2>2. PICK list : list = asked.list
    OBVIOUS
  <2>3. list \in Seq(RuleIds) /\ asked'.list = list \o ids /\ Listed(rules, list)
    BY <1>11, <2>1, <2>2, AskedIsListed DEF ListInv
  <2>4. /\ RangeOf(ids) \cap DOMAIN rules = {}
        /\ \A id \in DOMAIN rules : rules[id].order <= seen
    BY <1>1, <1>4, <1>6, <1>11, <2>1, MaxOrderIsLargest
    DEF ListInv, LoneIsReady, Lone, HasReadWell, IdsOf
  <2>5. \A i \in DOMAIN list :
          list[i] \in DOMAIN rules /\ rules'[list[i]] = rules[list[i]]
            /\ rules[list[i]].order \in Int /\ rules[list[i]].order <= seen
    <3>1. \A i \in DOMAIN list : list[i] \in DOMAIN rules
      BY <2>3 DEF Listed, RangeOf
    <3> QED BY <1>9, <2>4, <3>1, RowsOfRules DEF ListInv
  <2>6. \A i \in DOMAIN ids : rules'[ids[i]].order = seen + i
    BY <1>7, <1>8, <1>9
  <2>7. seen \in Int /\ DOMAIN rules' = DOMAIN rules \cup RangeOf(ids)
    BY <1>6, <1>9 DEF SeenOrders
  <2>8. Listed(rules', list \o ids)
    BY <1>5, <2>3, <2>4, <2>5, <2>6, <2>7, AppendedIsListed
  <2> QED BY <2>3, <2>8
<1> QED BY <1>2, <1>3, <1>10, <1>11, <1>12 DEF ListInv

(* An import puts its rules where nobody asked for them. *)
LEMMA ImportKeeps ==
  ASSUME ListInv, NEW c \in ListCalls, InsertImported(c)
  PROVE  ListInv'
<1> DEFINE row(i) == [order |-> 1, enabled |-> listCalls[c].seen + i, born |-> listCalls[c].ts,
                      imported |-> TRUE]
<1>1. c \in Busy
  BY DEF InsertImported, Writes, Busy
<1>2. CallsOK' /\ IdsOK' /\ LoneIsAlone' /\ LoneIsReady'
  BY <1>1, LeavingKeeps DEF ListInv, InsertImported
<1>3. ClockOK'
  BY DEF ListInv, ClockOK, InsertImported
<1>4. PICK ids : ids = listCalls[c].ids
  OBVIOUS
<1>5. ids \in Seq(RuleIds) /\ Named(ids) /\ RangeOf(ids) \subseteq RuleIds
  BY <1>1, <1>4, HeldBy DEF IdsOf
<1>6. \A i \in DOMAIN ids : row(i) \in Row
  <2>1. listCalls[c].ts \in Nat /\ listCalls[c].seen \in SeenOrders
    BY <1>1, HeldBy DEF HeldCall
  <2>2. \A i \in DOMAIN ids : listCalls[c].seen + i \in Nat
    BY <1>5, <2>1 DEF SeenOrders
  <2> QED BY <2>1, <2>2 DEF Row
<1> HIDE DEF row
<1>7. RulesOK'
  <2> DEFINE at(id) == CHOOSE i \in DOMAIN ids : ids[i] = id
             rows == [id \in RangeOf(ids) |-> row(at(id))]
  <2>1. rules' = AddedRules(rows)
    <3>1. rules' = AddedRules([id \in RangeOf(listCalls[c].ids) |->
                      row(CHOOSE i \in DOMAIN listCalls[c].ids : listCalls[c].ids[i] = id)])
      BY DEF InsertImported, row
    <3> QED BY <1>4, <3>1
  <2>2. \A id \in RangeOf(ids) : at(id) \in DOMAIN ids
    BY DEF RangeOf
  <2>3. rows \in [RangeOf(ids) -> Row]
    BY <1>6, <2>2
  <2> HIDE DEF rows
  <2> QED BY <1>5, <2>1, <2>3 DEF AddedRules, RulesOK, ListInv
<1>8. AskedOK' /\ ListIsAsAsked'
  BY DEF InsertImported, AskedOK, ListIsAsAsked
<1> QED BY <1>2, <1>3, <1>7, <1>8 DEF ListInv

(* Enabling or disabling rules moves none. *)
LEMMA ToggleKeeps ==
  ASSUME ListInv, NEW c \in ListCalls, WriteToggle(c)
  PROVE  ListInv'
<1>1. c \in Busy
  BY DEF WriteToggle, Writes, Busy
<1>2. CallsOK' /\ IdsOK' /\ LoneIsAlone' /\ LoneIsReady'
  BY <1>1, LeavingKeeps DEF ListInv, WriteToggle
<1>3. ClockOK' /\ AskedOK'
  BY DEF ListInv, ClockOK, AskedOK, WriteToggle
<1>4. PICK on \in {0, 1} :
        rules' = [id \in DOMAIN rules |->
                    IF id \in IdsOf(c) THEN [rules[id] EXCEPT !.enabled = on] ELSE rules[id]]
  BY DEF WriteToggle
<1>5. \A id \in DOMAIN rules : /\ rules'[id] \in Row
                               /\ rules'[id].order = rules[id].order
                               /\ rules'[id].born = rules[id].born
  <2>1. \A id \in DOMAIN rules : rules[id] \in Row
    BY RowsOfRules DEF ListInv
  <2> QED BY <1>4, <2>1 DEF Row
<1>6. RulesOK' /\ DOMAIN rules' = DOMAIN rules
  BY <1>4, <1>5 DEF RulesOK, ListInv
<1>7. ListIsAsAsked'
  BY <1>5, <1>6, SameListed DEF ListInv, WriteToggle
<1> QED BY <1>2, <1>3, <1>6, <1>7 DEF ListInv

(* Editing one rule while nothing else runs leaves it where it is. *)
LEMMA EditKeeps ==
  ASSUME ListInv, NEW c \in ListCalls, WriteEdited(c)
  PROVE  ListInv'
<1>1. c \in Busy /\ listCalls[c].op = "edit" /\ listCalls[c].step = "read"
  BY DEF WriteEdited, Writes, Busy
<1>2. CallsOK' /\ IdsOK' /\ LoneIsAlone' /\ LoneIsReady'
  BY <1>1, LeavingKeeps DEF ListInv, WriteEdited
<1>3. ClockOK'
  BY DEF ListInv, ClockOK, WriteEdited
<1>4. asked.list \in Seq(RuleIds) /\ AskedOK
  BY DEF ListInv, AskedOK
<1>5. /\ AskedOK'
      /\ asked'.known => listCalls[c].lone /\ asked.known /\ asked'.list = asked.list
  BY <1>4, WhatIsAsked DEF WriteEdited
<1>6. PICK row \in Row : row = listCalls[c].row
  BY <1>1, HeldBy DEF HeldCall
<1>7. rules' = [id \in DOMAIN rules |->
                  IF id \in IdsOf(c)
                    THEN [rules[id] EXCEPT !.order = row.order, !.enabled = row.enabled]
                    ELSE rules[id]]
  BY <1>6 DEF WriteEdited
<1>8. \A id \in DOMAIN rules : /\ rules'[id] \in Row /\ rules'[id].born = rules[id].born
                               /\ id \in IdsOf(c) => rules'[id].order = row.order
                               /\ id \notin IdsOf(c) => rules'[id] = rules[id]
  <2>1. \A id \in DOMAIN rules : rules[id] \in Row
    BY RowsOfRules DEF ListInv
  <2> QED BY <1>7, <2>1 DEF Row
<1>9. RulesOK' /\ DOMAIN rules' = DOMAIN rules
  BY <1>7, <1>8 DEF RulesOK, ListInv
<1>10. ListIsAsAsked'
  <2>1. SUFFICES ASSUME asked'.known PROVE ListIsAsAsked'
    BY DEF ListIsAsAsked
  <2>2. /\ listCalls[c].ids[1] \in DOMAIN rules
        /\ row = rules[listCalls[c].ids[1]]
    BY <1>1, <1>5, <1>6, <2>1 DEF ListInv, LoneIsReady, Lone, HasReadWell
  <2>3. IdsOf(c) = {listCalls[c].ids[1]}
    BY <1>1, HeldBy, OneId DEF ListInv, IdsOK, IdsOf
  <2>4. \A id \in DOMAIN rules : /\ rules'[id].order = rules[id].order
                                 /\ rules'[id].born = rules[id].born
    BY <1>8, <2>2, <2>3
  <2> QED BY <1>5, <1>9, <2>1, <2>4, SameListed DEF ListInv
<1> QED BY <1>2, <1>3, <1>5, <1>9, <1>10 DEF ListInv

(* A rule that goes leaves the others in their order. *)
LEMMA DeleteKeeps ==
  ASSUME ListInv, NEW c \in ListCalls, WriteDelete(c)
  PROVE  ListInv'
<1>1. c \in Busy /\ listCalls[c].op = "delete" /\ listCalls[c].step = "read"
  BY DEF WriteDelete, Writes, Busy
<1>2. CallsOK' /\ IdsOK' /\ LoneIsAlone' /\ LoneIsReady'
  BY <1>1, LeavingKeeps DEF ListInv, WriteDelete
<1>3. ClockOK'
  BY DEF ListInv, ClockOK, WriteDelete
<1>4. PICK gone : gone = listCalls[c].ids[1]
  OBVIOUS
<1>5. IdsOf(c) = {gone}
  BY <1>1, <1>4, HeldBy, OneId DEF ListInv, IdsOK, IdsOf
<1>6. rules' = [id \in DOMAIN rules \ {gone} |-> rules[id]]
  BY <1>5 DEF WriteDelete
<1>7. RulesOK'
  BY <1>6 DEF RulesOK, ListInv
<1>8. CASE ~(listCalls[c].lone /\ asked.known)
  <2>1. asked' = [known |-> FALSE, list |-> <<>>]
    BY <1>8 DEF WriteDelete, Asks
  <2> QED BY <1>2, <1>3, <1>7, <2>1 DEF ListInv, AskedOK, ListIsAsAsked
<1>9. CASE listCalls[c].lone /\ asked.known
  <2>1. asked' = [known |-> TRUE, list |-> AskedBut(gone)]
    BY <1>4, <1>9 DEF WriteDelete, Asks
  <2>2. gone \in DOMAIN rules
    BY <1>1, <1>4, <1>9 DEF ListInv, LoneIsReady, Lone, HasReadWell
  <2>3. PICK list : list = asked.list
    OBVIOUS
  <2>4. list \in Seq(RuleIds) /\ Listed(rules, list)
    BY <1>9, <2>3, AskedIsListed DEF ListInv, AskedOK
  <2>5. PICK k \in DOMAIN list : list[k] = gone
    BY <2>2, <2>4 DEF Listed, RangeOf
  <2>6. k = CHOOSE i \in DOMAIN list : list[i] = gone
    BY <2>4, <2>5, PlaceInNamed DEF Listed
  <2>7. AskedBut(gone) = [i \in 1..(Len(list) - 1) |-> list[IF i < k THEN i ELSE i + 1]]
    BY <2>3, <2>6 DEF AskedBut
  <2>8. AskedBut(gone) \in Seq(RuleIds) /\ Listed(rules', AskedBut(gone))
    <3>1. rules' = RowsWithout(rules, list[k])
      BY <1>6, <2>5 DEF RowsWithout
    <3>2. AskedBut(gone) = ListWithout(list, k)
      BY <2>7 DEF ListWithout
    <3> QED BY <2>4, <2>5, <3>1, <3>2, RemovedIsListed
  <2> QED BY <1>2, <1>3, <1>7, <2>1, <2>8, AskedIsListed DEF ListInv, AskedOK
<1> QED BY <1>8, <1>9

-----------------------------------------------------------------------------
(* What the steps before the last one of a request find and keep. *)
LEMMA ChecksKeep ==
  ASSUME ListInv, NEW c \in ListCalls,
         CheckReorder(c) \/ CheckToggle(c) \/ ReadEdited(c) \/ CheckDelete(c) \/ ReadMax(c)
  PROVE  ListInv'
<1>1. c \in Busy
  BY DEF CheckReorder, CheckToggle, ReadEdited, CheckDelete, ReadMax, Reads, Busy
<1>2. UNCHANGED <<rules, listClock, asked>>
  BY DEF CheckReorder, CheckToggle, ReadEdited, CheckDelete, ReadMax, Refused
<1>3. SUFFICES CallsOK' /\ IdsOK' /\ LoneIsAlone' /\ LoneIsReady'
  BY <1>2 DEF ListInv, RulesOK, ClockOK, AskedOK, ListIsAsAsked, ListedBefore
<1>4. CASE LeaveList(c)
  BY <1>1, <1>4, LeavingKeeps DEF ListInv
<1>5. /\ listCalls[c] \in HeldCall /\ listCalls[c].ids \in Seq(RuleIds)
      /\ listCalls[c].op # "none"
  BY <1>1, HeldBy DEF Busy
<1>6. CASE /\ listCalls' = [listCalls EXCEPT ![c].step = "read"]
           /\ \/ listCalls[c].op = "reorder" /\ IdsOf(c) = DOMAIN rules
              \/ listCalls[c].op = "toggle"
              \/ listCalls[c].op = "delete" /\ IdsOf(c) \subseteq DOMAIN rules
  <2> DEFINE next == [listCalls[c] EXCEPT !.step = "read"]
  <2>1. /\ next \in HeldCall /\ next.op = listCalls[c].op /\ next.ids = listCalls[c].ids
        /\ next.lone = listCalls[c].lone
    BY <1>5 DEF HeldCall
  <2>2. listCalls' = [listCalls EXCEPT ![c] = next]
    BY <1>6
  <2>3. listCalls'[c] = next
    BY <2>2 DEF ListInv, CallsOK
  <2> HIDE DEF next
  <2>4. listCalls[c].op = "delete" => IdsOf(c) = {listCalls[c].ids[1]}
    BY <1>5, OneId DEF ListInv, IdsOK, IdsOf
  <2>5. HasReadWell(c)'
    BY <1>2, <1>6, <2>1, <2>3, <2>4 DEF HasReadWell, Adding, IdsOf
  <2> QED BY <1>1, <1>2, <2>1, <2>2, <2>5, ReadingKeeps DEF ListInv
<1>7. CASE /\ listCalls[c].op = "edit" /\ IdsOf(c) \subseteq DOMAIN rules
           /\ listCalls' = [listCalls EXCEPT ![c].step = "read",
                                             ![c].row = rules[listCalls[c].ids[1]]]
  <2>1. PICK id : id = listCalls[c].ids[1]
    OBVIOUS
  <2>2. IdsOf(c) = {id}
    BY <1>5, <1>7, <2>1, OneId DEF ListInv, IdsOK, IdsOf
  <2>3. PICK row \in Row : row = rules[id]
    BY <1>7, <2>2, RowsOfRules DEF ListInv
  <2> DEFINE next == [listCalls[c] EXCEPT !.step = "read", !.row = row]
  <2>4. /\ next \in HeldCall /\ next.op = listCalls[c].op /\ next.ids = listCalls[c].ids
        /\ next.lone = listCalls[c].lone /\ next.row = row
    BY <1>5 DEF HeldCall
  <2>5. listCalls' = [listCalls EXCEPT ![c] = next]
    BY <1>7, <2>1, <2>3
  <2>6. listCalls'[c] = next
    BY <2>5 DEF ListInv, CallsOK
  <2> HIDE DEF next
  <2>7. HasReadWell(c)'
    BY <1>2, <1>7, <2>1, <2>2, <2>3, <2>4, <2>6 DEF HasReadWell, Adding
  <2> QED BY <1>1, <1>2, <2>4, <2>5, <2>7, ReadingKeeps DEF ListInv
<1>8. CASE /\ listCalls[c].op \in Adding
           /\ listCalls' = [listCalls EXCEPT ![c].step = "read", ![c].seen = MaxOrder]
  <2>1. PICK top \in SeenOrders : top = MaxOrder
    BY MaxOrderIsLargest DEF ListInv
  <2> DEFINE next == [listCalls[c] EXCEPT !.step = "read", !.seen = top]
  <2>2. /\ next \in HeldCall /\ next.op = listCalls[c].op /\ next.ids = listCalls[c].ids
        /\ next.lone = listCalls[c].lone /\ next.seen = top
    BY <1>5 DEF HeldCall
  <2>3. listCalls' = [listCalls EXCEPT ![c] = next]
    BY <1>8, <2>1
  <2>4. listCalls'[c] = next
    BY <2>3 DEF ListInv, CallsOK
  <2> HIDE DEF next
  <2>5. MaxOrder' = top
    BY <1>2, <2>1 DEF MaxOrder
  <2>6. HasReadWell(c)'
    BY <1>8, <2>2, <2>4, <2>5 DEF HasReadWell, Adding
  <2> QED BY <1>1, <1>2, <2>2, <2>3, <2>6, ReadingKeeps DEF ListInv
<1>9. \/ LeaveList(c)
      \/ /\ listCalls' = [listCalls EXCEPT ![c].step = "read"]
         /\ \/ listCalls[c].op = "reorder" /\ IdsOf(c) = DOMAIN rules
            \/ listCalls[c].op = "toggle"
            \/ listCalls[c].op = "delete" /\ IdsOf(c) \subseteq DOMAIN rules
      \/ /\ listCalls[c].op = "edit" /\ IdsOf(c) \subseteq DOMAIN rules
         /\ listCalls' = [listCalls EXCEPT ![c].step = "read",
                                           ![c].row = rules[listCalls[c].ids[1]]]
      \/ /\ listCalls[c].op \in Adding
         /\ listCalls' = [listCalls EXCEPT ![c].step = "read", ![c].seen = MaxOrder]
  BY DEF CheckReorder, CheckToggle, ReadEdited, CheckDelete, ReadMax, Reads, Refused, Adding
<1> QED BY <1>4, <1>6, <1>7, <1>8, <1>9

LEMMA ArrivalsKeep ==
  ASSUME ListInv, NEW c \in ListCalls, ListArrivals(c)
  PROVE  ListInv'
<1>1. PICK op \in ListOps, ids \in Seq(RuleIds) :
        /\ ArriveAtList(c, op, ids) /\ Named(ids)
        /\ op \in {"create", "toggle", "edit", "delete"} => Len(ids) = 1
        /\ op \in Adding => RangeOf(ids) \cap DOMAIN rules = {}
  <2>1. \A ids \in IdLists : ids \in Seq(RuleIds) /\ Named(ids)
    <3>1. SUFFICES ASSUME NEW ids \in IdLists PROVE ids \in Seq(RuleIds) /\ Named(ids)
      OBVIOUS
    <3>2. PICK n \in 1..Cardinality(RuleIds) : ids \in [1..n -> RuleIds]
      BY DEF IdLists
    <3>3. n \in Nat
      BY RuleListAssumption, FS_CardinalityType
    <3> QED BY <3>2, <3>3 DEF IdLists
  <2>2. \A id \in RuleIds : /\ <<id>> \in Seq(RuleIds) /\ Named(<<id>>) /\ Len(<<id>>) = 1
                            /\ RangeOf(<<id>>) = {id}
    BY DEF Named, RangeOf
  <2>3. FreshIds \subseteq RuleIds \ DOMAIN rules
    BY DEF FreshIds
  <2>4. CASE \E ids \in IdLists : ArriveAtList(c, "reorder", ids)
    BY <2>1, <2>4 DEF ListOps, Adding
  <2>5. CASE \E id \in FreshIds : ArriveAtList(c, "create", <<id>>)
    <3>1. PICK id \in FreshIds : ArriveAtList(c, "create", <<id>>)
      BY <2>5
    <3>2. id \in RuleIds /\ id \notin DOMAIN rules
      BY <2>3
    <3>3. RangeOf(<<id>>) \cap DOMAIN rules = {}
      BY <2>2, <3>2
    <3>4. "create" \in ListOps
      BY DEF ListOps
    <3> QED BY <2>2, <3>1, <3>2, <3>3, <3>4
  <2>6. CASE \E ids \in IdLists :
               /\ RangeOf(ids) \subseteq FreshIds /\ Len(ids) = 2
               /\ ArriveAtList(c, "batch", ids) \/ ArriveAtList(c, "import", ids)
    <3>1. PICK ids \in IdLists :
            /\ RangeOf(ids) \subseteq FreshIds
            /\ ArriveAtList(c, "batch", ids) \/ ArriveAtList(c, "import", ids)
      BY <2>6
    <3>2. RangeOf(ids) \cap DOMAIN rules = {}
      BY <2>3, <3>1
    <3> QED BY <2>1, <3>1, <3>2 DEF ListOps, Adding
  <2>7. CASE \E id \in DOMAIN rules, op \in {"toggle", "edit", "delete"} :
               ArriveAtList(c, op, <<id>>)
    <3>1. PICK id \in DOMAIN rules, op \in {"toggle", "edit", "delete"} :
            ArriveAtList(c, op, <<id>>)
      BY <2>7
    <3>2. id \in RuleIds /\ op \in ListOps /\ op \notin Adding
      BY DEF ListInv, RulesOK, ListOps, Adding
    <3> QED BY <2>2, <3>1, <3>2
  <2> QED BY <2>4, <2>5, <2>6, <2>7 DEF ListArrivals
<1>2. UNCHANGED <<rules, asked>>
  BY <1>1 DEF ArriveAtList
<1>3. CallsOK' /\ ClockOK' /\ IdsOK' /\ LoneIsAlone' /\ LoneIsReady'
  BY <1>1, ArrivingKeeps DEF ListInv
<1> QED BY <1>2, <1>3 DEF ListInv, RulesOK, AskedOK, ListIsAsAsked, ListedBefore

LEMMA DropKeeps ==
  ASSUME ListInv, NEW c \in ListCalls, DropListCall(c)
  PROVE  ListInv'
<1>1. c \in Busy /\ LeaveList(c) /\ UNCHANGED <<rules, listClock, asked>>
  BY DEF DropListCall
<1>2. CallsOK' /\ IdsOK' /\ LoneIsAlone' /\ LoneIsReady'
  BY <1>1, LeavingKeeps DEF ListInv
<1> QED BY <1>1, <1>2 DEF ListInv, RulesOK, ClockOK, AskedOK, ListIsAsAsked, ListedBefore

LEMMA ListStartsWell ==
  ASSUME ListInit
  PROVE  ListInv
<1>1. RulesOK
  BY DEF ListInit, RulesOK
<1>2. CallsOK /\ \A c \in ListCalls : listCalls[c] = NoCall
  BY NoCallIsHeld DEF ListInit, CallsOK
<1>3. ClockOK
  BY RuleListAssumption DEF ListInit, ClockOK
<1>4. AskedOK /\ asked.list = <<>>
  BY DEF ListInit, AskedOK
<1>5. Busy = {}
  BY <1>2, NoCallIsHeld DEF Busy
<1>6. IdsOK /\ LoneIsAlone /\ LoneIsReady
  BY <1>2, <1>5, NoCallIsHeld DEF IdsOK, LoneIsAlone, LoneIsReady, Lone, Named
<1>7. DOMAIN rules = {}
  BY DEF ListInit
<1>8. ListIsAsAsked
  BY <1>4, <1>7 DEF ListIsAsAsked, RangeOf, Named
<1> QED BY <1>1, <1>2, <1>3, <1>4, <1>6, <1>8 DEF ListInv

LEMMA ListStepsKeep == ListInv /\ [ListNext]_listVars => ListInv'
<1>1. SUFFICES ASSUME ListInv, [ListNext]_listVars PROVE ListInv'
  OBVIOUS
<1>2. CASE UNCHANGED listVars
  <2>1. UNCHANGED <<rules, listCalls, listClock, asked>>
    BY <1>2 DEF listVars
  <2>2. RulesOK' /\ CallsOK' /\ ClockOK' /\ AskedOK' /\ IdsOK' /\ ListIsAsAsked'
    BY <1>1, <2>1
    DEF ListInv, RulesOK, CallsOK, ClockOK, AskedOK, IdsOK, ListIsAsAsked, ListedBefore
  <2>3. Busy' = Busy /\ MaxOrder' = MaxOrder /\ \A c : IdsOf(c)' = IdsOf(c)
    BY <2>1 DEF Busy, MaxOrder, IdsOf
  <2>4. LoneIsAlone' /\ LoneIsReady'
    BY <1>1, <2>1, <2>3 DEF ListInv, LoneIsAlone, LoneIsReady, Lone, HasReadWell
  <2> QED BY <2>2, <2>4 DEF ListInv
<1>3. CASE ListNext
  <2>1. PICK c \in ListCalls :
          \/ ListArrivals(c) \/ DropListCall(c)
          \/ CheckReorder(c) \/ WriteReorder(c)
          \/ ReadMax(c) \/ InsertRules(c) \/ InsertImported(c)
          \/ CheckToggle(c) \/ WriteToggle(c)
          \/ ReadEdited(c) \/ WriteEdited(c)
          \/ CheckDelete(c) \/ WriteDelete(c)
    BY <1>3 DEF ListNext
  <2> QED BY <1>1, <2>1, ArrivalsKeep, DropKeeps, ChecksKeep, ReorderKeeps, InsertKeeps,
             ImportKeeps, ToggleKeeps, EditKeeps, DeleteKeeps
<1> QED BY <1>1, <1>2, <1>3

LEMMA RowsAreTyped == ListInv => ListTypes
<1>1. Row \subseteq Rule /\ HeldCall \subseteq Call
  BY DEF Row, Rule, HeldCall, Call, ListOps, SeenOrders
<1> QED BY <1>1 DEF ListInv, RulesOK, CallsOK, ClockOK, AskedOK, ListTypes

-----------------------------------------------------------------------------
(* The rows, the requests in flight and the history have their types: no   *)
(* order that a request computes leaves the integers.                      *)
THEOREM ListTypesHold == ListSpec => []ListTypes
<1>1. ListSpec => []ListInv
  BY ListStartsWell, ListStepsKeep, PTL DEF ListSpec
<1> QED BY <1>1, RowsAreTyped, PTL

(* While requests come one by one the list is what they asked for: new     *)
(* rules last, a reordered list as it was sent, a deleted rule gone and no *)
(* other moved; and one reorder that runs alone puts any list right.       *)
THEOREM ListIsAsAskedHolds == ListSpec => []ListIsAsAsked
<1>1. ListSpec => []ListInv
  BY ListStartsWell, ListStepsKeep, PTL DEF ListSpec
<1>2. ListInv => ListIsAsAsked
  BY DEF ListInv
<1> QED BY <1>1, <1>2, PTL

-----------------------------------------------------------------------------
(***************************************************************************)
(* What rows, bodies and requests hold.                                    *)
Word == {"", "a", "b", "s", "manual", "us", "plain", "US", "XX", "trojan", "vmess", "bogus", "password", "uuid",
         "good", "junk", "on", "off"}
Connection == [protocol : Word, server : Word, keys : SUBSET Word]
ManualRow == [id : Nat, source : Word, name : Word, protocol : Word, server : Word, country : Word,
              chosen : BOOLEAN, enabled : BOOLEAN, raw : SUBSET Word, parsed : Connection,
              edited : BOOLEAN, hand : BOOLEAN]
NodeBody == [uri : Word, source : Word, name : Word, protocol : Word, server : Word, country : Word,
             enabled : Word, raw : SUBSET SUBSET Word, parsed : SUBSET Connection, malformed : BOOLEAN]
NodeAsk == [at : {"idle"}] \cup [at : {"insert", "delete", "count"}, row : ManualRow]
           \cup [at : {"update"}, row : ManualRow, body : NodeBody]
           \cup [at : {"store"}, row : ManualRow, count : Nat]
           \cup [at : {"batch"}, ids : SUBSET Nat, to : Word]

(* A row as some request wanted it, and a node of a subscription.          *)
RowFits(row) ==
    /\ Needs(row.protocol) \subseteq row.parsed.keys \cup row.raw
    /\ row.edited => row.parsed.protocol = row.protocol /\ row.parsed.server = row.server
    /\ Detect(row.name) # "" /\ ~row.chosen => row.country = Detect(row.name)
Served(row) == row = [NodeRow0(row.id, "s", FALSE, "us") EXCEPT !.enabled = row.enabled]
RowAgrees(row) == IF row.hand THEN RowFits(row) ELSE Served(row)

(* Ids count upwards, so a row to be inserted is no other request's.       *)
Ids == 1..(2 + nodeSteps)
RowsOK ==
    /\ nodeSteps \in 0..MaxNodeCalls
    /\ manual \subseteq ManualRow /\ DOMAIN owners \subseteq {"s", "manual"}
    /\ \A row \in manual : row.id \in Ids /\ row.source \in DOMAIN owners /\ RowAgrees(row)
    /\ \A row, other \in manual : row.id = other.id => row = other
    /\ wish \in [1..(2 + MaxNodeCalls) -> BOOLEAN] /\ neat \in BOOLEAN
AskFits(ask) ==
    /\ ask.at \in {"insert", "delete", "update", "count", "store"} => ask.row.id \in Ids
    /\ ask.at = "insert" => ask.row.hand /\ RowFits(ask.row) /\ \A row \in manual : row.id # ask.row.id
    /\ ask.at = "update" => IF ask.row.hand THEN RowFits(UpdatedRow(ask.row, ask.body)) ELSE EnabledOnly(ask.body)
    /\ ask.at \in {"update", "delete"} =>
         \A row \in manual : row.id = ask.row.id => row.hand = ask.row.hand /\ row.source = ask.row.source
    /\ ask.at = "batch" => ask.ids \subseteq Ids
AsksOK ==
    /\ nodeAsks \in [NodeCalls -> NodeAsk]
    /\ \A q \in NodeCalls : AskFits(nodeAsks[q])
    /\ \A p, q \in NodeCalls : p # q /\ nodeAsks[p].at = "insert" /\ nodeAsks[q].at \in {"insert", "update", "delete"} =>
         nodeAsks[p].row.id # nodeAsks[q].row.id

(* Without overlap one request is in flight; what it read is stored, and   *)
(* only the count of the source it changed is behind.                      *)
Behind == {s \in DOMAIN owners : \E q \in NodeCalls : nodeAsks[q].at \in {"count", "store"} /\ nodeAsks[q].row.source = s}
NeatOK ==
    neat => /\ \A p, q \in NodeCalls : nodeAsks[p].at # "idle" /\ nodeAsks[q].at # "idle" => p = q
            /\ \A row \in manual : row.enabled = wish[row.id]
            /\ \A q \in NodeCalls :
                 /\ nodeAsks[q].at = "update" => nodeAsks[q].row \in manual
                 /\ nodeAsks[q].at = "store" =>
                      nodeAsks[q].count = Cardinality(NodesOf(manual, nodeAsks[q].row.source))
            /\ \A s \in DOMAIN owners \ Behind : owners[s] = Cardinality(NodesOf(manual, s))

ManualInv == RowsOK /\ AsksOK /\ NeatOK

-----------------------------------------------------------------------------
LEMMA AskShape ==
    /\ \A ask \in NodeAsk :
         /\ ask.at \in {"idle", "insert", "delete", "count", "update", "store", "batch"}
         /\ ask.at \in {"insert", "delete", "count", "update", "store"} => ask.row \in ManualRow
         /\ ask.at = "update" => ask.body \in NodeBody
         /\ ask.at = "store" => ask.count \in Nat
         /\ ask.at = "batch" => ask.ids \in SUBSET Nat
    /\ NotAsked \in NodeAsk /\ NotAsked.at = "idle"
BY DEF NodeAsk, NotAsked

LEMMA AskOfRow ==
  ASSUME NEW row \in ManualRow, NEW at \in {"insert", "delete", "count"}
  PROVE  [at |-> at, row |-> row] \in NodeAsk
BY DEF NodeAsk

LEMMA AskOfMore ==
  ASSUME NEW row \in ManualRow
  PROVE  /\ \A count \in Nat : [at |-> "store", row |-> row, count |-> count] \in NodeAsk
         /\ \A body \in NodeBody : [at |-> "update", row |-> row, body |-> body] \in NodeAsk
BY DEF NodeAsk

LEMMA AskOfBatch ==
  ASSUME NEW ids \in SUBSET Nat, NEW to \in Word
  PROVE  [at |-> "batch", ids |-> ids, to |-> to] \in NodeAsk
BY DEF NodeAsk

(* The words a request uses.                                               *)
LEMMA WordsAreWords ==
    /\ \A given, other \in Word : Or(given, other) \in Word
    /\ \A name \in Word : Detect(name) \in Word
    /\ \A protocol : Needs(protocol) \in SUBSET Word
BY DEF Or, Detect, Needs, Word

LEMMA OnlyIsOne ==
    /\ \A set \in SUBSET SUBSET Word, other \in SUBSET Word : Only(set, other) \in SUBSET Word
    /\ \A set \in SUBSET Connection, other \in Connection : Only(set, other) \in Connection
<1>1. ASSUME NEW T, NEW set \in SUBSET T, NEW other \in T PROVE Only(set, other) \in T
  BY DEF Only
<1>2. ASSUME NEW set \in SUBSET SUBSET Word, NEW other \in SUBSET Word PROVE Only(set, other) \in SUBSET Word
  <2>1. PICK T : T = SUBSET Word
    OBVIOUS
  <2> QED BY <1>1, <2>1, Zenon
<1> QED BY <1>1, <1>2

LEMMA BodiesAreBodies == Bodies \subseteq NodeBody
<1>1. NoBody \in NodeBody
  BY DEF NoBody, NodeBody, Word
<1> DEFINE uuid == Core("vmess", "b", {"uuid"})
           none == Core("trojan", "b", {})
<1>2. uuid \in Connection /\ none \in Connection /\ {{"uuid"}} \in SUBSET SUBSET Word /\ {{}} \in SUBSET SUBSET Word
      /\ {{"password"}} \in SUBSET SUBSET Word
  BY DEF Core, Connection, Word
<1> HIDE DEF uuid, none
<1>3. OneField \subseteq NodeBody
  <2>1. ASSUME NEW w \in Word
        PROVE  /\ [NoBody EXCEPT !.name = w] \in NodeBody /\ [NoBody EXCEPT !.protocol = w] \in NodeBody
               /\ [NoBody EXCEPT !.server = w] \in NodeBody /\ [NoBody EXCEPT !.country = w] \in NodeBody
               /\ [NoBody EXCEPT !.enabled = w] \in NodeBody
    <3> HIDE DEF NoBody
    <3> QED BY <1>1 DEF NodeBody
  <2>2. /\ [NoBody EXCEPT !.protocol = "vmess", !.raw = {{"uuid"}}] \in NodeBody /\ [NoBody EXCEPT !.raw = {{}}] \in NodeBody
        /\ [NoBody EXCEPT !.parsed = {uuid}] \in NodeBody /\ [NoBody EXCEPT !.malformed = TRUE] \in NodeBody
    BY <1>1, <1>2 DEF NodeBody, Word
  <2> QED BY <2>1, <2>2 DEF OneField, uuid, Word
<1>4. \A body \in NodeBody, uri \in Word : [body EXCEPT !.uri = uri] \in NodeBody
  BY DEF NodeBody
<1>5. WholeNode \in NodeBody
  BY <1>1, <1>2 DEF NodeBody, WholeNode, Word
<1>6. ASSUME NEW source \in {"", "s"}, NEW enabled \in {"", "off"}, NEW parsed \in {{}, {none}}
      PROVE  [WholeNode EXCEPT !.source = source, !.enabled = enabled, !.parsed = parsed] \in NodeBody
  <2>1. parsed \in SUBSET Connection
    BY <1>2
  <2> QED BY <1>5, <2>1 DEF NodeBody, Word
<1>7. "good" \in Word /\ "junk" \in Word
  BY DEF Word
<1> DEFINE Linked == {[body EXCEPT !.uri = "good"] : body \in OneField}
           Junk == {[WholeNode EXCEPT !.uri = "junk"]}
           Whole == {[WholeNode EXCEPT !.source = source, !.enabled = enabled, !.parsed = parsed] :
                       source \in {"", "s"}, enabled \in {"", "off"}, parsed \in {{}, {none}}}
<1>8. Linked \subseteq NodeBody /\ Junk \subseteq NodeBody
  BY <1>3, <1>4, <1>5, <1>7
<1>9. Whole \subseteq NodeBody
  BY <1>6
<1>10. Bodies = OneField \cup Linked \cup Junk \cup Whole
  BY DEF Bodies, none
<1> HIDE DEF Linked, Junk, Whole
<1> QED BY <1>3, <1>8, <1>9, <1>10

(* A node made from a body: what it lacks to be used was asked for.        *)
LEMMA ResolvedIsRow ==
  ASSUME NEW body \in NodeBody, NEW id \in Nat
  PROVE  LET row == [ResolveInput(body) EXCEPT !.id = id] IN
         /\ row \in ManualRow /\ row.id = id /\ row.source = Or(body.source, "manual") /\ row.hand
         /\ Resolves(body) => RowFits(row)
<1> DEFINE base == IF body.uri = "good" THEN FromUri ELSE [name |-> "", country |-> "", protocol |-> "", server |-> "", raw |-> {}]
           name == Or(body.name, base.name)
           protocol == Or(body.protocol, base.protocol)
           server == Or(body.server, base.server)
           raw == Only(body.raw, base.raw)
           built == IF body.uri = "good" THEN Core(base.protocol, base.server, base.raw) ELSE Core(protocol, server, raw)
           parsed == Only(body.parsed, built)
           country == Or(body.country, Or(Detect(body.name), base.country))
           chosen == body.country # ""
           enabled == body.enabled # "off"
           source == Or(body.source, "manual")
           input == [id |-> 0, source |-> source, name |-> name, protocol |-> protocol, server |-> server, raw |-> raw,
                     parsed |-> parsed, country |-> country, chosen |-> chosen, enabled |-> enabled,
                     edited |-> FALSE, hand |-> TRUE]
<1>1. ResolveInput(body) = input
  BY DEF ResolveInput
<1>2. /\ body.name \in Word /\ body.protocol \in Word /\ body.server \in Word /\ body.country \in Word
      /\ body.source \in Word /\ body.raw \in SUBSET SUBSET Word /\ body.parsed \in SUBSET Connection
  BY DEF NodeBody
<1>3. /\ base.name \in Word /\ base.country \in Word /\ base.protocol \in Word /\ base.server \in Word
      /\ base.raw \in SUBSET Word /\ base.name \in {"", "us"} /\ (base.name = "us" => base.country = "US")
  BY DEF FromUri, Word
<1> HIDE DEF base
<1>4. name \in Word /\ protocol \in Word /\ server \in Word /\ source \in Word
  <2>1. "manual" \in Word
    BY DEF Word
  <2> QED BY <1>2, <1>3, <2>1, WordsAreWords
<1>5. country \in Word
  BY <1>2, <1>3, WordsAreWords
<1>6. raw \in SUBSET Word
  <2>1. PICK r \in SUBSET Word : r = base.raw
    BY <1>3
  <2>2. Only(body.raw, r) \in SUBSET Word
    BY <1>2, OnlyIsOne
  <2> QED BY <2>1, <2>2
<1>7. parsed \in Connection
  <2> HIDE DEF protocol, server, raw
  <2>1. built \in Connection
    BY <1>3, <1>4, <1>6 DEF Core, Connection
  <2> HIDE DEF built
  <2> QED BY <1>2, <2>1, OnlyIsOne
<1>8. Detect(name) # "" /\ ~chosen => country = Detect(name)
  BY <1>2, <1>3 DEF Or, Detect
<1>9. Resolves(body) => Needs(protocol) \subseteq parsed.keys \cup raw
  <2> HIDE DEF parsed, raw, protocol, name, server, country, chosen, enabled, source
  <2>1. input.protocol = protocol /\ input.parsed = parsed /\ input.raw = raw
    OBVIOUS
  <2> HIDE DEF input
  <2>2. Resolves(body) => Missing(protocol, parsed, raw) = {}
    BY <1>1, <2>1 DEF Resolves
  <2> QED BY <2>2 DEF Missing
<1> DEFINE row == [input EXCEPT !.id = id]
<1> HIDE DEF parsed, raw, protocol, name, server, country, chosen, enabled, source
<1>10. chosen \in BOOLEAN /\ enabled \in BOOLEAN
  BY DEF chosen, enabled
<1>11. input \in ManualRow
  BY <1>4, <1>5, <1>6, <1>7, <1>10 DEF ManualRow
<1>12. /\ row \in ManualRow /\ row.id = id /\ row.source = source /\ row.hand /\ ~row.edited /\ row.name = name
       /\ row.protocol = protocol /\ row.parsed = parsed /\ row.raw = raw /\ row.country = country /\ row.chosen = chosen
  BY <1>11 DEF ManualRow
<1> HIDE DEF row, input
<1>13. Resolves(body) => RowFits(row)
  BY <1>8, <1>9, <1>12 DEF RowFits
<1> QED BY <1>1, <1>12, <1>13 DEF row, source

(* A node as PUT writes it.                                                *)
LEMMA UpdatedIsRow ==
  ASSUME NEW row \in ManualRow, NEW body \in NodeBody
  PROVE  LET next == UpdatedRow(row, body) IN
         /\ next \in ManualRow /\ next.id = row.id /\ next.source = row.source /\ next.hand = row.hand
         /\ next.enabled = IF body.enabled = "" THEN row.enabled ELSE body.enabled = "on"
         /\ RowFits(row) /\ Missing(next.protocol, next.parsed, next.raw) = {} => RowFits(next)
<1> DEFINE name == Or(body.name, row.name)
           protocol == Or(body.protocol, row.protocol)
           server == Or(body.server, row.server)
           country == Or(body.country, Or(Detect(body.name), row.country))
           chosen == body.country # "" \/ (row.chosen /\ Detect(body.name) = "")
           enabled == IF body.enabled = "" THEN row.enabled ELSE body.enabled = "on"
           raw == Only(body.raw, row.raw)
           parsed == NormalizedCore(Only(body.parsed, row.parsed), protocol, server)
           next == [row EXCEPT !.name = name, !.protocol = protocol, !.server = server, !.country = country,
                      !.chosen = chosen, !.enabled = enabled, !.raw = raw, !.parsed = parsed, !.edited = TRUE]
<1>1. UpdatedRow(row, body) = next
  BY DEF UpdatedRow
<1>2. /\ body.name \in Word /\ body.protocol \in Word /\ body.server \in Word /\ body.country \in Word
      /\ body.raw \in SUBSET SUBSET Word /\ body.parsed \in SUBSET Connection
      /\ row.name \in Word /\ row.protocol \in Word /\ row.server \in Word /\ row.country \in Word
      /\ row.raw \in SUBSET Word /\ row.parsed \in Connection /\ row.chosen \in BOOLEAN /\ row.enabled \in BOOLEAN
  BY DEF NodeBody, ManualRow
<1>3. name \in Word /\ protocol \in Word /\ server \in Word /\ country \in Word
  BY <1>2, WordsAreWords
<1>4. raw \in SUBSET Word /\ Only(body.parsed, row.parsed) \in Connection
  BY <1>2, OnlyIsOne
<1>5. parsed \in Connection /\ parsed.protocol = protocol /\ parsed.server = server
  <2> HIDE DEF protocol, server
  <2> QED BY <1>3, <1>4 DEF NormalizedCore, Core, Connection
<1>6. (Detect(row.name) # "" /\ ~row.chosen => row.country = Detect(row.name)) =>
      (Detect(name) # "" /\ ~chosen => country = Detect(name))
  BY <1>2 DEF Or, Detect
<1>7. chosen \in BOOLEAN /\ enabled \in BOOLEAN
  BY <1>2
<1> HIDE DEF name, protocol, server, country, chosen, enabled, raw, parsed
<1>8. /\ next \in ManualRow /\ next.id = row.id /\ next.source = row.source /\ next.hand = row.hand
      /\ next.name = name /\ next.protocol = protocol /\ next.server = server /\ next.country = country
      /\ next.chosen = chosen /\ next.enabled = enabled /\ next.raw = raw /\ next.parsed = parsed
  BY <1>3, <1>4, <1>5, <1>7 DEF ManualRow
<1> HIDE DEF next
<1>9. Missing(next.protocol, next.parsed, next.raw) = {} => Needs(next.protocol) \subseteq next.parsed.keys \cup next.raw
  BY DEF Missing
<1>10. RowFits(row) /\ Missing(next.protocol, next.parsed, next.raw) = {} => RowFits(next)
  BY <1>5, <1>6, <1>8, <1>9 DEF RowFits
<1> QED BY <1>1, <1>8, <1>10 DEF enabled

(* A switch leaves a node of a subscription what the provider made it.     *)
LEMMA SwitchedAgrees ==
  ASSUME NEW row \in ManualRow, RowAgrees(row), NEW on \in BOOLEAN
  PROVE  LET next == [row EXCEPT !.enabled = on] IN
         /\ next \in ManualRow /\ next.id = row.id /\ next.source = row.source /\ next.hand = row.hand
         /\ next.enabled = on /\ RowAgrees(next)
<1> DEFINE next == [row EXCEPT !.enabled = on]
<1>1. /\ next \in ManualRow /\ next.id = row.id /\ next.source = row.source /\ next.hand = row.hand
      /\ next.enabled = on /\ next.protocol = row.protocol /\ next.parsed = row.parsed /\ next.raw = row.raw
      /\ next.edited = row.edited /\ next.server = row.server /\ next.name = row.name /\ next.chosen = row.chosen
      /\ next.country = row.country
  BY DEF ManualRow
<1>2. RowFits(row) => RowFits(next)
  <2> HIDE DEF next
  <2> QED BY <1>1 DEF RowFits
<1>3. Served(row) => Served(next)
  BY <1>1 DEF Served, NodeRow0, ManualRow
<1> HIDE DEF next
<1> QED BY <1>1, <1>2, <1>3 DEF RowAgrees, next

-----------------------------------------------------------------------------
(* One request goes from one step to the next: the others keep what they   *)
(* hold, and the rows it leaves are the ones there were or its own.        *)
LEMMA NodeAskMoves ==
  ASSUME AsksOK, nodeSteps \in Nat, nodeSteps' \in Nat, nodeSteps' >= nodeSteps,
         NEW q \in NodeCalls, NEW r \in NodeAsk, nodeAsks' = [nodeAsks EXCEPT ![q] = r],
         \A row \in manual' : \/ \E old \in manual : old.id = row.id /\ old.hand = row.hand /\ old.source = row.source
                              \/ nodeAsks[q].at = "insert" /\ row.id = nodeAsks[q].row.id,
         AskFits(nodeAsks[q])',
         r.at = "insert" => r.row.id \notin Ids,
         r.at \in {"update", "delete"} => \E old \in manual : old.id = r.row.id
  PROVE  AsksOK'
<1>1. nodeAsks' \in [NodeCalls -> NodeAsk] /\ nodeAsks'[q] = r /\ \A p \in NodeCalls \ {q} : nodeAsks'[p] = nodeAsks[p]
  BY DEF AsksOK
<1>2. Ids \subseteq Ids'
  <2>1. \A m, n \in Nat : m <= n => 1..(2 + m) \subseteq 1..(2 + n)
    OBVIOUS
  <2> QED BY <2>1 DEF Ids
<1>3. ASSUME NEW p \in NodeCalls \ {q} PROVE AskFits(nodeAsks[p])'
  <2>1. PICK ask \in NodeAsk : ask = nodeAsks[p] /\ ask = nodeAsks'[p]
    BY <1>1 DEF AsksOK
  <2>2. AskFits(ask)
    BY <2>1 DEF AsksOK
  <2>3. nodeAsks[q].at = "insert" /\ ask.at \in {"insert", "update", "delete"} => nodeAsks[q].row.id # ask.row.id
    BY <2>1 DEF AsksOK
  <2>4. /\ ask.at \in {"insert", "delete", "update", "count", "store"} => ask.row.id \in Ids'
        /\ ask.at = "batch" => ask.ids \subseteq Ids'
    BY <1>2, <2>2 DEF AskFits
  <2>5. ask.at = "insert" => ask.row.hand /\ RowFits(ask.row) /\ \A row \in manual' : row.id # ask.row.id
    BY <2>2, <2>3 DEF AskFits
  <2>6. ask.at \in {"update", "delete"} =>
          \A row \in manual' : row.id = ask.row.id => row.hand = ask.row.hand /\ row.source = ask.row.source
    BY <2>2, <2>3 DEF AskFits
  <2>7. ask.at = "update" => IF ask.row.hand THEN RowFits(UpdatedRow(ask.row, ask.body)) ELSE EnabledOnly(ask.body)
    BY <2>2 DEF AskFits
  <2> QED BY <2>1, <2>4, <2>5, <2>6, <2>7 DEF AskFits
<1>4. ASSUME NEW p \in NodeCalls, NEW o \in NodeCalls, p # o, nodeAsks'[p].at = "insert",
             nodeAsks'[o].at \in {"insert", "update", "delete"}
      PROVE  nodeAsks'[p].row.id # nodeAsks'[o].row.id
  <2>1. \A a \in NodeCalls : nodeAsks[a].at \in {"insert", "update", "delete"} => nodeAsks[a].row.id \in Ids
    BY DEF AsksOK, AskFits
  <2>2. \A a \in NodeCalls : nodeAsks[a].at = "insert" => \A row \in manual : row.id # nodeAsks[a].row.id
    BY DEF AsksOK, AskFits
  <2>3. CASE p = q
    BY <1>1, <1>4, <2>1, <2>3
  <2>4. CASE o = q
    BY <1>1, <1>4, <2>1, <2>2, <2>4
  <2>5. CASE p # q /\ o # q
    BY <1>1, <1>4, <2>5 DEF AsksOK
  <2> QED BY <2>3, <2>4, <2>5
<1> QED BY <1>1, <1>3, <1>4 DEF AsksOK

(* The source whose nodes a request changed and has not stored the count   *)
(* of; while nothing overlaps, the counts of all others are right.         *)
Counting(ask, s) == ask.at \in {"count", "store"} /\ ask.row.source = s

LEMMA AloneCounts ==
  ASSUME NeatOK, neat, NEW q \in NodeCalls, \A p \in NodeCalls \ {q} : nodeAsks[p].at = "idle"
  PROVE  \A s \in DOMAIN owners : Counting(nodeAsks[q], s) \/ owners[s] = Cardinality(NodesOf(manual, s))
<1> SUFFICES ASSUME NEW s \in DOMAIN owners, ~Counting(nodeAsks[q], s) PROVE owners[s] = Cardinality(NodesOf(manual, s))
  OBVIOUS
<1>1. s \notin Behind
  BY DEF Behind, Counting
<1> QED BY <1>1 DEF NeatOK

LEMMA NeatMoves ==
  ASSUME nodeAsks \in [NodeCalls -> NodeAsk], neat' => neat,
         NEW q \in NodeCalls, NEW r \in NodeAsk, nodeAsks' = [nodeAsks EXCEPT ![q] = r],
         neat' => \A p \in NodeCalls \ {q} : nodeAsks[p].at = "idle",
         neat' => \A row \in manual' : row.enabled = wish'[row.id],
         neat' /\ r.at = "update" => r.row \in manual',
         neat' /\ r.at = "store" => r.count = Cardinality(NodesOf(manual', r.row.source)),
         neat' => \A s \in DOMAIN owners' : Counting(r, s) \/ owners'[s] = Cardinality(NodesOf(manual', s))
  PROVE  NeatOK'
<1>1. nodeAsks'[q] = r /\ \A p \in NodeCalls \ {q} : nodeAsks'[p] = nodeAsks[p]
  OBVIOUS
<1> SUFFICES ASSUME neat' PROVE
      /\ \A p, o \in NodeCalls : nodeAsks'[p].at # "idle" /\ nodeAsks'[o].at # "idle" => p = o
      /\ \A row \in manual' : row.enabled = wish'[row.id]
      /\ \A p \in NodeCalls :
           /\ nodeAsks'[p].at = "update" => nodeAsks'[p].row \in manual'
           /\ nodeAsks'[p].at = "store" => nodeAsks'[p].count = Cardinality(NodesOf(manual', nodeAsks'[p].row.source))
      /\ \A s \in DOMAIN owners' \ Behind' : owners'[s] = Cardinality(NodesOf(manual', s))
  BY DEF NeatOK
<1>2. \A p \in NodeCalls \ {q} : nodeAsks'[p].at = "idle"
  BY <1>1
<1>3. \A p \in NodeCalls : /\ nodeAsks'[p].at = "update" => nodeAsks'[p].row \in manual'
                           /\ nodeAsks'[p].at = "store" => nodeAsks'[p].count = Cardinality(NodesOf(manual', nodeAsks'[p].row.source))
  BY <1>1, <1>2
<1>4. ASSUME NEW s \in DOMAIN owners' \ Behind' PROVE owners'[s] = Cardinality(NodesOf(manual', s))
  <2>1. ~Counting(r, s)
    BY <1>1 DEF Behind, Counting
  <2> QED BY <2>1
<1> QED BY <1>2, <1>3, <1>4

(* There are finitely many nodes, as each has an id of its own.            *)
LEMMA ManualFinite ==
  ASSUME RowsOK
  PROVE  \A s : IsFiniteSet(NodesOf(manual, s)) /\ Cardinality(NodesOf(manual, s)) \in Nat
<1> DEFINE ids == 1..(2 + nodeSteps)
           idOf == [row \in manual |-> row.id]
<1>1. nodeSteps \in Nat
  BY DEF RowsOK
<1>2. IsFiniteSet(ids)
  BY <1>1, FS_Interval
<1>3. idOf \in Injection(manual, ids)
  BY DEF RowsOK, Ids, Injection, IsInjective
<1> HIDE DEF ids, idOf
<1>4. IsFiniteSet(manual)
  BY <1>2, <1>3, FS_Injection
<1>5. \A s : NodesOf(manual, s) \in SUBSET manual
  BY DEF NodesOf
<1>6. \A s : IsFiniteSet(NodesOf(manual, s))
  BY <1>4, <1>5, FS_Subset
<1> QED BY <1>6, FS_CardinalityType

(* Rows written anew, each under its id and source, are as many, and each  *)
(* is one of a kind.                                                       *)
LEMMA RewrittenRows ==
  ASSUME RowsOK, NEW w \in [manual -> ManualRow], NEW rows, rows = {w[row] : row \in manual},
         \A row \in manual : w[row].id = row.id /\ w[row].source = row.source /\ w[row].hand = row.hand /\ RowAgrees(w[row])
  PROVE  /\ rows \subseteq ManualRow
         /\ \A row \in rows : row.id \in Ids /\ row.source \in DOMAIN owners /\ RowAgrees(row)
         /\ \A row, other \in rows : row.id = other.id => row = other
         /\ \A row \in rows : \E old \in manual : old.id = row.id /\ old.hand = row.hand /\ old.source = row.source
         /\ \A s : Cardinality(NodesOf(rows, s)) = Cardinality(NodesOf(manual, s))
<1>1. \A row \in rows : \E old \in manual : row = w[old] /\ old.id = row.id /\ old.hand = row.hand /\ old.source = row.source
  OBVIOUS
<1>2. rows \subseteq ManualRow
  OBVIOUS
<1>3. \A row \in rows : row.id \in Ids /\ row.source \in DOMAIN owners /\ RowAgrees(row)
  BY <1>1 DEF RowsOK
<1>4. \A row, other \in rows : row.id = other.id => row = other
  BY <1>1 DEF RowsOK
<1>5. ASSUME NEW s PROVE Cardinality(NodesOf(rows, s)) = Cardinality(NodesOf(manual, s))
  <2> DEFINE S == NodesOf(manual, s)
             T == NodesOf(rows, s)
             f == [row \in S |-> w[row]]
  <2>1. f \in [S -> T]
    BY DEF NodesOf
  <2>2. \A a, b \in S : f[a] = f[b] => a = b
    BY DEF NodesOf, RowsOK
  <2>3. \A t \in T : \E a \in S : f[a] = t
    BY <1>1 DEF NodesOf
  <2> HIDE DEF S, T, f
  <2>4. f \in Bijection(S, T)
    BY <2>1, <2>2, <2>3 DEF Bijection, Injection, Surjection, IsInjective
  <2>5. ExistsBijection(S, T)
    BY <2>4 DEF ExistsBijection
  <2>6. IsFiniteSet(S)
    BY ManualFinite DEF S
  <2>7. Cardinality(T) = Cardinality(S)
    BY <2>5, <2>6, FS_Bijection
  <2> QED BY <2>7 DEF S, T
<1> QED BY <1>1, <1>2, <1>3, <1>4, <1>5

-----------------------------------------------------------------------------
(* A request that ends, or counts next, holds nothing others depend on.    *)
LEMMA NodeAskRests ==
  ASSUME AsksOK, nodeSteps \in Nat, nodeSteps' = nodeSteps,
         NEW q \in NodeCalls, NEW r \in NodeAsk, nodeAsks' = [nodeAsks EXCEPT ![q] = r],
         \A row \in manual' : \/ \E old \in manual : old.id = row.id /\ old.hand = row.hand /\ old.source = row.source
                              \/ nodeAsks[q].at = "insert" /\ row.id = nodeAsks[q].row.id,
         r.at = "idle" \/ (r.at \in {"count", "store"} /\ r.row.id \in Ids)
  PROVE  AsksOK'
<1>1. nodeAsks'[q] = r
  BY DEF AsksOK
<1>2. AskFits(nodeAsks[q])'
  BY <1>1 DEF AskFits, Ids
<1>3. nodeSteps' \in Nat /\ nodeSteps' >= nodeSteps
  OBVIOUS
<1>4. r.at \notin {"insert", "update", "delete"}
  OBVIOUS
<1> QED BY <1>2, <1>3, <1>4, NodeAskMoves

LEMMA AskStepFacts ==
  ASSUME ManualInv, NEW q \in NodeCalls
  PROVE  /\ nodeAsks[q] \in NodeAsk /\ AskFits(nodeAsks[q]) /\ nodeAsks \in [NodeCalls -> NodeAsk]
         /\ nodeSteps \in Nat /\ MaxNodeCalls \in Nat /\ nodeSteps \in 0..MaxNodeCalls
         /\ neat /\ nodeAsks[q].at # "idle" => \A p \in NodeCalls \ {q} : nodeAsks[p].at = "idle"
<1>1. nodeAsks[q] \in NodeAsk /\ AskFits(nodeAsks[q]) /\ nodeAsks \in [NodeCalls -> NodeAsk]
  BY DEF ManualInv, AsksOK
<1>2. nodeSteps \in Nat /\ MaxNodeCalls \in Nat /\ nodeSteps \in 0..MaxNodeCalls
  BY ManualAssumption DEF ManualInv, RowsOK
<1>3. neat /\ nodeAsks[q].at # "idle" => \A p \in NodeCalls \ {q} : nodeAsks[p].at = "idle"
  BY DEF ManualInv, NeatOK
<1> QED BY <1>1, <1>2, <1>3

LEMMA CreateKeeps == ASSUME ManualInv, NEW q \in NodeCalls, CreateNode(q) PROVE ManualInv'
<1>1. PICK body \in Resolving :
        /\ Or(body.source, "manual") \in DOMAIN owners \cup {"manual"}
        /\ Arrives(q, [at |-> "insert", row |-> [ResolveInput(body) EXCEPT !.id = 3 + nodeSteps]])
        /\ owners' = IF body.source # "" THEN owners
                     ELSE [s \in DOMAIN owners \cup {"manual"} |-> IF s \in DOMAIN owners THEN owners[s] ELSE 0]
        /\ UNCHANGED <<manual, wish>>
  BY DEF CreateNode
<1>2. body \in NodeBody /\ Resolves(body)
  BY BodiesAreBodies DEF Resolving
<1>3. nodeSteps \in Nat /\ nodeSteps < MaxNodeCalls /\ nodeAsks[q].at = "idle" /\ MaxNodeCalls \in Nat
  BY AskStepFacts DEF CreateNode, MayAsk
<1>4. PICK row : row = [ResolveInput(body) EXCEPT !.id = 3 + nodeSteps]
  OBVIOUS
<1>5. row \in ManualRow /\ row.id = 3 + nodeSteps /\ row.hand /\ RowFits(row)
  BY <1>2, <1>3, <1>4, ResolvedIsRow
<1>6. PICK r \in NodeAsk : r = [at |-> "insert", row |-> row]
  BY <1>5, AskOfRow
<1>7. /\ nodeSteps' = nodeSteps + 1 /\ nodeAsks' = [nodeAsks EXCEPT ![q] = r] /\ manual' = manual /\ wish' = wish
      /\ neat' = (neat /\ \A other \in NodeCalls : nodeAsks[other].at = "idle")
      /\ r.at = "insert" /\ r.row = row
  BY <1>1, <1>4, <1>6 DEF Arrives
<1>8. /\ DOMAIN owners \subseteq DOMAIN owners' /\ DOMAIN owners' \subseteq DOMAIN owners \cup {"manual"}
      /\ \A s \in DOMAIN owners : owners'[s] = owners[s]
      /\ \A s \in DOMAIN owners' \ DOMAIN owners : owners'[s] = 0
  BY <1>1
<1>9. Ids = 1..(2 + nodeSteps) /\ Ids' = 1..(3 + nodeSteps)
  BY <1>3, <1>7 DEF Ids
<1>10. RowsOK'
  <2>1. nodeSteps' \in 0..MaxNodeCalls
    BY <1>3, <1>7
  <2>2. DOMAIN owners' \subseteq {"s", "manual"}
    BY <1>8 DEF ManualInv, RowsOK, Word
  <2>3. \A any \in manual : any.id \in Ids' /\ any.source \in DOMAIN owners' /\ RowAgrees(any)
    BY <1>3, <1>8, <1>9 DEF ManualInv, RowsOK
  <2>4. neat' \in BOOLEAN
    BY <1>7
  <2> QED BY <1>7, <2>1, <2>2, <2>3, <2>4 DEF ManualInv, RowsOK
<1>11. AsksOK'
  <2>1. nodeAsks'[q] = r
    BY <1>7 DEF ManualInv, AsksOK
  <2>2. \A any \in manual : any.id # row.id
    BY <1>3, <1>5, <1>9 DEF ManualInv, RowsOK
  <2>3. row.id \in Ids' /\ row.id \notin Ids
    BY <1>3, <1>5, <1>9
  <2>4. AskFits(nodeAsks[q])'
    BY <1>5, <1>7, <2>1, <2>2, <2>3 DEF AskFits
  <2>5. nodeSteps' \in Nat /\ nodeSteps' >= nodeSteps
    BY <1>3, <1>7
  <2> QED BY <1>3, <1>7, <2>3, <2>4, <2>5, NodeAskMoves DEF ManualInv
<1>12. NeatOK'
  <2>1. neat' => neat /\ (\A p \in NodeCalls \ {q} : nodeAsks[p].at = "idle") /\ nodeAsks[q].at = "idle"
    BY <1>3, <1>7
  <2>2. ASSUME neat', NEW s \in DOMAIN owners' PROVE owners'[s] = Cardinality(NodesOf(manual', s))
    <3>1. CASE s \in DOMAIN owners
      <4>1. ~Counting(nodeAsks[q], s)
        BY <1>3 DEF Counting
      <4>2. owners[s] = Cardinality(NodesOf(manual, s))
        BY <2>1, <2>2, <3>1, <4>1, AloneCounts DEF ManualInv
      <4> QED BY <1>7, <1>8, <3>1, <4>2
    <3>2. CASE s \notin DOMAIN owners
      <4>1. NodesOf(manual, s) = {}
        BY <3>2 DEF NodesOf, ManualInv, RowsOK
      <4> QED BY <1>7, <1>8, <2>2, <3>2, <4>1, FS_EmptySet
    <3> QED BY <3>1, <3>2
  <2>3. neat' => \A any \in manual' : any.enabled = wish'[any.id]
    BY <1>7, <2>1 DEF ManualInv, NeatOK
  <2>4. nodeAsks \in [NodeCalls -> NodeAsk]
    BY AskStepFacts
  <2> QED BY <1>7, <2>1, <2>2, <2>3, <2>4, NeatMoves
<1> QED BY <1>10, <1>11, <1>12 DEF ManualInv

LEMMA NotAskedEnds ==
  ASSUME ManualInv, NEW q \in NodeCalls, nodeAsks[q].at # "idle", Ends(q)
  PROVE  /\ nodeSteps' = nodeSteps /\ neat' = neat /\ nodeAsks' = [nodeAsks EXCEPT ![q] = NotAsked]
         /\ NotAsked \in NodeAsk /\ NotAsked.at = "idle" /\ nodeAsks'[q] = NotAsked
<1>1. nodeAsks' = [nodeAsks EXCEPT ![q] = NotAsked] /\ nodeSteps' = nodeSteps /\ neat' = neat
  BY DEF Ends
<1>2. nodeAsks'[q] = NotAsked /\ NotAsked \in NodeAsk /\ NotAsked.at = "idle"
  BY <1>1, AskShape DEF ManualInv, AsksOK
<1> QED BY <1>1, <1>2

LEMMA InsertNodeKeeps == ASSUME ManualInv, NEW q \in NodeCalls, InsertNode(q) PROVE ManualInv'
<1>1. PICK ask \in NodeAsk : ask = nodeAsks[q] /\ AskFits(ask) /\ ask.at = "insert"
  BY AskStepFacts DEF InsertNode
<1>2. PICK row \in ManualRow : row = ask.row /\ row = nodeAsks[q].row
  BY <1>1, AskShape
<1>3. row.id \in Ids /\ row.hand /\ RowFits(row) /\ \A any \in manual : any.id # row.id
  BY <1>1, <1>2 DEF AskFits
<1>4. nodeSteps \in Nat /\ nodeAsks \in [NodeCalls -> NodeAsk]
      /\ (neat => \A p \in NodeCalls \ {q} : nodeAsks[p].at = "idle")
  BY <1>1, AskStepFacts
<1>5. owners' = owners
  BY DEF InsertNode
<1>6. CASE row.source \notin DOMAIN owners
  <2>1. Ends(q) /\ manual' = manual /\ wish' = wish
    BY <1>2, <1>6 DEF InsertNode
  <2>2. /\ nodeSteps' = nodeSteps /\ neat' = neat /\ nodeAsks' = [nodeAsks EXCEPT ![q] = NotAsked]
        /\ NotAsked \in NodeAsk /\ NotAsked.at = "idle"
    BY <1>1, <2>1, NotAskedEnds
  <2>3. RowsOK'
    BY <1>5, <2>1, <2>2 DEF ManualInv, RowsOK, Ids
  <2>4. AsksOK'
    <3>1. \A any \in manual' : \E old \in manual : old.id = any.id /\ old.hand = any.hand /\ old.source = any.source
      BY <2>1
    <3> QED BY <1>4, <2>2, <3>1, NodeAskRests DEF ManualInv
  <2>5. NeatOK'
    <3>1. neat => \A any \in manual : any.enabled = wish[any.id]
      BY DEF ManualInv, NeatOK
    <3>2. \A s : ~Counting(nodeAsks[q], s)
      BY <1>1 DEF Counting
    <3>3. neat => \A s \in DOMAIN owners : owners[s] = Cardinality(NodesOf(manual, s))
      BY <1>4, <3>2, AloneCounts DEF ManualInv
    <3> QED BY <1>4, <1>5, <2>1, <2>2, <3>1, <3>3, NeatMoves
  <2> QED BY <2>3, <2>4, <2>5 DEF ManualInv
<1>7. CASE row.source \in DOMAIN owners
  <2>1. manual' = manual \cup {row} /\ Goes(q, "count") /\ wish' = [wish EXCEPT ![row.id] = row.enabled]
    BY <1>2, <1>7 DEF InsertNode
  <2>2. PICK r \in NodeAsk : r = [at |-> "count", row |-> row] /\ r.at = "count" /\ r.row = row
    BY AskOfRow
  <2>3. [ask EXCEPT !.at = "count"] = r
    BY <1>1, <1>2, <2>2 DEF NodeAsk
  <2>4. nodeAsks' = [nodeAsks EXCEPT ![q] = r] /\ nodeSteps' = nodeSteps /\ neat' = neat /\ nodeAsks'[q] = r
    BY <1>1, <1>4, <2>1, <2>3 DEF Goes
  <2>5. wish \in [1..(2 + MaxNodeCalls) -> BOOLEAN] /\ row.id \in 1..(2 + MaxNodeCalls) /\ row.enabled \in BOOLEAN
    BY <1>3, AskStepFacts DEF ManualInv, RowsOK, Ids, ManualRow
  <2>6. RowsOK'
    <3>1. manual' \subseteq ManualRow /\ \A any \in manual' : any.id \in Ids' /\ any.source \in DOMAIN owners' /\ RowAgrees(any)
      BY <1>3, <1>5, <1>7, <2>1, <2>4 DEF ManualInv, RowsOK, RowAgrees, Ids
    <3>2. \A any, other \in manual' : any.id = other.id => any = other
      BY <1>3, <2>1 DEF ManualInv, RowsOK
    <3>3. wish' \in [1..(2 + MaxNodeCalls) -> BOOLEAN]
      BY <2>1, <2>5
    <3> QED BY <1>5, <2>4, <3>1, <3>2, <3>3 DEF ManualInv, RowsOK
  <2>7. AsksOK'
    <3>1. \A any \in manual' : \/ \E old \in manual : old.id = any.id /\ old.hand = any.hand /\ old.source = any.source
                               \/ nodeAsks[q].at = "insert" /\ any.id = nodeAsks[q].row.id
      BY <1>1, <1>2, <2>1
    <3> QED BY <1>3, <1>4, <2>2, <2>4, <3>1, NodeAskRests DEF ManualInv
  <2>8. NeatOK'
    <3>1. neat => \A any \in manual' : any.enabled = wish'[any.id]
      BY <1>3, <2>1, <2>5 DEF ManualInv, NeatOK, RowsOK, Ids
    <3>2. \A s : ~Counting(nodeAsks[q], s)
      BY <1>1 DEF Counting
    <3>3. neat => \A s \in DOMAIN owners : owners[s] = Cardinality(NodesOf(manual, s))
      BY <1>4, <3>2, AloneCounts DEF ManualInv
    <3>4. \A s : s # row.source => NodesOf(manual', s) = NodesOf(manual, s)
      BY <2>1 DEF NodesOf
    <3>5. neat => \A s \in DOMAIN owners' : Counting(r, s) \/ owners'[s] = Cardinality(NodesOf(manual', s))
      BY <1>5, <2>2, <3>3, <3>4 DEF Counting
    <3> QED BY <1>4, <2>2, <2>4, <3>1, <3>5, NeatMoves
  <2> QED BY <2>6, <2>7, <2>8 DEF ManualInv
<1> QED BY <1>6, <1>7

LEMMA CountKeeps == ASSUME ManualInv, NEW q \in NodeCalls, CountNodes(q) PROVE ManualInv'
<1>1. PICK ask \in NodeAsk : ask = nodeAsks[q] /\ AskFits(ask) /\ ask.at = "count"
  BY AskStepFacts DEF CountNodes
<1>2. PICK row \in ManualRow : row = ask.row /\ row = nodeAsks[q].row
  BY <1>1, AskShape
<1>3. PICK count \in Nat : count = Cardinality(NodesOf(manual, row.source))
  BY ManualFinite DEF ManualInv
<1>4. PICK r \in NodeAsk : r = [at |-> "store", row |-> row, count |-> count] /\ r.at = "store" /\ r.row = row /\ r.count = count
  BY AskOfMore
<1>5. /\ nodeAsks' = [nodeAsks EXCEPT ![q] = r] /\ manual' = manual /\ owners' = owners /\ nodeSteps' = nodeSteps
      /\ wish' = wish /\ neat' = neat
  BY <1>2, <1>3, <1>4 DEF CountNodes
<1>6. nodeSteps \in Nat /\ nodeAsks \in [NodeCalls -> NodeAsk]
      /\ (neat => \A p \in NodeCalls \ {q} : nodeAsks[p].at = "idle")
  BY <1>1, AskStepFacts
<1>7. RowsOK'
  BY <1>5 DEF ManualInv, RowsOK, Ids
<1>8. AsksOK'
  <2>1. row.id \in Ids
    BY <1>1, <1>2 DEF AskFits
  <2>2. \A any \in manual' : \E old \in manual : old.id = any.id /\ old.hand = any.hand /\ old.source = any.source
    BY <1>5
  <2> QED BY <1>4, <1>5, <1>6, <2>1, <2>2, NodeAskRests DEF ManualInv
<1>9. NeatOK'
  <2>1. neat => \A any \in manual : any.enabled = wish[any.id]
    BY DEF ManualInv, NeatOK
  <2>2. neat => \A s \in DOMAIN owners : Counting(nodeAsks[q], s) \/ owners[s] = Cardinality(NodesOf(manual, s))
    BY <1>6, AloneCounts DEF ManualInv
  <2>3. \A s : Counting(nodeAsks[q], s) => Counting(r, s)
    BY <1>2, <1>4 DEF Counting
  <2> QED BY <1>3, <1>4, <1>5, <1>6, <2>1, <2>2, <2>3, NeatMoves
<1> QED BY <1>7, <1>8, <1>9 DEF ManualInv

LEMMA StoreKeeps == ASSUME ManualInv, NEW q \in NodeCalls, StoreNodeCount(q) PROVE ManualInv'
<1>1. PICK ask \in NodeAsk : ask = nodeAsks[q] /\ AskFits(ask) /\ ask.at = "store"
  BY AskStepFacts DEF StoreNodeCount
<1>2. /\ owners' = [s \in DOMAIN owners |-> IF s = ask.row.source THEN ask.count ELSE owners[s]]
      /\ Ends(q) /\ manual' = manual /\ wish' = wish
  BY <1>1 DEF StoreNodeCount
<1>3. /\ nodeSteps' = nodeSteps /\ neat' = neat /\ nodeAsks' = [nodeAsks EXCEPT ![q] = NotAsked]
      /\ NotAsked \in NodeAsk /\ NotAsked.at = "idle"
  BY <1>1, <1>2, NotAskedEnds
<1>4. nodeSteps \in Nat /\ nodeAsks \in [NodeCalls -> NodeAsk]
      /\ (neat => \A p \in NodeCalls \ {q} : nodeAsks[p].at = "idle")
  BY <1>1, AskStepFacts
<1>5. RowsOK'
  <2>1. DOMAIN owners' = DOMAIN owners
    BY <1>2
  <2> QED BY <1>2, <1>3, <2>1 DEF ManualInv, RowsOK, Ids
<1>6. AsksOK'
  <2>1. \A any \in manual' : \E old \in manual : old.id = any.id /\ old.hand = any.hand /\ old.source = any.source
    BY <1>2
  <2> QED BY <1>3, <1>4, <2>1, NodeAskRests DEF ManualInv
<1>7. NeatOK'
  <2>1. neat => \A any \in manual : any.enabled = wish[any.id]
    BY DEF ManualInv, NeatOK
  <2>2. neat => ask.count = Cardinality(NodesOf(manual, ask.row.source))
    BY <1>1 DEF ManualInv, NeatOK
  <2>3. neat => \A s \in DOMAIN owners : s = ask.row.source \/ owners[s] = Cardinality(NodesOf(manual, s))
    BY <1>1, <1>4, AloneCounts DEF ManualInv, Counting
  <2>4. neat => \A s \in DOMAIN owners' : owners'[s] = Cardinality(NodesOf(manual', s))
    BY <1>2, <2>2, <2>3
  <2> QED BY <1>2, <1>3, <1>4, <2>1, <2>4, NeatMoves
<1> QED BY <1>5, <1>6, <1>7 DEF ManualInv

(* A request arrives that changes nothing yet: it read what is there.      *)
LEMMA ArrivalKeeps ==
  ASSUME ManualInv, NEW q \in NodeCalls, MayAsk(q), NEW r \in NodeAsk, Arrives(q, r), UNCHANGED <<manual, owners, wish>>,
         r.at \in {"update", "delete"} => r.row \in manual,
         r.at = "update" => IF r.row.hand THEN RowFits(UpdatedRow(r.row, r.body)) ELSE EnabledOnly(r.body),
         r.at = "batch" => r.ids \subseteq Ids,
         r.at \in {"update", "delete", "batch"}
  PROVE  ManualInv'
<1>1. nodeSteps \in Nat /\ nodeSteps < MaxNodeCalls /\ MaxNodeCalls \in Nat /\ nodeAsks \in [NodeCalls -> NodeAsk]
      /\ nodeAsks[q].at = "idle"
  BY AskStepFacts DEF MayAsk
<1>2. /\ nodeSteps' = nodeSteps + 1 /\ nodeAsks' = [nodeAsks EXCEPT ![q] = r] /\ nodeAsks'[q] = r
      /\ neat' = (neat /\ \A other \in NodeCalls : nodeAsks[other].at = "idle")
      /\ manual' = manual /\ owners' = owners /\ wish' = wish
  BY <1>1 DEF Arrives
<1>3. Ids \subseteq Ids'
  <2>1. \A n \in Nat : 1..(2 + n) \subseteq 1..(2 + (n + 1))
    OBVIOUS
  <2> QED BY <1>1, <1>2, <2>1 DEF Ids
<1>4. RowsOK'
  <2>1. nodeSteps' \in 0..MaxNodeCalls /\ neat' \in BOOLEAN
    BY <1>1, <1>2
  <2> QED BY <1>2, <1>3, <2>1 DEF ManualInv, RowsOK
<1>5. AsksOK'
  <2>1. r.at \in {"update", "delete"} => r.row.id \in Ids'
    BY <1>3 DEF ManualInv, RowsOK
  <2>2. r.at \in {"update", "delete"} => \A row \in manual : row.id = r.row.id => row = r.row
    BY DEF ManualInv, RowsOK
  <2>3. r.at = "batch" => r.ids \subseteq Ids'
    BY <1>3
  <2>4. AskFits(nodeAsks[q])'
    BY <1>2, <2>1, <2>2, <2>3 DEF AskFits
  <2>5. nodeSteps' \in Nat /\ nodeSteps' >= nodeSteps /\ r.at # "insert"
    BY <1>1, <1>2
  <2>6. \A any \in manual' : \E old \in manual : old.id = any.id /\ old.hand = any.hand /\ old.source = any.source
    BY <1>2
  <2>7. r.at \in {"update", "delete"} => \E old \in manual : old.id = r.row.id
    OBVIOUS
  <2> QED BY <1>1, <1>2, <2>4, <2>5, <2>6, <2>7, NodeAskMoves DEF ManualInv
<1>6. NeatOK'
  <2>1. neat => \A any \in manual : any.enabled = wish[any.id]
    BY DEF ManualInv, NeatOK
  <2>2. \A s : ~Counting(nodeAsks[q], s)
    BY <1>1 DEF Counting
  <2>3. neat' => \A s \in DOMAIN owners : owners[s] = Cardinality(NodesOf(manual, s))
    BY <1>2, <2>2, AloneCounts DEF ManualInv
  <2> QED BY <1>1, <1>2, <2>1, <2>3, NeatMoves
<1> QED BY <1>4, <1>5, <1>6 DEF ManualInv

LEMMA ReadNodeRowKeeps == ASSUME ManualInv, NEW q \in NodeCalls, ReadNodeRow(q) PROVE ManualInv'
<1>1. PICK row \in manual, body \in Editing :
        /\ IF ~row.hand THEN EnabledOnly(body)
           ELSE LET next == UpdatedRow(row, body) IN
                Usable(next.protocol) /\ Missing(next.protocol, next.parsed, next.raw) = {}
        /\ Arrives(q, [at |-> "update", row |-> row, body |-> body])
        /\ UNCHANGED <<manual, owners, wish>>
  BY DEF ReadNodeRow
<1>2. row \in ManualRow /\ body \in NodeBody /\ RowAgrees(row)
  BY BodiesAreBodies DEF Editing, ManualInv, RowsOK
<1>3. PICK r \in NodeAsk : r = [at |-> "update", row |-> row, body |-> body] /\ r.at = "update" /\ r.row = row /\ r.body = body
  BY <1>2, AskOfMore
<1>4. IF row.hand THEN RowFits(UpdatedRow(row, body)) ELSE EnabledOnly(body)
  <2>1. CASE row.hand
    <3>1. RowFits(row) /\ Missing(UpdatedRow(row, body).protocol, UpdatedRow(row, body).parsed, UpdatedRow(row, body).raw) = {}
      BY <1>1, <1>2, <2>1 DEF RowAgrees
    <3> QED BY <1>2, <2>1, <3>1, UpdatedIsRow
  <2>2. CASE ~row.hand
    BY <1>1, <2>2
  <2> QED BY <2>1, <2>2
<1>5. MayAsk(q) /\ Arrives(q, r) /\ UNCHANGED <<manual, owners, wish>>
  BY <1>1, <1>3 DEF ReadNodeRow
<1> QED BY <1>3, <1>4, <1>5, ArrivalKeeps

LEMMA ReadForDeleteKeeps == ASSUME ManualInv, NEW q \in NodeCalls, ReadForDelete(q) PROVE ManualInv'
<1>1. PICK row \in manual : row.hand /\ Arrives(q, [at |-> "delete", row |-> row])
  BY DEF ReadForDelete
<1>2. row \in ManualRow
  BY DEF ManualInv, RowsOK
<1>3. PICK r \in NodeAsk : r = [at |-> "delete", row |-> row] /\ r.at = "delete" /\ r.row = row
  BY <1>2, AskOfRow
<1>4. MayAsk(q) /\ Arrives(q, r) /\ UNCHANGED <<manual, owners, wish>>
  BY <1>1, <1>3 DEF ReadForDelete
<1> QED BY <1>3, <1>4, ArrivalKeeps

LEMMA ReadBatchKeeps == ASSUME ManualInv, NEW q \in NodeCalls, ReadBatch(q) PROVE ManualInv'
<1>1. PICK ids \in SUBSET {1, 2, 3}, to \in {"on", "off"} :
        AllFound(ids) /\ Arrives(q, [at |-> "batch", ids |-> ids, to |-> to]) /\ UNCHANGED <<manual, owners, wish>>
  BY DEF ReadBatch
<1>2. PICK r \in NodeAsk : r = [at |-> "batch", ids |-> ids, to |-> to] /\ r.at = "batch" /\ r.ids = ids
  <2>1. to \in Word
    BY DEF Word
  <2>2. ids \in SUBSET Nat
    <3>1. {1, 2, 3} \subseteq Nat
      OBVIOUS
    <3> QED BY <3>1
  <2>3. [at |-> "batch", ids |-> ids, to |-> to] \in NodeAsk
    BY <2>1, <2>2, AskOfBatch
  <2> QED BY <2>3
<1>3. ids \subseteq Ids
  BY <1>1 DEF AllFound, ManualInv, RowsOK
<1>4. MayAsk(q) /\ Arrives(q, r)
  BY <1>1, <1>2 DEF ReadBatch
<1> QED BY <1>1, <1>2, <1>3, <1>4, ArrivalKeeps

(* A request writes rows under the ids and sources they had, and is done.  *)
LEMMA WritingKeeps ==
  ASSUME ManualInv, NEW q \in NodeCalls, nodeAsks[q].at \in {"update", "batch"}, Ends(q), owners' = owners,
         NEW w \in [manual -> ManualRow], manual' = {w[row] : row \in manual},
         \A row \in manual : w[row].id = row.id /\ w[row].source = row.source /\ w[row].hand = row.hand /\ RowAgrees(w[row]),
         wish' \in [1..(2 + MaxNodeCalls) -> BOOLEAN],
         neat => \A row \in manual : w[row].enabled = wish'[row.id]
  PROVE  ManualInv'
<1>1. /\ nodeSteps' = nodeSteps /\ neat' = neat /\ nodeAsks' = [nodeAsks EXCEPT ![q] = NotAsked]
      /\ NotAsked \in NodeAsk /\ NotAsked.at = "idle"
  BY NotAskedEnds
<1>2. nodeSteps \in Nat /\ nodeAsks \in [NodeCalls -> NodeAsk]
      /\ (neat => \A p \in NodeCalls \ {q} : nodeAsks[p].at = "idle")
  BY AskStepFacts
<1>3. PICK rows : rows = manual' /\ rows = {w[row] : row \in manual}
  OBVIOUS
<1>4. RowsOK
  BY DEF ManualInv
<1>5. /\ rows \subseteq ManualRow
      /\ \A row \in rows : row.id \in Ids /\ row.source \in DOMAIN owners /\ RowAgrees(row)
      /\ \A row, other \in rows : row.id = other.id => row = other
      /\ \A row \in rows : \E old \in manual : old.id = row.id /\ old.hand = row.hand /\ old.source = row.source
      /\ \A s : Cardinality(NodesOf(rows, s)) = Cardinality(NodesOf(manual, s))
  BY <1>3, <1>4, RewrittenRows
<1>6. RowsOK'
  BY <1>1, <1>3, <1>4, <1>5 DEF RowsOK, Ids
<1>7. AsksOK'
  BY <1>1, <1>2, <1>3, <1>5, NodeAskRests DEF ManualInv
<1>8. NeatOK'
  <2>1. neat => \A row \in manual' : row.enabled = wish'[row.id]
    OBVIOUS
  <2>2. \A s : ~Counting(nodeAsks[q], s)
    BY DEF Counting
  <2>3. neat => \A s \in DOMAIN owners : owners[s] = Cardinality(NodesOf(manual, s))
    BY <1>2, <2>2, AloneCounts DEF ManualInv
  <2>4. neat => \A s \in DOMAIN owners' : owners'[s] = Cardinality(NodesOf(manual', s))
    BY <1>3, <1>5, <2>3
  <2> QED BY <1>1, <1>2, <2>1, <2>4, NeatMoves
<1> QED BY <1>6, <1>7, <1>8 DEF ManualInv

LEMMA UpdateKeeps == ASSUME ManualInv, NEW q \in NodeCalls, UpdateNodeRow(q) PROVE ManualInv'
<1>1. PICK ask \in NodeAsk : ask = nodeAsks[q] /\ AskFits(ask) /\ ask.at = "update"
  BY AskStepFacts DEF UpdateNodeRow
<1>2. PICK read \in ManualRow, body \in NodeBody : read = ask.row /\ body = ask.body
  BY <1>1, AskShape
<1>3. /\ read.id \in Ids
      /\ IF read.hand THEN RowFits(UpdatedRow(read, body)) ELSE EnabledOnly(body)
      /\ \A row \in manual : row.id = read.id => row.hand = read.hand /\ row.source = read.source
  BY <1>1, <1>2 DEF AskFits
<1> DEFINE on == body.enabled = "on"
           written(row) == IF row.id = read.id THEN IF row.hand THEN UpdatedRow(read, body) ELSE [row EXCEPT !.enabled = on]
                           ELSE row
           w == [row \in manual |-> written(row)]
<1>4. /\ manual' = {written(row) : row \in manual}
      /\ wish' = IF body.enabled = "" THEN wish ELSE [wish EXCEPT ![read.id] = on]
      /\ Ends(q) /\ owners' = owners
  BY <1>1, <1>2 DEF UpdateNodeRow
<1>5. on \in BOOLEAN /\ (body.enabled = "" => ~on)
  OBVIOUS
<1> HIDE DEF on
<1>6. ASSUME NEW row \in manual
      PROVE  /\ w[row] \in ManualRow /\ w[row].id = row.id /\ w[row].source = row.source /\ w[row].hand = row.hand
             /\ RowAgrees(w[row])
             /\ row.id # read.id => w[row] = row
             /\ row.id = read.id /\ (row.hand => row.enabled = read.enabled) =>
                  w[row].enabled = IF body.enabled = "" THEN row.enabled ELSE on
  <2>1. row \in ManualRow /\ RowAgrees(row)
    BY DEF ManualInv, RowsOK
  <2>2. CASE row.id # read.id
    BY <2>1, <2>2
  <2>3. CASE row.id = read.id /\ row.hand
    <3>1. w[row] = UpdatedRow(read, body) /\ read.hand /\ read.source = row.source
      BY <1>3, <2>3
    <3> HIDE DEF w
    <3>2. PICK next : next = UpdatedRow(read, body)
      OBVIOUS
    <3>3. /\ next \in ManualRow /\ next.id = read.id /\ next.source = read.source /\ next.hand = read.hand
          /\ next.enabled = IF body.enabled = "" THEN read.enabled ELSE on
      BY <3>2, UpdatedIsRow DEF on
    <3>4. RowFits(next)
      BY <1>3, <3>1, <3>2
    <3> QED BY <2>3, <3>1, <3>2, <3>3, <3>4 DEF RowAgrees
  <2>4. CASE row.id = read.id /\ ~row.hand
    <3>1. w[row] = [row EXCEPT !.enabled = on]
      BY <2>4
    <3> HIDE DEF w
    <3>2. EnabledOnly(body)
      BY <1>3, <2>4
    <3>3. body.enabled # ""
      BY <3>2 DEF EnabledOnly
    <3>4. PICK next : next = [row EXCEPT !.enabled = on]
      OBVIOUS
    <3>5. /\ next \in ManualRow /\ next.id = row.id /\ next.source = row.source /\ next.hand = row.hand
          /\ next.enabled = on /\ RowAgrees(next)
      BY <1>5, <2>1, <3>4, SwitchedAgrees
    <3> QED BY <2>4, <3>1, <3>3, <3>4, <3>5
  <2> QED BY <2>2, <2>3, <2>4
<1>7. w \in [manual -> ManualRow] /\ manual' = {w[row] : row \in manual}
  <2>1. w \in [manual -> ManualRow]
    <3>1. w = [row \in manual |-> w[row]]
      OBVIOUS
    <3> HIDE DEF w
    <3> QED BY <1>6, <3>1
  <2> HIDE DEF written
  <2>2. manual' = {w[row] : row \in manual}
    BY <1>4
  <2> QED BY <2>1, <2>2
<1> HIDE DEF w, written
<1>8. wish \in [1..(2 + MaxNodeCalls) -> BOOLEAN] /\ read.id \in 1..(2 + MaxNodeCalls)
  BY <1>3, AskStepFacts DEF ManualInv, RowsOK, Ids
<1>9. wish' \in [1..(2 + MaxNodeCalls) -> BOOLEAN]
  BY <1>4, <1>5, <1>8
<1>10. neat => \A row \in manual : w[row].enabled = wish'[row.id]
  <2> SUFFICES ASSUME neat, NEW row \in manual PROVE w[row].enabled = wish'[row.id]
    OBVIOUS
  <2>1. read \in manual /\ row.enabled = wish[row.id]
    BY <1>1, <1>2 DEF ManualInv, NeatOK
  <2>2. row.id = read.id => row = read
    BY <2>1 DEF ManualInv, RowsOK
  <2>3. row.id \in 1..(2 + MaxNodeCalls)
    BY AskStepFacts DEF ManualInv, RowsOK, Ids
  <2>4. CASE row.id # read.id
    BY <1>4, <1>6, <1>8, <2>1, <2>3, <2>4
  <2>5. CASE row.id = read.id
    <3>1. w[row].enabled = IF body.enabled = "" THEN row.enabled ELSE on
      BY <1>6, <2>2, <2>5
    <3> QED BY <1>4, <1>8, <2>1, <2>5, <3>1
  <2> QED BY <2>4, <2>5
<1>11. nodeAsks[q].at \in {"update", "batch"}
  BY <1>1
<1> QED BY <1>4, <1>6, <1>7, <1>9, <1>10, <1>11, WritingKeeps

LEMMA WriteBatchKeeps == ASSUME ManualInv, NEW q \in NodeCalls, WriteBatch(q) PROVE ManualInv'
<1>1. PICK ids, on : ids = nodeAsks[q].ids /\ on = (nodeAsks[q].to = "on")
  OBVIOUS
<1>2. /\ manual' = {[row EXCEPT !.enabled = IF row.id \in ids THEN on ELSE @] : row \in manual}
      /\ wish' = [id \in DOMAIN wish |-> IF id \in ids THEN on ELSE wish[id]]
      /\ Ends(q) /\ owners' = owners /\ nodeAsks[q].at \in {"update", "batch"}
  BY <1>1 DEF WriteBatch
<1>3. on \in BOOLEAN
  BY <1>1
<1> DEFINE w == [row \in manual |-> [row EXCEPT !.enabled = IF row.id \in ids THEN on ELSE row.enabled]]
<1>4. ASSUME NEW row \in manual
      PROVE  /\ w[row] \in ManualRow /\ w[row].id = row.id /\ w[row].source = row.source /\ w[row].hand = row.hand
             /\ RowAgrees(w[row]) /\ w[row].enabled = IF row.id \in ids THEN on ELSE row.enabled
  <2>1. row \in ManualRow /\ RowAgrees(row)
    BY DEF ManualInv, RowsOK
  <2>2. PICK to \in BOOLEAN : to = IF row.id \in ids THEN on ELSE row.enabled
    BY <1>3, <2>1 DEF ManualRow
  <2>3. w[row] = [row EXCEPT !.enabled = to]
    BY <2>2
  <2> HIDE DEF w
  <2> QED BY <2>1, <2>2, <2>3, SwitchedAgrees
<1>5. w \in [manual -> ManualRow] /\ manual' = {w[row] : row \in manual}
  <2>1. w \in [manual -> ManualRow]
    <3>1. w = [row \in manual |-> w[row]]
      OBVIOUS
    <3> HIDE DEF w
    <3> QED BY <1>4, <3>1
  <2>2. \A row \in manual : w[row] = [row EXCEPT !.enabled = IF row.id \in ids THEN on ELSE @]
    OBVIOUS
  <2> HIDE DEF w
  <2> QED BY <1>2, <2>1, <2>2
<1> HIDE DEF w
<1>6. wish' \in [1..(2 + MaxNodeCalls) -> BOOLEAN]
  BY <1>2, <1>3 DEF ManualInv, RowsOK
<1>7. neat => \A row \in manual : w[row].enabled = wish'[row.id]
  <2> SUFFICES ASSUME neat, NEW row \in manual PROVE w[row].enabled = wish'[row.id]
    OBVIOUS
  <2>1. row.id \in 1..(2 + MaxNodeCalls)
    BY AskStepFacts DEF ManualInv, RowsOK, Ids
  <2>2. row.id \in DOMAIN wish /\ row.enabled = wish[row.id]
    BY <2>1 DEF ManualInv, NeatOK, RowsOK
  <2> QED BY <1>2, <1>4, <2>2
<1> QED BY <1>2, <1>4, <1>5, <1>6, <1>7, WritingKeeps

LEMMA DeleteNodeKeeps == ASSUME ManualInv, NEW q \in NodeCalls, DeleteNodeRow(q) PROVE ManualInv'
<1>1. PICK ask \in NodeAsk : ask = nodeAsks[q] /\ AskFits(ask) /\ ask.at = "delete"
  BY AskStepFacts DEF DeleteNodeRow
<1>2. PICK row \in ManualRow : row = ask.row /\ row = nodeAsks[q].row
  BY <1>1, AskShape
<1>3. row.id \in Ids /\ \A any \in manual : any.id = row.id => any.source = row.source
  BY <1>1, <1>2 DEF AskFits
<1>4. nodeSteps \in Nat /\ nodeAsks \in [NodeCalls -> NodeAsk]
      /\ (neat => \A p \in NodeCalls \ {q} : nodeAsks[p].at = "idle")
  BY <1>1, AskStepFacts
<1>5. manual' = {any \in manual : any.id # row.id} /\ Goes(q, "count") /\ owners' = owners /\ wish' = wish
  BY <1>2 DEF DeleteNodeRow
<1>6. PICK r \in NodeAsk : r = [at |-> "count", row |-> row] /\ r.at = "count" /\ r.row = row
  BY AskOfRow
<1>7. [ask EXCEPT !.at = "count"] = r
  BY <1>1, <1>2, <1>6 DEF NodeAsk
<1>8. nodeAsks' = [nodeAsks EXCEPT ![q] = r] /\ nodeSteps' = nodeSteps /\ neat' = neat
  BY <1>1, <1>4, <1>5, <1>7 DEF Goes
<1>9. RowsOK'
  BY <1>5, <1>8 DEF ManualInv, RowsOK, Ids
<1>10. AsksOK'
  <2>1. \A any \in manual' : \E old \in manual : old.id = any.id /\ old.hand = any.hand /\ old.source = any.source
    BY <1>5
  <2> QED BY <1>3, <1>4, <1>6, <1>8, <2>1, NodeAskRests DEF ManualInv
<1>11. NeatOK'
  <2>1. neat => \A any \in manual' : any.enabled = wish'[any.id]
    BY <1>5 DEF ManualInv, NeatOK
  <2>2. \A s : ~Counting(nodeAsks[q], s)
    BY <1>1 DEF Counting
  <2>3. neat => \A s \in DOMAIN owners : owners[s] = Cardinality(NodesOf(manual, s))
    BY <1>4, <2>2, AloneCounts DEF ManualInv
  <2>4. \A s : s # row.source => NodesOf(manual', s) = NodesOf(manual, s)
    BY <1>3, <1>5 DEF NodesOf
  <2>5. neat => \A s \in DOMAIN owners' : Counting(r, s) \/ owners'[s] = Cardinality(NodesOf(manual', s))
    BY <1>5, <1>6, <2>3, <2>4 DEF Counting
  <2> QED BY <1>4, <1>6, <1>8, <2>1, <2>5, NeatMoves
<1> QED BY <1>9, <1>10, <1>11 DEF ManualInv

(* A source goes with its nodes, while any request holds what it holds.    *)
LEMMA DropSourceKeeps == ASSUME ManualInv, DropSource PROVE ManualInv'
<1>1. /\ nodeSteps' = nodeSteps + 1 /\ nodeAsks' = nodeAsks /\ wish' = wish
      /\ neat' = (neat /\ \A q \in NodeCalls : nodeAsks[q].at = "idle")
      /\ owners' = [s \in DOMAIN owners \ {"s"} |-> owners[s]] /\ manual' = manual \ NodesOf(manual, "s")
  BY DEF DropSource
<1>2. nodeSteps \in Nat /\ nodeSteps' \in 0..MaxNodeCalls
  BY <1>1, ManualAssumption DEF ManualInv, RowsOK, DropSource
<1>3. Ids \subseteq Ids'
  <2>1. \A n \in Nat : 1..(2 + n) \subseteq 1..(2 + (n + 1))
    OBVIOUS
  <2> QED BY <1>1, <1>2, <2>1 DEF Ids
<1>4. manual' = {row \in manual : row.source # "s"} /\ manual' \subseteq manual
  BY <1>1 DEF NodesOf
<1>5. RowsOK'
  <2>1. DOMAIN owners' = DOMAIN owners \ {"s"} /\ neat' \in BOOLEAN
    BY <1>1
  <2> QED BY <1>1, <1>2, <1>3, <1>4, <2>1 DEF ManualInv, RowsOK
<1>6. AsksOK'
  <2>1. ASSUME NEW q \in NodeCalls PROVE AskFits(nodeAsks[q])'
    <3>1. AskFits(nodeAsks[q])
      BY DEF ManualInv, AsksOK
    <3> QED BY <1>1, <1>3, <1>4, <3>1 DEF AskFits
  <2> QED BY <1>1, <2>1 DEF ManualInv, AsksOK
<1>7. NeatOK'
  <2> SUFFICES ASSUME neat' PROVE
        /\ \A p, q \in NodeCalls : nodeAsks'[p].at # "idle" /\ nodeAsks'[q].at # "idle" => p = q
        /\ \A row \in manual' : row.enabled = wish'[row.id]
        /\ \A q \in NodeCalls : nodeAsks'[q].at # "update" /\ nodeAsks'[q].at # "store"
        /\ \A s \in DOMAIN owners' : owners'[s] = Cardinality(NodesOf(manual', s))
    BY DEF NeatOK
  <2>1. neat /\ \A q \in NodeCalls : nodeAsks[q].at = "idle" /\ nodeAsks'[q].at = "idle"
    BY <1>1
  <2>2. \A row \in manual' : row.enabled = wish'[row.id]
    BY <1>1, <1>4, <2>1 DEF ManualInv, NeatOK
  <2>3. Behind = {}
    BY <2>1 DEF Behind
  <2>4. \A s \in DOMAIN owners : owners[s] = Cardinality(NodesOf(manual, s))
    BY <2>1, <2>3 DEF ManualInv, NeatOK
  <2>5. \A s : s # "s" => NodesOf(manual', s) = NodesOf(manual, s)
    BY <1>4 DEF NodesOf
  <2>6. \A s \in DOMAIN owners' : s # "s" /\ s \in DOMAIN owners /\ owners'[s] = owners[s]
    BY <1>1
  <2> QED BY <2>1, <2>2, <2>4, <2>5, <2>6
<1> QED BY <1>5, <1>6, <1>7 DEF ManualInv

LEMMA ManualBegins == ManualInit => ManualInv
<1> SUFFICES ASSUME ManualInit PROVE ManualInv
  OBVIOUS
<1>1. PICK first, second : first = NodeRow0(1, "s", FALSE, "us") /\ second = NodeRow0(2, "manual", TRUE, "us")
  OBVIOUS
<1>2. /\ first \in ManualRow /\ first.id = 1 /\ first.source = "s" /\ first.enabled /\ RowAgrees(first)
      /\ second \in ManualRow /\ second.id = 2 /\ second.source = "manual" /\ second.enabled /\ RowAgrees(second)
  <2>1. first \in ManualRow /\ first.id = 1 /\ first.source = "s" /\ first.enabled /\ ~first.hand
    BY <1>1 DEF NodeRow0, ManualRow, Core, Connection, Detect, Word
  <2>2. /\ second \in ManualRow /\ second.id = 2 /\ second.source = "manual" /\ second.enabled /\ second.hand
        /\ second.protocol = "trojan" /\ second.raw = {"password"} /\ ~second.edited /\ second.name = "us" /\ second.country = "US"
    BY <1>1 DEF NodeRow0, ManualRow, Core, Connection, Detect, Word
  <2>3. RowAgrees(first)
    BY <1>1, <2>1 DEF RowAgrees, Served, NodeRow0
  <2>4. RowAgrees(second)
    BY <2>2 DEF RowAgrees, RowFits, Needs, Detect
  <2> QED BY <2>1, <2>2, <2>3, <2>4
<1>3. /\ nodeAsks = [q \in NodeCalls |-> NotAsked] /\ nodeSteps = 0 /\ neat
      /\ wish = [id \in 1..(2 + MaxNodeCalls) |-> TRUE] /\ MaxNodeCalls \in Nat
  BY ManualAssumption DEF ManualInit
<1>4. \/ manual = {first} /\ owners = [s \in {"s"} |-> 1]
      \/ manual = {first, second} /\ owners = [s \in {"s", "manual"} |-> 1]
  BY <1>1 DEF ManualInit
<1>5. RowsOK
  <2>1. 0 \in 0..MaxNodeCalls /\ wish \in [1..(2 + MaxNodeCalls) -> BOOLEAN] /\ Ids = 1..2
    BY <1>3 DEF Ids
  <2>2. DOMAIN owners \subseteq {"s", "manual"} /\ manual \subseteq ManualRow
    BY <1>2, <1>4 DEF Word
  <2>3. \A row \in manual : row.id \in Ids /\ row.source \in DOMAIN owners /\ RowAgrees(row)
    BY <1>2, <1>4, <2>1
  <2>4. \A row, other \in manual : row.id = other.id => row = other
    BY <1>2, <1>4
  <2> QED BY <1>3, <2>1, <2>2, <2>3, <2>4 DEF RowsOK
<1>6. \A q \in NodeCalls : nodeAsks[q].at = "idle"
  BY <1>3, AskShape
<1>7. AsksOK
  <2>1. nodeAsks \in [NodeCalls -> NodeAsk]
    BY <1>3, AskShape
  <2> QED BY <1>6, <2>1 DEF AsksOK, AskFits
<1>8. NeatOK
  <2>1. \A row \in manual : row.enabled = wish[row.id]
    <3>1. 1 \in 1..(2 + MaxNodeCalls) /\ 2 \in 1..(2 + MaxNodeCalls)
      BY <1>3
    <3> QED BY <1>2, <1>3, <1>4, <3>1
  <2>2. \A s \in DOMAIN owners : owners[s] = Cardinality(NodesOf(manual, s))
    <3>1. \A s \in DOMAIN owners : owners[s] = 1 /\ (NodesOf(manual, s) = {first} \/ NodesOf(manual, s) = {second})
      BY <1>2, <1>4 DEF NodesOf
    <3> QED BY <3>1, FS_Singleton
  <2> QED BY <1>6, <2>1, <2>2 DEF NeatOK
<1> QED BY <1>5, <1>7, <1>8 DEF ManualInv

LEMMA ManualKeeps == ManualInv /\ [ManualNext]_nodeVars => ManualInv'
<1> SUFFICES ASSUME ManualInv, [ManualNext]_nodeVars PROVE ManualInv'
  OBVIOUS
<1>1. CASE UNCHANGED nodeVars
  BY <1>1 DEF nodeVars, ManualInv, RowsOK, AsksOK, NeatOK, AskFits, Ids, Behind
<1>2. CASE DropSource
  BY <1>2, DropSourceKeeps
<1>3. CASE ManualNext /\ ~DropSource
  <2>1. PICK q \in NodeCalls :
          \/ CreateNode(q) \/ InsertNode(q) \/ CountNodes(q) \/ StoreNodeCount(q) \/ ReadNodeRow(q)
          \/ UpdateNodeRow(q) \/ ReadForDelete(q) \/ DeleteNodeRow(q) \/ ReadBatch(q) \/ WriteBatch(q)
    BY <1>3 DEF ManualNext
  <2> QED BY <2>1, CreateKeeps, InsertNodeKeeps, CountKeeps, StoreKeeps, ReadNodeRowKeeps, UpdateKeeps,
             ReadForDeleteKeeps, DeleteNodeKeeps, ReadBatchKeeps, WriteBatchKeeps
<1> QED BY <1>1, <1>2, <1>3

(* routes/nodes.ts: however edits of a node overlap, its row is one some   *)
(* request wanted as a whole, and without overlap every node is as it was  *)
(* last switched and every source counts its own.                          *)
THEOREM ManualNodesAgreeHolds == ManualSpec => []ManualNodesAgree
<1>1. ManualInv => ManualNodesAgree
  <2> SUFFICES ASSUME ManualInv PROVE ManualNodesAgree
    OBVIOUS
  <2>1. \A row \in manual : row.source \in DOMAIN owners /\ RowAgrees(row)
    BY DEF ManualInv, RowsOK
  <2>2. neat => \A row \in manual : row.enabled = wish[row.id]
    BY DEF ManualInv, NeatOK
  <2>3. neat /\ (\A q \in NodeCalls : nodeAsks[q].at = "idle") => \A s \in DOMAIN owners : owners[s] = Cardinality(NodesOf(manual, s))
    BY DEF ManualInv, NeatOK, Behind
  <2> QED BY <2>1, <2>2, <2>3 DEF ManualNodesAgree, RowAgrees, RowFits, Served
<1> QED BY <1>1, ManualBegins, ManualKeeps, PTL DEF ManualSpec

(* The sources, the steps of the requests and the ids of the rows are what *)
(* they are meant to be, however the requests overlap.                     *)
THEOREM ManualTypesHold == ManualSpec => []ManualTypes
<1>1. ManualInv => ManualTypes
  <2> SUFFICES ASSUME ManualInv PROVE ManualTypes
    OBVIOUS
  <2>1. /\ DOMAIN owners \subseteq {"s", "manual"} /\ nodeSteps \in 0..MaxNodeCalls
        /\ \A row, other \in manual : row.id = other.id => row = other
    BY DEF ManualInv, RowsOK
  <2>2. \A q \in NodeCalls : nodeAsks[q].at \in {"idle", "insert", "delete", "count", "update", "store", "batch"}
    BY AskShape DEF ManualInv, AsksOK
  <2> QED BY <2>1, <2>2 DEF ManualTypes
<1> QED BY <1>1, ManualBegins, ManualKeeps, PTL DEF ManualSpec

-----------------------------------------------------------------------------
(* The export profiles and the link of the default one.  A request that runs *)
(* alone leaves the link at the profile it serves, whatever earlier requests *)
(* left behind.                                                              *)

ProfileSpec == ProfileInit /\ [][ProfileNext]_profileVars

-----------------------------------------------------------------------------
Held == [at : ProfileSteps, op : Ops \cup {"free", "ensure"}, id : Profiles,
         seen : Int, new : Nat, alone : BOOLEAN]

ProfileRowsOK ==
    /\ space \in BOOLEAN /\ version \in BOOLEAN /\ graph \in BOOLEAN
    /\ tokens \in 0..MaxTokens /\ link \in -1..tokens
    /\ DOMAIN profiles \subseteq Profiles /\ profiles \in [DOMAIN profiles -> Profile]
    /\ \A id \in DOMAIN profiles : profiles[id].token <= tokens
    /\ ready \in [alone : BOOLEAN, torn : BOOLEAN]

(* A request at a step: what it is about, and tokens that were handed out. *)
HeldWell(r, last, there) ==
    /\ r.seen <= last /\ r.new <= last
    /\ r.at = "free" => r.op = "free"
    /\ r.at \in {"version", "initialized"} => r.op = "initialize"
    /\ r.at = "insert" => r.op = "create" /\ r.id # Standard
    /\ r.at = "find" => r.op \in {"toggle", "delete", "reset"}
    /\ r.at \in {"swap", "follow"} => r.seen > 0
    /\ r.at = "wipe" => r.op = "clear"
    /\ r.at = "dropped" => r.op = "drop"
    /\ r.at = "mark" => r.op = "initialize" \/ (r.op = "drop" /\ ~there)
ProfileAsksOK ==
    /\ asks \in [ProfileCalls -> Held]
    /\ \A c \in ProfileCalls : HeldWell(asks[c], tokens, space)

(* Where the tokens of the default profile may be: in its row, in the      *)
(* link, and with requests that will write them there; and where those of  *)
(* the other profiles may be.  No token is ever in places of both kinds.   *)
StandardRow(rows, t) == Standard \in DOMAIN rows /\ t = rows[Standard].token
OtherRow(rows, t) == \E id \in DOMAIN rows \ {Standard} : t = rows[id].token
Resets(r, t) ==
    \/ r.at \in {"swap", "follow"} /\ t = r.seen
    \/ r.at = "follow" /\ t = r.new
HoldsStandard(r, t) == (r.at = "setLink" /\ t = r.new) \/ (r.id = Standard /\ Resets(r, t))
HoldsOther(r, t) == r.id # Standard /\ Resets(r, t)
OfStandard(t) ==
    \/ t = link \/ StandardRow(profiles, t)
    \/ \E c \in ProfileCalls : HoldsStandard(asks[c], t)
OfOther(t) == OtherRow(profiles, t) \/ \E c \in ProfileCalls : HoldsOther(asks[c], t)
Apart == \A t \in 1..tokens : ~(OfStandard(t) /\ OfOther(t))

(* A request that has been alone since it came is the only one in flight,  *)
(* and has what its earlier steps found or wrote.                          *)
LoneAsk(c) == c \in InFlight /\ asks[c].alone
LoneProfileAsk == \A c \in ProfileCalls : LoneAsk(c) => InFlight = {c}
LinkedTo(rows, token) == Standard \in DOMAIN rows /\ token = rows[Standard].token
Progress(r, token, rows) ==
    /\ r.at \in {"link", "byToken", "standard", "insertStandard", "setLink", "others", "mark"} =>
         token >= 0
    /\ r.at = "byToken" => r.seen = token
    /\ r.at = "setLink" => LinkedTo(rows, r.new)
    /\ r.at \in {"others", "mark"} => LinkedTo(rows, token)
LoneGoesWell == \A c \in ProfileCalls : LoneAsk(c) /\ space => Progress(asks[c], link, profiles)

(* Only a clearing of the data takes away what the version stands for.     *)
Marking == \E c \in ProfileCalls : asks[c].at = "mark"
Clearing == \E c \in ProfileCalls : asks[c].op = "clear"
VersionMeansIt == space /\ (version \/ Marking) => graph \/ ready.torn \/ Clearing

(* The last answer still holds while nobody in flight has written.         *)
Good == LinkedTo(profiles, link) /\ (graph \/ ready.torn \/ ~version)
Unwritten == {"find", "dropped"}
Settled == ready.alone /\ space /\ (\A c \in InFlight : asks[c].at \in Unwritten) => Good

ProfileInv ==
    /\ ProfileRowsOK /\ ProfileAsksOK /\ Apart
    /\ LoneProfileAsk /\ LoneGoesWell /\ VersionMeansIt /\ Settled

-----------------------------------------------------------------------------
(* One step of a request in flight: n is what the request holds after it.  *)
LEMMA UnaskedIsHeld ==
  /\ Unasked \in Held /\ Unasked.at = "free" /\ Unasked.op = "free" /\ Unasked.id = Standard
  /\ Unasked.seen = 0 /\ Unasked.new = 0 /\ Unasked.alone
  BY DefaultProfileAssumption DEF Unasked, Held, ProfileSteps, Ops

Moved(r, step, seen, new) == [r EXCEPT !.at = step, !.seen = seen, !.new = new]

LEMMA HeldChanges ==
  ASSUME NEW r \in Held, NEW step \in ProfileSteps, NEW seen \in Int, NEW new \in Nat
  PROVE  /\ Moved(r, step, seen, new) \in Held
         /\ Moved(r, step, seen, new).at = step /\ Moved(r, step, seen, new).op = r.op
         /\ Moved(r, step, seen, new).id = r.id /\ Moved(r, step, seen, new).seen = seen
         /\ Moved(r, step, seen, new).new = new /\ Moved(r, step, seen, new).alone = r.alone
  BY DEF Held, Moved

LEMMA OneTurn ==
  ASSUME ProfileAsksOK, NEW c \in InFlight, NEW n \in Held, asks' = [asks EXCEPT ![c] = n]
  PROVE  /\ c \in ProfileCalls /\ asks[c] \in Held /\ asks[c].at # "free"
         /\ asks'[c] = n /\ asks' \in [ProfileCalls -> Held]
         /\ \A d \in ProfileCalls \ {c} : asks'[d] = asks[d]
<1>1. c \in ProfileCalls /\ asks[c].at # "free"
  BY DEF InFlight
<1> QED BY <1>1 DEF ProfileAsksOK

(* The tokens stay apart: a token in a new place was in one of that kind,  *)
(* or has just been handed out and is in places of one kind.               *)
StandardAfter(n, t) == t = link' \/ StandardRow(profiles', t) \/ HoldsStandard(n, t)
OtherAfter(n, t) == OtherRow(profiles', t) \/ HoldsOther(n, t)
TokensMoveWell(n) ==
    /\ \A t \in 1..tokens : /\ StandardAfter(n, t) => OfStandard(t)
                            /\ OtherAfter(n, t) => OfOther(t)
    /\ \A t \in 1..tokens' : t > tokens => ~StandardAfter(n, t) \/ ~OtherAfter(n, t)

LEMMA TurnKeeps ==
  ASSUME ProfileInv, NEW c \in InFlight, NEW n \in Held, asks' = [asks EXCEPT ![c] = n],
         ProfileRowsOK', tokens <= tokens', space' => space,
         HeldWell(n, tokens', space'), TokensMoveWell(n),
         n.at = "free" \/ n.alone = asks[c].alone,
         LoneAsk(c) /\ space' => n.at = "free" \/ Progress(n, link', profiles')
  PROVE  ProfileAsksOK' /\ Apart' /\ LoneProfileAsk' /\ LoneGoesWell'
<1>1. /\ c \in ProfileCalls /\ asks[c] \in Held /\ asks[c].at # "free"
      /\ asks'[c] = n /\ asks' \in [ProfileCalls -> Held]
      /\ \A d \in ProfileCalls \ {c} : asks'[d] = asks[d]
  BY OneTurn DEF ProfileInv
<1>2. /\ tokens \in Nat /\ tokens' \in Nat
      /\ \A d \in ProfileCalls : /\ HeldWell(asks[d], tokens, space)
                                /\ asks[d].seen \in Int /\ asks[d].new \in Nat
  BY DEF ProfileInv, ProfileAsksOK, ProfileRowsOK, Held
<1>3. ProfileAsksOK'
  <2>1. \A d \in ProfileCalls : HeldWell(asks'[d], tokens', space')
    BY <1>1, <1>2 DEF HeldWell
  <2> QED BY <1>1, <2>1 DEF ProfileAsksOK
<1>4. Apart'
  <2>1. SUFFICES ASSUME NEW t \in 1..tokens', OfStandard(t)', OfOther(t)' PROVE FALSE
    BY DEF Apart
  <2>2. StandardAfter(n, t) \/ \E d \in ProfileCalls \ {c} : HoldsStandard(asks[d], t)
    BY <1>1, <2>1 DEF OfStandard, StandardAfter
  <2>3. OtherAfter(n, t) \/ \E d \in ProfileCalls \ {c} : HoldsOther(asks[d], t)
    BY <1>1, <2>1 DEF OfOther, OtherAfter
  <2>4. \A d \in ProfileCalls : HoldsStandard(asks[d], t) \/ HoldsOther(asks[d], t) => t <= tokens
    BY <1>2 DEF HeldWell, HoldsStandard, HoldsOther, Resets
  <2>5. CASE t <= tokens
    <3>1. t \in 1..tokens
      BY <1>2, <2>5
    <3>2. OfStandard(t)
      <4>1. CASE StandardAfter(n, t)
        BY <3>1, <4>1 DEF TokensMoveWell
      <4>2. CASE \E d \in ProfileCalls \ {c} : HoldsStandard(asks[d], t)
        BY <4>2 DEF OfStandard
      <4> QED BY <2>2, <4>1, <4>2
    <3>3. OfOther(t)
      <4>1. CASE OtherAfter(n, t)
        BY <3>1, <4>1 DEF TokensMoveWell
      <4>2. CASE \E d \in ProfileCalls \ {c} : HoldsOther(asks[d], t)
        BY <4>2 DEF OfOther
      <4> QED BY <2>3, <4>1, <4>2
    <3> QED BY <3>1, <3>2, <3>3 DEF ProfileInv, Apart
  <2>6. CASE t > tokens
    <3>1. ~(t <= tokens)
      BY <1>2, <2>6
    <3> QED BY <2>2, <2>3, <2>4, <2>6, <3>1 DEF TokensMoveWell
  <2> QED BY <1>2, <2>5, <2>6
<1>5. \A d \in ProfileCalls : LoneAsk(d)' => d = c /\ LoneAsk(c) /\ n.at # "free"
  <2>1. SUFFICES ASSUME NEW d \in ProfileCalls, LoneAsk(d)' PROVE d = c /\ LoneAsk(c) /\ n.at # "free"
    OBVIOUS
  <2>2. CASE d = c
    BY <1>1, <2>1, <2>2 DEF LoneAsk, InFlight
  <2>3. CASE d # c
    <3>1. LoneAsk(d)
      BY <1>1, <2>1, <2>3 DEF LoneAsk, InFlight
    <3> QED BY <2>3, <3>1 DEF ProfileInv, LoneProfileAsk
  <2> QED BY <2>2, <2>3
<1>6. LoneProfileAsk'
  <2>1. SUFFICES ASSUME NEW d \in ProfileCalls, LoneAsk(d)' PROVE InFlight' = {d}
    BY DEF LoneProfileAsk
  <2>2. d = c /\ InFlight = {c} /\ n.at # "free"
    BY <1>1, <1>5, <2>1 DEF ProfileInv, LoneProfileAsk
  <2> QED BY <1>1, <2>2 DEF InFlight
<1>7. LoneGoesWell'
  BY <1>1, <1>5 DEF LoneGoesWell
<1> QED BY <1>3, <1>4, <1>6, <1>7

(* What the version stands for, after a step of a request. *)
LEMMA VersionKeeps ==
  ASSUME ProfileInv, NEW c \in InFlight, NEW n \in Held, asks' = [asks EXCEPT ![c] = n],
         space' => space, ready.torn => ready'.torn,
         \/ graph' \/ ready'.torn \/ n.op = "clear" \/ ~space'
         \/ /\ graph' = graph
            /\ version' => version \/ asks[c].at = "mark"
            /\ n.at = "mark" => asks[c].at = "mark"
            /\ asks[c].op # "clear"
  PROVE  VersionMeansIt'
<1>1. /\ c \in ProfileCalls /\ asks'[c] = n
      /\ \A d \in ProfileCalls \ {c} : asks'[d] = asks[d]
  BY OneTurn DEF ProfileInv
<1>2. CASE graph' \/ ready'.torn \/ n.op = "clear" \/ ~space'
  BY <1>1, <1>2 DEF VersionMeansIt, Clearing
<1>3. CASE /\ graph' = graph
           /\ version' => version \/ asks[c].at = "mark"
           /\ n.at = "mark" => asks[c].at = "mark"
           /\ asks[c].op # "clear"
  <2>1. Marking' => Marking
    BY <1>1, <1>3 DEF Marking
  <2>2. asks[c].at = "mark" => Marking
    BY <1>1 DEF Marking
  <2>3. Clearing => Clearing'
    BY <1>1, <1>3 DEF Clearing
  <2>4. SUFFICES ASSUME space', version' \/ Marking'
                 PROVE  graph' \/ ready'.torn \/ Clearing'
    BY DEF VersionMeansIt
  <2>5. space /\ (version \/ Marking)
    BY <1>3, <2>1, <2>2, <2>4
  <2>6. graph \/ ready.torn \/ Clearing
    BY <2>5 DEF VersionMeansIt, ProfileInv
  <2> QED BY <1>3, <2>3, <2>6
<1> QED BY <1>2, <1>3

(* A request that goes on with a write, or after it, is seen in flight.    *)
LEMMA GoingOnSettles ==
  ASSUME ProfileAsksOK, NEW c \in InFlight, NEW n \in Held, asks' = [asks EXCEPT ![c] = n],
         n.at # "free", n.at \notin Unwritten
  PROVE  Settled'
<1>1. c \in ProfileCalls /\ asks'[c] = n
  BY OneTurn
<1>2. c \in InFlight' /\ asks'[c].at \notin Unwritten
  BY <1>1 DEF InFlight
<1> QED BY <1>2 DEF Settled

-----------------------------------------------------------------------------
(* The ways a request ends. *)
LEMMA AtAStep ==
  ASSUME ProfileInv, NEW c \in ProfileCalls, asks[c].at # "free"
  PROVE  /\ c \in InFlight /\ asks[c] \in Held /\ HeldWell(asks[c], tokens, space)
         /\ tokens \in Nat /\ link \in Int /\ link <= tokens
         /\ asks[c].seen \in Int /\ asks[c].new \in Nat /\ asks[c].alone \in BOOLEAN
         /\ asks[c].op \in Ops \cup {"free", "ensure"} /\ asks[c].id \in Profiles
<1>1. c \in InFlight /\ asks[c] \in Held /\ HeldWell(asks[c], tokens, space)
  BY DEF ProfileInv, ProfileAsksOK, InFlight
<1>2. tokens \in Nat /\ link \in Int /\ link <= tokens
  BY DEF ProfileInv, ProfileRowsOK
<1> QED BY <1>1, <1>2 DEF Held

LEMMA LoneAndClearing ==
  ASSUME ProfileInv, NEW c \in ProfileCalls, LoneAsk(c), Clearing
  PROVE  asks[c].op = "clear"
<1>1. PICK d \in ProfileCalls : asks[d].op = "clear"
  BY DEF Clearing
<1>2. d \in InFlight
  BY <1>1 DEF ProfileInv, ProfileAsksOK, HeldWell, InFlight
<1>3. InFlight = {c}
  BY DEF ProfileInv, LoneProfileAsk
<1> QED BY <1>1, <1>2, <1>3

LEMMA UnaskedHoldsNothing ==
  /\ \A t : ~HoldsStandard(Unasked, t) /\ ~HoldsOther(Unasked, t)
  /\ \A there : \A last \in Nat : HeldWell(Unasked, last, there)
  BY UnaskedIsHeld DEF HoldsStandard, HoldsOther, Resets, HeldWell

(* What stays as it was, stays where it was. *)
LEMMA RowsStay ==
  ASSUME ProfileInv, UNCHANGED profileRows, NEW n,
         \A t \in 1..tokens : /\ HoldsStandard(n, t) => OfStandard(t)
                              /\ HoldsOther(n, t) => OfOther(t)
  PROVE  /\ ready' \in [alone : BOOLEAN, torn : BOOLEAN] => ProfileRowsOK'
         /\ tokens' = tokens /\ space' = space /\ link' = link /\ profiles' = profiles
         /\ graph' = graph /\ version' = version
         /\ TokensMoveWell(n)
<1>1. /\ tokens' = tokens /\ space' = space /\ link' = link /\ profiles' = profiles
      /\ graph' = graph /\ version' = version
  BY DEF profileRows
<1>2. ready' \in [alone : BOOLEAN, torn : BOOLEAN] => ProfileRowsOK'
  BY <1>1 DEF ProfileInv, ProfileRowsOK
<1>3. \A t \in 1..tokens : /\ StandardAfter(n, t) => OfStandard(t)
                           /\ OtherAfter(n, t) => OfOther(t)
  BY <1>1 DEF StandardAfter, OtherAfter, OfStandard, OfOther
<1>4. \A t \in 1..tokens' : ~(t > tokens)
  BY <1>1 DEF ProfileInv, ProfileRowsOK
<1> QED BY <1>1, <1>2, <1>3, <1>4 DEF TokensMoveWell

LEMMA EndKeeps ==
  ASSUME ProfileInv, NEW c \in InFlight, asks' = [asks EXCEPT ![c] = Unasked],
         ProfileRowsOK', tokens' = tokens, space' = space, TokensMoveWell(Unasked)
  PROVE  ProfileAsksOK' /\ Apart' /\ LoneProfileAsk' /\ LoneGoesWell'
<1>1. Unasked \in Held /\ Unasked.at = "free"
  BY UnaskedIsHeld
<1>2. tokens \in Nat /\ tokens <= tokens' /\ (space' => space)
  BY DEF ProfileInv, ProfileRowsOK
<1>3. HeldWell(Unasked, tokens', space')
  BY <1>2, UnaskedHoldsNothing
<1>4. PICK n \in Held : n = Unasked
  BY <1>1
<1>5. /\ asks' = [asks EXCEPT ![c] = n] /\ n.at = "free"
      /\ HeldWell(n, tokens', space') /\ TokensMoveWell(n)
  BY <1>1, <1>3, <1>4
<1> QED BY <1>2, <1>5, TurnKeeps

LEMMA FailsKeeps ==
  ASSUME ProfileInv, NEW c \in InFlight, Fails(c)
  PROVE  ProfileInv'
<1>1. /\ asks' = [asks EXCEPT ![c] = Unasked] /\ UNCHANGED profileRows
      /\ ready' = [alone |-> FALSE, torn |-> ready.torn \/ asks[c].op = "clear"]
  BY DEF Fails
<1>2. ready.torn \in BOOLEAN /\ tokens \in Nat
  BY DEF ProfileInv, ProfileRowsOK
<1>3. /\ ready' \in [alone : BOOLEAN, torn : BOOLEAN] /\ ~ready'.alone
      /\ ready'.torn = (ready.torn \/ asks[c].op = "clear")
  BY <1>1, <1>2
<1>4. /\ ProfileRowsOK' /\ tokens' = tokens /\ space' = space /\ graph' = graph /\ version' = version
      /\ TokensMoveWell(Unasked)
  BY <1>1, <1>3, RowsStay, UnaskedHoldsNothing
<1>6. ProfileAsksOK' /\ Apart' /\ LoneProfileAsk' /\ LoneGoesWell'
  BY <1>1, <1>4, EndKeeps
<1>7. VersionMeansIt'
  BY <1>1, <1>3, <1>4, VersionKeeps, UnaskedIsHeld
<1>8. Settled'
  BY <1>3 DEF Settled
<1> QED BY <1>4, <1>6, <1>7, <1>8 DEF ProfileInv

LEMMA RefuseKeeps ==
  ASSUME ProfileInv, NEW c \in InFlight, asks[c].at \in Unwritten, Refuse(c)
  PROVE  ProfileInv'
<1>1. asks' = [asks EXCEPT ![c] = Unasked] /\ UNCHANGED profileRows /\ ready' = ready
  BY DEF Refuse
<1>2. c \in ProfileCalls /\ HeldWell(asks[c], tokens, space) /\ tokens \in Nat
  BY AtAStep DEF InFlight
<1>3. asks[c].op # "clear" /\ ready' \in [alone : BOOLEAN, torn : BOOLEAN]
  BY <1>1, <1>2 DEF Unwritten, HeldWell, ProfileInv, ProfileRowsOK
<1>4. /\ ProfileRowsOK' /\ tokens' = tokens /\ space' = space /\ graph' = graph /\ version' = version
      /\ link' = link /\ profiles' = profiles
      /\ TokensMoveWell(Unasked)
  BY <1>1, <1>3, RowsStay, UnaskedHoldsNothing
<1>6. ProfileAsksOK' /\ Apart' /\ LoneProfileAsk' /\ LoneGoesWell'
  BY <1>1, <1>4, EndKeeps
<1>7. VersionMeansIt'
  BY <1>1, <1>3, <1>4, VersionKeeps, UnaskedIsHeld
<1>8. Settled'
  <2>1. SUFFICES ASSUME ready'.alone, space', \A d \in InFlight' : asks'[d].at \in Unwritten
                 PROVE  Good'
    BY DEF Settled
  <2>2. \A d \in ProfileCalls \ {c} : asks'[d] = asks[d]
    BY <1>1, OneTurn, UnaskedIsHeld DEF ProfileInv
  <2>3. \A d \in InFlight : asks[d].at \in Unwritten
    <3>1. SUFFICES ASSUME NEW d \in InFlight, d # c PROVE asks[d].at \in Unwritten
      OBVIOUS
    <3>2. d \in InFlight' /\ asks'[d] = asks[d]
      BY <2>2, <3>1 DEF InFlight
    <3> QED BY <2>1, <3>2
  <2>4. Good
    BY <1>1, <1>4, <2>1, <2>3 DEF ProfileInv, Settled
  <2> QED BY <1>1, <1>4, <2>4 DEF Good
<1> QED BY <1>4, <1>6, <1>7, <1>8 DEF ProfileInv

(* What one answer says of the workspace, it says after a lone request.    *)
LEMMA AnsweredKeeps ==
  ASSUME ProfileInv, NEW c \in InFlight, Answered(c), ProfileRowsOK', tokens' = tokens, space' = space,
         TokensMoveWell(Unasked),
         \/ graph'
         \/ /\ graph' = graph
            /\ version' => version \/ asks[c].at = "mark"
            /\ asks[c].op # "clear",
         LoneAsk(c) /\ space =>
            LinkedTo(profiles', link') /\ (graph' \/ ready.torn \/ ~version')
  PROVE  ProfileInv'
<1>1. asks' = [asks EXCEPT ![c] = Unasked] /\ ready' = [ready EXCEPT !.alone = asks[c].alone]
  BY DEF Answered
<1>2. c \in ProfileCalls /\ asks[c].alone \in BOOLEAN /\ tokens \in Nat
  BY AtAStep DEF InFlight
<1>3. ready'.alone = asks[c].alone /\ ready'.torn = ready.torn
  BY <1>1 DEF ProfileInv, ProfileRowsOK
<1>5. ProfileAsksOK' /\ Apart' /\ LoneProfileAsk' /\ LoneGoesWell'
  BY <1>1, EndKeeps
<1>6. VersionMeansIt'
  BY <1>1, <1>3, VersionKeeps, UnaskedIsHeld
<1>7. Settled'
  <2>1. SUFFICES ASSUME ready'.alone, space' PROVE Good'
    BY DEF Settled
  <2>2. LoneAsk(c)
    BY <1>3, <2>1 DEF LoneAsk
  <2> QED BY <1>3, <2>1, <2>2 DEF Good
<1> QED BY <1>5, <1>6, <1>7 DEF ProfileInv

-----------------------------------------------------------------------------
(* The ways a request goes on. *)
LEMMA OnKeeps ==
  ASSUME ProfileInv, NEW c \in InFlight, NEW n \in Held, asks' = [asks EXCEPT ![c] = n],
         ready' = ready, ProfileRowsOK', tokens <= tokens', space' => space,
         HeldWell(n, tokens', space'), TokensMoveWell(n),
         n.alone = asks[c].alone, n.at \notin {"free", "find", "dropped"},
         LoneAsk(c) /\ space' => Progress(n, link', profiles'),
         \/ graph' \/ n.op = "clear" \/ ~space'
         \/ /\ graph' = graph /\ version' = version
            /\ n.at = "mark" => asks[c].at = "mark"
            /\ asks[c].op # "clear"
  PROVE  ProfileInv'
<1>1. ProfileAsksOK' /\ Apart' /\ LoneProfileAsk' /\ LoneGoesWell'
  BY TurnKeeps
<1>2. VersionMeansIt'
  <2>1. ready.torn => ready'.torn
    OBVIOUS
  <2>2. CASE graph' \/ n.op = "clear" \/ ~space'
    BY <2>1, <2>2, VersionKeeps
  <2>3. CASE /\ graph' = graph /\ version' = version
             /\ n.at = "mark" => asks[c].at = "mark"
             /\ asks[c].op # "clear"
    <3>1. version' => version \/ asks[c].at = "mark"
      BY <2>3
    <3> QED BY <2>1, <2>3, <3>1, VersionKeeps
  <2> QED BY <2>2, <2>3
<1>3. Settled'
  BY GoingOnSettles DEF ProfileInv, Unwritten
<1> QED BY <1>1, <1>2, <1>3 DEF ProfileInv

(* The rows did not change: the step only moves the request. *)
LEMMA MovesOnKeeps ==
  ASSUME ProfileInv, NEW c \in InFlight, NEW n \in Held, asks' = [asks EXCEPT ![c] = n],
         UNCHANGED <<profileRows, ready>>,
         HeldWell(n, tokens, space),
         \A t \in 1..tokens : /\ HoldsStandard(n, t) => OfStandard(t)
                              /\ HoldsOther(n, t) => OfOther(t),
         n.alone = asks[c].alone, n.at \notin {"free", "find", "dropped", "mark"},
         asks[c].op = "clear" => n.op = "clear",
         LoneAsk(c) /\ space => Progress(n, link, profiles)
  PROVE  ProfileInv'
<1>1. /\ ProfileRowsOK' /\ tokens' = tokens /\ space' = space /\ link' = link /\ profiles' = profiles
      /\ graph' = graph /\ version' = version /\ TokensMoveWell(n) /\ ready' = ready
  BY RowsStay DEF ProfileInv, ProfileRowsOK
<1>2. tokens <= tokens' /\ (space' => space)
  BY <1>1 DEF ProfileInv, ProfileRowsOK
<1>3. HeldWell(n, tokens', space') /\ (LoneAsk(c) /\ space' => Progress(n, link', profiles'))
  BY <1>1
<1>4. n.op = "clear" \/ asks[c].op # "clear"
  OBVIOUS
<1> QED BY <1>1, <1>2, <1>3, <1>4, OnKeeps

(* On to the defaults, with nothing left of what the request was about. *)
LEMMA OnToDefaults ==
  ASSUME ProfileInv, NEW c \in InFlight, Ensure(c)
  PROVE  \E n \in Held :
           /\ asks' = [asks EXCEPT ![c] = n]
           /\ n.at = "settings" /\ n.alone = asks[c].alone
           /\ asks[c].op = "clear" => n.op = "clear"
           /\ \A there : \A last \in Nat : HeldWell(n, last, there)
           /\ \A t : ~HoldsStandard(n, t) /\ ~HoldsOther(n, t)
           /\ \A token, rows : Progress(n, token, rows)
<1> DEFINE op == IF asks[c].op \in {"initialize", "list", "clear"} THEN asks[c].op ELSE "ensure"
           n == [Unasked EXCEPT !.at = "settings", !.alone = asks[c].alone, !.op = op]
<1>1. c \in ProfileCalls /\ asks[c].alone \in BOOLEAN /\ op \in Ops \cup {"ensure"}
  BY AtAStep DEF InFlight, Ops
<1>2. /\ n \in Held /\ n.at = "settings" /\ n.alone = asks[c].alone /\ n.op = op
      /\ n.seen = 0 /\ n.new = 0
  BY <1>1, UnaskedIsHeld DEF Held, ProfileSteps
<1>3. asks' = [asks EXCEPT ![c] = n]
  BY DEF Ensure
<1>4. asks[c].op = "clear" => op = "clear"
  OBVIOUS
<1> HIDE DEF n, op
<1>5. \A there : \A last \in Nat : HeldWell(n, last, there)
  BY <1>2 DEF HeldWell
<1>6. \A t : ~HoldsStandard(n, t) /\ ~HoldsOther(n, t)
  BY <1>2 DEF HoldsStandard, HoldsOther, Resets
<1>7. \A token, rows : Progress(n, token, rows)
  BY <1>2 DEF Progress
<1> QED BY <1>2, <1>3, <1>4, <1>5, <1>6, <1>7

LEMMA EnsureKeeps ==
  ASSUME ProfileInv, NEW c \in InFlight, Ensure(c), ready' = ready,
         ProfileRowsOK', tokens <= tokens', space' => space, version' = version,
         graph' = graph \/ asks[c].op = "clear",
         \A t \in 1..tokens : /\ t = link' \/ StandardRow(profiles', t) => OfStandard(t)
                              /\ OtherRow(profiles', t) => OfOther(t),
         \A t \in 1..tokens' : t > tokens =>
            ~(t = link' \/ StandardRow(profiles', t)) \/ ~OtherRow(profiles', t)
  PROVE  ProfileInv'
<1>1. PICK n \in Held :
        /\ asks' = [asks EXCEPT ![c] = n]
        /\ n.at = "settings" /\ n.alone = asks[c].alone
        /\ asks[c].op = "clear" => n.op = "clear"
        /\ \A there : \A last \in Nat : HeldWell(n, last, there)
        /\ \A t : ~HoldsStandard(n, t) /\ ~HoldsOther(n, t)
        /\ \A token, rows : Progress(n, token, rows)
  BY OnToDefaults
<1>2. TokensMoveWell(n)
  BY <1>1 DEF TokensMoveWell, StandardAfter, OtherAfter
<1>3. tokens' \in Nat
  BY DEF ProfileRowsOK
<1>4. HeldWell(n, tokens', space') /\ Progress(n, link', profiles')
  BY <1>1, <1>3
<1>5. n.op = "clear" \/ (graph' = graph /\ asks[c].op # "clear")
  BY <1>1
<1>6. n.at \notin {"free", "find", "dropped"} /\ n.at # "mark"
  BY <1>1
<1> QED BY <1>1, <1>2, <1>4, <1>5, <1>6, OnKeeps

LEMMA EnsureMoves ==
  ASSUME ProfileInv, NEW c \in InFlight, Ensure(c), UNCHANGED <<profileRows, ready>>
  PROVE  ProfileInv'
<1>1. PICK n \in Held :
        /\ asks' = [asks EXCEPT ![c] = n]
        /\ n.at = "settings" /\ n.alone = asks[c].alone
        /\ asks[c].op = "clear" => n.op = "clear"
        /\ \A there : \A last \in Nat : HeldWell(n, last, there)
        /\ \A t : ~HoldsStandard(n, t) /\ ~HoldsOther(n, t)
        /\ \A token, rows : Progress(n, token, rows)
  BY OnToDefaults
<1>2. HeldWell(n, tokens, space)
  BY <1>1 DEF ProfileInv, ProfileRowsOK
<1>3. n.at \notin {"free", "find", "dropped", "mark"}
  BY <1>1
<1> QED BY <1>1, <1>2, <1>3, MovesOnKeeps

(* Where the next step is another one, and the rest is held as before. *)
LEMMA GoingTo ==
  ASSUME ProfileInv, NEW c \in InFlight, NEW step \in ProfileSteps, GoTo(c, step)
  PROVE  \E n \in Held :
           /\ asks' = [asks EXCEPT ![c] = n]
           /\ n.at = step /\ n.op = asks[c].op /\ n.id = asks[c].id
           /\ n.seen = asks[c].seen /\ n.new = asks[c].new /\ n.alone = asks[c].alone
<1> DEFINE n == [asks[c] EXCEPT !.at = step]
<1>1. asks[c] \in Held
  BY AtAStep DEF InFlight
<1>2. /\ n \in Held /\ n.at = step /\ n.op = asks[c].op /\ n.id = asks[c].id
      /\ n.seen = asks[c].seen /\ n.new = asks[c].new /\ n.alone = asks[c].alone
  BY <1>1 DEF Held
<1>3. asks' = [asks EXCEPT ![c] = n]
  BY DEF GoTo
<1> HIDE DEF n
<1> QED BY <1>2, <1>3

-----------------------------------------------------------------------------
(* The steps, one by one. *)

(* The profile that the link names is the default one: the link never is   *)
(* the token of another.                                                   *)
LEMMA ServedByLink ==
  ASSUME ProfileInv, NEW id \in DOMAIN profiles, profiles[id].token = link
  PROVE  id = Standard
<1>1. SUFFICES ASSUME id # Standard PROVE FALSE
  OBVIOUS
<1>2. profiles[id].token \in 1..tokens
  BY DEF ProfileInv, ProfileRowsOK, Profile
<1>3. OfStandard(link)
  BY DEF OfStandard
<1>4. OfOther(link)
  BY <1>1 DEF OfOther, OtherRow
<1> QED BY <1>2, <1>3, <1>4 DEF ProfileInv, Apart

LEMMA ReadVersionKeeps ==
  ASSUME ProfileInv, NEW c \in ProfileCalls, ReadVersion(c)
  PROVE  ProfileInv'
<1>1. /\ asks[c].at = "version" /\ c \in InFlight /\ HeldWell(asks[c], tokens, space)
      /\ UNCHANGED <<profileRows, ready>>
  BY AtAStep DEF ReadVersion
<1>2. asks[c].op = "initialize"
  BY <1>1 DEF HeldWell
<1>3. CASE GoTo(c, "initialized")
  <2>1. PICK n \in Held :
          /\ asks' = [asks EXCEPT ![c] = n]
          /\ n.at = "initialized" /\ n.op = asks[c].op /\ n.id = asks[c].id
          /\ n.seen = asks[c].seen /\ n.new = asks[c].new /\ n.alone = asks[c].alone
    BY <1>1, <1>3, GoingTo DEF ProfileSteps
  <2>2. HeldWell(n, tokens, space)
    BY <1>1, <1>2, <2>1 DEF HeldWell
  <2>3. \A t : ~HoldsStandard(n, t) /\ ~HoldsOther(n, t)
    BY <2>1 DEF HoldsStandard, HoldsOther, Resets
  <2>4. Progress(n, link, profiles)
    BY <2>1 DEF Progress
  <2> QED BY <1>1, <1>2, <2>1, <2>2, <2>3, <2>4, MovesOnKeeps
<1>4. CASE Ensure(c)
  BY <1>1, <1>4, EnsureMoves
<1> QED BY <1>3, <1>4 DEF ReadVersion

LEMMA ReadInitializedKeeps ==
  ASSUME ProfileInv, NEW c \in ProfileCalls, ReadInitialized(c)
  PROVE  ProfileInv'
<1>1. /\ asks[c].at = "initialized" /\ c \in InFlight /\ HeldWell(asks[c], tokens, space)
      /\ UNCHANGED profileRows
  BY AtAStep DEF ReadInitialized
<1>2. asks[c].op = "initialize"
  BY <1>1 DEF HeldWell
<1>3. CASE HasInitializedState /\ Answered(c)
  <2>1. PICK id \in DOMAIN profiles : profiles[id].token = link
    BY <1>3 DEF HasInitializedState
  <2>2. LinkedTo(profiles, link)
    BY <2>1, ServedByLink DEF LinkedTo
  <2>3. LoneAsk(c) /\ space => graph \/ ready.torn \/ ~version
    BY <1>2, LoneAndClearing DEF ProfileInv, VersionMeansIt
  <2>4. ready' \in [alone : BOOLEAN, torn : BOOLEAN]
    BY <1>1, <1>3, AtAStep DEF Answered, ProfileInv, ProfileRowsOK
  <2>5. /\ ProfileRowsOK' /\ tokens' = tokens /\ space' = space /\ link' = link /\ profiles' = profiles
        /\ graph' = graph /\ version' = version /\ TokensMoveWell(Unasked)
    BY <1>1, <2>4, RowsStay, UnaskedHoldsNothing
  <2> QED BY <1>1, <1>2, <1>3, <2>2, <2>3, <2>5, AnsweredKeeps
<1>4. CASE Ensure(c) /\ UNCHANGED ready
  BY <1>1, <1>4, EnsureMoves
<1> QED BY <1>3, <1>4 DEF ReadInitialized

(* A row with the token just handed out. *)
LEMMA TokenGoesIn ==
  ASSUME ProfileRowsOK, NEW id \in Profiles, NEW on \in BOOLEAN, NEW ids, ids \subseteq Profiles,
         ids \subseteq DOMAIN profiles \cup {id},
         tokens < MaxTokens, tokens' = tokens + 1, space' = space, version' = version,
         graph' = graph, link' = link, ready' = ready,
         DOMAIN profiles' = ids, profiles' = [other \in ids |-> profiles'[other]],
         id \in ids => profiles'[id] = [token |-> tokens + 1, enabled |-> on],
         \A other \in ids \ {id} : profiles'[other] = profiles[other]
  PROVE  ProfileRowsOK' /\ tokens \in Nat
<1>1. tokens \in Nat /\ MaxTokens \in Nat /\ tokens + 1 \in 1..MaxTokens
  BY DefaultProfileAssumption DEF ProfileRowsOK
<1>2. tokens' \in 0..MaxTokens /\ link' \in -1..tokens'
  BY <1>1 DEF ProfileRowsOK
<1>3. \A other \in ids : profiles'[other] \in Profile /\ profiles'[other].token <= tokens'
  <2>1. SUFFICES ASSUME NEW other \in ids
                 PROVE  profiles'[other] \in Profile /\ profiles'[other].token <= tokens'
    OBVIOUS
  <2>2. CASE other = id
    BY <1>1, <2>2 DEF Profile
  <2>3. CASE other # id
    <3>1. /\ other \in DOMAIN profiles /\ profiles'[other] = profiles[other]
          /\ profiles[other] \in Profile /\ profiles[other].token <= tokens
      BY <2>3 DEF ProfileRowsOK
    <3> QED BY <1>1, <3>1 DEF Profile
  <2> QED BY <2>2, <2>3
<1>4. DOMAIN profiles' \subseteq Profiles /\ profiles' \in [DOMAIN profiles' -> Profile]
  BY <1>3
<1> QED BY <1>1, <1>2, <1>3, <1>4 DEF ProfileRowsOK

LEMMA InsertProfileKeeps ==
  ASSUME ProfileInv, NEW c \in ProfileCalls, InsertProfile(c)
  PROVE  ProfileInv'
<1>1. /\ asks[c].at = "insert" /\ c \in InFlight /\ HeldWell(asks[c], tokens, space)
      /\ asks[c].id \in Profiles
  BY AtAStep DEF InsertProfile
<1>2. CASE Fails(c)
  BY <1>1, <1>2, FailsKeeps
<1>3. CASE ~Fails(c)
  <2>1. PICK id \in Profiles : id = asks[c].id
    BY <1>1
  <2>2. /\ tokens < MaxTokens /\ tokens' = tokens + 1 /\ Ensure(c)
        /\ space' = space /\ link' = link /\ version' = version /\ graph' = graph
        /\ ready' = ready
        /\ profiles' = [other \in DOMAIN profiles \cup {id} |->
              IF other = id THEN [token |-> tokens + 1, enabled |-> TRUE] ELSE profiles[other]]
    BY <1>3, <2>1 DEF InsertProfile, OwnRow
  <2>3. id # Standard
    BY <1>1, <2>1 DEF HeldWell
  <2>4. ProfileRowsOK' /\ tokens \in Nat
    <3>1. PICK ids : ids = DOMAIN profiles \cup {id}
      OBVIOUS
    <3>2. /\ DOMAIN profiles' = ids /\ profiles' = [other \in ids |-> profiles'[other]]
          /\ profiles'[id] = [token |-> tokens + 1, enabled |-> TRUE]
          /\ \A other \in ids \ {id} : profiles'[other] = profiles[other]
      BY <2>2, <3>1
    <3>3. ids \subseteq Profiles /\ ids \subseteq DOMAIN profiles \cup {id}
      BY <3>1 DEF ProfileInv, ProfileRowsOK
    <3>4. /\ tokens < MaxTokens /\ tokens' = tokens + 1
          /\ space' = space /\ link' = link /\ version' = version /\ graph' = graph
          /\ ready' = ready
      BY <2>2
    <3> QED BY <3>2, <3>3, <3>4, TokenGoesIn DEF ProfileInv
  <2>5. \A t \in 1..tokens : /\ t = link' \/ StandardRow(profiles', t) => OfStandard(t)
                             /\ OtherRow(profiles', t) => OfOther(t)
    <3>1. SUFFICES ASSUME NEW t \in 1..tokens
                   PROVE  /\ t = link' \/ StandardRow(profiles', t) => OfStandard(t)
                          /\ OtherRow(profiles', t) => OfOther(t)
      OBVIOUS
    <3>2. /\ DOMAIN profiles' = DOMAIN profiles \cup {id}
          /\ profiles'[id].token = tokens + 1
          /\ \A other \in DOMAIN profiles \ {id} : profiles'[other] = profiles[other]
      BY <2>2
    <3>3. t # tokens + 1
      BY <2>4
    <3>4. StandardRow(profiles', t) => StandardRow(profiles, t)
      BY <2>3, <3>2 DEF StandardRow
    <3>5. OtherRow(profiles', t) => OtherRow(profiles, t)
      BY <3>2, <3>3 DEF OtherRow
    <3> QED BY <2>2, <3>4, <3>5 DEF OfStandard, OfOther
  <2>6. \A t \in 1..tokens' : t > tokens => ~(t = link' \/ StandardRow(profiles', t))
    <3>1. link <= tokens /\ link \in Int
      BY DEF ProfileInv, ProfileRowsOK
    <3>2. Standard \in DOMAIN profiles =>
            profiles[Standard].token <= tokens /\ profiles[Standard].token \in Int
      BY DEF ProfileInv, ProfileRowsOK, Profile
    <3>3. \A t : StandardRow(profiles', t) => StandardRow(profiles, t)
      BY <2>2, <2>3 DEF StandardRow
    <3>4. link' = link /\ tokens \in Nat /\ tokens' = tokens + 1
      BY <2>2, <2>4
    <3>5. ASSUME NEW t \in 1..tokens', t > tokens PROVE t # link' /\ ~StandardRow(profiles', t)
      <4>1. t # link'
        BY <3>1, <3>4, <3>5
      <4>2. ~StandardRow(profiles, t)
        BY <3>2, <3>4, <3>5 DEF StandardRow
      <4> QED BY <3>3, <4>1, <4>2
    <3> QED BY <3>5
  <2>7. tokens <= tokens' /\ (space' => space) /\ (graph' = graph \/ asks[c].op = "clear")
    BY <2>2, <2>4
  <2> QED BY <1>1, <2>2, <2>4, <2>5, <2>6, <2>7, EnsureKeeps
<1> QED BY <1>2, <1>3

LEMMA FindRowKeeps ==
  ASSUME ProfileInv, NEW c \in ProfileCalls, FindRow(c)
  PROVE  ProfileInv'
<1>1. /\ asks[c].at = "find" /\ c \in InFlight /\ HeldWell(asks[c], tokens, space)
      /\ asks[c] \in Held
  BY AtAStep DEF FindRow
<1>2. CASE Refuse(c)
  BY <1>1, <1>2, RefuseKeeps DEF Unwritten
<1>3. CASE ~Refuse(c)
  <2>1. PICK id \in Profiles : id = asks[c].id
    BY <1>1 DEF Held
  <2>2. PICK step : step = CASE asks[c].op = "toggle" -> "update"
                             [] asks[c].op = "delete" -> "remove"
                             [] asks[c].op = "reset" -> "swap"
    OBVIOUS
  <2>3. /\ id \in DOMAIN profiles /\ UNCHANGED <<profileRows, ready>>
        /\ asks' = [asks EXCEPT ![c].seen = profiles[id].token, ![c].at = step]
    BY <1>3, <2>1, <2>2 DEF FindRow
  <2>4. asks[c].op \in {"toggle", "delete", "reset"}
    BY <1>1 DEF HeldWell
  <2>5. step \in {"update", "remove", "swap"}
    BY <2>2, <2>4
  <2>6. PICK token \in Int : token = profiles[id].token /\ token \in 1..tokens
    BY <2>3 DEF ProfileInv, ProfileRowsOK, Profile
  <2> DEFINE n == [asks[c] EXCEPT !.seen = token, !.at = step]
  <2>7. /\ n \in Held /\ n.at = step /\ n.op = asks[c].op /\ n.id = id /\ n.seen = token
        /\ n.new = asks[c].new /\ n.alone = asks[c].alone
    BY <1>1, <2>1, <2>5 DEF Held, ProfileSteps
  <2>8. asks' = [asks EXCEPT ![c] = n]
    BY <2>3, <2>6
  <2> HIDE DEF n
  <2>9. HeldWell(n, tokens, space)
    BY <1>1, <2>5, <2>6, <2>7 DEF HeldWell
  <2>10. \A t \in 1..tokens : /\ HoldsStandard(n, t) => OfStandard(t)
                              /\ HoldsOther(n, t) => OfOther(t)
    BY <2>3, <2>5, <2>6, <2>7
    DEF HoldsStandard, HoldsOther, Resets, OfStandard, OfOther, StandardRow, OtherRow
  <2>11. Progress(n, link, profiles) /\ n.at \notin {"free", "find", "dropped", "mark"}
    BY <2>5, <2>7 DEF Progress
  <2>12. asks[c].op # "clear"
    BY <2>4
  <2> QED BY <1>1, <2>3, <2>7, <2>8, <2>9, <2>10, <2>11, <2>12, MovesOnKeeps
<1> QED BY <1>2, <1>3

LEMMA ToggleProfileKeeps ==
  ASSUME ProfileInv, NEW c \in ProfileCalls, ToggleProfile(c)
  PROVE  ProfileInv'
<1>1. asks[c].at = "update" /\ c \in InFlight
  BY AtAStep DEF ToggleProfile
<1>2. PICK on \in BOOLEAN :
        profiles' = [id \in DOMAIN profiles |->
                       IF id = asks[c].id THEN [profiles[id] EXCEPT !.enabled = on]
                       ELSE profiles[id]]
  BY DEF ToggleProfile
<1>3. /\ Ensure(c) /\ space' = space /\ link' = link /\ version' = version /\ graph' = graph
      /\ tokens' = tokens /\ ready' = ready
  BY DEF ToggleProfile
<1>4. DOMAIN profiles' = DOMAIN profiles
  BY <1>2
<1>5. \A id \in DOMAIN profiles :
        profiles'[id] \in Profile /\ profiles'[id].token = profiles[id].token
  <2>1. \A id \in DOMAIN profiles : profiles[id] \in Profile
    BY DEF ProfileInv, ProfileRowsOK
  <2> QED BY <1>2, <2>1 DEF Profile
<1>6. profiles' \in [DOMAIN profiles' -> Profile]
  <2>1. profiles' = [id \in DOMAIN profiles' |-> profiles'[id]]
    BY <1>2
  <2> QED BY <1>4, <1>5, <2>1
<1>7. ProfileRowsOK'
  BY <1>3, <1>4, <1>5, <1>6 DEF ProfileInv, ProfileRowsOK
<1>8. \A t \in 1..tokens : /\ t = link' \/ StandardRow(profiles', t) => OfStandard(t)
                           /\ OtherRow(profiles', t) => OfOther(t)
  BY <1>3, <1>4, <1>5 DEF StandardRow, OtherRow, OfStandard, OfOther
<1>9. tokens <= tokens' /\ (space' => space) /\ (\A t \in 1..tokens' : ~(t > tokens))
  BY <1>3 DEF ProfileInv, ProfileRowsOK
<1> QED BY <1>1, <1>3, <1>7, <1>8, <1>9, EnsureKeeps

LEMMA DeleteProfileKeeps ==
  ASSUME ProfileInv, NEW c \in ProfileCalls, DeleteProfile(c)
  PROVE  ProfileInv'
<1>1. asks[c].at = "remove" /\ c \in InFlight
  BY AtAStep DEF DeleteProfile
<1>2. /\ profiles' = [id \in DOMAIN profiles \ {asks[c].id} |-> profiles[id]]
      /\ Ensure(c) /\ space' = space /\ link' = link /\ version' = version /\ graph' = graph
      /\ tokens' = tokens /\ ready' = ready
  BY DEF DeleteProfile
<1>3. ProfileRowsOK'
  BY <1>2 DEF ProfileInv, ProfileRowsOK
<1>4. \A t \in 1..tokens : /\ t = link' \/ StandardRow(profiles', t) => OfStandard(t)
                           /\ OtherRow(profiles', t) => OfOther(t)
  BY <1>2 DEF StandardRow, OtherRow, OfStandard, OfOther
<1>5. tokens <= tokens' /\ (space' => space) /\ (\A t \in 1..tokens' : ~(t > tokens))
  BY <1>2 DEF ProfileInv, ProfileRowsOK
<1> QED BY <1>1, <1>2, <1>3, <1>4, <1>5, EnsureKeeps

LEMMA ResetTokenKeeps ==
  ASSUME ProfileInv, NEW c \in ProfileCalls, ResetToken(c)
  PROVE  ProfileInv'
<1>1. /\ asks[c].at = "swap" /\ c \in InFlight /\ HeldWell(asks[c], tokens, space)
      /\ asks[c] \in Held /\ link \in Int /\ link <= tokens
  BY AtAStep DEF ResetToken
<1>2. PICK id \in Profiles : id = asks[c].id
  BY <1>1 DEF Held
<1>3. /\ tokens < MaxTokens /\ tokens' = tokens + 1
      /\ space' = space /\ link' = link /\ version' = version /\ graph' = graph /\ ready' = ready
      /\ asks' = [asks EXCEPT ![c].new = tokens + 1, ![c].at = "follow"]
  BY DEF ResetToken
<1>4. /\ DOMAIN profiles' = DOMAIN profiles
      /\ profiles' = [other \in DOMAIN profiles |-> profiles'[other]]
      /\ id \in DOMAIN profiles => profiles'[id] = [profiles[id] EXCEPT !.token = tokens + 1]
      /\ \A other \in DOMAIN profiles \ {id} : profiles'[other] = profiles[other]
  BY <1>2 DEF ResetToken
<1>5. PICK on \in BOOLEAN : id \in DOMAIN profiles =>
        profiles'[id] = [token |-> tokens + 1, enabled |-> on]
  <2>1. CASE id \in DOMAIN profiles
    <3>1. profiles[id] \in Profile
      BY <2>1 DEF ProfileInv, ProfileRowsOK
    <3>2. profiles[id].enabled \in BOOLEAN
      BY <3>1 DEF Profile
    <3>3. profiles'[id] = [token |-> tokens + 1, enabled |-> profiles[id].enabled]
      BY <1>4, <2>1, <3>1 DEF Profile
    <3> QED BY <3>2, <3>3
  <2>2. CASE id \notin DOMAIN profiles
    BY <2>2
  <2> QED BY <2>1, <2>2
<1>6. ProfileRowsOK' /\ tokens \in Nat
  <2>1. DOMAIN profiles \subseteq Profiles /\ DOMAIN profiles \subseteq DOMAIN profiles \cup {id}
    BY DEF ProfileInv, ProfileRowsOK
  <2> QED BY <1>3, <1>4, <1>5, <2>1, TokenGoesIn DEF ProfileInv
<1>7. PICK new \in Nat : new = tokens + 1
  BY <1>6
<1> DEFINE n == [asks[c] EXCEPT !.new = new, !.at = "follow"]
<1>8. /\ n \in Held /\ n.at = "follow" /\ n.op = asks[c].op /\ n.id = id /\ n.new = new
      /\ n.seen = asks[c].seen /\ n.alone = asks[c].alone
  BY <1>1, <1>2 DEF Held, ProfileSteps
<1>9. asks' = [asks EXCEPT ![c] = n]
  BY <1>3, <1>7
<1> HIDE DEF n
<1>10. asks[c].seen \in Int /\ asks[c].seen > 0 /\ asks[c].seen <= tokens
  BY <1>1 DEF Held, HeldWell
<1>11. HeldWell(n, tokens', space')
  BY <1>3, <1>6, <1>7, <1>8, <1>10 DEF HeldWell
<1>12. \A other \in DOMAIN profiles :
         /\ profiles[other].token \in Int /\ profiles[other].token <= tokens
         /\ profiles'[other].token = IF other = id THEN new ELSE profiles[other].token
  BY <1>4, <1>5, <1>7 DEF ProfileInv, ProfileRowsOK, Profile
<1>13. TokensMoveWell(n)
  <2>1. ASSUME NEW t \in 1..tokens, StandardAfter(n, t) PROVE OfStandard(t)
    <3>1. t # new
      BY <1>6, <1>7
    <3>2. HoldsStandard(n, t) => HoldsStandard(asks[c], t)
      BY <1>1, <1>2, <1>8, <3>1 DEF HoldsStandard, Resets
    <3>3. StandardRow(profiles', t) => StandardRow(profiles, t)
      BY <1>4, <1>12, <3>1 DEF StandardRow
    <3> QED BY <1>3, <2>1, <3>2, <3>3 DEF StandardAfter, OfStandard
  <2>2. ASSUME NEW t \in 1..tokens, OtherAfter(n, t) PROVE OfOther(t)
    <3>1. t # new
      BY <1>6, <1>7
    <3>2. HoldsOther(n, t) => HoldsOther(asks[c], t)
      BY <1>1, <1>2, <1>8, <3>1 DEF HoldsOther, Resets
    <3>3. OtherRow(profiles', t) => OtherRow(profiles, t)
      BY <1>4, <1>12, <3>1 DEF OtherRow
    <3> QED BY <2>2, <3>2, <3>3 DEF OtherAfter, OfOther
  <2>3. ASSUME NEW t \in 1..tokens', t > tokens PROVE ~StandardAfter(n, t) \/ ~OtherAfter(n, t)
    <3>1. t = new /\ t # asks[c].seen /\ t # link'
      BY <1>1, <1>3, <1>6, <1>7, <1>10, <2>3
    <3>2. \A other \in DOMAIN profiles \ {id} : t # profiles'[other].token
      BY <1>6, <1>7, <1>12, <2>3
    <3>3. CASE id = Standard
      <4>1. ~OtherRow(profiles', t)
        BY <1>4, <3>2, <3>3 DEF OtherRow
      <4> QED BY <1>8, <3>3, <4>1 DEF OtherAfter, HoldsOther
    <3>4. CASE id # Standard
      <4>1. ~StandardRow(profiles', t)
        BY <1>4, <3>2, <3>4 DEF StandardRow
      <4> QED BY <1>8, <3>1, <3>4, <4>1 DEF StandardAfter, HoldsStandard
    <3> QED BY <3>3, <3>4
  <2> QED BY <2>1, <2>2, <2>3 DEF TokensMoveWell
<1>14. Progress(n, link', profiles') /\ n.at \notin {"free", "find", "dropped"} /\ n.at # "mark"
  BY <1>8 DEF Progress
<1>15. tokens <= tokens' /\ (space' => space)
  BY <1>3, <1>6
<1>16. n.op = "clear" \/ asks[c].op # "clear"
  BY <1>8
<1> QED BY <1>1, <1>3, <1>6, <1>8, <1>9, <1>11, <1>13, <1>14, <1>15, <1>16, OnKeeps

(* Only the link that named the old token of a profile follows its reset,  *)
(* and no other profile ever had the link's token.                         *)
LEMMA FollowResetKeeps ==
  ASSUME ProfileInv, NEW c \in ProfileCalls, FollowReset(c)
  PROVE  ProfileInv'
<1>1. /\ asks[c].at = "follow" /\ c \in InFlight /\ HeldWell(asks[c], tokens, space)
      /\ asks[c].seen \in Int /\ asks[c].new \in Nat /\ tokens \in Nat
  BY AtAStep DEF FollowReset
<1>2. asks[c].seen > 0 /\ asks[c].seen <= tokens /\ asks[c].new <= tokens
  BY <1>1 DEF HeldWell
<1>3. /\ link' = (IF link = asks[c].seen THEN asks[c].new ELSE link)
      /\ Ensure(c) /\ space' = space /\ profiles' = profiles /\ version' = version
      /\ graph' = graph /\ tokens' = tokens /\ ready' = ready
  BY DEF FollowReset
<1>4. link' \in -1..tokens
  BY <1>1, <1>2, <1>3 DEF ProfileInv, ProfileRowsOK
<1>5. ProfileRowsOK'
  BY <1>3, <1>4 DEF ProfileInv, ProfileRowsOK
<1>6. \A t \in 1..tokens : t = link' => OfStandard(t)
  <2>1. CASE link # asks[c].seen
    BY <1>3, <2>1 DEF OfStandard
  <2>2. CASE link = asks[c].seen
    <3>1. link \in 1..tokens /\ OfStandard(link)
      BY <1>1, <1>2, <2>2 DEF OfStandard
    <3>2. ~OfOther(link)
      BY <3>1 DEF ProfileInv, Apart
    <3>3. asks[c].id = Standard
      BY <1>1, <2>2, <3>2 DEF OfOther, HoldsOther, Resets
    <3>4. HoldsStandard(asks[c], asks[c].new)
      BY <1>1, <3>3 DEF HoldsStandard, Resets
    <3> QED BY <1>3, <2>2, <3>4 DEF OfStandard
  <2> QED BY <2>1, <2>2
<1>7. \A t \in 1..tokens : /\ t = link' \/ StandardRow(profiles', t) => OfStandard(t)
                           /\ OtherRow(profiles', t) => OfOther(t)
  BY <1>3, <1>6 DEF OfStandard, OfOther
<1>8. /\ tokens <= tokens' /\ (space' => space) /\ (\A t \in 1..tokens' : ~(t > tokens))
      /\ (graph' = graph \/ asks[c].op = "clear")
  BY <1>1, <1>3
<1> QED BY <1>1, <1>3, <1>5, <1>7, <1>8, EnsureKeeps

LEMMA WipeDataKeeps ==
  ASSUME ProfileInv, NEW c \in ProfileCalls, WipeData(c)
  PROVE  ProfileInv'
<1>1. asks[c].at = "wipe" /\ c \in InFlight /\ asks[c].op = "clear" /\ tokens \in Nat
  BY AtAStep DEF WipeData, HeldWell
<1>2. /\ DOMAIN profiles' = {} /\ graph' = FALSE
      /\ link' = (IF link = -1 THEN -1 ELSE 0)
      /\ Ensure(c) /\ space' = space /\ version' = version /\ tokens' = tokens
      /\ ready' = ready
  BY DEF WipeData
<1>3. profiles' \in [DOMAIN profiles' -> Profile]
  BY DEF WipeData
<1>4. ProfileRowsOK'
  <2>1. link' \in -1..tokens'
    BY <1>1, <1>2
  <2> QED BY <1>2, <1>3, <2>1 DEF ProfileInv, ProfileRowsOK
<1>5. \A t \in 1..tokens : /\ t = link' \/ StandardRow(profiles', t) => OfStandard(t)
                           /\ OtherRow(profiles', t) => OfOther(t)
  BY <1>1, <1>2 DEF StandardRow, OtherRow
<1>6. /\ tokens <= tokens' /\ (space' => space) /\ (\A t \in 1..tokens' : ~(t > tokens))
      /\ (graph' = graph \/ asks[c].op = "clear")
  BY <1>1, <1>2
<1> QED BY <1>1, <1>2, <1>4, <1>5, <1>6, EnsureKeeps

LEMMA DropSpaceKeeps ==
  ASSUME ProfileInv, NEW c \in ProfileCalls, DropSpace(c)
  PROVE  ProfileInv'
<1>1. /\ asks[c].at = "dropped" /\ c \in InFlight /\ HeldWell(asks[c], tokens, space)
      /\ tokens \in Nat
  BY AtAStep DEF DropSpace
<1>2. CASE Refuse(c)
  BY <1>1, <1>2, RefuseKeeps DEF Unwritten
<1>3. CASE ~Refuse(c)
  <2>1. /\ space' = FALSE /\ link' = -1 /\ DOMAIN profiles' = {} /\ graph' = FALSE
        /\ GoTo(c, "mark") /\ version' = version /\ tokens' = tokens /\ ready' = ready
    BY <1>3 DEF DropSpace
  <2>2. profiles' \in [DOMAIN profiles' -> Profile]
    BY <1>3 DEF DropSpace
  <2>3. ProfileRowsOK'
    <3>1. link' \in -1..tokens'
      BY <1>1, <2>1
    <3> QED BY <2>1, <2>2, <3>1 DEF ProfileInv, ProfileRowsOK
  <2>4. PICK n \in Held :
          /\ asks' = [asks EXCEPT ![c] = n]
          /\ n.at = "mark" /\ n.op = asks[c].op /\ n.id = asks[c].id
          /\ n.seen = asks[c].seen /\ n.new = asks[c].new /\ n.alone = asks[c].alone
    BY <1>1, <2>1, GoingTo DEF ProfileSteps
  <2>5. HeldWell(n, tokens', space')
    BY <1>1, <2>1, <2>4 DEF HeldWell
  <2>6. TokensMoveWell(n)
    <3>1. \A t \in 1..tokens : ~StandardAfter(n, t) /\ ~OtherAfter(n, t)
      BY <1>1, <2>1, <2>4
      DEF StandardAfter, OtherAfter, StandardRow, OtherRow, HoldsStandard, HoldsOther, Resets
    <3> QED BY <1>1, <2>1, <3>1 DEF TokensMoveWell
  <2>7. /\ tokens <= tokens' /\ ~space' /\ n.at \notin {"free", "find", "dropped"}
    BY <1>1, <2>1, <2>4
  <2> QED BY <1>1, <2>1, <2>3, <2>4, <2>5, <2>6, <2>7, OnKeeps
<1> QED BY <1>2, <1>3

LEMMA InsertSettingsKeeps ==
  ASSUME ProfileInv, NEW c \in ProfileCalls, InsertSettings(c)
  PROVE  ProfileInv'
<1>1. /\ asks[c].at = "settings" /\ c \in InFlight /\ HeldWell(asks[c], tokens, space)
      /\ tokens \in Nat
  BY AtAStep DEF InsertSettings
<1>2. CASE Fails(c)
  BY <1>1, <1>2, FailsKeeps
<1>3. CASE ~Fails(c)
  <2>1. /\ link' = (IF link = -1 THEN 0 ELSE link) /\ GoTo(c, "link")
        /\ space' = space /\ profiles' = profiles /\ version' = version /\ graph' = graph
        /\ tokens' = tokens /\ ready' = ready
    BY <1>3 DEF InsertSettings, OwnRow
  <2>2. PICK n \in Held :
          /\ asks' = [asks EXCEPT ![c] = n]
          /\ n.at = "link" /\ n.op = asks[c].op /\ n.id = asks[c].id
          /\ n.seen = asks[c].seen /\ n.new = asks[c].new /\ n.alone = asks[c].alone
    BY <1>1, <2>1, GoingTo DEF ProfileSteps
  <2>3. link' \in -1..tokens' /\ link' >= 0
    BY <1>1, <2>1 DEF ProfileInv, ProfileRowsOK
  <2>4. ProfileRowsOK'
    BY <2>1, <2>3 DEF ProfileInv, ProfileRowsOK
  <2>5. HeldWell(n, tokens', space')
    BY <1>1, <2>1, <2>2 DEF HeldWell
  <2>6. TokensMoveWell(n)
    <3>1. \A t : ~HoldsStandard(n, t) /\ ~HoldsOther(n, t)
      BY <2>2 DEF HoldsStandard, HoldsOther, Resets
    <3>2. \A t \in 1..tokens : t = link' => t = link
      BY <1>1, <2>1
    <3>3. \A t \in 1..tokens' : ~(t > tokens)
      BY <1>1, <2>1
    <3> QED BY <2>1, <3>1, <3>2, <3>3 DEF TokensMoveWell, StandardAfter, OtherAfter, OfStandard,
                                          OfOther
  <2>7. Progress(n, link', profiles')
    BY <2>2, <2>3 DEF Progress
  <2>8. /\ tokens <= tokens' /\ (space' => space) /\ n.at # "mark"
        /\ n.at \notin {"free", "find", "dropped"} /\ (n.op = "clear" \/ asks[c].op # "clear")
    BY <1>1, <2>1, <2>2
  <2> QED BY <1>1, <2>1, <2>2, <2>4, <2>5, <2>6, <2>7, <2>8, OnKeeps
<1> QED BY <1>2, <1>3

LEMMA ReadLinkKeeps ==
  ASSUME ProfileInv, NEW c \in ProfileCalls, ReadLink(c)
  PROVE  ProfileInv'
<1>1. /\ asks[c].at = "link" /\ c \in InFlight /\ HeldWell(asks[c], tokens, space)
      /\ asks[c] \in Held /\ link \in Int /\ link <= tokens
  BY AtAStep DEF ReadLink
<1>2. PICK step \in {"byToken", "standard"} :
        step = IF link > 0 THEN "byToken" ELSE "standard"
  OBVIOUS
<1> DEFINE n == [asks[c] EXCEPT !.seen = link, !.at = step]
<1>3. /\ n \in Held /\ n.at = step /\ n.op = asks[c].op /\ n.seen = link
      /\ n.new = asks[c].new /\ n.alone = asks[c].alone
  BY <1>1 DEF Held, ProfileSteps
<1>4. asks' = [asks EXCEPT ![c] = n] /\ UNCHANGED <<profileRows, ready>>
  BY <1>2 DEF ReadLink
<1> HIDE DEF n
<1>5. HeldWell(n, tokens, space)
  BY <1>1, <1>3 DEF HeldWell
<1>6. \A t : ~HoldsStandard(n, t) /\ ~HoldsOther(n, t)
  BY <1>3 DEF HoldsStandard, HoldsOther, Resets
<1>7. LoneAsk(c) /\ space => Progress(n, link, profiles)
  <2>1. LoneAsk(c) /\ space => link >= 0
    BY <1>1 DEF ProfileInv, LoneGoesWell, Progress
  <2> QED BY <1>3, <2>1 DEF Progress
<1>8. n.at \notin {"free", "find", "dropped", "mark"}
  BY <1>3
<1> QED BY <1>1, <1>3, <1>4, <1>5, <1>6, <1>7, <1>8, MovesOnKeeps

(* The link is at a profile: a listing answers, the others complete the    *)
(* rest of the defaults.                                                   *)
LEMMA ProfileFoundKeeps ==
  ASSUME ProfileInv, NEW c \in InFlight, asks[c].at \in {"byToken", "setLink"}, ProfileFound(c),
         UNCHANGED <<space, profiles, version, graph, tokens>>,
         link' \in -1..tokens, \A t \in 1..tokens : t = link' => OfStandard(t),
         LoneAsk(c) /\ space => link' >= 0 /\ LinkedTo(profiles, link')
  PROVE  ProfileInv'
<1>1. /\ c \in ProfileCalls /\ HeldWell(asks[c], tokens, space) /\ asks[c] \in Held
      /\ tokens \in Nat /\ asks[c].alone \in BOOLEAN
  BY AtAStep DEF InFlight
<1>2. /\ space' = space /\ profiles' = profiles /\ version' = version /\ graph' = graph
      /\ tokens' = tokens
  OBVIOUS
<1>3. ready' \in [alone : BOOLEAN, torn : BOOLEAN]
  BY <1>1 DEF ProfileFound, Answered, ProfileInv, ProfileRowsOK
<1>4. ProfileRowsOK'
  BY <1>2, <1>3 DEF ProfileInv, ProfileRowsOK
<1>5. ASSUME NEW n, \A t : ~HoldsStandard(n, t) /\ ~HoldsOther(n, t)
      PROVE  TokensMoveWell(n)
  <2>1. \A t \in 1..tokens' : ~(t > tokens)
    BY <1>1, <1>2
  <2>2. \A t \in 1..tokens : /\ StandardAfter(n, t) => OfStandard(t)
                             /\ OtherAfter(n, t) => OfOther(t)
    BY <1>2, <1>5 DEF StandardAfter, OtherAfter, OfStandard, OfOther
  <2> QED BY <2>1, <2>2 DEF TokensMoveWell
<1>6. CASE asks[c].op = "list" /\ Answered(c)
  <2>1. LoneAsk(c) /\ space => graph \/ ready.torn \/ ~version
    BY <1>1, <1>6, LoneAndClearing DEF ProfileInv, VersionMeansIt
  <2>2. TokensMoveWell(Unasked)
    BY <1>5, UnaskedHoldsNothing
  <2>3. LoneAsk(c) /\ space =>
          LinkedTo(profiles', link') /\ (graph' \/ ready.torn \/ ~version')
    BY <1>2, <2>1
  <2>4. /\ graph' = graph
        /\ version' => version \/ asks[c].at = "mark"
        /\ asks[c].op # "clear"
    BY <1>2, <1>6
  <2> QED BY <1>2, <1>4, <1>6, <2>2, <2>3, <2>4, AnsweredKeeps
<1>7. CASE /\ asks' = [asks EXCEPT ![c].at = "others", ![c].seen = 0, ![c].new = 0]
           /\ UNCHANGED ready
  <2>1. PICK n \in Held :
          /\ n = Moved(asks[c], "others", 0, 0)
          /\ n.at = "others" /\ n.op = asks[c].op /\ n.id = asks[c].id /\ n.seen = 0
          /\ n.new = 0 /\ n.alone = asks[c].alone
    <3>1. "others" \in ProfileSteps
      BY DEF ProfileSteps
    <3>2. 0 \in Int /\ 0 \in Nat
      OBVIOUS
    <3> QED BY <1>1, <3>1, <3>2, HeldChanges
  <2>2. asks' = [asks EXCEPT ![c] = n]
    BY <1>7, <2>1 DEF Moved
  <2>3. HeldWell(n, tokens', space')
    BY <1>1, <1>2, <2>1 DEF HeldWell
  <2>4. TokensMoveWell(n)
    BY <1>5, <2>1 DEF HoldsStandard, HoldsOther, Resets
  <2>5. LoneAsk(c) /\ space' => Progress(n, link', profiles')
    BY <1>2, <2>1 DEF Progress
  <2>6. /\ tokens <= tokens' /\ (space' => space) /\ n.at # "mark" /\ ready' = ready
        /\ n.at \notin {"free", "find", "dropped"} /\ (n.op = "clear" \/ asks[c].op # "clear")
    BY <1>1, <1>2, <1>7, <2>1
  <2> QED BY <1>2, <1>4, <2>1, <2>2, <2>3, <2>4, <2>5, <2>6, OnKeeps
<1> QED BY <1>6, <1>7 DEF ProfileFound

LEMMA ReadByTokenKeeps ==
  ASSUME ProfileInv, NEW c \in ProfileCalls, ReadByToken(c)
  PROVE  ProfileInv'
<1>1. /\ asks[c].at = "byToken" /\ c \in InFlight /\ HeldWell(asks[c], tokens, space)
      /\ asks[c] \in Held
  BY AtAStep DEF ReadByToken
<1>2. /\ UNCHANGED profileRows /\ tokens \in Nat
  BY <1>1, AtAStep DEF ReadByToken
<1>3. LoneAsk(c) /\ space => link >= 0 /\ asks[c].seen = link
  BY <1>1 DEF ProfileInv, LoneGoesWell, Progress
<1>4. CASE (\E id \in DOMAIN profiles : profiles[id].token = asks[c].seen) /\ ProfileFound(c)
  <2>1. PICK id \in DOMAIN profiles : profiles[id].token = asks[c].seen
    BY <1>4
  <2>2. LoneAsk(c) /\ space => LinkedTo(profiles, link)
    BY <1>3, <2>1, ServedByLink DEF LinkedTo
  <2>3. UNCHANGED <<space, profiles, version, graph, tokens>> /\ link' = link
    BY <1>2 DEF profileRows
  <2>4. link' \in -1..tokens /\ \A t \in 1..tokens : t = link' => OfStandard(t)
    BY <2>3 DEF ProfileInv, ProfileRowsOK, OfStandard
  <2>5. LoneAsk(c) /\ space => link' >= 0 /\ LinkedTo(profiles, link')
    BY <1>3, <2>2, <2>3
  <2> QED BY <1>1, <1>4, <2>3, <2>4, <2>5, ProfileFoundKeeps
<1>5. CASE asks' = [asks EXCEPT ![c].at = "standard", ![c].seen = 0] /\ UNCHANGED ready
  <2> PICK new \in Nat : new = asks[c].new
    BY <1>1 DEF Held
  <2>1. PICK n \in Held :
          /\ n = Moved(asks[c], "standard", 0, new)
          /\ n.at = "standard" /\ n.op = asks[c].op /\ n.id = asks[c].id /\ n.seen = 0
          /\ n.new = new /\ n.alone = asks[c].alone
    <3>1. "standard" \in ProfileSteps
      BY DEF ProfileSteps
    <3>2. 0 \in Int
      OBVIOUS
    <3> QED BY <1>1, <3>1, <3>2, HeldChanges
  <2>2. asks' = [asks EXCEPT ![c] = n]
    <3>1. n = [asks[c] EXCEPT !.at = "standard", !.seen = 0]
      BY <1>1, <2>1 DEF Held, Moved
    <3> QED BY <1>5, <3>1
  <2>3. HeldWell(n, tokens, space)
    BY <1>1, <1>2, <2>1 DEF HeldWell
  <2>4. \A t : ~HoldsStandard(n, t) /\ ~HoldsOther(n, t)
    BY <2>1 DEF HoldsStandard, HoldsOther, Resets
  <2>5. LoneAsk(c) /\ space => Progress(n, link, profiles)
    BY <1>3, <2>1 DEF Progress
  <2>6. n.at \notin {"free", "find", "dropped", "mark"}
    BY <2>1
  <2> QED BY <1>1, <1>2, <1>5, <2>1, <2>2, <2>3, <2>4, <2>5, <2>6, MovesOnKeeps
<1> QED BY <1>4, <1>5 DEF ReadByToken

LEMMA ReadStandardKeeps ==
  ASSUME ProfileInv, NEW c \in ProfileCalls, ReadStandard(c)
  PROVE  ProfileInv'
<1>1. /\ asks[c].at = "standard" /\ c \in InFlight /\ HeldWell(asks[c], tokens, space)
      /\ asks[c] \in Held
  BY AtAStep DEF ReadStandard
<1>2. /\ UNCHANGED <<profileRows, ready>> /\ tokens \in Nat
  BY <1>1, AtAStep DEF ReadStandard
<1>3. LoneAsk(c) /\ space => link >= 0
  BY <1>1 DEF ProfileInv, LoneGoesWell, Progress
<1>4. CASE Standard \in DOMAIN profiles
  <2>1. PICK token \in Nat : token = profiles[Standard].token /\ token <= tokens
    BY <1>4 DEF ProfileInv, ProfileRowsOK, Profile
  <2>2. PICK n \in Held :
          /\ n = Moved(asks[c], "setLink", 0, token)
          /\ n.at = "setLink" /\ n.op = asks[c].op /\ n.id = asks[c].id /\ n.seen = 0
          /\ n.new = token /\ n.alone = asks[c].alone
    <3>1. "setLink" \in ProfileSteps
      BY DEF ProfileSteps
    <3>2. 0 \in Int
      OBVIOUS
    <3> QED BY <1>1, <2>1, <3>1, <3>2, HeldChanges
  <2>3. asks' = [asks EXCEPT ![c] = n]
    <3>1. asks' = [asks EXCEPT ![c].new = token, ![c].seen = 0, ![c].at = "setLink"]
      BY <1>4, <2>1 DEF ReadStandard
    <3>2. n = [asks[c] EXCEPT !.new = token, !.seen = 0, !.at = "setLink"]
      BY <1>1, <2>2 DEF Held, Moved
    <3> QED BY <3>1, <3>2
  <2>4. HeldWell(n, tokens, space)
    BY <1>1, <1>2, <2>1, <2>2 DEF HeldWell
  <2>5. \A t \in 1..tokens : /\ HoldsStandard(n, t) => OfStandard(t)
                             /\ HoldsOther(n, t) => OfOther(t)
    BY <1>4, <2>1, <2>2 DEF HoldsStandard, HoldsOther, Resets, OfStandard, StandardRow
  <2>6. LoneAsk(c) /\ space => Progress(n, link, profiles)
    BY <1>3, <1>4, <2>1, <2>2 DEF Progress, LinkedTo
  <2>7. n.at \notin {"free", "find", "dropped", "mark"}
    BY <2>2
  <2> QED BY <1>1, <1>2, <2>2, <2>3, <2>4, <2>5, <2>6, <2>7, MovesOnKeeps
<1>5. CASE Standard \notin DOMAIN profiles
  <2>1. PICK n \in Held :
          /\ asks' = [asks EXCEPT ![c] = n]
          /\ n.at = "insertStandard" /\ n.op = asks[c].op /\ n.id = asks[c].id
          /\ n.seen = asks[c].seen /\ n.new = asks[c].new /\ n.alone = asks[c].alone
    BY <1>1, <1>5, GoingTo DEF ProfileSteps, ReadStandard
  <2>2. HeldWell(n, tokens, space)
    BY <1>1, <2>1 DEF HeldWell
  <2>3. \A t : ~HoldsStandard(n, t) /\ ~HoldsOther(n, t)
    BY <2>1 DEF HoldsStandard, HoldsOther, Resets
  <2>4. LoneAsk(c) /\ space => Progress(n, link, profiles)
    BY <1>3, <2>1 DEF Progress
  <2>5. n.at \notin {"free", "find", "dropped", "mark"}
    BY <2>1
  <2> QED BY <1>1, <1>2, <2>1, <2>2, <2>3, <2>4, <2>5, MovesOnKeeps
<1> QED BY <1>4, <1>5

LEMMA InsertStandardKeeps ==
  ASSUME ProfileInv, NEW c \in ProfileCalls, InsertStandard(c)
  PROVE  ProfileInv'
<1>1. /\ asks[c].at = "insertStandard" /\ c \in InFlight /\ HeldWell(asks[c], tokens, space)
      /\ asks[c] \in Held /\ link \in Int /\ link <= tokens
  BY AtAStep DEF InsertStandard
<1>2. CASE Fails(c)
  BY <1>1, <1>2, FailsKeeps
<1>3. CASE ~Fails(c)
  <2>1. /\ Standard \notin DOMAIN profiles /\ tokens < MaxTokens /\ tokens' = tokens + 1
        /\ space' = space /\ link' = link /\ version' = version /\ graph' = graph
        /\ ready' = ready
        /\ asks' = [asks EXCEPT ![c].new = tokens + 1, ![c].at = "setLink"]
        /\ profiles' = [id \in DOMAIN profiles \cup {Standard} |->
              IF id = Standard THEN [token |-> tokens + 1, enabled |-> TRUE] ELSE profiles[id]]
    BY <1>3 DEF InsertStandard, OwnRow
  <2>2. PICK ids : ids = DOMAIN profiles \cup {Standard}
    OBVIOUS
  <2>3. /\ DOMAIN profiles' = ids /\ profiles' = [id \in ids |-> profiles'[id]]
        /\ profiles'[Standard] = [token |-> tokens + 1, enabled |-> TRUE]
        /\ \A id \in ids \ {Standard} : profiles'[id] = profiles[id]
    BY <2>1, <2>2
  <2>4. ProfileRowsOK' /\ tokens \in Nat
    <3>1. /\ tokens < MaxTokens /\ tokens' = tokens + 1
          /\ space' = space /\ link' = link /\ version' = version /\ graph' = graph
          /\ ready' = ready
      BY <2>1
    <3>2. /\ ids \subseteq Profiles /\ ids \subseteq DOMAIN profiles \cup {Standard}
          /\ Standard \in Profiles
      BY <2>2, DefaultProfileAssumption DEF ProfileInv, ProfileRowsOK
    <3> QED BY <2>3, <3>1, <3>2, TokenGoesIn DEF ProfileInv
  <2>5. PICK new \in Nat : new = tokens + 1
    BY <2>4
  <2> DEFINE n == [asks[c] EXCEPT !.new = new, !.at = "setLink"]
  <2>6. /\ n \in Held /\ n.at = "setLink" /\ n.op = asks[c].op /\ n.seen = asks[c].seen
        /\ n.new = new /\ n.alone = asks[c].alone
    BY <1>1 DEF Held, ProfileSteps
  <2>7. asks' = [asks EXCEPT ![c] = n]
    BY <2>1, <2>5
  <2> HIDE DEF n
  <2>8. HeldWell(n, tokens', space')
    BY <1>1, <2>1, <2>4, <2>5, <2>6 DEF HeldWell, Held
  <2>9. profiles'[Standard].token = new
    BY <2>3, <2>5
  <2>10. \A t : OtherAfter(n, t) <=> OtherRow(profiles, t)
    BY <2>2, <2>3, <2>6 DEF OtherAfter, OtherRow, HoldsOther, Resets
  <2>11. TokensMoveWell(n)
    <3>1. \A t \in 1..tokens : StandardAfter(n, t) => OfStandard(t)
      BY <2>1, <2>4, <2>5, <2>6, <2>9
      DEF StandardAfter, StandardRow, HoldsStandard, Resets, OfStandard
    <3>2. \A t \in 1..tokens : OtherAfter(n, t) => OfOther(t)
      BY <2>10 DEF OfOther
    <3>3. \A t \in 1..tokens' : t > tokens => ~OtherRow(profiles, t)
      BY <2>4 DEF OtherRow, ProfileInv, ProfileRowsOK, Profile
    <3> QED BY <2>10, <3>1, <3>2, <3>3 DEF TokensMoveWell
  <2>12. LoneAsk(c) /\ space' => Progress(n, link', profiles')
    <3>1. LoneAsk(c) /\ space => link >= 0
      BY <1>1 DEF ProfileInv, LoneGoesWell, Progress
    <3>2. LinkedTo(profiles', n.new)
      BY <2>2, <2>3, <2>6, <2>9 DEF LinkedTo
    <3> QED BY <2>1, <2>6, <3>1, <3>2 DEF Progress
  <2>13. /\ tokens <= tokens' /\ (space' => space) /\ n.at # "mark"
         /\ n.at \notin {"free", "find", "dropped"} /\ (n.op = "clear" \/ asks[c].op # "clear")
    BY <2>1, <2>4, <2>6
  <2> QED BY <1>1, <2>1, <2>4, <2>6, <2>7, <2>8, <2>11, <2>12, <2>13, OnKeeps
<1> QED BY <1>2, <1>3

LEMMA SetLinkKeeps ==
  ASSUME ProfileInv, NEW c \in ProfileCalls, SetLink(c)
  PROVE  ProfileInv'
<1>1. /\ asks[c].at = "setLink" /\ c \in InFlight /\ HeldWell(asks[c], tokens, space)
      /\ asks[c].new \in Nat /\ tokens \in Nat
  BY AtAStep DEF SetLink
<1>2. /\ link' = (IF link = -1 THEN -1 ELSE asks[c].new) /\ ProfileFound(c)
      /\ UNCHANGED <<space, profiles, version, graph, tokens>>
  BY DEF SetLink
<1>3. link' \in -1..tokens
  BY <1>1, <1>2 DEF HeldWell
<1>4. \A t \in 1..tokens : t = link' => OfStandard(t)
  BY <1>1, <1>2 DEF OfStandard, HoldsStandard
<1>5. LoneAsk(c) /\ space => link' >= 0 /\ LinkedTo(profiles, link')
  <2>1. LoneAsk(c) /\ space => link >= 0 /\ LinkedTo(profiles, asks[c].new)
    BY <1>1 DEF ProfileInv, LoneGoesWell, Progress
  <2> QED BY <1>1, <1>2, <2>1
<1> QED BY <1>1, <1>2, <1>3, <1>4, <1>5, ProfileFoundKeeps

LEMMA EnsureOthersKeeps ==
  ASSUME ProfileInv, NEW c \in ProfileCalls, EnsureOthers(c)
  PROVE  ProfileInv'
<1>1. /\ asks[c].at = "others" /\ c \in InFlight /\ HeldWell(asks[c], tokens, space)
      /\ asks[c].alone \in BOOLEAN /\ tokens \in Nat
  BY AtAStep DEF EnsureOthers
<1>2. CASE Fails(c)
  BY <1>1, <1>2, FailsKeeps
<1>3. CASE ~Fails(c)
  <2>1. /\ graph' = TRUE /\ space' = space /\ link' = link /\ profiles' = profiles
        /\ version' = version /\ tokens' = tokens
    BY <1>3 DEF EnsureOthers, OwnRow
  <2>2. IF asks[c].op = "initialize" THEN GoTo(c, "mark") /\ UNCHANGED ready ELSE Answered(c)
    BY <1>3 DEF EnsureOthers, OwnRow
  <2>3. LoneAsk(c) /\ space => link >= 0 /\ LinkedTo(profiles, link)
    BY <1>1 DEF ProfileInv, LoneGoesWell, Progress
  <2>4. ready' \in [alone : BOOLEAN, torn : BOOLEAN]
    BY <1>1, <2>2 DEF Answered, ProfileInv, ProfileRowsOK
  <2>5. ProfileRowsOK'
    BY <2>1, <2>4 DEF ProfileInv, ProfileRowsOK
  <2>6. ASSUME NEW n, \A t : ~HoldsStandard(n, t) /\ ~HoldsOther(n, t)
        PROVE  TokensMoveWell(n)
    <3>1. \A t \in 1..tokens' : ~(t > tokens)
      BY <1>1, <2>1
    <3> QED BY <2>1, <2>6, <3>1 DEF TokensMoveWell, StandardAfter, OtherAfter, OfStandard, OfOther
  <2>7. CASE asks[c].op = "initialize"
    <3>1. PICK n \in Held :
            /\ asks' = [asks EXCEPT ![c] = n]
            /\ n.at = "mark" /\ n.op = asks[c].op /\ n.id = asks[c].id
            /\ n.seen = asks[c].seen /\ n.new = asks[c].new /\ n.alone = asks[c].alone
      BY <1>1, <2>2, <2>7, GoingTo DEF ProfileSteps
    <3>2. HeldWell(n, tokens', space')
      BY <1>1, <2>1, <2>7, <3>1 DEF HeldWell
    <3>3. TokensMoveWell(n)
      BY <2>6, <3>1 DEF HoldsStandard, HoldsOther, Resets
    <3>4. LoneAsk(c) /\ space' => Progress(n, link', profiles')
      BY <2>1, <2>3, <3>1 DEF Progress
    <3>5. /\ tokens <= tokens' /\ (space' => space) /\ ready' = ready
          /\ n.at \notin {"free", "find", "dropped"}
      BY <1>1, <2>1, <2>2, <2>7, <3>1
    <3> QED BY <1>1, <2>1, <2>5, <3>1, <3>2, <3>3, <3>4, <3>5, OnKeeps
  <2>8. CASE asks[c].op # "initialize"
    <3>1. LoneAsk(c) /\ space =>
            LinkedTo(profiles', link') /\ (graph' \/ ready.torn \/ ~version')
      BY <2>1, <2>3
    <3>2. TokensMoveWell(Unasked)
      BY <2>6, UnaskedHoldsNothing
    <3> QED BY <1>1, <2>1, <2>2, <2>5, <2>8, <3>1, <3>2, AnsweredKeeps
  <2> QED BY <2>7, <2>8
<1> QED BY <1>2, <1>3

LEMMA MarkVersionKeeps ==
  ASSUME ProfileInv, NEW c \in ProfileCalls, MarkVersion(c)
  PROVE  ProfileInv'
<1>1. /\ asks[c].at = "mark" /\ c \in InFlight /\ HeldWell(asks[c], tokens, space)
      /\ asks[c].alone \in BOOLEAN /\ tokens \in Nat
  BY AtAStep DEF MarkVersion
<1>2. /\ version' \in BOOLEAN /\ (version' <=> asks[c].op # "drop") /\ Answered(c)
      /\ space' = space /\ link' = link /\ profiles' = profiles /\ graph' = graph
      /\ tokens' = tokens
  BY DEF MarkVersion
<1>3. ready' \in [alone : BOOLEAN, torn : BOOLEAN]
  BY <1>1, <1>2 DEF Answered, ProfileInv, ProfileRowsOK
<1>4. ProfileRowsOK'
  BY <1>2, <1>3 DEF ProfileInv, ProfileRowsOK
<1>5. TokensMoveWell(Unasked)
  <2>1. \A t \in 1..tokens' : ~(t > tokens)
    BY <1>1, <1>2
  <2> QED BY <1>2, <2>1, UnaskedHoldsNothing
          DEF TokensMoveWell, StandardAfter, OtherAfter, OfStandard, OfOther
<1>6. asks[c].op # "clear" /\ (space => asks[c].op = "initialize")
  BY <1>1 DEF HeldWell
<1>7. LoneAsk(c) /\ space => LinkedTo(profiles, link) /\ (graph \/ ready.torn)
  <2>1. SUFFICES ASSUME LoneAsk(c), space PROVE LinkedTo(profiles, link) /\ (graph \/ ready.torn)
    OBVIOUS
  <2>2. LinkedTo(profiles, link)
    BY <1>1, <2>1 DEF ProfileInv, LoneGoesWell, Progress
  <2>3. Marking /\ ~Clearing
    BY <1>1, <1>6, <2>1, LoneAndClearing DEF Marking
  <2> QED BY <2>1, <2>2, <2>3 DEF ProfileInv, VersionMeansIt
<1>8. LoneAsk(c) /\ space =>
        LinkedTo(profiles', link') /\ (graph' \/ ready.torn \/ ~version')
  BY <1>2, <1>7
<1>9. /\ graph' = graph
      /\ version' => version \/ asks[c].at = "mark"
      /\ asks[c].op # "clear"
  BY <1>1, <1>2, <1>6
<1> QED BY <1>1, <1>2, <1>4, <1>5, <1>8, <1>9, AnsweredKeeps

LEMMA ArriveKeeps ==
  ASSUME ProfileInv, NEW c \in ProfileCalls, NEW op \in Ops, NEW id \in Profiles,
         op = "create" => id # Standard, ArriveForProfile(c, op, id)
  PROVE  ProfileInv'
<1> DEFINE came == [Unasked EXCEPT !.at = FirstStep(op), !.op = op, !.id = id,
                                   !.alone = (InFlight = {})]
           other(d) == [asks[d] EXCEPT !.alone = FALSE]
<1>1. /\ c \notin InFlight /\ UNCHANGED <<profileRows, ready>>
      /\ asks' = [d \in ProfileCalls |-> IF d = c THEN came ELSE other(d)]
  BY DEF ArriveForProfile
<1>2. FirstStep(op) \in {"version", "settings", "insert", "find", "wipe", "dropped"}
  BY DEF FirstStep, Ops
<1>3. /\ came \in Held /\ came.at = FirstStep(op) /\ came.op = op /\ came.id = id
      /\ came.seen = 0 /\ came.new = 0 /\ came.alone = (InFlight = {})
  <2>1. (InFlight = {}) \in BOOLEAN /\ FirstStep(op) \in ProfileSteps
    BY <1>2 DEF ProfileSteps
  <2> QED BY <2>1, UnaskedIsHeld DEF Held
<1>4. \A d \in ProfileCalls :
        /\ other(d) \in Held /\ other(d).at = asks[d].at /\ other(d).op = asks[d].op
        /\ other(d).id = asks[d].id /\ other(d).seen = asks[d].seen
        /\ other(d).new = asks[d].new /\ ~other(d).alone
  <2>1. \A d \in ProfileCalls : asks[d] \in Held
    BY DEF ProfileInv, ProfileAsksOK
  <2> QED BY <2>1 DEF Held
<1> HIDE DEF came, other
<1>5. /\ asks' \in [ProfileCalls -> Held] /\ asks'[c] = came
      /\ \A d \in ProfileCalls \ {c} : asks'[d] = other(d)
  BY <1>1, <1>3, <1>4
<1>6. /\ tokens' = tokens /\ space' = space /\ link' = link /\ profiles' = profiles
      /\ graph' = graph /\ version' = version /\ ready' = ready /\ tokens \in Nat
  BY <1>1 DEF profileRows, ProfileInv, ProfileRowsOK
<1>7. ProfileRowsOK'
  BY <1>6 DEF ProfileInv, ProfileRowsOK
<1>8. ProfileAsksOK'
  <2>1. HeldWell(came, tokens, space)
    <3>1. /\ FirstStep(op) = "version" => op = "initialize"
          /\ FirstStep(op) = "insert" => op = "create"
          /\ FirstStep(op) = "find" => op \in {"toggle", "delete", "reset"}
          /\ FirstStep(op) = "wipe" => op = "clear"
          /\ FirstStep(op) = "dropped" => op = "drop"
      BY DEF FirstStep, Ops
    <3> QED BY <1>2, <1>3, <1>6, <3>1 DEF HeldWell
  <2>2. \A d \in ProfileCalls \ {c} : HeldWell(other(d), tokens, space)
    BY <1>4 DEF ProfileInv, ProfileAsksOK, HeldWell
  <2> QED BY <1>5, <1>6, <2>1, <2>2 DEF ProfileAsksOK
<1>9. Apart'
  <2>1. \A t : ~HoldsStandard(came, t) /\ ~HoldsOther(came, t)
    BY <1>2, <1>3 DEF HoldsStandard, HoldsOther, Resets
  <2>2. \A d \in ProfileCalls : \A t :
          /\ HoldsStandard(other(d), t) => HoldsStandard(asks[d], t)
          /\ HoldsOther(other(d), t) => HoldsOther(asks[d], t)
    BY <1>4 DEF HoldsStandard, HoldsOther, Resets
  <2>3. ASSUME NEW t, OfStandard(t)' PROVE OfStandard(t)
    BY <1>5, <1>6, <2>1, <2>2, <2>3 DEF OfStandard
  <2>4. ASSUME NEW t, OfOther(t)' PROVE OfOther(t)
    BY <1>5, <1>6, <2>1, <2>2, <2>4 DEF OfOther
  <2> QED BY <1>6, <2>3, <2>4 DEF ProfileInv, Apart
<1>10. \A d \in ProfileCalls : LoneAsk(d)' => d = c /\ InFlight = {}
  BY <1>3, <1>4, <1>5 DEF LoneAsk
<1>11. LoneProfileAsk'
  <2>1. SUFFICES ASSUME NEW d \in ProfileCalls, LoneAsk(d)' PROVE InFlight' = {d}
    BY DEF LoneProfileAsk
  <2>2. d = c /\ InFlight = {} /\ c \in InFlight'
    BY <1>10, <2>1 DEF LoneAsk
  <2>3. \A e \in ProfileCalls \ {c} : asks'[e].at = "free"
    BY <1>4, <1>5, <2>2 DEF InFlight
  <2> QED BY <2>2, <2>3 DEF InFlight
<1>12. LoneGoesWell'
  <2>1. Progress(asks'[c], link', profiles')
    BY <1>2, <1>3, <1>5 DEF Progress
  <2> QED BY <1>10, <2>1 DEF LoneGoesWell
<1>13. VersionMeansIt'
  <2>1. Marking' => Marking
    BY <1>2, <1>3, <1>4, <1>5 DEF Marking
  <2>2. asks[c].op = "free"
    BY <1>1 DEF ProfileInv, ProfileAsksOK, HeldWell, InFlight
  <2>3. Clearing => Clearing'
    BY <1>4, <1>5, <2>2 DEF Clearing
  <2>4. SUFFICES ASSUME space, version \/ Marking PROVE graph \/ ready.torn \/ Clearing'
    BY <1>6, <2>1 DEF VersionMeansIt
  <2> QED BY <2>3, <2>4 DEF ProfileInv, VersionMeansIt
<1>14. Settled'
  <2>1. SUFFICES ASSUME ready.alone, space, \A d \in InFlight' : asks'[d].at \in Unwritten
                 PROVE  Good
    BY <1>6 DEF Settled, Good
  <2>2. \A d \in InFlight : asks[d].at \in Unwritten
    <3>1. SUFFICES ASSUME NEW d \in InFlight PROVE asks[d].at \in Unwritten
      OBVIOUS
    <3>2. d \in ProfileCalls \ {c} /\ asks'[d].at = asks[d].at
      BY <1>1, <1>4, <1>5 DEF InFlight
    <3>3. d \in InFlight'
      BY <3>2 DEF InFlight
    <3> QED BY <2>1, <3>2, <3>3
  <2> QED BY <2>1, <2>2 DEF ProfileInv, Settled
<1> QED BY <1>7, <1>8, <1>9, <1>11, <1>12, <1>13, <1>14 DEF ProfileInv

LEMMA ProfileArrivalsKeep ==
  ASSUME ProfileInv, NEW c \in ProfileCalls, ProfileArrivals(c)
  PROVE  ProfileInv'
<1>1. DOMAIN profiles \subseteq Profiles /\ Standard \in Profiles
  BY DefaultProfileAssumption DEF ProfileInv, ProfileRowsOK
<1>2. CASE \E op \in {"initialize", "list", "clear"} : ArriveForProfile(c, op, Standard)
  BY <1>1, <1>2, ArriveKeeps DEF Ops
<1>3. CASE ArriveForProfile(c, "drop", Standard)
  BY <1>1, <1>3, ArriveKeeps DEF Ops
<1>4. CASE \E id \in Profiles \ {Standard} : ArriveForProfile(c, "create", id)
  BY <1>4, ArriveKeeps DEF Ops
<1>5. CASE \E op \in {"toggle", "delete", "reset"}, id \in DOMAIN profiles :
             ArriveForProfile(c, op, id)
  BY <1>1, <1>5, ArriveKeeps DEF Ops
<1> QED BY <1>2, <1>3, <1>4, <1>5 DEF ProfileArrivals

LEMMA ProfilesStartWell == ProfileInit => ProfileInv
<1> SUFFICES ASSUME ProfileInit PROVE ProfileInv
  OBVIOUS
<1>1. /\ space = TRUE /\ link = -1 /\ DOMAIN profiles = {} /\ version = FALSE /\ graph = FALSE
      /\ tokens = 0 /\ ready = [alone |-> FALSE, torn |-> FALSE]
      /\ asks = [c \in ProfileCalls |-> Unasked]
  BY DEF ProfileInit
<1>2. profiles \in [DOMAIN profiles -> Profile]
  BY DEF ProfileInit
<1>3. ProfileRowsOK
  <2>1. tokens \in 0..MaxTokens /\ link \in -1..tokens
    BY <1>1, DefaultProfileAssumption
  <2>2. space \in BOOLEAN /\ version \in BOOLEAN /\ graph \in BOOLEAN
    BY <1>1
  <2>3. ready \in [alone : BOOLEAN, torn : BOOLEAN]
    BY <1>1
  <2> QED BY <1>1, <1>2, <2>1, <2>2, <2>3 DEF ProfileRowsOK
<1>4. ProfileAsksOK /\ \A c \in ProfileCalls : asks[c] = Unasked
  BY <1>1, UnaskedIsHeld, UnaskedHoldsNothing DEF ProfileAsksOK
<1>5. Apart
  BY <1>1 DEF Apart
<1>6. InFlight = {}
  BY <1>4, UnaskedIsHeld DEF InFlight
<1>7. LoneProfileAsk /\ LoneGoesWell
  BY <1>6 DEF LoneProfileAsk, LoneGoesWell, LoneAsk
<1>8. VersionMeansIt
  BY <1>1, <1>4, UnaskedIsHeld DEF VersionMeansIt, Marking
<1>9. Settled
  BY <1>1 DEF Settled
<1> QED BY <1>3, <1>4, <1>5, <1>7, <1>8, <1>9 DEF ProfileInv

LEMMA ProfileStepsKeep == ProfileInv /\ [ProfileNext]_profileVars => ProfileInv'
<1> SUFFICES ASSUME ProfileInv, [ProfileNext]_profileVars PROVE ProfileInv'
  OBVIOUS
<1>1. CASE UNCHANGED profileVars
  <2>1. UNCHANGED <<space, link, profiles, version, graph, tokens, asks, ready>>
    BY <1>1 DEF profileVars
  <2>2. InFlight' = InFlight
    BY <2>1 DEF InFlight
  <2>3. ProfileRowsOK' /\ ProfileAsksOK' /\ LoneProfileAsk' /\ LoneGoesWell'
    BY <2>1, <2>2 DEF ProfileInv, ProfileRowsOK, ProfileAsksOK, LoneProfileAsk, LoneGoesWell, LoneAsk
  <2>4. Apart'
    BY <2>1 DEF ProfileInv, Apart, OfStandard, OfOther
  <2>5. VersionMeansIt' /\ Settled'
    BY <2>1, <2>2 DEF ProfileInv, VersionMeansIt, Marking, Clearing, Settled, Good
  <2> QED BY <2>3, <2>4, <2>5 DEF ProfileInv
<1>2. CASE ProfileNext
  <2>1. PICK c \in ProfileCalls :
          \/ ProfileArrivals(c) \/ CutOffProfile(c)
          \/ ReadVersion(c) \/ ReadInitialized(c)
          \/ InsertProfile(c) \/ FindRow(c) \/ ToggleProfile(c) \/ DeleteProfile(c)
          \/ ResetToken(c) \/ FollowReset(c) \/ WipeData(c) \/ DropSpace(c)
          \/ InsertSettings(c) \/ ReadLink(c) \/ ReadByToken(c) \/ ReadStandard(c)
          \/ InsertStandard(c) \/ SetLink(c) \/ EnsureOthers(c) \/ MarkVersion(c)
    BY <1>2 DEF ProfileNext
  <2>2. CASE CutOffProfile(c)
    BY <2>2, FailsKeeps DEF CutOffProfile
  <2> QED BY <2>1, <2>2, ProfileArrivalsKeep, ReadVersionKeeps, ReadInitializedKeeps, InsertProfileKeeps,
             FindRowKeeps, ToggleProfileKeeps, DeleteProfileKeeps, ResetTokenKeeps,
             FollowResetKeeps, WipeDataKeeps, DropSpaceKeeps, InsertSettingsKeeps, ReadLinkKeeps,
             ReadByTokenKeeps, ReadStandardKeeps, InsertStandardKeeps, SetLinkKeeps,
             EnsureOthersKeeps, MarkVersionKeeps
<1> QED BY <1>1, <1>2

LEMMA ProfilesStayWell == ProfileSpec => []ProfileInv
  BY ProfilesStartWell, ProfileStepsKeep, PTL DEF ProfileSpec

-----------------------------------------------------------------------------
(* The rows and the requests have their types; the link is never a token   *)
(* that was not handed out.                                                *)
THEOREM ProfileTypesHold == ProfileSpec => []ProfileTypes
<1>1. ProfileInv => ProfileTypes
  <2> SUFFICES ASSUME ProfileInv PROVE ProfileTypes
    OBVIOUS
  <2>1. \A c \in ProfileCalls : asks[c] \in Held
    BY DEF ProfileInv, ProfileAsksOK
  <2>2. \A c \in ProfileCalls :
          asks[c].at \in ProfileSteps /\ asks[c].op \in Ops \cup {"free", "ensure"}
    BY <2>1 DEF Held
  <2> QED BY <2>2 DEF ProfileInv, ProfileRowsOK, ProfileTypes
<1> QED BY <1>1, ProfilesStayWell, PTL

(* However requests overlapped before, and wherever they were cut off: one *)
(* more that runs alone and is answered leaves the link at the default     *)
(* profile, and the other defaults complete.                               *)
THEOREM ReadyWhenAloneHolds == ProfileSpec => []ReadyWhenAlone
<1>1. ProfileInv => ReadyWhenAlone
  BY DEF ProfileInv, Settled, ReadyWhenAlone, Good, LinkedTo
<1> QED BY <1>1, ProfilesStayWell, PTL

(* Wherever requests stand: a token of another profile never becomes the   *)
(* link, nor the other way round, so a reset moves the link only with the  *)
(* default profile.                                                        *)
THEOREM LinkIsNeverForeign ==
  ProfileSpec => [](\A id \in DOMAIN profiles \ {Standard} : profiles[id].token # link)
<1>1. ProfileInv => \A id \in DOMAIN profiles \ {Standard} : profiles[id].token # link
  BY ServedByLink
<1> QED BY <1>1, ProfilesStayWell, PTL
=============================================================================
