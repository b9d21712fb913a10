----------------------------- MODULE ServedConfig ----------------------------
(* What a subscription link promises, whatever the export goes through to     *)
(* keep it: a file is made of rows (nodes, groups, rules, rule sets) that     *)
(* were switched on at some moment while the client waited for it, and it     *)
(* refers to nothing it does not itself offer; otherwise the client is        *)
(* refused and gets no file at all.                                           *)
CONSTANT Rows

VARIABLES on,      \* the rows that are switched on
          around,  \* the rows that were on at some moment since the client asked
          out      \* what the client has: [state, rows, refers, offers]

NoFile(state) == [state |-> state, rows |-> {}, refers |-> {}, offers |-> {}]

Init == on \in SUBSET Rows /\ around = {} /\ out = NoFile("idle")

Change ==
  /\ on' # on /\ on' \in SUBSET Rows
  /\ around' = IF out.state = "waiting" THEN around \cup on' ELSE around
  /\ UNCHANGED out

Ask ==
  /\ out.state # "waiting"
  /\ out' = NoFile("waiting") /\ around' = on /\ UNCHANGED on

Refuse == out.state = "waiting" /\ out' = NoFile("refused") /\ UNCHANGED <<on, around>>

Serve ==
  /\ out.state = "waiting" /\ out'.state = "served"
  /\ out'.rows \subseteq around
  /\ out'.refers \subseteq out'.offers
  /\ UNCHANGED <<on, around>>

Next == Change \/ Ask \/ Refuse \/ Serve
Spec == Init /\ [][Next]_<<on, around, out>>
=============================================================================
