------------------------------- MODULE RowLists ------------------------------
(* Lists of rows: sorting, filtering, dropping duplicates and flattening, as  *)
(* the array methods of the code do it.  Each list is given by the places its *)
(* elements come from and an order of these, without recursion, so that what  *)
(* a list holds can be proved.                                                *)
EXTENDS Naturals, Sequences, FiniteSets

(* The members of a finite set in a strict order of them. *)
Arranged(S, before) ==
  [i \in 1..Cardinality(S) |-> CHOOSE x \in S : Cardinality({y \in S : <<y, x>> \in before}) = i - 1]

(* The elements at some places of a list, in their order. *)
Placed(rows, places) ==
  LET order == Arranged(places, {p \in places \X places : p[1] < p[2]})
  IN  [i \in DOMAIN order |-> rows[order[i]]]

(* The elements for which a condition holds. *)
Where(rows, Holds(_)) == Placed(rows, {i \in DOMAIN rows : Holds(rows[i])})

(* The first element of each key. *)
FirstOfEach(rows, Key(_)) ==
  Placed(rows, {i \in DOMAIN rows : \A j \in 1..(i - 1) : Key(rows[j]) # Key(rows[i])})

(* The elements of each list in turn. *)
Joined(lists) ==
  LET places == UNION {{i} \X DOMAIN lists[i] : i \in DOMAIN lists}
      order == Arranged(places, {p \in places \X places :
                 p[1][1] < p[2][1] \/ (p[1][1] = p[2][1] /\ p[1][2] < p[2][2])})
  IN  [i \in DOMAIN order |-> lists[order[i][1]][order[i][2]]]
=============================================================================
