--------------------------- MODULE GroupReferences ---------------------------
(***************************************************************************)
(* What it means for policy groups to refer to each other soundly: the     *)
(* promise of validateGroupReferenceGraph, on which the routes for groups  *)
(* and the data import rely.  refs maps the id of each group to the        *)
(* sequence of groups it lists.                                            *)
(***************************************************************************)
EXTENDS Naturals, Sequences

Members(list) == {list[i] : i \in DOMAIN list}

Closed(refs) == \A id \in DOMAIN refs : Members(refs[id]) \subseteq DOMAIN refs

(* Every set of groups in S has one that refers to none of them, so no     *)
(* chain of references returns to where it started.                        *)
AcyclicOn(refs, S) ==
    \A C \in SUBSET S : C # {} => \E id \in C : Members(refs[id]) \cap C = {}

Acyclic(refs) == AcyclicOn(refs, DOMAIN refs)

(* A path along references that returns to its first group. *)
IsCycle(refs, path) ==
    /\ Len(path) > 1 /\ path[1] = path[Len(path)]
    /\ \A i \in 1..Len(path) : path[i] \in DOMAIN refs
    /\ \A i \in 1..(Len(path) - 1) : path[i + 1] \in Members(refs[path[i]])
=============================================================================
