------------------------- MODULE GroupReferenceGraph -------------------------
(***************************************************************************)
(* validateGroupReferenceGraph: the ids are registered, every reference    *)
(* must name a registered id, and a depth-first search that keeps its own  *)
(* stack looks for a cycle and reports the path around it.                 *)
(***************************************************************************)
EXTENDS GroupReferences

CONSTANTS
    Ids,     \* ids of policy groups
    Inputs   \* the lists of groups that may be handed over

GroupReferenceNode == [id : Ids, groupIds : Seq(Ids)]

ASSUME InputsAssumption == Inputs \subseteq Seq(GroupReferenceNode)

VARIABLES
    nodes,       \* the argument
    references,  \* the map of ids to the ids they list
    cursor,      \* the next node of the loop in progress
    state,       \* 0: not seen, 1: on the stack, 2: finished
    stack,       \* frames [id, nextChild], nextChild counted from 1
    phase,       \* "register", "targets", "search" or "done"
    verdict      \* "none", "valid", "duplicate", "missing" or the cycle found

vars == <<nodes, references, cursor, state, stack, phase, verdict>>

Frame == [id : Ids, nextChild : Nat \ {0}]

TypeOK ==
    /\ nodes \in Seq(GroupReferenceNode)
    /\ DOMAIN references \subseteq Ids
    /\ references \in [DOMAIN references -> Seq(Ids)]
    /\ cursor \in Nat \ {0}
    /\ state \in [Ids -> {0, 1, 2}]
    /\ stack \in Seq(Frame)
    /\ phase \in {"register", "targets", "search", "done"}
    /\ verdict \in [kind : {"none", "valid", "duplicate", "missing", "cycle"}, path : Seq(Ids)]

Verdict(kind) == [kind |-> kind, path |-> <<>>]

Begin(groups) ==
    /\ nodes = groups
    /\ references = [id \in {} |-> <<>>]
    /\ cursor = 1
    /\ state = [id \in Ids |-> 0]
    /\ stack = <<>>
    /\ phase = "register"
    /\ verdict = Verdict("none")

Init == \E groups \in Inputs : Begin(groups)

Return(result) ==
    /\ phase' = "done"
    /\ verdict' = result

-----------------------------------------------------------------------------
Register ==
    LET node == nodes[cursor] IN
    /\ phase = "register" /\ cursor <= Len(nodes)
    /\ IF node.id \in DOMAIN references
         THEN Return(Verdict("duplicate")) /\ UNCHANGED <<references, cursor>>
         ELSE /\ references' = [id \in DOMAIN references \cup {node.id} |->
                                   IF id = node.id THEN node.groupIds ELSE references[id]]
              /\ cursor' = cursor + 1
              /\ UNCHANGED <<phase, verdict>>
    /\ UNCHANGED <<nodes, state, stack>>

AllRegistered ==
    /\ phase = "register" /\ cursor > Len(nodes)
    /\ phase' = "targets"
    /\ UNCHANGED <<nodes, references, cursor, state, stack, verdict>>

CheckTargets ==
    /\ phase = "targets"
    /\ IF Closed(references)
         THEN phase' = "search" /\ cursor' = 1 /\ UNCHANGED verdict
         ELSE Return(Verdict("missing")) /\ UNCHANGED cursor
    /\ UNCHANGED <<nodes, references, state, stack>>

-----------------------------------------------------------------------------
FrameSlipZero(id) == [id |-> id, nextChild |-> 0]

FrameOf(id) == [id |-> id, nextChild |-> 1]

(* The search starts at every id that no earlier search finished. *)
Start ==
    LET id == nodes[cursor].id IN
    /\ phase = "search" /\ stack = <<>> /\ cursor <= Len(nodes)
    /\ cursor' = cursor + 1
    /\ IF state[id] = 2
         THEN UNCHANGED <<state, stack>>
         ELSE /\ stack' = <<FrameOf(id)>>
              /\ state' = [state EXCEPT ![id] = 1]
    /\ UNCHANGED <<nodes, references, phase, verdict>>

Accept ==
    /\ phase = "search" /\ stack = <<>> /\ cursor > Len(nodes)
    /\ Return(Verdict("valid"))
    /\ UNCHANGED <<nodes, references, cursor, state, stack>>

Top == stack[Len(stack)]
Children == references[Top.id]
Child == Children[Top.nextChild]
Searching == phase = "search" /\ stack # <<>>

Finish ==
    /\ Searching /\ Top.nextChild > Len(Children)
    /\ state' = [state EXCEPT ![Top.id] = 2]
    /\ stack' = SubSeq(stack, 1, Len(stack) - 1)
    /\ UNCHANGED <<nodes, references, cursor, phase, verdict>>

AdvancedSlipStays == stack

(* The child is taken off the list of the frame before it is looked at. *)
Advanced == [stack EXCEPT ![Len(stack)].nextChild = @ + 1]

Follow(childState) ==
    /\ Searching /\ Top.nextChild <= Len(Children)
    /\ state[Child] = childState

SkipFinished ==
    /\ Follow(2)
    /\ stack' = Advanced
    /\ UNCHANGED <<nodes, references, cursor, state, phase, verdict>>

DescendSlipFinishes ==
    /\ Follow(0)
    /\ stack' = Append(Advanced, FrameOf(Child))
    /\ state' = [state EXCEPT ![Child] = 2]
    /\ UNCHANGED <<nodes, references, cursor, phase, verdict>>

Descend ==
    /\ Follow(0)
    /\ stack' = Append(Advanced, FrameOf(Child))
    /\ state' = [state EXCEPT ![Child] = 1]
    /\ UNCHANGED <<nodes, references, cursor, phase, verdict>>

CycleFromSlipWhole(start) ==
    [i \in 1..(Len(stack) + 1) |-> IF i > Len(stack) THEN Child ELSE stack[i].id]

(* The stack from the first frame of the child on, and the child again. *)
CycleFrom(start) ==
    [i \in 1..(Len(stack) - start + 2) |->
        IF i = Len(stack) - start + 2 THEN Child ELSE stack[start + i - 1].id]

ReportCycle ==
    /\ Follow(1)
    /\ \E start \in 1..Len(stack) :
         /\ stack[start].id = Child
         /\ \A i \in 1..(start - 1) : stack[i].id # Child
         /\ Return([kind |-> "cycle", path |-> CycleFrom(start)])
    /\ stack' = Advanced
    /\ UNCHANGED <<nodes, references, cursor, state>>

Next ==
    \/ Register \/ AllRegistered \/ CheckTargets
    \/ Start \/ Accept \/ Finish \/ SkipFinished \/ Descend \/ ReportCycle

Spec == Init /\ [][Next]_vars
FairSpec == Spec /\ WF_vars(Next)

-----------------------------------------------------------------------------
(* A list of groups that is accepted has no id twice, refers only to its   *)
(* own groups, and has no cycle: what the routes and the renderers of the  *)
(* client configurations take for granted afterwards.                      *)
AcceptedIsSound ==
    verdict.kind = "valid" =>
        /\ DOMAIN references = {nodes[i].id : i \in DOMAIN nodes}
        /\ \A i, j \in DOMAIN nodes : nodes[i].id = nodes[j].id => i = j
        /\ \A i \in DOMAIN nodes : references[nodes[i].id] = nodes[i].groupIds
        /\ Closed(references)
        /\ Acyclic(references)

(* The path in the error is a cycle of the given references, and goes      *)
(* around once: "an actionable path".                                      *)
ReportedIsCycle ==
    verdict.kind = "cycle" =>
        /\ IsCycle(references, verdict.path)
        /\ \A i, j \in 1..(Len(verdict.path) - 1) : verdict.path[i] = verdict.path[j] => i = j

(* Every search ends, with a verdict. *)
Decides == <>(verdict.kind # "none")
=============================================================================
