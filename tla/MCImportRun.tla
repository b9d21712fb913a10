----------------------------- MODULE MCImportRun -----------------------------
(* Small instances of ImportRun: up to two imports that both name one rule *)
(* of the operator, and two or three requests in flight.                   *)
EXTENDS ImportRun, TLC

CONSTANTS r1, r2, g1, g2, g3

(* The first file sends every rule to g2, the others to g3. *)
WantsValue == [r \in Runs |-> [k \in Rules |-> IF r = r1 THEN g2 ELSE g3]]

Symmetry == Permutations(Requests)
=============================================================================
