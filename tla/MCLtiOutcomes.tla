----------------------------- MODULE MCLtiOutcomes -----------------------------
(* Instances of LtiOutcomes for TLC. *)
EXTENDS LtiOutcomes, TLC
CONSTANTS r1, r2, r3, p1, p2, unit, leaf, w1, w2

MCProblemOf == (r1 :> p1) @@ (r2 :> p2) @@ (r3 :> p1)
MCContains == (unit :> {p1, p2}) @@ (leaf :> {p1})

WorkerSymmetry == Permutations(Worker)
=============================================================================
