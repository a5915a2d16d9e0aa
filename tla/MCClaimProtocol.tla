--------------------------- MODULE MCClaimProtocol ---------------------------
(* Small instances of ClaimProtocol for TLC. *)
EXTENDS ClaimRefinement, TLC

CONSTANTS c1, c2, c3, k1, t1, t2

(* c2 is the retry of c1; c3 is another tenant's call that happens to use  *)
(* the same key.                                                           *)
MCTenantOf == [c \in Call |-> IF c = c3 THEN t2 ELSE t1]
MCKeyOf    == [c \in Call |-> k1]

Symmetry == Permutations(Sandbox)
=============================================================================
