----------------------------- MODULE MCAdmission -----------------------------
(* An instance of Admission for TLC: a token is worth two seconds, a burst *)
(* one call; there is room for the bucket of one tenant.                   *)
EXTENDS Admission, TLC

CONSTANTS t1, t2

MCQuotas == t1 :> [max |-> 1, rate |-> 1, burst |-> 2]
            @@ t2 :> [max |-> 0, rate |-> 3, burst |-> 1]

Symmetry == Permutations(Call)
=============================================================================
