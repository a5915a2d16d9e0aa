----------------------------- MODULE TokenBucket -----------------------------
(***************************************************************************)
(* What the limiter promises a tenant and the API server: calls are paid   *)
(* for from a credit that grows with time and is never above a capacity.   *)
(* So in any n ticks at most Capacity[t] + n * Growth[t] is spent.         *)
(***************************************************************************)
EXTENDS Naturals

CONSTANTS Tenant, Call,
          Price,    \* of one call
          Growth,   \* of the credit of each tenant in one tick
          Capacity  \* what the credit of each tenant never exceeds

VARIABLES
  credit,  \* what each tenant may spend
  admitted \* calls of each tenant that are paid for and not over

Capped(t, n) == IF n < Capacity[t] THEN n ELSE Capacity[t]

Init == credit = Capacity /\ admitted = [t \in Tenant |-> {}]

Admit(t, c) ==
  /\ c \notin admitted[t]
  /\ \E n \in 0 .. credit[t] :
       n + Price =< credit[t] /\ credit' = [credit EXCEPT ![t] = n]
  /\ admitted' = [admitted EXCEPT ![t] = @ \cup {c}]

(* The limiter may be stricter than it must be. *)
Forfeit(t) ==
  /\ \E n \in 0 .. credit[t] : credit' = [credit EXCEPT ![t] = n]
  /\ UNCHANGED admitted

End(t, c) == /\ admitted' = [admitted EXCEPT ![t] = @ \ {c}]
             /\ UNCHANGED credit

Tick == /\ credit' = [t \in Tenant |-> Capped(t, credit[t] + Growth[t])]
        /\ UNCHANGED admitted

Next == \/ \E t \in Tenant : Forfeit(t)
        \/ \E t \in Tenant, c \in Call : Admit(t, c) \/ End(t, c)
        \/ Tick

Spec == Init /\ [][Next]_<<credit, admitted>>
=============================================================================
