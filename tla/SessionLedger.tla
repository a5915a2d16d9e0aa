---------------------------- MODULE SessionLedger ----------------------------
(***************************************************************************)
(* What the platform promises about sandboxes and sessions: a sandbox is   *)
(* created as stock or for one call; it is granted to at most one call,    *)
(* out of stock only; when its session is over, or when stock is retired,  *)
(* it is spent and never serves again.                                     *)
(***************************************************************************)
CONSTANTS Sandbox, Call, NoCall

VARIABLES
  state,  \* state[s]: "absent", "stock", "held" or "spent"
  holder  \* holder[s]: the call s was granted to

vars == <<state, holder>>

Init ==
  /\ state  = [s \in Sandbox |-> "absent"]
  /\ holder = [s \in Sandbox |-> NoCall]

Move(s, from, to) == state[s] = from /\ state' = [state EXCEPT ![s] = to]
Give(s, c)        == holder' = [holder EXCEPT ![s] = c]

Stock(s)    == Move(s, "absent", "stock") /\ UNCHANGED holder
Open(s, c)  == Move(s, "absent", "held") /\ Give(s, c)
Grant(s, c) == Move(s, "stock", "held") /\ Give(s, c)
End(s)      == Move(s, "held", "spent") /\ UNCHANGED holder
Retire(s)   == Move(s, "stock", "spent") /\ UNCHANGED holder

Next ==
  \E s \in Sandbox :
    \/ Stock(s) \/ End(s) \/ Retire(s)
    \/ \E c \in Call : Open(s, c) \/ Grant(s, c)

Spec == Init /\ [][Next]_vars
=============================================================================
