--------------------------- MODULE ClaimRefinement ---------------------------
(***************************************************************************)
(* ClaimProtocol keeps the promises of SessionLedger.                      *)
(***************************************************************************)
EXTENDS ClaimProtocol

(* On its way out, or released by the call it was granted to. *)
Spent(o) ==
  \/ o.deleting \/ o.gone \/ o.phase \in Reclaimed
  \/ o.owner # NoCall /\ o.claim = NoCall

LedgerState(s) ==
  CASE ~Created(s)               -> "absent"
    [] Created(s) /\ Spent(Latest(s)) -> "spent"
    [] OTHER -> IF Latest(s).claim = NoCall THEN "stock" ELSE "held"

LedgerHolder(s) == IF Created(s) THEN Latest(s).owner ELSE NoCall

Ledger == INSTANCE SessionLedger
            WITH state  <- [s \in Sandbox |-> LedgerState(s)],
                 holder <- [s \in Sandbox |-> LedgerHolder(s)]

(* Claims, releases, reclaims and drains of the code only ever do what the *)
(* ledger allows: a grant comes out of stock, and a spent sandbox, drained *)
(* or released, is never granted again.                                    *)
LedgerSpec == Ledger!Spec
=============================================================================
