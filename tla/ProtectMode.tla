----------------------------- MODULE ProtectMode -----------------------------
(***************************************************************************)
(* Avalanche protection of a pool: EvaluateProtectMode, a pure function of *)
(* the pool's specification, of what the round observed and of the status  *)
(* the last round wrote.                                                   *)
(*                                                                         *)
(* until is what is left of the hold, 0 when it is over or was never set.  *)
(* The instant of the entry and the reason in the status are left out: no  *)
(* decision reads them.                                                    *)
(***************************************************************************)
EXTENDS PoolScaling

ProtectSpec == [enabled : BOOLEAN, failurePercent : Int, minSamples : Int,
                hold : Int]

Protect == [active : BOOLEAN, until : Nat, trips : Nat]

Inactive == [active |-> FALSE, until |-> 0, trips |-> 0]

(* Failed provisions among those not known to have succeeded; thousandths. *)
FailureRate(inflight, failed) ==
  IF inflight + failed > 0 THEN Rounded(failed * 1000, inflight + failed) ELSE 0

(* Too few samples say nothing. *)
ProvisionsFail(cfg, o) ==
  /\ o.inflight + o.failed >= Effective(cfg.minSamples, 10)
  /\ FailureRate(o.inflight, o.failed) >= 10 * Effective(cfg.failurePercent, 30)

(* o.slow: the API server is known to be slower than the threshold.        *)
Cause == {"None", "ProvisionFailureRate", "ApiserverLatency"}

Trigger(cfg, o) ==
  IF ~cfg.enabled THEN "None"
  ELSE IF ProvisionsFail(cfg, o) THEN "ProvisionFailureRate"
  ELSE IF o.slow THEN "ApiserverLatency" ELSE "None"

(* Mutant: a trigger under protection does not renew the hold. *)
EvaluateOnce(cfg, o, prev) ==
  IF Trigger(cfg, o) # "None" /\ ~prev.active
    THEN [active |-> TRUE, until |-> Effective(cfg.hold, 120),
          trips  |-> prev.trips + 1]
  ELSE IF cfg.enabled /\ prev.active /\ prev.until > 0 THEN prev
  ELSE [prev EXCEPT !.active = FALSE, !.until = 0]

(* Mutant: the end of the hold is not looked at. *)
EvaluateForGood(cfg, o, prev) ==
  IF Trigger(cfg, o) # "None"
    THEN [active |-> TRUE, until |-> Effective(cfg.hold, 120),
          trips  |-> IF prev.active THEN prev.trips ELSE prev.trips + 1]
  ELSE IF cfg.enabled /\ prev.active THEN prev
  ELSE [prev EXCEPT !.active = FALSE, !.until = 0]

(* The status that EvaluateProtectMode and applyProtectMode leave: entered *)
(* or renewed, held, or over.                                              *)
Evaluate(cfg, o, prev) ==
  IF Trigger(cfg, o) # "None"
    THEN [active |-> TRUE, until |-> Effective(cfg.hold, 120),
          trips  |-> IF prev.active THEN prev.trips ELSE prev.trips + 1]
  ELSE IF cfg.enabled /\ prev.active /\ prev.until > 0 THEN prev
  ELSE [prev EXCEPT !.active = FALSE, !.until = 0]
=============================================================================
