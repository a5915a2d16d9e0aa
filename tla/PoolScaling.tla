----------------------------- MODULE PoolScaling -----------------------------
(***************************************************************************)
(* How many sandboxes of stock a pool creates or gives up in one round:    *)
(* DecideScaling, a pure function of the pool's specification sc and of    *)
(* what the round observed, o.                                             *)
(*                                                                         *)
(* Ratios are in thousandths, as in the code. The code multiplies them as  *)
(* floating point numbers; here the arithmetic is exact, in millionths.    *)
(***************************************************************************)
EXTENDS Integers

Never    == -1  \* no such time
Unknown  == -1  \* no such metric
Million  == 1000000

maxReversalsInWindow == 3

Smaller(a, b)    == IF a < b THEN a ELSE b
Larger(a, b)     == IF a > b THEN a ELSE b
Clamp(v, lo, hi) == IF v < lo THEN lo ELSE IF v > hi THEN hi ELSE v
Abs(v)           == IF v < 0 THEN -v ELSE v
CeilDiv(a, b)    == (a + b - 1) \div b
Rounded(a, b)    == (2 * a + b) \div (2 * b)

Effective(v, default) == IF v > 0 THEN v ELSE default

MaxProvision(sc) == Effective(sc.maxProvision, 50)
MaxReclaim(sc)   == Effective(sc.maxReclaim, 30)
WarmBuffer(sc)   == Effective(sc.buffer, 10)

(* spec.scaling with its dampening and the throttle of spec.protectMode;   *)
(* and what a round observes.                                              *)
ScalingSpec ==
  [minWarm : Nat, maxWarm : Nat, buffer : Int, replenish : Int,
   maxProvision : Int, maxReclaim : Int, hitRatio : Int, alpha : Int,
   hysteresis : Int, upCooldown : Int, downCooldown : Int, throttle : Int,
   paused : BOOLEAN, drain : BOOLEAN]

Observed ==
  [warm : Nat, inflight : Nat, demand : Int, claimRate : Int, hitRatio : Int,
   sinceScale : Int, lastDelta : Int, reversals : Nat, headroom : Int,
   protect : BOOLEAN]

-----------------------------------------------------------------------------
(***************************************************************************)
(* The target: predicted demand (feed-forward), corrected by the hit ratio *)
(* (feedback), at least minWarm, plus a buffer, at most maxWarm.           *)
(***************************************************************************)

(* EWMA of the claims that arrive while stock is replenished; thousandths. *)
Demand(sc, o) ==
  LET alpha   == Clamp(sc.alpha, 50, 1000)
      instant == o.claimRate * Effective(sc.replenish, 90)
  IN  alpha * instant + (1000 - alpha) * o.demand

(* An unknown ratio is neutral: it must not look like a ratio of zero.     *)
Feedback(sc, o) ==
  IF o.hitRatio < 0 THEN 1000
  ELSE Clamp(1000 + 2 * (sc.hitRatio - o.hitRatio), 800, 1800)

Wanted(sc, o) == Larger(sc.minWarm * Million, Demand(sc, o) * Feedback(sc, o))
                 + WarmBuffer(sc) * Million

CappedByMaxWarm(sc, o) == sc.maxWarm > 0 /\ Wanted(sc, o) > sc.maxWarm * Million

Target(sc, o) == IF CappedByMaxWarm(sc, o) THEN sc.maxWarm
                                           ELSE Rounded(Wanted(sc, o), Million)

(* Stock that is being created already counts. *)
Gap(sc, o) == Target(sc, o) - (o.warm + o.inflight)

-----------------------------------------------------------------------------
(***************************************************************************)
(* What keeps a round from acting on the gap at all.                       *)
(***************************************************************************)
WithinHysteresis(gap, target, permille) ==
  \/ gap = 0
  \/ permille > 0 /\ target > 0
     /\ Abs(gap) < Larger(1, CeilDiv(target * permille, 1000))

(* Only a step in the direction of the last one waits; o.sinceScale is the *)
(* time since then.                                                        *)
CooldownActive(sc, o, gap) ==
  /\ o.sinceScale # Never
  /\ IF gap > 0 THEN o.lastDelta > 0 /\ o.sinceScale < sc.upCooldown
                ELSE o.lastDelta < 0 /\ o.sinceScale < sc.downCooldown

(* Mutant: the limit itself is still allowed. *)
FrozenLate(o) == o.reversals > maxReversalsInWindow

Frozen(o) == o.reversals >= maxReversalsInWindow

Suppression(sc, o, gap) ==
  IF Frozen(o) THEN "OscillationDetected"
  ELSE IF gap = 0 THEN "None"
  ELSE IF WithinHysteresis(gap, gap + o.warm + o.inflight, sc.hysteresis)
    THEN "WithinHysteresisBand"
  ELSE IF CooldownActive(sc, o, gap) THEN "CooldownActive"
  ELSE IF gap > 0 /\ o.headroom = 0 THEN "InsufficientNodeCapacity"
  ELSE "None"

-----------------------------------------------------------------------------
(***************************************************************************)
(* How large the step is: room on the nodes, rate limits, minWarm.         *)
(***************************************************************************)

(* Slower under protection, but never stopped. *)
ThrottleScaleUp(limit, permille) ==
  IF permille \in 1 .. 999 THEN Clamp(CeilDiv(limit * permille, 1000), 1, limit)
                           ELSE limit

LimitUp(sc, o) ==
  IF o.protect THEN ThrottleScaleUp(MaxProvision(sc), Effective(sc.throttle, 500))
               ELSE MaxProvision(sc)

NodeRoom(o, gap) ==
  IF gap > 0 /\ o.headroom >= 0 THEN Smaller(gap, o.headroom) ELSE gap

Limited(sc, o, gap) == Clamp(NodeRoom(o, gap), -MaxReclaim(sc), LimitUp(sc, o))

(* The step would leave less than minWarm. *)
BelowFloor(sc, o, step) == step < 0 /\ o.warm + step < sc.minWarm

Delta(sc, o, gap) ==
  LET step == Limited(sc, o, gap)
  IN  IF BelowFloor(sc, o, step) THEN -Larger(0, o.warm - sc.minWarm) ELSE step

(* Why the step is what it is; a later reason hides an earlier one. *)
Reason(sc, o, gap) ==
  LET room == NodeRoom(o, gap)
      step == Limited(sc, o, gap)
  IN  CASE gap = 0 -> IF o.inflight > 0 /\ gap + o.inflight > 0
                        THEN "ProvisioningPending" ELSE "AtTarget"
        [] gap < 0 -> IF BelowFloor(sc, o, step) THEN "MinWarmReached"
                                                 ELSE "DemandDown"
        [] gap > 0 -> IF CappedByMaxWarm(sc, o) /\ step = room THEN "MaxWarmReached"
                      ELSE IF o.protect /\ step < room THEN "ProtectModeThrottled"
                      ELSE IF room < gap THEN "InsufficientNodeCapacity"
                      ELSE "DemandUp"

Hold(why, demand) == [target |-> 0, delta |-> 0, reason |-> why,
                      demand |-> demand, suppressed |-> FALSE]

DecideScaling(sc, o) ==
  LET decide[gap \in Int] ==
        LET why == Suppression(sc, o, gap)
        IN  [target     |-> gap + o.warm + o.inflight,
             delta      |-> IF why = "None" THEN Delta(sc, o, gap) ELSE 0,
             reason     |-> IF why = "None" THEN Reason(sc, o, gap) ELSE why,
             demand     |-> Rounded(Demand(sc, o), 1000),
             suppressed |-> why # "None"]
  IN  IF sc.drain THEN Hold("PoolDraining", o.demand)
      ELSE IF sc.paused THEN Hold("ScalingPaused", o.demand)
      ELSE decide[Gap(sc, o)]
=============================================================================
