--------------------------- MODULE MCPoolController ---------------------------
(* Instances of PoolController for TLC. One unit of time is a minute.      *)
EXTENDS PoolController

(* minWarm and drain are replaced by those of the pool. *)
SmallScaling ==
  [minWarm |-> 0, maxWarm |-> 3, buffer |-> 1, replenish |-> 1,
   maxProvision |-> 2, maxReclaim |-> 1, hitRatio |-> 950, alpha |-> 300,
   hysteresis |-> 100, upCooldown |-> 1, downCooldown |-> 2, throttle |-> 500,
   paused |-> FALSE, drain |-> FALSE]

SmallProtection ==
  [enabled |-> TRUE, failurePercent |-> 50, minSamples |-> 1, hold |-> 2]

(* Every kind of trouble, with those it can make worse. Four edits turn a  *)
(* pool more often than it may turn.                                       *)
SmallScenarios ==
  {[kinds |-> {"edit"}, left |-> 4],
   [kinds |-> {"drain", "call"}, left |-> 2],
   [kinds |-> {"taken", "edit"}, left |-> 2],
   [kinds |-> {"watch", "edit"}, left |-> 2],
   [kinds |-> {"taken", "drain", "call"}, left |-> 1],
   [kinds |-> {"failure", "crash"}, left |-> 2],
   [kinds |-> {"taken", "failure"}, left |-> 2],
   [kinds |-> {"cold", "failure", "runtime"}, left |-> 1]}
=============================================================================
