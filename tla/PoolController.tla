---------------------------- MODULE PoolController ----------------------------
(***************************************************************************)
(* Rounds of the PoolController beside everything that changes its stock:  *)
(* calls that claim, sandboxes that become ready or fail, an operator who  *)
(* edits or drains the pool, crashes, lost updates and time.               *)
(*                                                                         *)
(* The sandboxes of a pool are alike here: the controller counts them.     *)
(* Which one a call or a drain hits is the matter of ClaimProtocol. The    *)
(* cached pool may lag behind the API server, and the cached sandboxes     *)
(* too: the latest may be missing, and then look like those without a      *)
(* phase, New; and what the controller has marked may still show as warm.  *)
(* What others do to a sandbox counts here from when the cache shows it:   *)
(* nothing that the controller does tells when it was done.                *)
(***************************************************************************)
EXTENDS ProtectMode, StockKinds, Sequences, FiniteSets

CONSTANTS
  Scaling,      \* spec.scaling, but for minWarm, which an operator edits
  Protection,   \* spec.protectMode
  FirstMinWarm, \* spec.scaling.minWarm of a new pool
  MinWarms,     \* what an operator sets it to
  Window,       \* oscillationWindow
  MaxAge,       \* bound on ages: no cooldown, hold or window is longer
  MaxStock,     \* quota of sandboxes in the pool's namespace
  Scenarios     \* kinds of trouble that may come together, and how many

VARIABLES
  stock,   \* how many sandboxes of each kind there are
  hidden,  \* how many of the marked ones still show as warm in the cache
  pool,    \* the SandboxPool
  shown,   \* the SandboxPool in the controller's cache
  lag,     \* shown is not the last version
  round,   \* the round the controller is in
  history, \* the last steps, oldest first, in the controller's memory
  trouble, \* the kinds of trouble of this run, and how many are left
  seen     \* history of the run, for the properties

vars == <<stock, hidden, pool, shown, lag, round, history, trouble, seen>>

(* Stock is claimed or reclaimed, a call is served cold, a sandbox or an   *)
(* API call fails, the runtime is missing, the pool is edited or drained,  *)
(* the process crashes, a round is faster than the watch of the sandboxes. *)
Trouble == {"taken", "cold", "failure", "call", "runtime", "edit", "drain",
            "crash", "watch"}

Scenario == [kinds : SUBSET Trouble, left : Nat]

(* The hold is not longer than ages can tell. *)
ASSUME PoolAssumption ==
  /\ Scaling \in ScalingSpec /\ Protection \in ProtectSpec
  /\ FirstMinWarm \in Nat /\ MinWarms \subseteq Nat
  /\ Window \in Nat /\ MaxAge \in Nat /\ MaxStock \in Nat
  /\ Scenarios \subseteq Scenario
  /\ Effective(Protection.hold, 120) =< MaxAge

Age == 0 .. MaxAge

(* What the controller reads back from the pool: its status, minWarm and   *)
(* spec.drain. drained is the condition of that name.                      *)
Pool == [minWarm : Nat, drain : BOOLEAN, demand : Int,
         sinceScale : Age \cup {Never}, lastDelta : Int, protect : Protect,
         drained : BOOLEAN]

(* pool is the copy the round works on, current whether that copy was, and *)
(* still is, the last version; cause is what EvaluateProtectMode found.    *)
Round == [at : {"idle", "counted", "decided", "acted"}, pool : Pool,
          current : BOOLEAN, warm : Nat, inflight : Nat, draining : Nat,
          cause : Cause, delta : Int]

Event == [age : Age, up : BOOLEAN]

(* lost: stock that is not warm although the count of the round has it so, *)
(* marked before without being shown so, or taken by others since;         *)
(* trigger: time since the last recorded round that saw provisions fail.   *)
Seen == [lost : Nat, trigger : Age \cup {Never}]

Fresh(m) == [minWarm |-> m, drain |-> FALSE, demand |-> 0,
             sinceScale |-> Never, lastDelta |-> 0, protect |-> Inactive,
             drained |-> FALSE]

Idle == [at |-> "idle", pool |-> Fresh(0), current |-> TRUE, warm |-> 0,
         inflight |-> 0, draining |-> 0, cause |-> "None", delta |-> 0]

Init ==
  /\ stock = [k \in Kind |-> 0] /\ hidden = 0
  /\ pool = Fresh(FirstMinWarm)
  /\ shown = pool /\ lag = FALSE /\ round = Idle /\ history = <<>>
  /\ trouble \in Scenarios
  /\ seen = [lost |-> 0, trigger |-> Never]

-----------------------------------------------------------------------------
(***************************************************************************)
(* State formulae.                                                         *)
(***************************************************************************)
Size == stock["New"] + stock["NewCold"] + stock["Inflight"] + stock["Cold"]
        + stock["Warm"] + stock["Taken"] + stock["Session"] + stock["Draining"]
        + stock["Deleting"] + stock["Failed"]
Unclaimed == stock["New"] + stock["Inflight"] + stock["Warm"]
             + stock["Draining"] + stock["Deleting"]

Moved(from, to, n) == [stock EXCEPT ![from] = @ - n, ![to] = @ + n]

(* Mutant: by phase first; what is marked still is Ready. *)
CountWarmByPhase == stock["Warm"] + stock["Draining"] + stock["Deleting"]

(* countStock: by label first, then by phase, whoever holds the sandbox;   *)
(* it lists the cache, as drainCandidates does later in the round.         *)
CountWarm     == stock["Warm"] + hidden
CountInflight == stock["Inflight"] + stock["Cold"]
CountDraining == stock["Draining"] - hidden + stock["Deleting"]

(* The steps younger than age: they are in the order of time.              *)
Recent(h, age) ==
  LET old == {i \in 1 .. Len(h) : h[i].age >= age}
  IN  SubSeq(h, Cardinality(old) + 1, Len(h))

(* How often two neighbouring steps in the window point different ways.    *)
Turns(h)       == {i \in 1 .. Len(h) - 1 : h[i].up # h[i + 1].up}
Reversals      == Cardinality(Turns(Recent(history, Window + 1)))
Recorded(up)   == Recent(Append(history, [age |-> 0, up |-> up]), Window)

(* Nothing in the code reports a rate of claims or the room on the nodes,  *)
(* and the source of the hit ratio answers that it does not know.          *)
Observation ==
  [warm |-> round.warm, inflight |-> round.inflight,
   demand |-> round.pool.demand, claimRate |-> 0, hitRatio |-> Unknown,
   sinceScale |-> round.pool.sinceScale, lastDelta |-> round.pool.lastDelta,
   reversals |-> Reversals, headroom |-> Unknown,
   protect |-> round.pool.protect.active]

SpecOf(p) == [Scaling EXCEPT !.minWarm = p.minWarm, !.drain = p.drain]

(* The one decision of the round; as a set, so that TLC takes the spec and *)
(* the observation as values and does not compute them at every use.       *)
Decisions ==
  {DecideScaling(x.sc, x.o) :
     x \in {[sc |-> SpecOf(round.pool), o |-> Observation]}}

-----------------------------------------------------------------------------
(***************************************************************************)
(* One round: count and protect, delete what is marked, decide and act,    *)
(* update the status. An error ends it; what it did to sandboxes stays.    *)
(* Nothing but the round changes what it decides on: CleanUp decides too.  *)
(***************************************************************************)
Disturb(kind) == /\ kind \in trouble.kinds /\ trouble.left > 0
                 /\ trouble' = [trouble EXCEPT !.left = @ - 1]

AbortRound == round' = Idle /\ seen' = [seen EXCEPT !.lost = 0]

StartRound ==
  LET o == [inflight |-> CountInflight, failed |-> stock["Failed"],
            slow |-> FALSE]
  IN  /\ round.at = "idle"
      /\ round' = [at |-> "counted", current |-> ~lag, delta |-> 0,
                   warm |-> CountWarm, inflight |-> CountInflight,
                   draining |-> CountDraining, cause |-> Trigger(Protection, o),
                   pool |-> [shown EXCEPT !.protect =
                               Evaluate(Protection, o, shown.protect)]]
      /\ seen' = [seen EXCEPT !.lost = hidden]
      /\ IF hidden = 0 THEN UNCHANGED trouble ELSE Disturb("watch")
      /\ UNCHANGED <<stock, hidden, pool, shown, lag, history>>

(* Mutant: every call counts as a sandbox that is marked and not deleted.  *)
DeletionsEveryCall ==
  LET calls == Smaller(MaxReclaim(Scaling), CountDraining)
  IN  Larger(0, calls - stock["Deleting"]) .. calls

(* Mutant: what is marked is deleted only when the whole pool drains.      *)
DeletionsInDrain ==
  IF round.pool.drain
    THEN 0 .. Smaller(MaxReclaim(Scaling), stock["Draining"] - hidden) ELSE {0}

(* deleteDraining, at most maxReclaim calls for what shows the label; those *)
(* for Deleting are idle.                                                  *)
Deletions ==
  LET calls == Smaller(MaxReclaim(Scaling), CountDraining)
  IN  Larger(0, calls - stock["Deleting"]) .. Smaller(calls, stock["Draining"] - hidden)

CleanUp ==
  /\ round.at = "counted"
  /\ IF round.pool.drain \/ round.draining > 0
       THEN \E n \in Deletions : stock' = Moved("Draining", "Deleting", n)
       ELSE UNCHANGED stock
  /\ \E d \in Decisions :
       round' = [round EXCEPT !.at = "decided", !.delta = d.delta,
                              !.pool.demand = d.demand]
  /\ UNCHANGED <<hidden, pool, shown, lag, history, trouble, seen>>

CleanUpFails ==
  /\ round.at = "counted" /\ Disturb("call")
  /\ \E n \in 0 .. Smaller(MaxReclaim(Scaling), stock["Draining"] - hidden) :
       stock' = Moved("Draining", "Deleting", n)
  /\ AbortRound
  /\ UNCHANGED <<hidden, pool, shown, lag, history>>

(* markDraining patches as many candidates as asked for, if the cache has  *)
(* as many. To mark again what is marked but does not show it changes      *)
(* nothing; which of the candidates are older is left open.                *)
Candidates == stock["Warm"] + hidden

Marks(n) ==
  LET calls == Smaller(n, Candidates)
  IN  Larger(0, calls - hidden) .. Smaller(calls, stock["Warm"])

Mark(n) == stock' = Moved("Warm", "Draining", n) /\ hidden' = hidden + n

MarkDraining(n) == \E m \in Marks(n) : Mark(m)

Drain ==
  /\ round.at = "decided" /\ round.pool.drain
  /\ MarkDraining(round.warm)
  /\ round' = [round EXCEPT !.at = "acted",
                 !.pool.drained = round.warm = 0 /\ round.draining = 0]
  /\ UNCHANGED <<pool, shown, lag, history, trouble, seen>>

(* No runtime: no step, and the prediction is not carried over.            *)
PauseScaling ==
  /\ round.at = "decided" /\ ~round.pool.drain
  /\ Disturb("runtime")
  /\ round' = [round EXCEPT !.at = "acted", !.delta = 0, !.pool.demand = 0]
  /\ UNCHANGED <<stock, hidden, pool, shown, lag, history, seen>>

ScaleUp ==
  /\ round.at = "decided" /\ round.delta > 0
  /\ Size + round.delta =< MaxStock
  /\ stock' = [stock EXCEPT !["New"] = @ + round.delta]
  /\ history' = Recorded(TRUE)
  /\ round' = [round EXCEPT !.at = "acted"]
  /\ UNCHANGED <<hidden, pool, shown, lag, trouble, seen>>

ScaleDown ==
  /\ round.at = "decided" /\ round.delta < 0
  /\ MarkDraining(-round.delta)
  /\ history' = IF Candidates > 0 THEN Recorded(FALSE) ELSE history
  /\ round' = [round EXCEPT !.at = "acted"]
  /\ UNCHANGED <<pool, shown, lag, trouble, seen>>

ScaleHold ==
  /\ round.at = "decided" /\ ~round.pool.drain /\ round.delta = 0
  /\ round' = [round EXCEPT !.at = "acted"]
  /\ UNCHANGED <<stock, hidden, pool, shown, lag, history, trouble, seen>>

(* Some calls succeed, one fails: quota, API server, a missing template.   *)
CreateFails ==
  /\ round.at = "decided"
  /\ \E n \in 0 .. round.delta - 1 :
       /\ stock' = [stock EXCEPT !["New"] = @ + n]
       /\ IF Size + n = MaxStock THEN UNCHANGED trouble
                                 ELSE Size + n < MaxStock /\ Disturb("call")
  /\ AbortRound
  /\ UNCHANGED <<hidden, pool, shown, lag, history>>

MarkFails ==
  /\ round.at = "decided" /\ Disturb("call")
  /\ LET asked == IF round.pool.drain THEN round.warm ELSE -round.delta
     IN  \E n \in 0 .. Smaller(asked, Candidates) - 1 : MarkDraining(n)
  /\ AbortRound
  /\ UNCHANGED <<pool, shown, lag, history>>

(* Later rounds look at the direction of the last step only. *)
Sign(n) == IF n > 0 THEN 1 ELSE IF n < 0 THEN -1 ELSE 0

Written ==
  IF round.delta = 0 THEN round.pool
  ELSE [round.pool EXCEPT !.sinceScale = 0, !.lastDelta = Sign(round.delta)]

(* Mutant: an update that does not insist on the version it read. *)
FinishBlindly ==
  /\ round.at = "acted"
  /\ pool' = Written /\ lag' = (lag \/ Written # pool)
  /\ seen' = [lost |-> 0, trigger |-> IF round.cause = "None" THEN seen.trigger
                                                             ELSE 0]
  /\ round' = Idle
  /\ UNCHANGED <<stock, hidden, shown, history, trouble>>

(* finish, updateStatus: refused when the pool is not the one it read.     *)
FinishRound ==
  /\ round.at = "acted" /\ round.current
  /\ pool' = Written /\ lag' = (lag \/ Written # pool)
  /\ seen' = [lost |-> 0, trigger |-> IF round.cause = "None" THEN seen.trigger
                                                             ELSE 0]
  /\ round' = Idle
  /\ UNCHANGED <<stock, hidden, shown, history, trouble>>

UpdateConflicts ==
  /\ round.at = "acted" /\ ~round.current
  /\ AbortRound
  /\ UNCHANGED <<stock, hidden, pool, shown, lag, history, trouble>>

(* The isolation cannot be resolved, a list or the update fails.           *)
RoundFails ==
  /\ round.at # "idle" /\ Disturb("call") /\ AbortRound
  /\ UNCHANGED <<stock, hidden, pool, shown, lag, history>>

(* The process ends or loses its lease; the next one lists anew.           *)
Crash ==
  /\ Disturb("crash")
  /\ AbortRound /\ history' = <<>>
  /\ shown' = pool /\ lag' = FALSE /\ hidden' = 0
  /\ UNCHANGED <<stock, pool>>

-----------------------------------------------------------------------------
(***************************************************************************)
(* Sandboxes, as the SandboxController, the calls and the sweeper move     *)
(* them; the operator; the watch; time.                                    *)
(***************************************************************************)
(* Warm stock that goes is lost to the round that has counted it.          *)
Move(from, to) ==
  /\ stock[from] > 0 /\ stock' = Moved(from, to, 1)
  /\ seen' = [seen EXCEPT !.lost = IF from = "Warm" /\ round.at # "idle"
                                   THEN @ + 1 ELSE @]
  /\ UNCHANGED <<hidden, pool, shown, lag, round, history>>

Progress     == \E m \in Advances : Move(m[1], m[2]) /\ UNCHANGED trouble
ReleaseEarly == \E m \in EarlyReleases : Move(m[1], m[2]) /\ UNCHANGED trouble
Fails        == \E m \in Failures : Move(m[1], m[2]) /\ Disturb("failure")

Claim == Move("Warm", "Taken") /\ Disturb("taken")

(* Stock that is too old, or marked stock that failed, is deleted by the   *)
(* SandboxController; the former is counted nowhere any more.              *)
Reclaim ==
  /\ \/ stock["Draining"] > hidden /\ Move("Draining", "Deleting")
     \/ /\ stock["Warm"] > 0 /\ stock' = [stock EXCEPT !["Warm"] = @ - 1]
        /\ seen' = [seen EXCEPT !.lost = IF round.at = "idle" THEN @ ELSE @ + 1]
        /\ UNCHANGED <<hidden, pool, shown, lag, round, history>>
  /\ Disturb("taken")

CreateCold ==
  /\ Size < MaxStock /\ stock' = [stock EXCEPT !["NewCold"] = @ + 1]
  /\ Disturb("cold") /\ UNCHANGED <<hidden, pool, shown, lag, round, history, seen>>

(* Sessions end, and what has failed or is deleted goes.                   *)
Gone(k) ==
  /\ stock[k] > 0 /\ stock' = [stock EXCEPT ![k] = @ - 1]
  /\ UNCHANGED <<hidden, pool, shown, lag, round, history, trouble, seen>>

(* An operator edits the pool, or drains it through the gateway.           *)
Write(p) ==
  /\ p # pool /\ pool' = p /\ lag' = TRUE
  /\ round' = [round EXCEPT !.current = FALSE]
  /\ UNCHANGED <<stock, hidden, shown, history, seen>>

EditPool  == /\ \E m \in MinWarms : Write([pool EXCEPT !.minWarm = m])
             /\ Disturb("edit")
DrainPool == /\ \E d \in BOOLEAN : Write([pool EXCEPT !.drain = d])
             /\ Disturb("drain")

Deliver ==
  /\ lag /\ shown' = pool /\ lag' = FALSE
  /\ UNCHANGED <<stock, hidden, pool, round, history, trouble, seen>>

(* The watch of the sandboxes, which nothing orders against that of pools. *)
(* That a round counts before it has shown the marks is a trouble.         *)
ShowMarks ==
  /\ hidden' \in 0 .. hidden - 1
  /\ UNCHANGED <<stock, pool, shown, lag, round, history, trouble, seen>>

Older(a)      == IF a = Never THEN Never ELSE Smaller(a + 1, MaxAge)
OlderPool(p)  == [p EXCEPT !.sinceScale = Older(@),
                    !.protect.until = Larger(0, @ - 1)]

(* Rounds, the watch and the first round of the SandboxController for a new *)
(* sandbox take seconds; this is the next minute.                          *)
Tick ==
  /\ round.at = "idle" /\ ~lag /\ hidden = 0
  /\ stock["New"] = 0 /\ stock["NewCold"] = 0
  /\ pool' = OlderPool(pool) /\ shown' = OlderPool(shown)
  /\ history' = Recent([i \in 1 .. Len(history) |->
                          [history[i] EXCEPT !.age = Older(@)]], Window + 1)
  /\ seen' = [seen EXCEPT !.trigger = Older(@)]
  /\ UNCHANGED <<stock, hidden, lag, round, trouble>>
-----------------------------------------------------------------------------
Ends == \E k \in {"Session", "Failed", "Deleting"} : Gone(k)

Sandboxes == Progress \/ ReleaseEarly \/ Fails \/ Claim \/ Reclaim \/ CreateCold \/ Ends

Controller == \/ StartRound \/ CleanUp \/ CleanUpFails \/ Drain \/ PauseScaling
              \/ ScaleUp \/ ScaleDown \/ ScaleHold \/ CreateFails \/ MarkFails
              \/ FinishRound \/ UpdateConflicts \/ RoundFails \/ Crash

Next == Controller \/ Sandboxes \/ EditPool \/ DrainPool \/ Deliver \/ ShowMarks \/ Tick

Spec == Init /\ [][Next]_vars

(***************************************************************************)
(* A round is requeued after 30 s at the latest, and goes on as long as    *)
(* nothing fails; the watch delivers; sandboxes are provisioned, and       *)
(* what has failed or is deleted ends (SandboxLifecycle, Sweeper). Rounds, *)
(* each a few seconds long, cannot put off the next minute for ever.       *)
(***************************************************************************)
RoundGoesOn == \/ StartRound \/ CleanUp \/ Drain \/ ScaleUp \/ ScaleDown \/ ScaleHold
               \/ CreateFails \/ FinishRound \/ UpdateConflicts

SandboxesGoOn == Progress \/ Ends

Fairness == /\ WF_vars(RoundGoesOn) /\ WF_vars(SandboxesGoOn)
            /\ WF_vars(Deliver) /\ WF_vars(ShowMarks) /\ SF_vars(Tick)

FairSpec == Spec /\ Fairness

-----------------------------------------------------------------------------
TypeOK ==
  /\ stock \in [Kind -> Nat] /\ hidden \in 0 .. stock["Draining"]
  /\ lag \in BOOLEAN /\ trouble \in Scenario
  /\ pool \in Pool /\ shown \in Pool /\ round \in Round
  /\ history \in Seq(Event) /\ seen \in Seen

(* Two-phase shrinking: marked stock is out of the count, whatever failed  *)
(* between mark and deletion, once the cache shows the mark. So a round    *)
(* that gives up stock leaves minWarm, but for the marks that were not     *)
(* shown yet when it counted, and for what others took since.              *)
ShrinkKeepsMinWarm ==
  [][ScaleDown => stock'["Warm"] + seen.lost >= round.pool.minWarm]_vars

(* At most maxReversalsInWindow turns are remembered for any window: then  *)
(* the pool is left alone until they are forgotten.                        *)
TurnsAreBounded == Reversals =< maxReversalsInWindow

(* EvaluateProtectMode: once a recorded round saw provisions fail, the     *)
(* pool is protected for the whole hold, which every such round renews.    *)
HoldIsKept ==
  (seen.trigger # Never /\ seen.trigger < Effective(Protection.hold, 120))
    => pool.protect.active

(* trips counts how often the pool entered protection, no entry twice and  *)
(* none lost, although the counter is read from a cache that lags.         *)
TripsCountEntries ==
  [][pool'.protect.trips = pool.protect.trips
       + IF pool'.protect.active /\ ~pool.protect.active THEN 1 ELSE 0]_vars

(* Cooldown, hysteresis, freeze, throttle and floors hold no pool off its  *)
(* target for ever, and a drain ends with no unclaimed stock.              *)
Settled ==
  IF pool.drain THEN Unclaimed = 0
  ELSE LET o == [Observation EXCEPT !.warm = stock["Warm"], !.inflight = CountInflight]
       IN  /\ Unclaimed = stock["Warm"]
           /\ WithinHysteresis(Gap(SpecOf(pool), o), Target(SpecOf(pool), o),
                               Scaling.hysteresis)

PoolSettles == <>[]Settled

(* Protection ends once its cause is gone. *)
ProtectionEnds == <>[](~pool.protect.active)
=============================================================================
