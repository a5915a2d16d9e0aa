-------------------------- MODULE SandboxLifecycle --------------------------
(***************************************************************************)
(* The life of one sandbox over time: provisioning, stock, a session with  *)
(* its heartbeat lease, idleness, hibernation by the node agent, reclaim.  *)
(* Who may claim it is the matter of ClaimProtocol.                        *)
(*                                                                         *)
(* Reads of the sandbox are up to date here: what the controller decides   *)
(* from an older version fails on the optimistic lock of its status        *)
(* update, and only the objects it created before that update stay         *)
(* (InterruptedReconcile). Time is counted in steps of a minute from the   *)
(* creation of the object; the controller may be late by any amount.       *)
(***************************************************************************)
EXTENDS Integers, FiniteSetsExt

CONSTANTS
  MaxTime,          \* bound on the clock
  LeaseTTL,         \* HeartbeatLeaseDurationSeconds
  SpecGrace,        \* spec.lifecycle.heartbeatGraceSeconds, 0 when unset
  DefaultGrace,     \* DefaultHeartbeatGraceSecs
  HibernateAfter,   \* HibernateAfterIdleSeconds, 0 when disabled
  IdleTimeout,      \* IdleTimeoutSeconds, 0 when disabled
  TTL,              \* TTLSecondsAfterCreation, always positive
  MaxStockAge,      \* MaxStockAgeSeconds
  ProvisionTimeout, \* ProvisionTimeoutSeconds
  Deadlines,        \* hard deadlines that a call may ask for
  Policies,         \* values of onHeartbeatLoss that sandboxes have
  Faults            \* what may go wrong in the environment

Fault  == {"podLost", "podEnded", "nodeLost", "noRuntime", "leaseDeleted",
           "agentStops"}
Policy == {"ReclaimImmediately", "Grace", "Ignore"}
Time   == 0 .. MaxTime
Never  == -1

ASSUME LifecycleAssumption ==
  /\ {MaxTime, LeaseTTL, SpecGrace, DefaultGrace, HibernateAfter, IdleTimeout,
      TTL, MaxStockAge, ProvisionTimeout} \subseteq Nat
  /\ Deadlines \subseteq Time \cup {Never}
  /\ Policies \subseteq Policy /\ Faults \subseteq Fault

VARIABLES
  now,    \* minutes since the object was created
  spec,   \* onHeartbeatLoss and hibernation.enabled of the sandbox
  obj,    \* the rest of the AgentSandbox
  lease,  \* renewTime of the heartbeat lease; Never when there is no lease
  pod,    \* the Pod, its node and the runtime it needs
  frozen, \* the Pod's cgroup is frozen
  agent,  \* the node agent: what it is about to do to this sandbox
  seen    \* history: signs of life of the client

vars == <<now, spec, obj, lease, pod, frozen, agent, seen>>

Phase == {"New", "Provisioning", "Ready", "Running", "Idle", "Hibernating",
          "Hibernated", "Resuming", "Terminating", "Failed"}

ClaimedPhase == {"Running", "Idle", "Hibernating", "Hibernated", "Resuming"}
Reclaimed    == {"Terminating", "Failed"}

RecycleReason == {"None", "RuntimeError", "NodeLost", "StockRotation",
                  "ClientReleased", "HardDeadline", "TTLExpired",
                  "HeartbeatLost", "IdleTimeout"}

Spec0 == [policy : Policies, hibernation : BOOLEAN]

(* claim is spec.claim: never set, set, or cleared again by a release.     *)
Object == [phase     : Phase,
           claim     : {"none", "held", "released"},
           deadline  : Time \cup {Never},
           claimedAt : Time \cup {Never},
           podName   : BOOLEAN,
           runtime   : {"None", "Frozen", "Active"},
           wake      : BOOLEAN,
           sleep     : BOOLEAN,
           reason    : RecycleReason]

Pod == [state : {"absent", "pending", "ready", "ended"},
        since : Time \cup {Never}, node : BOOLEAN, runtime : BOOLEAN]

AgentStep == {"idle", "freeze", "thaw", "frozen", "thawed"}

(* sign: when the client last claimed or renewed; renewed: it did so since *)
(* the sandbox turned Idle.                                                *)
Seen == [sign : Time \cup {Never}, renewed : BOOLEAN]

(* Created by the PoolController as stock, or by a gateway for a call.     *)
Init ==
  /\ now = 0 /\ lease = Never /\ frozen = FALSE /\ agent = "idle"
  /\ spec \in Spec0
  /\ \E r \in {TRUE, "noRuntime" \notin Faults} :
       pod = [state |-> "absent", since |-> Never, node |-> TRUE, runtime |-> r]
  /\ \E c \in {"none", "held"}, d \in Deadlines :
       /\ c = "none" => d = Never
       /\ obj = [phase |-> "New", claim |-> c, deadline |-> d,
                 claimedAt |-> Never, podName |-> FALSE, runtime |-> "None",
                 wake |-> FALSE, sleep |-> FALSE, reason |-> "None"]
       /\ seen = [sign |-> IF c = "held" THEN 0 ELSE Never,
                  renewed |-> FALSE]

-----------------------------------------------------------------------------
(***************************************************************************)
(* What the controller observes.                                           *)
(***************************************************************************)
PodExists == obj.podName /\ pod.state # "absent"
NodeReady == PodExists => pod.node

(* EffectiveLifecycle, which observe uses, does not know the template.     *)
EffectiveGrace == IF SpecGrace > 0 THEN SpecGrace ELSE DefaultGrace

(* Mutant: the lease is lost as soon as it is due. *)
LeaseHealthyNoGrace(o) ==
  IF lease = Never THEN o.claim # "held" ELSE now < lease + LeaseTTL

LeaseHealthy(o) ==
  IF lease = Never THEN o.claim # "held"
                   ELSE now < lease + LeaseTTL + EffectiveGrace

(* Mutant: renewals do not count as activity. *)
IdleSinceClaim(o) == now - o.claimedAt

(* The last sign of life: creation, claim, or renewal. Nothing in the code *)
(* writes status.activity, so there is no other one, and activityObserved  *)
(* is always false.                                                        *)
IdleFor(o) == now - Max({0, o.claimedAt, lease})

HardDeadlinePassed(o) == o.deadline # Never /\ now >= o.deadline
TTLExpired            == TTL > 0 /\ now >= TTL
StockTooOld           == MaxStockAge > 0 /\ now >= MaxStockAge

ProvisionTimedOut ==
  /\ ProvisionTimeout > 0
  /\ now >= ProvisionTimeout + (IF PodExists THEN pod.since ELSE 0)

HibernateDue(o) ==
  /\ HibernateAfter > 0 /\ spec.hibernation /\ o.runtime # "Frozen"
  /\ IdleTimeout > 0 => HibernateAfter < IdleTimeout
  /\ IdleFor(o) >= HibernateAfter

(* Wake wins when both annotations are set. *)
ManualHibernate(o) == o.sleep /\ ~o.wake

-----------------------------------------------------------------------------
(***************************************************************************)
(* NextPhase: the decision about an object o whose claim is in status.     *)
(* The order of the conditions is the order of the code.                   *)
(***************************************************************************)
Stay            == [next |-> "", why |-> "None"]
Transition(p)   == [next |-> p, why |-> "None"]
Reclaim(p, why) == [next |-> p, why |-> why]

DecideProvisioning(o) ==
  CASE ~NodeReady -> Reclaim("Failed", "NodeLost")
    [] NodeReady /\ ProvisionTimedOut -> Reclaim("Failed", "RuntimeError")
    [] NodeReady /\ ~ProvisionTimedOut ->
         IF ~PodExists \/ pod.state = "pending" THEN Stay
         ELSE IF pod.state = "ended" THEN Reclaim("Failed", "RuntimeError")
         ELSE Transition(IF o.claim = "held" THEN "Running" ELSE "Ready")

(* Mutant: the age of stock is looked at before its claim.                 *)
DecideStockByAge(o) ==
  IF StockTooOld THEN Reclaim("Terminating", "StockRotation")
  ELSE IF o.claim = "held" THEN Transition("Running")
  ELSE IF ~NodeReady \/ ~PodExists THEN Reclaim("Failed", "NodeLost")
  ELSE Stay

DecideStock(o) ==
  IF o.claim = "held" THEN Transition("Running")
  ELSE IF ~NodeReady \/ ~PodExists THEN Reclaim("Failed", "NodeLost")
  ELSE IF StockTooOld THEN Reclaim("Terminating", "StockRotation")
  ELSE Stay

(* Mutant: reclaim is tried before freezing. *)
DecideIdleReclaimFirst(o) ==
  IF IdleTimeout = 0 THEN Stay
  ELSE IF IdleFor(o) >= IdleTimeout THEN Reclaim("Terminating", "IdleTimeout")
  ELSE IF HibernateDue(o) \/ ManualHibernate(o) THEN Transition("Hibernating")
  ELSE Stay

(* Freeze first, reclaim later. *)
DecideIdle(o) ==
  IF IdleTimeout = 0 THEN Stay
  ELSE IF HibernateDue(o) \/ ManualHibernate(o) THEN Transition("Hibernating")
  ELSE IF IdleFor(o) >= IdleTimeout THEN Reclaim("Terminating", "IdleTimeout")
  ELSE Stay

HeartbeatLost(o) ==
  IF spec.policy = "Grace" /\ o.phase = "Running"
    THEN Transition("Idle")
    ELSE Reclaim("Terminating", "HeartbeatLost")

DecideClaimed(o) ==
  IF o.claim # "held" THEN Reclaim("Terminating", "ClientReleased")
  ELSE IF HardDeadlinePassed(o) THEN Reclaim("Terminating", "HardDeadline")
  ELSE IF ~NodeReady \/ ~PodExists THEN Reclaim("Terminating", "NodeLost")
  ELSE IF TTLExpired THEN Reclaim("Terminating", "TTLExpired")
  ELSE IF ~LeaseHealthy(o) /\ spec.policy # "Ignore" THEN HeartbeatLost(o)
  ELSE DecideIdle(o)

(* Hibernating waits for the agent, for as long as the Pod is there. *)
DecideHibernating(o) ==
  IF o.runtime = "Frozen" THEN Transition("Hibernated")
  ELSE IF ~PodExists \/ ~NodeReady THEN Reclaim("Terminating", "NodeLost")
  ELSE Stay

(* Mutant: a frozen sandbox is left alone. *)
DecideHibernatedForEver(o) ==
  IF o.wake THEN Transition("Resuming") ELSE Stay

(* Mutant: the idle time is looked at before the wish to wake.             *)
DecideHibernatedByIdleness(o) ==
  IF HardDeadlinePassed(o) THEN Reclaim("Terminating", "HardDeadline")
  ELSE IF ~NodeReady \/ ~PodExists THEN Reclaim("Terminating", "NodeLost")
  ELSE IF TTLExpired THEN Reclaim("Terminating", "TTLExpired")
  ELSE IF IdleTimeout > 0 /\ IdleFor(o) >= IdleTimeout
    THEN Reclaim("Terminating", "IdleTimeout")
  ELSE IF o.wake THEN Transition("Resuming")
  ELSE Stay

DecideHibernated(o) ==
  IF HardDeadlinePassed(o) THEN Reclaim("Terminating", "HardDeadline")
  ELSE IF ~NodeReady \/ ~PodExists THEN Reclaim("Terminating", "NodeLost")
  ELSE IF TTLExpired THEN Reclaim("Terminating", "TTLExpired")
  ELSE IF o.wake THEN Transition("Resuming")
  ELSE IF IdleTimeout > 0 /\ IdleFor(o) >= IdleTimeout
    THEN Reclaim("Terminating", "IdleTimeout")
  ELSE Stay

DecideResuming(o) ==
  IF o.runtime = "Active" THEN Transition("Running")
  ELSE IF ~PodExists \/ ~NodeReady THEN Reclaim("Terminating", "NodeLost")
  ELSE Stay

NextPhase(o) ==
  CASE o.phase = "New"               -> Transition("Provisioning")
    [] o.phase = "Provisioning"      -> DecideProvisioning(o)
    [] o.phase = "Ready"             -> DecideStock(o)
    [] o.phase \in {"Running", "Idle"} -> DecideClaimed(o)
    [] o.phase = "Hibernating"       -> DecideHibernating(o)
    [] o.phase = "Hibernated"        -> DecideHibernated(o)
    [] o.phase = "Resuming"          -> DecideResuming(o)
    [] OTHER                         -> Stay

-----------------------------------------------------------------------------
(***************************************************************************)
(* SandboxController.                                                      *)
(***************************************************************************)

(* Before the decision: the first observation of a claim dates it. *)
BindClaimStatus(o) ==
  IF o.claim = "held" /\ o.claimedAt = Never THEN [o EXCEPT !.claimedAt = now]
                                             ELSE o

(* A claimed sandbox gets its lease, again if it was deleted. *)
EnsureLease == IF obj.claim = "held" /\ lease = Never THEN now ELSE lease

(* Without a runtime for its isolation level no Pod is created. *)
EnsurePod ==
  IF pod.runtime /\ pod.state = "absent"
    THEN [pod EXCEPT !.state = "pending", !.since = now]
    ELSE pod

(* Object o after decision d about it, with what applyTransition adds. *)
Applied(o, d) ==
  IF d.next = "" THEN o
  ELSE [o EXCEPT !.phase = d.next,
                 !.reason = IF d.next \in Reclaimed THEN d.why ELSE @,
                 !.podName = @ \/ (d.next = "Provisioning" /\ pod.runtime)]

(* Terminating and Failed objects are only deleted from here on. *)
Reconcile ==
  LET o == BindClaimStatus(obj)
      d == NextPhase(o)
  IN  /\ obj.phase \notin Reclaimed
      /\ obj' = Applied(o, d)
      /\ lease' = EnsureLease
      /\ pod' = IF d.next = "Provisioning" THEN EnsurePod ELSE pod
      /\ seen' = [seen EXCEPT !.renewed = @ /\ d.next # "Idle"]
      /\ UNCHANGED <<now, spec, frozen, agent>>

(* A crash or a conflict: lease and Pod are created, the status is not     *)
(* written.                                                                *)
InterruptedReconcile ==
  /\ obj.phase \notin Reclaimed
  /\ lease' = EnsureLease
  /\ pod' \in {pod, IF obj.phase = "New" THEN EnsurePod ELSE pod}
  /\ UNCHANGED <<now, spec, obj, frozen, agent, seen>>

-----------------------------------------------------------------------------
(***************************************************************************)
(* The gateway, for the owner of the sandbox.                              *)
(***************************************************************************)

(* The compare-and-swap on stock. *)
Claim ==
  /\ obj.phase = "Ready" /\ obj.claim = "none"
  /\ \E d \in Deadlines :
       obj' = [obj EXCEPT !.claim = "held", !.deadline = d]
  /\ seen' = [seen EXCEPT !.sign = now]
  /\ UNCHANGED <<now, spec, lease, pod, frozen, agent>>

(* What ownedSandbox and the check of spec.claim let through. *)
Owned == obj.claim = "held" /\ obj.phase \notin Reclaimed

(* Mutant: the renewal writes when the lease ends. *)
RenewEnd ==
  /\ Owned /\ lease # Never
  /\ lease' = now + LeaseTTL
  /\ seen' = [seen EXCEPT !.sign = now, !.renewed = TRUE]
  /\ UNCHANGED <<now, spec, obj, pod, frozen, agent>>

(* Without a lease the call is answered 409, to be retried. A renewal whose *)
(* write conflicts is answered OK all the same: what it lost against is    *)
(* another renewal, or the creation of the lease, too young for the cache  *)
(* of this replica, and so of the same minute: renewTime is now either way.*)
Renew ==
  /\ Owned /\ lease # Never
  /\ lease' = now
  /\ seen' = [seen EXCEPT !.sign = now, !.renewed = TRUE]
  /\ UNCHANGED <<now, spec, obj, pod, frozen, agent>>

Release ==
  /\ Owned
  /\ obj' = [obj EXCEPT !.claim = "released"]
  /\ UNCHANGED <<now, spec, lease, pod, frozen, agent, seen>>

(* :hibernate and :wake leave an annotation, and take the other one away.  *)
(* Nothing in the program takes it away once it has been served.           *)
SetHibernation(hibernate) ==
  /\ Owned
  /\ obj' = [obj EXCEPT !.sleep = hibernate, !.wake = ~hibernate]
  /\ UNCHANGED <<now, spec, lease, pod, frozen, agent, seen>>

-----------------------------------------------------------------------------
(***************************************************************************)
(* The node agent: a pass lists the sandboxes, then writes the cgroup of   *)
(* each, then reports it in the status, whatever the phase is by then.     *)
(***************************************************************************)
AgentUnchanged == UNCHANGED <<now, spec, lease, pod, seen>>

(* Mutant: the state is reported without waiting for the cgroup. *)
AgentListsReportFirst ==
  /\ agent = "idle" /\ PodExists /\ pod.node
  /\ \/ /\ obj.phase = "Hibernating" /\ obj.runtime # "Frozen"
        /\ agent' = "frozen"
     \/ /\ obj.phase = "Resuming" /\ obj.runtime # "Active"
        /\ agent' = "thawed"
  /\ UNCHANGED <<obj, frozen>> /\ AgentUnchanged

AgentLists ==
  /\ agent = "idle" /\ PodExists /\ pod.node
  /\ \/ /\ obj.phase = "Hibernating" /\ obj.runtime # "Frozen"
        /\ agent' = "freeze"
     \/ /\ obj.phase = "Resuming" /\ obj.runtime # "Active"
        /\ agent' = "thaw"
  /\ UNCHANGED <<obj, frozen>> /\ AgentUnchanged

(* A Pod that has ended has no cgroup to write: the sandbox is skipped. *)
AgentWrites ==
  /\ agent \in {"freeze", "thaw"}
  /\ IF pod.state = "ready"
       THEN /\ agent' = IF agent = "freeze" THEN "frozen" ELSE "thawed"
            /\ frozen' = (agent = "freeze")
       ELSE agent' = "idle" /\ UNCHANGED frozen
  /\ UNCHANGED obj /\ AgentUnchanged

AgentReports ==
  /\ agent \in {"frozen", "thawed"}
  /\ agent' = "idle"
  /\ obj' = [obj EXCEPT !.runtime = IF agent = "frozen" THEN "Frozen"
                                                        ELSE "Active"]
  /\ UNCHANGED frozen /\ AgentUnchanged

(* The agent restarts, or its write or report fails: the next pass retries.*)
AgentStops ==
  /\ "agentStops" \in Faults
  /\ agent # "idle" /\ agent' = "idle"
  /\ UNCHANGED <<obj, frozen>> /\ AgentUnchanged

-----------------------------------------------------------------------------
(***************************************************************************)
(* The environment: kubelet, nodes, an operator who deletes a lease.       *)
(***************************************************************************)
PodReady ==
  /\ pod.state = "pending" /\ pod.node
  /\ pod' = [pod EXCEPT !.state = "ready"]
  /\ UNCHANGED <<now, spec, obj, lease, frozen, agent, seen>>

(* The container ends, or the Pod is deleted; its cgroup goes with it. *)
PodGone(state, fault) ==
  /\ fault \in Faults
  /\ pod.state \in {"pending", "ready"}
  /\ pod' = [pod EXCEPT !.state = state]
  /\ frozen' = FALSE
  /\ UNCHANGED <<now, spec, obj, lease, agent, seen>>

NodeChanges ==
  /\ "nodeLost" \in Faults
  /\ pod.state # "absent"
  /\ pod' = [pod EXCEPT !.node = ~@]
  /\ UNCHANGED <<now, spec, obj, lease, frozen, agent, seen>>

RuntimeAppears ==
  /\ ~pod.runtime
  /\ pod' = [pod EXCEPT !.runtime = TRUE]
  /\ UNCHANGED <<now, spec, obj, lease, frozen, agent, seen>>

LeaseDeleted ==
  /\ "leaseDeleted" \in Faults
  /\ lease # Never /\ lease' = Never
  /\ UNCHANGED <<now, spec, obj, pod, frozen, agent, seen>>

Tick ==
  /\ now < MaxTime
  /\ now' = now + 1
  /\ UNCHANGED <<spec, obj, lease, pod, frozen, agent, seen>>

Next ==
  \/ Reconcile \/ InterruptedReconcile
  \/ Claim \/ Renew \/ Release \/ \E h \in BOOLEAN : SetHibernation(h)
  \/ AgentLists \/ AgentWrites \/ AgentReports \/ AgentStops
  \/ PodReady \/ PodGone("absent", "podLost") \/ PodGone("ended", "podEnded")
  \/ NodeChanges \/ RuntimeAppears \/ LeaseDeleted
  \/ Tick

(* Every decision but a reclaim asks for another round or causes one, the  *)
(* agent is a loop that its DaemonSet restarts, and time passes. The agent *)
(* may fail again and again, not for ever. Nothing is assumed of clients.  *)
RoundFairness ==
  /\ WF_vars(Reconcile)
  /\ SF_vars(AgentLists) /\ SF_vars(AgentWrites) /\ SF_vars(AgentReports)

Fairness == RoundFairness /\ WF_vars(Tick)

(* Under PatientSpec the clock may stop at any moment: what must happen has *)
(* to happen then without the help of a later deadline.                    *)
Spec        == Init /\ [][Next]_vars
FairSpec    == Spec /\ Fairness
PatientSpec == Spec /\ RoundFairness

-----------------------------------------------------------------------------
(***************************************************************************)
(* Properties.                                                             *)
(***************************************************************************)

(* Every variable has its type; no renewal and no claim is in the future.  *)
TypeOK ==
  /\ now \in Time /\ spec \in Spec0 /\ obj \in Object
  /\ lease \in 0 .. now \cup {Never}
  /\ pod \in Pod /\ frozen \in BOOLEAN /\ agent \in AgentStep /\ seen \in Seen
  /\ obj.claimedAt <= now /\ seen.sign <= now

(* A session ends for its heartbeat only when the client gave no sign of   *)
(* life for the length of the lease and the grace period: not when it      *)
(* renewed late but in time, and not when its lease was created late.      *)
HeartbeatLossIsReal ==
  obj.reason = "HeartbeatLost" => now >= seen.sign + LeaseTTL + EffectiveGrace

(* A session ends as idle only when its client was silent for idleTimeout: *)
(* the time the sandbox waited in the pool does not count.                 *)
IdleReclaimIsReal ==
  obj.reason = "IdleTimeout" => now >= seen.sign + IdleTimeout

(* A session ends for silence only if its client was silent: late rounds,  *)
(* late leases and time spent as stock end none.                           *)
EndsAreReal == HeartbeatLossIsReal /\ IdleReclaimIsReal

(* Where hibernation is configured to come first, no session is ended as   *)
(* idle before its sandbox was frozen, however late the controller looks.  *)
FreezeBeforeReclaim ==
  /\ obj.reason = "IdleTimeout" /\ spec.hibernation
  /\ 0 < HibernateAfter /\ HibernateAfter < IdleTimeout
  => obj.runtime = "Frozen"

(* The phase does not lie about the cgroup: a Running session is never     *)
(* left frozen, and a Hibernated one is, as long as its Pod runs.          *)
HibernationIsReal ==
  pod.state = "ready" =>
    /\ obj.phase \in {"Ready", "Running", "Idle"} => ~frozen
    /\ obj.phase = "Hibernated" => frozen

(* A session that is frozen, or on its way, and whose client wants it      *)
(* awake runs again before its time is over, as long as Pod and node are   *)
(* there and the wish stands, through restarts of the agent and although   *)
(* it was idle for long: nothing but the end of its TTL takes precedence.  *)
WakeIsServed ==
  (obj.phase \in {"Hibernating", "Hibernated"} /\ obj.wake /\ pod.state = "ready") ~>
    \/ obj.phase = "Running" \/ ~obj.wake
    \/ pod.state # "ready" \/ ~pod.node
    \/ TTLExpired \/ HardDeadlinePassed(obj)

(* The Pod came so late that its time to get ready ends after MaxTime.     *)
BeyondClock ==
  obj.phase = "Provisioning" /\ pod.since + ProvisionTimeout > MaxTime

(* No sandbox is kept past its TTL for ever, claimed or not.               *)
SandboxEnds == TTLExpired ~> (obj.phase \in Reclaimed \/ BeyondClock)
=============================================================================
