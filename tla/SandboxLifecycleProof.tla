----------------------- MODULE SandboxLifecycleProof -----------------------
(* Proofs about SandboxLifecycle, for every value of its time constants.   *)
EXTENDS SandboxLifecycle, TLAPS

-----------------------------------------------------------------------------
(***************************************************************************)
(* Inductive invariants.                                                   *)
(***************************************************************************)

(* A reason is recorded together with the reclaim, and stock has no lease. *)
(* A lease is younger than the last sign of life, and every session has    *)
(* one: this is where the deletion of leases must be excluded.             *)
LeaseInv ==
  /\ obj.reason # "None" => obj.phase \in Reclaimed
  /\ obj.claim = "none" => lease = Never
  /\ lease # Never => lease >= seen.sign
  /\ obj.phase \in ClaimedPhase => lease # Never

(* Phases in which no agent step can be on its way. *)
Awake == {"New", "Provisioning", "Ready", "Running", "Idle"}

(* What cgroup, status and agent have to do with each other in each phase. *)
FreezeInv ==
  /\ pod.state = "pending" => obj.phase \in {"New", "Provisioning"} \cup Reclaimed
  /\ obj.phase \in Awake => ~frozen /\ agent = "idle" /\ obj.runtime # "Frozen"
  /\ obj.phase = "Hibernating" =>
       /\ agent \in {"idle", "freeze", "frozen"}
       /\ obj.runtime = "Frozen" => agent = "idle"
       /\ (agent = "frozen" \/ obj.runtime = "Frozen") /\ pod.state = "ready"
            => frozen
  /\ obj.phase = "Hibernated" =>
       /\ agent = "idle" /\ obj.runtime = "Frozen"
       /\ pod.state = "ready" => frozen
  /\ obj.phase = "Resuming" =>
       /\ agent \in {"idle", "thaw", "thawed"}
       /\ obj.runtime = "Active" => agent = "idle"
       /\ agent = "thawed" \/ obj.runtime = "Active" => ~frozen

-----------------------------------------------------------------------------
(***************************************************************************)
(* Lemmas about the decision.                                              *)
(***************************************************************************)
DecisionType == [next : Phase \cup {""}, why : RecycleReason]

(* A decision names a phase, or none, and a reason of the API.             *)
LEMMA DecisionTypes ==
  ASSUME NEW o PROVE NextPhase(o) \in DecisionType
<1> USE DEF DecisionType, Phase, RecycleReason, Stay, Transition, Reclaim
<1>1. DecideProvisioning(o) \in DecisionType
  BY DEF DecideProvisioning
<1>2. DecideStock(o) \in DecisionType
  BY DEF DecideStock
<1>3. DecideClaimed(o) \in DecisionType
  BY DEF DecideClaimed, DecideIdle, HeartbeatLost
<1>4. DecideHibernating(o) \in DecisionType
  BY DEF DecideHibernating
<1>5. DecideHibernated(o) \in DecisionType
  BY DEF DecideHibernated
<1>6. DecideResuming(o) \in DecisionType
  BY DEF DecideResuming
<1>7. /\ Stay \in DecisionType
      /\ Transition("Provisioning") \in DecisionType
  OBVIOUS
<1> QED
  BY <1>1, <1>2, <1>3, <1>4, <1>5, <1>6, <1>7 DEF NextPhase

(* Binding the claim dates it now, or changes nothing.                     *)
LEMMA BindTypes ==
  ASSUME NEW o \in Object, now \in Time
  PROVE  /\ BindClaimStatus(o) \in Object
         /\ BindClaimStatus(o) = [o EXCEPT !.claimedAt = BindClaimStatus(o).claimedAt]
         /\ BindClaimStatus(o).claimedAt \in {o.claimedAt, now}
BY DEF BindClaimStatus, Object

(* An applied decision changes phase, reason and podName only.             *)
LEMMA AppliedTypes ==
  ASSUME NEW o \in Object, NEW d \in DecisionType, pod \in Pod
  PROVE  /\ Applied(o, d) \in Object
         /\ Applied(o, d).claim = o.claim
         /\ Applied(o, d).claimedAt = o.claimedAt
         /\ Applied(o, d).runtime = o.runtime
         /\ Applied(o, d).phase = IF d.next = "" THEN o.phase ELSE d.next
         /\ Applied(o, d).reason =
              IF d.next \in Reclaimed THEN d.why ELSE o.reason
<1>1. d.next \in Phase \cup {""} /\ d.why \in RecycleReason
  BY DEF DecisionType
<1>2. "" \notin Reclaimed
  BY DEF Reclaimed
<1>3. pod.runtime \in BOOLEAN
  BY DEF Pod
<1>4. (o.podName \/ (d.next = "Provisioning" /\ pod.runtime)) \in BOOLEAN
  BY <1>3 DEF Object
<1> QED
  BY <1>1, <1>2, <1>4, Zenon DEF Applied, Object

(* The edges of the phase graph, and what must hold on them.               *)
LEMMA Edges ==
  ASSUME NEW o
  PROVE  LET next == NextPhase(o).next
             podUp == PodExists /\ pod.state \notin {"pending", "ended"}
         IN  /\ next # "New"
             /\ next = "Provisioning" => o.phase = "New"
             /\ next = "Ready" => o.phase = "Provisioning" /\ podUp
             /\ next = "Running" =>
                  \/ o.phase = "Provisioning" /\ podUp /\ o.claim = "held"
                  \/ o.phase = "Ready" /\ o.claim = "held"
                  \/ o.phase = "Resuming" /\ o.runtime = "Active"
             /\ next = "Idle" => o.phase = "Running"
             /\ next = "Hibernating" => o.phase \in {"Running", "Idle"}
             /\ next = "Hibernated" =>
                  o.phase = "Hibernating" /\ o.runtime = "Frozen"
             /\ next = "Resuming" => o.phase = "Hibernated"
<1> USE DEF Stay, Transition, Reclaim
<1>1. CASE o.phase = "Provisioning"
  BY <1>1 DEF NextPhase, DecideProvisioning
<1>2. CASE o.phase = "Ready"
  BY <1>2 DEF NextPhase, DecideStock
<1>3. CASE o.phase \in {"Running", "Idle"}
  BY <1>3 DEF NextPhase, DecideClaimed, DecideIdle, HeartbeatLost
<1>4. CASE o.phase = "Hibernating"
  BY <1>4 DEF NextPhase, DecideHibernating
<1>5. CASE o.phase = "Hibernated"
  BY <1>5 DEF NextPhase, DecideHibernated
<1>6. CASE o.phase = "Resuming"
  BY <1>6 DEF NextPhase, DecideResuming
<1>7. CASE o.phase \notin {"Provisioning", "Ready", "Running", "Idle",
                           "Hibernating", "Hibernated", "Resuming"}
  BY <1>7 DEF NextPhase
<1> QED
  BY <1>1, <1>2, <1>3, <1>4, <1>5, <1>6, <1>7

(* What is known of a sandbox that is ended for silence.                   *)
LEMMA Reasons ==
  ASSUME NEW o
  PROVE  /\ NextPhase(o).why = "HeartbeatLost" =>
              o.phase \in ClaimedPhase /\ o.claim = "held" /\ ~LeaseHealthy(o)
         /\ NextPhase(o).why = "IdleTimeout" =>
              o.phase \in ClaimedPhase /\ IdleFor(o) >= IdleTimeout
<1> USE DEF Stay, Transition, Reclaim, ClaimedPhase
<1>1. CASE o.phase = "Provisioning"
  BY <1>1 DEF NextPhase, DecideProvisioning
<1>2. CASE o.phase = "Ready"
  BY <1>2 DEF NextPhase, DecideStock
<1>3. CASE o.phase \in {"Running", "Idle"}
  BY <1>3 DEF NextPhase, DecideClaimed, DecideIdle, HeartbeatLost
<1>4. CASE o.phase = "Hibernating"
  BY <1>4 DEF NextPhase, DecideHibernating
<1>5. CASE o.phase = "Hibernated"
  BY <1>5 DEF NextPhase, DecideHibernated
<1>6. CASE o.phase = "Resuming"
  BY <1>6 DEF NextPhase, DecideResuming
<1>7. CASE o.phase \notin {"Provisioning", "Ready", "Running", "Idle",
                           "Hibernating", "Hibernated", "Resuming"}
  BY <1>7 DEF NextPhase
<1> QED
  BY <1>1, <1>2, <1>3, <1>4, <1>5, <1>6, <1>7

(* The maximum of three numbers is one of them and bounds the others.      *)
LEMMA MaxOfThree ==
  ASSUME NEW a \in Int, NEW b \in Int, NEW c \in Int
  PROVE  Max({a, b, c}) \in Int /\ Max({a, b, c}) >= c
<1>1. \E x \in {a, b, c} : \A y \in {a, b, c} : x >= y
  <2>1. CASE a >= b /\ a >= c
    BY <2>1
  <2>2. CASE b >= a /\ b >= c
    BY <2>2
  <2>3. CASE c >= a /\ c >= b
    BY <2>3
  <2> QED
    BY <2>1, <2>2, <2>3
<1>2. Max({a, b, c}) \in {a, b, c} /\ \A y \in {a, b, c} : Max({a, b, c}) >= y
  BY <1>1, Zenon DEF Max
<1> QED
  BY <1>2

-----------------------------------------------------------------------------
(***************************************************************************)
(* Type correctness.                                                       *)
(***************************************************************************)
(* Times and grace periods are numbers. *)
LEMMA Numbers ==
  /\ MaxTime \in Nat /\ LeaseTTL \in Nat /\ IdleTimeout \in Nat
  /\ EffectiveGrace \in Nat
<1>1. \A n \in {MaxTime, LeaseTTL, SpecGrace, DefaultGrace, IdleTimeout} : n \in Nat
  BY LifecycleAssumption
<1> QED
  BY <1>1 DEF EffectiveGrace

LEMMA InitType == Init => TypeOK
<1> SUFFICES ASSUME Init PROVE TypeOK
  OBVIOUS
<1>1. now = 0 /\ now \in Time /\ 0 \in Time
  <2>1. now = 0
    BY Zenon DEF Init
  <2> QED
    BY <2>1, Numbers DEF Time
<1>2. PICK c \in {"none", "held"}, d \in Deadlines :
        /\ obj = [phase |-> "New", claim |-> c, deadline |-> d,
                  claimedAt |-> Never, podName |-> FALSE, runtime |-> "None",
                  wake |-> FALSE, sleep |-> FALSE, reason |-> "None"]
        /\ seen = [sign |-> IF c = "held" THEN 0 ELSE Never,
                   renewed |-> FALSE]
  BY Zenon DEF Init
<1>3. d \in Time \cup {Never}
  BY LifecycleAssumption
<1>4. obj \in Object /\ obj.claimedAt = Never
  BY <1>2, <1>3 DEF Object, Phase, RecycleReason
<1>5. seen \in Seen /\ seen.sign \in {0, Never}
  BY <1>1, <1>2 DEF Seen
<1>6. pod \in Pod
  <2>1. PICK r \in BOOLEAN :
          pod = [state |-> "absent", since |-> Never, node |-> TRUE,
                 runtime |-> r]
    BY Zenon DEF Init
  <2> QED
    BY <2>1 DEF Pod
<1>7. spec \in Spec0 /\ frozen \in BOOLEAN /\ agent \in AgentStep
  BY DEF Init, AgentStep
<1>8. lease \in 0 .. now \cup {Never}
  BY DEF Init
<1>9. obj.claimedAt <= now /\ seen.sign <= now
  BY <1>1, <1>4, <1>5 DEF Never
<1> QED
  BY <1>1, <1>4, <1>5, <1>6, <1>7, <1>8, <1>9 DEF TypeOK

LEMMA ReconcileType ==
  ASSUME TypeOK, Reconcile PROVE TypeOK'
<1> DEFINE o == BindClaimStatus(obj)
           d == NextPhase(o)
<1> USE DEF TypeOK
<1>1. o \in Object /\ o.claimedAt \in {obj.claimedAt, now}
  BY BindTypes
<1>2. d \in DecisionType
  BY DecisionTypes
<1>3. obj' \in Object /\ obj'.claimedAt = o.claimedAt
  <2>1. obj' = Applied(o, d)
    BY DEF Reconcile
  <2> HIDE DEF o, d
  <2> QED
    BY <1>1, <1>2, <2>1, AppliedTypes
<1>4. lease' \in 0 .. now \cup {Never}
  BY DEF Reconcile, EnsureLease, Time
<1>5. pod' \in Pod
  <2>1. EnsurePod \in Pod
    BY DEF EnsurePod, Pod
  <2> QED
    BY <2>1, Zenon DEF Reconcile
<1>6. seen' \in Seen /\ seen'.sign = seen.sign
  <2>1. seen' = [seen EXCEPT !.renewed = seen.renewed /\ d.next # "Idle"]
    BY DEF Reconcile
  <2> HIDE DEF d
  <2> QED
    BY <2>1, Zenon DEF Seen
<1>7. now' = now /\ spec' = spec /\ frozen' = frozen /\ agent' = agent
  BY DEF Reconcile
<1>8. obj'.claimedAt <= now
  BY <1>1, <1>3 DEF Time
<1> QED
  BY <1>3, <1>4, <1>5, <1>6, <1>7, <1>8

(* One step per action. *)
LEMMA NextType == TypeOK /\ [Next]_vars => TypeOK'
<1> SUFFICES ASSUME TypeOK, [Next]_vars PROVE TypeOK'
  OBVIOUS
<1> USE LifecycleAssumption DEF TypeOK
<1>0. now \in Nat /\ now \in Time
  BY DEF Time
<1>1. CASE Reconcile
  BY <1>1, ReconcileType
<1>2. CASE InterruptedReconcile
  <2>1. EnsurePod \in Pod
    BY DEF EnsurePod, Pod
  <2>2. EnsureLease \in 0 .. now \cup {Never}
    BY <1>0 DEF EnsureLease
  <2>3. pod' \in {pod, EnsurePod}
    BY <1>2 DEF InterruptedReconcile
  <2> QED
    BY <1>2, <2>1, <2>2, <2>3 DEF InterruptedReconcile
<1>3. CASE Claim
  <2>1. PICK d \in Deadlines :
          obj' = [obj EXCEPT !.claim = "held", !.deadline = d]
    BY <1>3 DEF Claim
  <2>2. obj' \in Object /\ obj'.claimedAt = obj.claimedAt
    BY <2>1 DEF Object
  <2>3. seen' \in Seen /\ seen'.sign = now
    BY <1>0, <1>3 DEF Claim, Seen
  <2> QED
    BY <1>0, <1>3, <2>2, <2>3 DEF Claim
<1>4. CASE Renew
  <2>1. seen' \in Seen /\ seen'.sign = now
    BY <1>0, <1>4 DEF Renew, Seen
  <2> QED
    BY <1>0, <1>4, <2>1 DEF Renew
<1>5. CASE Release
  <2>1. obj' \in Object /\ obj'.claimedAt = obj.claimedAt
    BY <1>5 DEF Release, Object
  <2> QED
    BY <1>5, <2>1 DEF Release
<1>6. ASSUME NEW h \in BOOLEAN, SetHibernation(h) PROVE TypeOK'
  <2>1. obj' \in Object /\ obj'.claimedAt = obj.claimedAt
    BY <1>6 DEF SetHibernation, Object
  <2>2. seen' \in Seen /\ seen'.sign = seen.sign
    BY <1>6 DEF SetHibernation
  <2> QED
    BY <1>6, <2>1, <2>2 DEF SetHibernation
<1>7. CASE AgentLists
  BY <1>7 DEF AgentLists, AgentUnchanged, AgentStep
<1>8. CASE AgentWrites
  <2>1. agent' \in AgentStep /\ frozen' \in BOOLEAN
    BY <1>8 DEF AgentWrites, AgentStep
  <2> QED
    BY <1>8, <2>1 DEF AgentWrites, AgentUnchanged
<1>9. CASE AgentReports
  <2>1. obj' \in Object /\ obj'.claimedAt = obj.claimedAt
    BY <1>9 DEF AgentReports, Object
  <2> QED
    BY <1>9, <2>1 DEF AgentReports, AgentUnchanged, AgentStep
<1>10. CASE AgentStops
  BY <1>10 DEF AgentStops, AgentUnchanged, AgentStep
<1>11. CASE PodReady
  <2>1. pod' \in Pod
    BY <1>11 DEF PodReady, Pod
  <2> QED
    BY <1>11, <2>1 DEF PodReady
<1>12. ASSUME NEW s \in {"absent", "ended"}, NEW f, PodGone(s, f) PROVE TypeOK'
  <2>1. pod' \in Pod
    BY <1>12 DEF PodGone, Pod
  <2> QED
    BY <1>12, <2>1 DEF PodGone
<1>13. CASE NodeChanges
  <2>1. pod' \in Pod
    BY <1>13 DEF NodeChanges, Pod
  <2> QED
    BY <1>13, <2>1 DEF NodeChanges
<1>14. CASE RuntimeAppears
  <2>1. pod' \in Pod
    BY <1>14 DEF RuntimeAppears, Pod
  <2> QED
    BY <1>14, <2>1 DEF RuntimeAppears
<1>15. CASE LeaseDeleted
  BY <1>15 DEF LeaseDeleted
<1>16. CASE Tick
  <2>1. now' \in Time /\ now' = now + 1
    BY <1>16 DEF Tick, Time
  <2>2. obj.claimedAt \in Int /\ seen.sign \in Int
    BY DEF Object, Seen, Time, Never
  <2>3. lease \in 0 .. now' \cup {Never}
    BY <1>0, <2>1
  <2> QED
    BY <1>0, <1>16, <2>1, <2>2, <2>3 DEF Tick
<1>17. CASE UNCHANGED vars
  BY <1>17 DEF vars
<1> QED
  BY <1>1, <1>2, <1>3, <1>4, <1>5, <1>6, <1>7, <1>8, <1>9, <1>10, <1>11,
     <1>12, <1>13, <1>14, <1>15, <1>16, <1>17 DEF Next

(* Every variable keeps its type, and nothing is dated in the future.      *)
THEOREM TypeCorrect == Spec => []TypeOK
<1>1. Init => TypeOK
  BY InitType
<1>2. TypeOK /\ [Next]_vars => TypeOK'
  BY NextType
<1> QED
  BY <1>1, <1>2, PTL DEF Spec

-----------------------------------------------------------------------------
(***************************************************************************)
(* Sessions do not end for silence that did not happen.                    *)
(***************************************************************************)
SilenceInv ==
  TypeOK /\ LeaseInv /\ HeartbeatLossIsReal /\ IdleReclaimIsReal

LEMMA InitSilence == Init => SilenceInv
<1> SUFFICES ASSUME Init PROVE SilenceInv
  OBVIOUS
<1>1. TypeOK
  BY InitType
<1>2. obj.phase = "New" /\ obj.reason = "None" /\ lease = Never
  <2>1. PICK c, d : obj = [phase |-> "New", claim |-> c, deadline |-> d,
                           claimedAt |-> Never, podName |-> FALSE,
                           runtime |-> "None", wake |-> FALSE, sleep |-> FALSE,
                           reason |-> "None"]
    BY Zenon DEF Init
  <2>2. lease = Never
    BY Zenon DEF Init
  <2> QED
    BY <2>1, <2>2
<1> QED
  BY <1>1, <1>2
     DEF SilenceInv, LeaseInv, HeartbeatLossIsReal, IdleReclaimIsReal, ClaimedPhase

LEMMA ReconcileSilence ==
  ASSUME SilenceInv, Reconcile PROVE SilenceInv'
<1> DEFINE o == BindClaimStatus(obj)
           d == NextPhase(o)
<1>1. TypeOK /\ TypeOK' /\ LeaseInv
  BY ReconcileType DEF SilenceInv
<1>2. o \in Object /\ o = [obj EXCEPT !.claimedAt = o.claimedAt]
  BY <1>1, BindTypes DEF TypeOK
<1>3. o.phase = obj.phase /\ o.claim = obj.claim /\ o.reason = obj.reason
  BY <1>1, <1>2 DEF TypeOK, Object
<1>4. d \in DecisionType
  BY DecisionTypes
<1>5. obj' = Applied(o, d) /\ obj.phase \notin Reclaimed /\ lease' = EnsureLease
  BY DEF Reconcile
<1>6. now' = now /\ seen'.sign = seen.sign
  <2>1. seen' = [seen EXCEPT !.renewed = seen.renewed /\ d.next # "Idle"]
    BY DEF Reconcile
  <2> HIDE DEF d
  <2> QED
    BY <1>1, <2>1 DEF Reconcile, TypeOK, Seen
<1>7. /\ obj'.claim = o.claim
      /\ obj'.phase = IF d.next = "" THEN o.phase ELSE d.next
      /\ obj'.reason = IF d.next \in Reclaimed THEN d.why ELSE o.reason
  <2> HIDE DEF o, d
  <2> QED
    BY <1>1, <1>2, <1>4, <1>5, AppliedTypes DEF TypeOK
<1>8. obj.reason = "None"
  BY <1>1, <1>5 DEF LeaseInv
<1>9. now \in Nat /\ lease \in Int /\ seen.sign \in Int /\ seen.sign <= now
  BY <1>1, Numbers DEF TypeOK, Time, Seen, Never
<1>10. obj.phase \in ClaimedPhase => lease # Never /\ lease >= seen.sign
  BY <1>1 DEF LeaseInv
<1>11. LeaseInv'
  <2>1. obj'.reason # "None" => obj'.phase \in Reclaimed
    BY <1>3, <1>7, <1>8 DEF Reclaimed
  <2>2. obj'.claim = "none" => lease' = Never
    BY <1>1, <1>3, <1>5, <1>7 DEF LeaseInv, EnsureLease
  <2>3. lease' # Never => lease' >= seen'.sign
    BY <1>1, <1>5, <1>6, <1>9 DEF LeaseInv, EnsureLease
  <2>4. obj'.phase \in ClaimedPhase => lease' # Never
    <3>1. obj'.phase \in ClaimedPhase => obj.phase \in ClaimedPhase \/ obj.claim = "held"
      <4> HIDE DEF o, d
      <4>1. /\ d.next = "Running" => o.claim = "held" \/ o.phase \in ClaimedPhase
            /\ d.next \in ClaimedPhase \ {"Running"} => o.phase \in ClaimedPhase
        BY Edges DEF d, ClaimedPhase
      <4> QED
        BY <1>3, <1>7, <4>1
    <3> QED
      BY <3>1, <1>5, <1>9, <1>10 DEF EnsureLease, Never
  <2> QED
    BY <2>1, <2>2, <2>3, <2>4 DEF LeaseInv
<1>12. HeartbeatLossIsReal'
  <2> SUFFICES ASSUME d.why = "HeartbeatLost"
               PROVE  now >= seen.sign + LeaseTTL + EffectiveGrace
    BY <1>3, <1>6, <1>7, <1>8 DEF HeartbeatLossIsReal, EffectiveGrace
  <2>1. obj.phase \in ClaimedPhase /\ ~LeaseHealthy(o)
    BY <1>3, Reasons
  <2> QED
    BY <2>1, <1>9, <1>10, Numbers DEF LeaseHealthy
<1>13. IdleReclaimIsReal'
  <2> SUFFICES ASSUME d.why = "IdleTimeout"
               PROVE  now >= seen.sign + IdleTimeout
    BY <1>3, <1>6, <1>7, <1>8 DEF IdleReclaimIsReal
  <2>1. obj.phase \in ClaimedPhase /\ IdleFor(o) >= IdleTimeout
    BY <1>3, Reasons
  <2>2. o.claimedAt \in Int
    BY <1>2, Numbers DEF Object, Time, Never
  <2> HIDE DEF o
  <2>3. /\ Max({0, o.claimedAt, lease}) \in Int
        /\ Max({0, o.claimedAt, lease}) >= lease
    BY <1>9, <2>2, MaxOfThree
  <2> QED
    BY <2>1, <2>3, <1>9, <1>10, Numbers DEF IdleFor
<1> QED
  BY <1>1, <1>11, <1>12, <1>13 DEF SilenceInv

(* Only the gateway moves the last sign of life, and it does so for a      *)
(* sandbox that is not reclaimed.                                          *)
LEMMA NextSilence ==
  ASSUME "leaseDeleted" \notin Faults, SilenceInv, [Next]_vars
  PROVE  SilenceInv'
<1>0. TypeOK
  BY DEF SilenceInv
<1>1. TypeOK /\ TypeOK' /\ LeaseInv /\ HeartbeatLossIsReal /\ IdleReclaimIsReal
  BY NextType DEF SilenceInv
<1>2. now \in Nat /\ lease \in Int /\ seen.sign \in Int /\ seen.sign <= now
  BY <1>0, Numbers DEF TypeOK, Time, Seen, Never
<1>3. ASSUME obj'.reason = obj.reason, obj'.phase = obj.phase,
             obj'.claim = obj.claim, lease' = lease, seen'.sign = seen.sign,
             now' \in {now, now + 1}
      PROVE  SilenceInv'
  <2>1. LeaseInv'
    BY <1>1, <1>3 DEF LeaseInv
  <2>2. now' \in Int /\ now' >= now
    BY <1>2, <1>3
  <2>3. HeartbeatLossIsReal'
    BY <1>1, <1>2, <1>3, <2>2, Numbers DEF HeartbeatLossIsReal, EffectiveGrace
  <2>4. IdleReclaimIsReal'
    BY <1>1, <1>2, <1>3, <2>2, Numbers DEF IdleReclaimIsReal
  <2> QED
    BY <1>1, <2>1, <2>3, <2>4 DEF SilenceInv
<1>4. CASE Reconcile
  BY <1>4, ReconcileSilence
<1>5. ASSUME obj'.phase = obj.phase, obj'.reason = obj.reason,
             obj.phase \notin Reclaimed,
             obj'.claim = obj.claim \/ obj'.claim # "none",
             lease' \in {lease, now}, lease' = Never => lease = Never,
             lease' = now => obj.claim # "none",
             obj'.claim = "none" => lease' = lease,
             lease' # Never => lease' >= seen'.sign
      PROVE  SilenceInv'
  <2>1. LeaseInv'
    BY <1>1, <1>5 DEF LeaseInv
  <2>2. obj'.reason = "None"
    BY <1>1, <1>5 DEF LeaseInv
  <2> QED
    BY <1>1, <2>1, <2>2 DEF SilenceInv, HeartbeatLossIsReal, IdleReclaimIsReal
<1>6. CASE InterruptedReconcile
  <2>1. /\ obj' = obj /\ seen' = seen /\ obj.phase \notin Reclaimed
        /\ lease' = EnsureLease
    BY <1>6 DEF InterruptedReconcile
  <2>2. lease # Never => lease >= seen.sign
    BY <1>1 DEF LeaseInv
  <2>3. now # Never
    BY <1>2 DEF Never
  <2>4. CASE obj.claim = "held" /\ lease = Never
    BY <1>2, <1>5, <2>1, <2>3, <2>4 DEF EnsureLease
  <2>5. CASE ~(obj.claim = "held" /\ lease = Never)
    <3>1. lease' = lease /\ now' = now
      BY <1>6, <2>1, <2>5 DEF EnsureLease, InterruptedReconcile
    <3> QED
      BY <1>3, <2>1, <3>1
  <2> QED
    BY <2>4, <2>5
<1>7. CASE Claim
  <2>1. PICK x \in Deadlines :
          obj' = [obj EXCEPT !.claim = "held", !.deadline = x]
    BY <1>7 DEF Claim
  <2>2. obj'.phase = obj.phase /\ obj'.reason = obj.reason /\ obj'.claim = "held"
    BY <1>1, <2>1 DEF TypeOK, Object
  <2>3. lease = Never /\ lease' = lease /\ obj.phase \notin Reclaimed
    BY <1>1, <1>7 DEF Claim, LeaseInv, Reclaimed
  <2>4. now # Never
    BY <1>2 DEF Never
  <2> QED
    BY <2>2, <2>3, <2>4, <1>5
<1>8. CASE Renew
  <2>1. seen'.sign = now
    BY <1>1, <1>8 DEF Renew, TypeOK, Seen
  <2> QED
    <3>1. /\ obj' = obj /\ obj.claim = "held" /\ obj.phase \notin Reclaimed
          /\ lease' = now
      BY <1>8 DEF Renew, Owned
    <3>2. now # Never
      BY <1>2 DEF Never
    <3> QED
      BY <1>2, <1>5, <2>1, <3>1, <3>2
<1>9. CASE Release
  <2>1. obj'.phase = obj.phase /\ obj'.reason = obj.reason /\ obj'.claim = "released"
    BY <1>1, <1>9 DEF Release, TypeOK, Object
  <2>2. lease' = lease /\ seen' = seen /\ obj.phase \notin Reclaimed
        /\ obj.claim = "held"
    BY <1>9 DEF Release, Owned
  <2>3. lease # Never => lease >= seen'.sign
    BY <1>1, <2>2 DEF LeaseInv
  <2> QED
    BY <1>5, <2>1, <2>2, <2>3
<1>10. ASSUME NEW h \in BOOLEAN, SetHibernation(h) PROVE SilenceInv'
  <2>1. /\ obj'.phase = obj.phase /\ obj'.reason = obj.reason
        /\ obj'.claim = obj.claim
    BY <1>1, <1>10 DEF SetHibernation, TypeOK, Object
  <2>2. seen'.sign = seen.sign
    BY <1>10 DEF SetHibernation
  <2> QED
    BY <1>3, <1>10, <2>1, <2>2 DEF SetHibernation
<1>11. CASE AgentReports
  <2>1. /\ obj'.phase = obj.phase /\ obj'.reason = obj.reason
        /\ obj'.claim = obj.claim
    BY <1>1, <1>11 DEF AgentReports, TypeOK, Object
  <2> QED
    BY <1>3, <1>11, <2>1 DEF AgentReports, AgentUnchanged
<1>12. CASE AgentLists \/ AgentWrites \/ AgentStops
  BY <1>3, <1>12 DEF AgentLists, AgentWrites, AgentStops, AgentUnchanged
<1>13. CASE PodReady \/ NodeChanges \/ RuntimeAppears
  BY <1>3, <1>13 DEF PodReady, NodeChanges, RuntimeAppears
<1>14. ASSUME NEW s, NEW f, PodGone(s, f) PROVE SilenceInv'
  BY <1>3, <1>14 DEF PodGone
<1>15. CASE LeaseDeleted
  BY <1>15 DEF LeaseDeleted
<1>16. CASE Tick
  BY <1>3, <1>16 DEF Tick
<1>17. CASE UNCHANGED vars
  BY <1>3, <1>17 DEF vars
<1> QED
  BY <1>4, <1>6, <1>7, <1>8, <1>9, <1>10, <1>11, <1>12, <1>13, <1>14, <1>15,
     <1>16, <1>17 DEF Next

(* No session ends for a lost heartbeat or for idleness while its client   *)
(* gave a sign of life within the promised time, whatever the configured   *)
(* times are and however late the controller runs. It takes that nobody    *)
(* else deletes leases.                                                    *)
THEOREM SilenceIsReal ==
  ASSUME "leaseDeleted" \notin Faults
  PROVE  Spec => []EndsAreReal
<1>1. Init => SilenceInv
  BY InitSilence
<1>2. SilenceInv /\ [Next]_vars => SilenceInv'
  BY NextSilence
<1>3. SilenceInv => EndsAreReal
  BY DEF SilenceInv, EndsAreReal
<1> QED
  BY <1>1, <1>2, <1>3, PTL DEF Spec

-----------------------------------------------------------------------------
(***************************************************************************)
(* The phase does not lie about the cgroup.                                *)
(***************************************************************************)
LEMMA InitFreeze == Init => FreezeInv
<1> SUFFICES ASSUME Init PROVE FreezeInv
  OBVIOUS
<1>1. obj.phase = "New" /\ obj.runtime = "None"
  <2>1. PICK c, d : obj = [phase |-> "New", claim |-> c, deadline |-> d,
                           claimedAt |-> Never, podName |-> FALSE,
                           runtime |-> "None", wake |-> FALSE, sleep |-> FALSE,
                           reason |-> "None"]
    BY Zenon DEF Init
  <2> QED
    BY <2>1
<1>2. frozen = FALSE /\ agent = "idle"
  BY Zenon DEF Init
<1> QED
  BY <1>1, <1>2 DEF FreezeInv, Awake

(* The controller changes the phase only along an edge, and each edge that *)
(* leads to or from a frozen phase waits for the report of the agent.      *)
LEMMA ReconcileFreeze ==
  ASSUME TypeOK, FreezeInv, Reconcile PROVE FreezeInv'
<1> DEFINE o == BindClaimStatus(obj)
           d == NextPhase(o)
<1>1. o \in Object /\ o.phase = obj.phase /\ o.runtime = obj.runtime
  BY BindTypes DEF TypeOK, Object
<1>2. d \in DecisionType
  BY DecisionTypes
<1>3. /\ obj' = Applied(o, d) /\ obj.phase \notin Reclaimed
      /\ frozen' = frozen /\ agent' = agent
      /\ pod' = IF d.next = "Provisioning" THEN EnsurePod ELSE pod
  BY DEF Reconcile
<1>4. /\ obj'.runtime = obj.runtime
      /\ obj'.phase = IF d.next = "" THEN obj.phase ELSE d.next
  <2> HIDE DEF o, d
  <2> QED
    BY <1>1, <1>2, <1>3, AppliedTypes DEF TypeOK
<1>5. d.next \in Phase \cup {""}
  BY <1>2 DEF DecisionType
<1>6. d.next = "Provisioning" \/ pod' = pod
  BY <1>3
<1>7. d.next = "Provisioning" => obj.phase = "New"
  BY <1>1, Edges
<1> HIDE DEF o, d
<1>8. CASE d.next \in {""} \cup Reclaimed
  BY <1>3, <1>4, <1>6, <1>8 DEF FreezeInv, Awake, Reclaimed
<1>9. CASE d.next = "Provisioning"
  BY <1>3, <1>4, <1>7, <1>9 DEF FreezeInv, Awake
<1>10. CASE d.next \in {"Ready", "Running"}
  <2>1. /\ obj.phase \in {"Provisioning", "Ready"} \/ obj.runtime = "Active"
        /\ obj.phase \in {"Provisioning", "Ready", "Resuming"}
        /\ obj.phase = "Resuming" => obj.runtime = "Active"
        /\ pod.state = "pending" => obj.phase # "Provisioning"
    BY <1>1, <1>10, Edges DEF d
  <2> QED
    BY <1>3, <1>4, <1>6, <1>10, <2>1 DEF FreezeInv, Awake, Reclaimed
<1>11. CASE d.next \in {"Idle", "Hibernating"}
  <2>1. obj.phase \in {"Running", "Idle"}
    BY <1>1, <1>11, Edges DEF d
  <2> QED
    BY <1>3, <1>4, <1>6, <1>11, <2>1 DEF FreezeInv, Awake, Reclaimed
<1>12. CASE d.next = "Hibernated"
  <2>1. obj.phase = "Hibernating" /\ obj.runtime = "Frozen"
    BY <1>1, <1>12, Edges DEF d
  <2> QED
    BY <1>3, <1>4, <1>6, <1>12, <2>1 DEF FreezeInv, Awake, Reclaimed
<1>13. CASE d.next = "Resuming"
  <2>1. obj.phase = "Hibernated"
    BY <1>1, <1>13, Edges DEF d
  <2> QED
    BY <1>3, <1>4, <1>6, <1>13, <2>1 DEF FreezeInv, Awake, Reclaimed
<1>14. d.next # "New"
  BY Edges DEF d
<1> QED
  BY <1>5, <1>8, <1>9, <1>10, <1>11, <1>12, <1>13, <1>14 DEF Phase, Reclaimed

LEMMA NextFreeze == TypeOK /\ FreezeInv /\ [Next]_vars => FreezeInv'
<1> SUFFICES ASSUME TypeOK, FreezeInv, [Next]_vars PROVE FreezeInv'
  OBVIOUS
<1>1. ASSUME obj'.phase = obj.phase, obj'.runtime = obj.runtime,
             frozen' = frozen, agent' = agent,
             pod'.state = pod.state
      PROVE  FreezeInv'
  BY <1>1 DEF FreezeInv
<1>2. CASE Reconcile
  BY <1>2, ReconcileFreeze
<1>3. CASE InterruptedReconcile
  <2>1. obj' = obj /\ frozen' = frozen /\ agent' = agent
    BY <1>3 DEF InterruptedReconcile
  <2>2. pod' = pod \/ obj.phase = "New"
    BY <1>3 DEF InterruptedReconcile
  <2> QED
    BY <1>1, <2>1, <2>2 DEF FreezeInv, Awake
<1>4. CASE Claim
  <2>1. PICK x \in Deadlines :
          obj' = [obj EXCEPT !.claim = "held", !.deadline = x]
    BY <1>4 DEF Claim
  <2>2. obj'.phase = obj.phase /\ obj'.runtime = obj.runtime
    BY <2>1 DEF TypeOK, Object
  <2> QED
    BY <1>1, <1>4, <2>2 DEF Claim
<1>5. CASE Renew
  BY <1>1, <1>5 DEF Renew
<1>6. CASE Release
  <2>1. obj'.phase = obj.phase /\ obj'.runtime = obj.runtime
    BY <1>6 DEF Release, TypeOK, Object
  <2> QED
    BY <1>1, <1>6, <2>1 DEF Release
<1>7. ASSUME NEW h \in BOOLEAN, SetHibernation(h) PROVE FreezeInv'
  <2>1. obj'.phase = obj.phase /\ obj'.runtime = obj.runtime
    BY <1>7 DEF SetHibernation, TypeOK, Object
  <2> QED
    BY <1>1, <1>7, <2>1 DEF SetHibernation
<1>8. CASE AgentLists
  <2>1. obj' = obj /\ pod' = pod /\ frozen' = frozen
    BY <1>8 DEF AgentLists, AgentUnchanged
  <2>2. \/ /\ obj.phase = "Hibernating" /\ obj.runtime # "Frozen"
           /\ agent' = "freeze"
        \/ /\ obj.phase = "Resuming" /\ obj.runtime # "Active"
           /\ agent' = "thaw"
    BY <1>8 DEF AgentLists
  <2> QED
    BY <2>1, <2>2 DEF FreezeInv, Awake
<1>9. CASE AgentWrites
  <2>1. obj' = obj /\ pod' = pod /\ agent \in {"freeze", "thaw"}
    BY <1>9 DEF AgentWrites, AgentUnchanged
  <2>2. CASE pod.state = "ready"
    <3>1. /\ agent' = (IF agent = "freeze" THEN "frozen" ELSE "thawed")
          /\ frozen' = (agent = "freeze")
      BY <1>9, <2>2 DEF AgentWrites
    <3>2. CASE agent = "freeze"
      BY <2>1, <3>1, <3>2 DEF FreezeInv, Awake
    <3>3. CASE agent = "thaw"
      BY <2>1, <3>1, <3>3 DEF FreezeInv, Awake
    <3> QED
      BY <2>1, <3>2, <3>3
  <2>3. CASE pod.state # "ready"
    <3>1. agent' = "idle" /\ frozen' = frozen
      BY <1>9, <2>3 DEF AgentWrites
    <3> QED
      BY <2>1, <2>3, <3>1 DEF FreezeInv, Awake
  <2> QED
    BY <2>2, <2>3
<1>10. CASE AgentReports
  <2>1. /\ agent \in {"frozen", "thawed"} /\ agent' = "idle"
        /\ frozen' = frozen /\ pod' = pod
    BY <1>10 DEF AgentReports, AgentUnchanged
  <2>2. /\ obj'.phase = obj.phase
        /\ obj'.runtime = IF agent = "frozen" THEN "Frozen" ELSE "Active"
    BY <1>10 DEF AgentReports, TypeOK, Object
  <2> QED
    BY <2>1, <2>2 DEF FreezeInv, Awake
<1>11. CASE AgentStops
  <2>1. /\ agent # "idle" /\ agent' = "idle" /\ obj' = obj
        /\ frozen' = frozen /\ pod' = pod
    BY <1>11 DEF AgentStops, AgentUnchanged
  <2> QED
    BY <2>1 DEF FreezeInv, Awake
<1>12. CASE PodReady
  <2>1. /\ pod.state = "pending" /\ pod'.state = "ready"
        /\ obj' = obj /\ frozen' = frozen /\ agent' = agent
    BY <1>12 DEF PodReady, TypeOK, Pod
  <2> QED
    BY <2>1 DEF FreezeInv, Awake, Reclaimed
<1>13. ASSUME NEW s \in {"absent", "ended"}, NEW f, PodGone(s, f) PROVE FreezeInv'
  <2>1. /\ pod'.state = s /\ frozen' = FALSE
        /\ obj' = obj /\ agent' = agent
    BY <1>13 DEF PodGone, TypeOK, Pod
  <2> QED
    BY <2>1 DEF FreezeInv, Awake
<1>14. CASE NodeChanges
  <2>1. pod'.state = pod.state
    BY <1>14 DEF NodeChanges, TypeOK, Pod
  <2> QED
    BY <1>1, <1>14, <2>1 DEF NodeChanges
<1>15. CASE RuntimeAppears
  <2>1. pod'.state = pod.state
    BY <1>15 DEF RuntimeAppears, TypeOK, Pod
  <2> QED
    BY <1>1, <1>15, <2>1 DEF RuntimeAppears
<1>16. CASE LeaseDeleted \/ Tick \/ UNCHANGED vars
  BY <1>1, <1>16 DEF LeaseDeleted, Tick, vars
<1> QED
  BY <1>2, <1>3, <1>4, <1>5, <1>6, <1>7, <1>8, <1>9, <1>10, <1>11, <1>12,
     <1>13, <1>14, <1>15, <1>16 DEF Next

(* A Running session is never left frozen, and a Hibernated one is frozen  *)
(* while its Pod runs, through restarts of the agent, losses of Pod, node  *)
(* and lease, and reconcile rounds at any moment.                          *)
THEOREM FreezeIsReal == Spec => []HibernationIsReal
<1>1. Init => TypeOK /\ FreezeInv
  BY InitType, InitFreeze
<1>2. TypeOK /\ FreezeInv /\ [Next]_vars => (TypeOK /\ FreezeInv)'
  BY NextType, NextFreeze
<1>3. FreezeInv => HibernationIsReal
  BY DEF FreezeInv, HibernationIsReal, Awake
<1> QED
  BY <1>1, <1>2, <1>3, PTL DEF Spec

-----------------------------------------------------------------------------
(***************************************************************************)
(* Freeze first, reclaim later.                                            *)
(***************************************************************************)
FreezeFirst == spec.hibernation /\ 0 < HibernateAfter /\ HibernateAfter < IdleTimeout

(* A session that ended as idle stays frozen: the agent is not on its way. *)
EndInv ==
  /\ obj.reason # "None" => obj.phase \in Reclaimed
  /\ FreezeFirst /\ obj.reason = "IdleTimeout"
       => obj.runtime = "Frozen" /\ agent = "idle"

(* Idleness ends a session that is frozen, or that is not due to be.       *)
LEMMA IdleEnds ==
  ASSUME NEW o, NextPhase(o).why = "IdleTimeout"
  PROVE  /\ IdleFor(o) >= IdleTimeout
         /\ \/ o.phase = "Hibernated"
            \/ o.phase \in {"Running", "Idle"} /\ ~HibernateDue(o)
<1> USE DEF Stay, Transition, Reclaim
<1>1. CASE o.phase = "Provisioning"
  BY <1>1 DEF NextPhase, DecideProvisioning
<1>2. CASE o.phase = "Ready"
  BY <1>2 DEF NextPhase, DecideStock
<1>3. CASE o.phase \in {"Running", "Idle"}
  BY <1>3 DEF NextPhase, DecideClaimed, DecideIdle, HeartbeatLost
<1>4. CASE o.phase = "Hibernating"
  BY <1>4 DEF NextPhase, DecideHibernating
<1>5. CASE o.phase = "Hibernated"
  BY <1>5 DEF NextPhase, DecideHibernated
<1>6. CASE o.phase = "Resuming"
  BY <1>6 DEF NextPhase, DecideResuming
<1>7. CASE o.phase \notin {"Provisioning", "Ready", "Running", "Idle",
                           "Hibernating", "Hibernated", "Resuming"}
  BY <1>7 DEF NextPhase
<1> QED
  BY <1>1, <1>2, <1>3, <1>4, <1>5, <1>6, <1>7

LEMMA ReconcileEnd ==
  ASSUME TypeOK, FreezeInv, EndInv, Reconcile PROVE EndInv'
<1> DEFINE o == BindClaimStatus(obj)
           d == NextPhase(o)
<1>1. /\ o \in Object /\ o.phase = obj.phase /\ o.runtime = obj.runtime
      /\ o.reason = obj.reason
  BY BindTypes DEF TypeOK, Object
<1>2. d \in DecisionType
  BY DecisionTypes
<1>3. /\ obj' = Applied(o, d) /\ obj.phase \notin Reclaimed
      /\ agent' = agent /\ spec' = spec
  BY DEF Reconcile
<1>4. /\ obj'.runtime = obj.runtime
      /\ obj'.phase = IF d.next = "" THEN obj.phase ELSE d.next
      /\ obj'.reason = IF d.next \in Reclaimed THEN d.why ELSE obj.reason
  <2> HIDE DEF o, d
  <2> QED
    BY <1>1, <1>2, <1>3, AppliedTypes DEF TypeOK
<1>5. obj.reason = "None"
  BY <1>3 DEF EndInv
<1>6. obj'.reason # "None" => obj'.phase \in Reclaimed
  BY <1>4, <1>5 DEF Reclaimed
<1>7. ASSUME FreezeFirst, d.why = "IdleTimeout"
      PROVE  obj.runtime = "Frozen" /\ agent = "idle"
  <2>1. IdleFor(o) >= IdleTimeout
    BY <1>7, IdleEnds
  <2>2. CASE obj.phase = "Hibernated"
    BY <2>2 DEF FreezeInv
  <2>3. CASE obj.phase \in {"Running", "Idle"} /\ ~HibernateDue(o)
    <3>1. o.claimedAt \in Int /\ lease \in Int /\ now \in Int
      BY <1>1, Numbers DEF TypeOK, Object, Time, Never
    <3> HIDE DEF o
    <3>2. IdleFor(o) \in Int
      <4>1. /\ Max({0, o.claimedAt, lease}) \in Int
            /\ Max({0, o.claimedAt, lease}) >= lease
        BY <3>1, MaxOfThree
      <4> QED
        BY <3>1, <4>1 DEF IdleFor
    <3>3. HibernateAfter \in Nat /\ IdleTimeout \in Nat
      BY LifecycleAssumption
    <3>4. o.runtime # "Frozen"
      BY <1>1, <2>3 DEF FreezeInv, Awake
    <3>5. HibernateDue(o)
      BY <1>7, <2>1, <3>2, <3>3, <3>4 DEF HibernateDue, FreezeFirst
    <3> QED
      BY <2>3, <3>5
  <2> QED
    BY <1>1, <1>7, <2>2, <2>3, IdleEnds
<1>8. FreezeFirst' = FreezeFirst
  BY <1>3 DEF FreezeFirst
<1> HIDE DEF o, d
<1> QED
  BY <1>3, <1>4, <1>5, <1>6, <1>7, <1>8 DEF EndInv

LEMMA NextEnd == TypeOK /\ FreezeInv /\ EndInv /\ [Next]_vars => EndInv'
<1> SUFFICES ASSUME TypeOK, FreezeInv, EndInv, [Next]_vars PROVE EndInv'
  OBVIOUS
<1>1. ASSUME obj'.phase = obj.phase, obj'.runtime = obj.runtime,
             obj'.reason = obj.reason, agent' \in {agent, "idle"}, spec' = spec
      PROVE  EndInv'
  BY <1>1 DEF EndInv, FreezeFirst
<1>2. CASE Reconcile
  BY <1>2, ReconcileEnd
<1>3. CASE InterruptedReconcile
  BY <1>1, <1>3 DEF InterruptedReconcile
<1>4. CASE Claim
  <2>1. PICK x \in Deadlines :
          obj' = [obj EXCEPT !.claim = "held", !.deadline = x]
    BY <1>4 DEF Claim
  <2>2. /\ obj'.phase = obj.phase /\ obj'.runtime = obj.runtime
        /\ obj'.reason = obj.reason
    BY <2>1 DEF TypeOK, Object
  <2> QED
    BY <1>1, <1>4, <2>2 DEF Claim
<1>5. CASE Renew
  BY <1>1, <1>5 DEF Renew
<1>6. CASE Release
  <2>1. /\ obj'.phase = obj.phase /\ obj'.runtime = obj.runtime
        /\ obj'.reason = obj.reason
    BY <1>6 DEF Release, TypeOK, Object
  <2> QED
    BY <1>1, <1>6, <2>1 DEF Release
<1>7. ASSUME NEW h \in BOOLEAN, SetHibernation(h) PROVE EndInv'
  <2>1. /\ obj'.phase = obj.phase /\ obj'.runtime = obj.runtime
        /\ obj'.reason = obj.reason
    BY <1>7 DEF SetHibernation, TypeOK, Object
  <2> QED
    BY <1>1, <1>7, <2>1 DEF SetHibernation
<1>8. CASE AgentLists \/ AgentWrites
  <2>1. obj' = obj /\ spec' = spec
    BY <1>8 DEF AgentLists, AgentWrites, AgentUnchanged
  <2>2. obj.phase \notin Reclaimed \/ agent' = agent \/ agent # "idle"
    BY <1>8 DEF AgentLists, AgentWrites, Reclaimed
  <2> QED
    BY <2>1, <2>2 DEF EndInv, FreezeFirst
<1>9. CASE AgentReports
  <2>1. /\ agent # "idle" /\ obj'.phase = obj.phase
        /\ obj'.reason = obj.reason /\ spec' = spec
    BY <1>9 DEF AgentReports, AgentUnchanged, TypeOK, Object
  <2> QED
    BY <2>1 DEF EndInv, FreezeFirst
<1>10. CASE AgentStops
  BY <1>1, <1>10 DEF AgentStops, AgentUnchanged
<1>11. ASSUME NEW s, NEW f, PodGone(s, f) PROVE EndInv'
  BY <1>1, <1>11 DEF PodGone
<1>12. CASE \/ PodReady \/ NodeChanges \/ RuntimeAppears
            \/ LeaseDeleted \/ Tick \/ UNCHANGED vars
  BY <1>1, <1>12
     DEF PodReady, NodeChanges, RuntimeAppears, LeaseDeleted, Tick, vars
<1> QED
  BY <1>2, <1>3, <1>4, <1>5, <1>6, <1>7, <1>8, <1>9, <1>10, <1>11, <1>12
     DEF Next

(* Where hibernation comes first, no session ends as idle before its       *)
(* sandbox was frozen, and nothing thaws it on the way out: for every      *)
(* choice of the times, under every fault, however late the controller is. *)
THEOREM FreezePrecedesReclaim == Spec => []FreezeBeforeReclaim
<1>1. Init => TypeOK /\ FreezeInv /\ EndInv
  <2>1. Init => obj.reason = "None"
    <3> SUFFICES ASSUME Init PROVE obj.reason = "None"
      OBVIOUS
    <3>1. PICK c, x : obj = [phase |-> "New", claim |-> c, deadline |-> x,
                             claimedAt |-> Never, podName |-> FALSE,
                             runtime |-> "None", wake |-> FALSE,
                             sleep |-> FALSE, reason |-> "None"]
      BY Zenon DEF Init
    <3> QED
      BY <3>1
  <2> QED
    BY <2>1, InitType, InitFreeze DEF EndInv
<1>2. TypeOK /\ FreezeInv /\ EndInv /\ [Next]_vars
        => (TypeOK /\ FreezeInv /\ EndInv)'
  BY NextType, NextFreeze, NextEnd
<1>3. EndInv => FreezeBeforeReclaim
  BY DEF EndInv, FreezeBeforeReclaim, FreezeFirst
<1> QED
  BY <1>1, <1>2, <1>3, PTL DEF Spec

-----------------------------------------------------------------------------
(***************************************************************************)
(* Every sandbox is on its way to the end.                                 *)
(***************************************************************************)
SameObject ==
  /\ obj'.phase = obj.phase /\ obj'.claim = obj.claim
  /\ obj'.claimedAt = obj.claimedAt /\ obj'.reason = obj.reason

(* Rounds, claims and releases apart, no step changes any of these fields. *)
LEMMA OtherSteps ==
  ASSUME TypeOK, [Next]_vars, ~Reconcile, ~Claim, ~Release PROVE SameObject
<1>1. ASSUME obj' = obj PROVE SameObject
  BY <1>1 DEF SameObject
<1>2. ASSUME NEW h \in BOOLEAN, SetHibernation(h) PROVE SameObject
  BY <1>2 DEF SetHibernation, SameObject, TypeOK, Object
<1>3. CASE AgentReports
  BY <1>3 DEF AgentReports, SameObject, TypeOK, Object
<1>4. CASE InterruptedReconcile \/ Renew \/ Tick \/ UNCHANGED vars
  BY <1>1, <1>4 DEF InterruptedReconcile, Renew, Tick, vars
<1>5. CASE AgentLists \/ AgentWrites \/ AgentStops
  BY <1>1, <1>5 DEF AgentLists, AgentWrites, AgentStops
<1>6. CASE PodReady \/ NodeChanges \/ RuntimeAppears \/ LeaseDeleted
  BY <1>1, <1>6 DEF PodReady, NodeChanges, RuntimeAppears, LeaseDeleted
<1>7. ASSUME NEW s, NEW f, PodGone(s, f) PROVE SameObject
  BY <1>1, <1>7 DEF PodGone
<1> QED
  BY <1>2, <1>3, <1>4, <1>5, <1>6, <1>7 DEF Next

(* How far a sandbox has come. Before its TTL a session may go round the   *)
(* last phases but one as often as it likes.                               *)
Rank(p) ==
  CASE p = "New"                         -> 0
    [] p = "Provisioning"                -> 1
    [] p \in {"Ready", "Hibernating"}    -> 2
    [] p = "Resuming"                    -> 3
    [] p \in {"Running", "Idle", "Hibernated"} -> 4
    [] OTHER                             -> 5

LEMMA Ranks ==
  \A p : /\ p = "New" => Rank(p) = 0
         /\ p = "Provisioning" => Rank(p) = 1
         /\ p \in {"Ready", "Hibernating"} => Rank(p) = 2
         /\ p = "Resuming" => Rank(p) = 3
         /\ p \in {"Running", "Idle", "Hibernated"} => Rank(p) = 4
         /\ p \in {"Terminating", "Failed"} => Rank(p) = 5
BY DEF Rank

(* Where decisions lead that leave a choice. *)
LEMMA Later ==
  ASSUME NEW p, NEW q,
         \/ p = "Provisioning" /\ q \in {"Ready", "Running", "Failed"}
         \/ p = "Ready" /\ q \in {"Running", "Terminating", "Failed"}
         \/ p = "Hibernating" /\ q \in {"Hibernated", "Terminating"}
         \/ p = "Resuming" /\ q \in {"Running", "Terminating"}
  PROVE  Rank(q) > Rank(p)
<1>1. CASE p = "Provisioning" /\ q = "Ready"
  BY <1>1, Ranks
<1>2. CASE p \in {"Provisioning", "Ready", "Resuming"} /\ q = "Running"
  BY <1>2, Ranks
<1>3. CASE p \in {"Provisioning", "Ready", "Hibernating", "Resuming"}
           /\ q \in {"Terminating", "Failed"}
  BY <1>3, Ranks
<1>4. CASE p = "Hibernating" /\ q = "Hibernated"
  BY <1>4, Ranks
<1> QED
  BY <1>1, <1>2, <1>3, <1>4

(* A decision after the TTL leads on, or waits.                            *)
LEMMA ExpiredDecision ==
  ASSUME NEW o, TTLExpired, o.phase \in Phase \ Reclaimed,
         NextPhase(o).next # ""
  PROVE  Rank(NextPhase(o).next) > Rank(o.phase)
<1> SUFFICES ASSUME NEW p, p = o.phase, NEW q, q = NextPhase(o).next
             PROVE  Rank(q) > Rank(p)
  OBVIOUS
<1> USE DEF Stay, Transition, Reclaim
<1>1. CASE o.phase = "New"
  <2>1. q = "Provisioning"
    BY <1>1 DEF NextPhase
  <2> QED
    BY <1>1, <2>1, Ranks
<1>2. CASE o.phase = "Provisioning"
  <2>1. q \in {"Failed", "Running", "Ready"}
    BY <1>2 DEF NextPhase, DecideProvisioning
  <2> QED
    BY <1>2, <2>1, Later
<1>3. CASE o.phase = "Ready"
  <2>1. q \in {"Failed", "Running", "Terminating"}
    BY <1>3 DEF NextPhase, DecideStock
  <2> QED
    BY <1>3, <2>1, Later
<1>4. CASE o.phase \in {"Running", "Idle"}
  <2>1. q = "Terminating"
    BY <1>4 DEF NextPhase, DecideClaimed
  <2> QED
    BY <1>4, <2>1, Ranks
<1>5. CASE o.phase = "Hibernating"
  <2>1. q \in {"Hibernated", "Terminating"}
    BY <1>5 DEF NextPhase, DecideHibernating
  <2> QED
    BY <1>5, <2>1, Later
<1>6. CASE o.phase = "Hibernated"
  <2>1. q = "Terminating"
    BY <1>6 DEF NextPhase, DecideHibernated
  <2> QED
    BY <1>6, <2>1, Ranks
<1>7. CASE o.phase = "Resuming"
  <2>1. q \in {"Running", "Terminating"}
    BY <1>7 DEF NextPhase, DecideResuming
  <2> QED
    BY <1>7, <2>1, Later
<1> QED
  BY <1>1, <1>2, <1>3, <1>4, <1>5, <1>6, <1>7 DEF Phase, Reclaimed

(* After its TTL no step, whoever takes it, leads a sandbox to a phase     *)
(* that it has been through: it changes its phase five times at most until *)
(* it is reclaimed. That it does change it is for the model checker to say *)
(* (SandboxEnds), and there is a phase in which it may not (Hibernating).  *)
ExpiredMovesOn ==
  [][TTLExpired /\ obj'.phase # obj.phase => Rank(obj'.phase) > Rank(obj.phase)]_vars

THEOREM ExpiredAreEnding == Spec => ExpiredMovesOn
<1>1. ASSUME TypeOK, [Next]_vars, TTLExpired, obj'.phase # obj.phase
      PROVE  Rank(obj'.phase) > Rank(obj.phase)
  <2>1. CASE Claim
    <3>1. PICK x \in Deadlines :
            obj' = [obj EXCEPT !.claim = "held", !.deadline = x]
      BY <2>1 DEF Claim
    <3> QED
      BY <1>1, <3>1 DEF TypeOK, Object
  <2>2. CASE Release
    BY <1>1, <2>2 DEF Release, TypeOK, Object
  <2>3. CASE Reconcile
    <3> DEFINE o == BindClaimStatus(obj)
               d == NextPhase(o)
    <3>1. o \in Object /\ o.phase = obj.phase
      BY <1>1, BindTypes DEF TypeOK, Object
    <3>2. d \in DecisionType
      BY DecisionTypes
    <3>3. obj' = Applied(o, d) /\ obj.phase \in Phase \ Reclaimed
      BY <1>1, <2>3 DEF Reconcile, TypeOK, Object
    <3> HIDE DEF o, d
    <3>4. obj'.phase = IF d.next = "" THEN o.phase ELSE d.next
      BY <1>1, <3>1, <3>2, <3>3, AppliedTypes DEF TypeOK
    <3>5. d.next # "" /\ obj'.phase = d.next
      BY <1>1, <3>1, <3>4
    <3> QED
      BY <1>1, <3>1, <3>3, <3>5, ExpiredDecision DEF d
  <2>4. CASE ~Reconcile /\ ~Claim /\ ~Release
    BY <1>1, <2>4, OtherSteps DEF SameObject
  <2> QED
    BY <2>1, <2>2, <2>3, <2>4
<1>2. TypeOK /\ [Next]_vars
        => [TTLExpired /\ obj'.phase # obj.phase
              => Rank(obj'.phase) > Rank(obj.phase)]_vars
  BY <1>1
<1> QED
  BY <1>2, TypeCorrect, PTL DEF Spec, ExpiredMovesOn
=============================================================================
