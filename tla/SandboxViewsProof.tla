-------------------------- MODULE SandboxViewsProof --------------------------
(* SandboxLifecycle follows the modules that see a sandbox from further    *)
(* away, for every value of its constants and under every fault.           *)
EXTENDS SandboxViews, SandboxLifecycleProof

-----------------------------------------------------------------------------
(* A claim that no round has dated yet is one on a new sandbox or on stock.*)
BoundInv ==
  obj.claim = "held" /\ obj.claimedAt = Never => obj.phase \in {"New", "Ready"}

ViewInv == TypeOK /\ FreezeInv /\ EndInv /\ BoundInv

SessionEnds == {"HardDeadline", "NodeLost", "TTLExpired", "HeartbeatLost",
                "IdleTimeout"}

Usable == PodExists /\ NodeReady

(* Which phase p and reason r a round may leave behind for an object o in  *)
(* its claim and phase: the table that all three views read.               *)
Table(o, p, r) ==
  /\ o.phase = "New" => p = "Provisioning" /\ r = "None"
  /\ o.phase = "Provisioning" =>
       \/ p = "Provisioning" /\ r = "None"
       \/ p = "Failed" /\ r \in {"NodeLost", "RuntimeError"}
       \/ Usable /\ o.claim = "held" /\ p = "Running" /\ r = "None"
       \/ Usable /\ o.claim # "held" /\ p = "Ready" /\ r = "None"
  /\ o.phase = "Ready" =>
       \/ o.claim = "held" /\ p = "Running" /\ r = "None"
       \/ o.claim # "held" /\ ~Usable /\ p = "Failed" /\ r = "NodeLost"
       \/ o.claim # "held" /\ Usable /\ p = "Ready" /\ r = "None"
       \/ o.claim # "held" /\ Usable /\ p = "Terminating" /\ r = "StockRotation"
  /\ o.phase \in ClaimedPhase =>
       \/ p \in ClaimedPhase /\ r = "None"
       \/ o.claim # "held" /\ p = "Terminating" /\ r = "ClientReleased"
       \/ p = "Terminating" /\ r \in SessionEnds

Then(o, d)   == IF d.next = "" THEN o.phase ELSE d.next
Reason(d)    == IF d.next \in Reclaimed THEN d.why ELSE "None"

LEMMA AfterDecision ==
  ASSUME NEW o, NEW d
  PROVE  /\ d.next = "" => Then(o, d) = o.phase /\ Reason(d) = "None"
         /\ d.next \in Reclaimed => Then(o, d) = d.next /\ Reason(d) = d.why
         /\ d.next \notin Reclaimed \cup {""} =>
              Then(o, d) = d.next /\ Reason(d) = "None"
BY DEF Then, Reason, Reclaimed

LEMMA DecisionsInTable ==
  ASSUME NEW o
  PROVE  Table(o, Then(o, NextPhase(o)), Reason(NextPhase(o)))
<1> DEFINE d == NextPhase(o)
           p == Then(o, d)
           r == Reason(d)
<1> SUFFICES Table(o, p, r)
  OBVIOUS
<1>1. /\ d.next = "" => p = o.phase /\ r = "None"
      /\ d.next \in Reclaimed => p = d.next /\ r = d.why
      /\ d.next \notin Reclaimed \cup {""} => p = d.next /\ r = "None"
  BY AfterDecision
<1> USE DEF Stay, Transition, Reclaim
<1>2. CASE o.phase = "New"
  <2>1. d.next = "Provisioning"
    BY <1>2 DEF NextPhase
  <2> HIDE DEF d, p, r
  <2> QED
    BY <1>1, <1>2, <2>1 DEF Table, ClaimedPhase, Reclaimed
<1>3. CASE o.phase = "Provisioning"
  <2>1. \/ d.next = ""
        \/ d.next = "Failed" /\ d.why \in {"NodeLost", "RuntimeError"}
        \/ Usable /\ o.claim = "held" /\ d.next = "Running"
        \/ Usable /\ o.claim # "held" /\ d.next = "Ready"
    BY <1>3 DEF NextPhase, DecideProvisioning, Usable
  <2> HIDE DEF d, p, r
  <2>2. \/ p = "Provisioning" /\ r = "None"
        \/ p = "Failed" /\ r \in {"NodeLost", "RuntimeError"}
        \/ Usable /\ o.claim = "held" /\ p = "Running" /\ r = "None"
        \/ Usable /\ o.claim # "held" /\ p = "Ready" /\ r = "None"
    BY <1>1, <1>3, <2>1 DEF Reclaimed
  <2> QED
    BY <1>3, <2>2 DEF Table, ClaimedPhase
<1>4. CASE o.phase = "Ready"
  <2>1. \/ o.claim = "held" /\ d.next = "Running"
        \/ o.claim # "held" /\ ~Usable /\ d.next = "Failed" /\ d.why = "NodeLost"
        \/ o.claim # "held" /\ Usable /\ d.next = ""
        \/ /\ o.claim # "held" /\ Usable
           /\ d.next = "Terminating" /\ d.why = "StockRotation"
    BY <1>4 DEF NextPhase, DecideStock, Usable
  <2> HIDE DEF d, p, r
  <2>2. \/ o.claim = "held" /\ p = "Running" /\ r = "None"
        \/ o.claim # "held" /\ ~Usable /\ p = "Failed" /\ r = "NodeLost"
        \/ o.claim # "held" /\ Usable /\ p = "Ready" /\ r = "None"
        \/ o.claim # "held" /\ Usable /\ p = "Terminating" /\ r = "StockRotation"
    BY <1>1, <1>4, <2>1 DEF Reclaimed
  <2> QED
    BY <1>4, <2>2 DEF Table, ClaimedPhase
<1>5. CASE o.phase \in ClaimedPhase
  <2>1. \/ d.next \in ClaimedPhase \cup {""}
        \/ o.claim # "held" /\ d.next = "Terminating" /\ d.why = "ClientReleased"
        \/ d.next = "Terminating" /\ d.why \in SessionEnds
    <3> USE DEF NextPhase, SessionEnds, ClaimedPhase
    <3>1. CASE o.phase \in {"Running", "Idle"}
      BY <3>1 DEF DecideClaimed, DecideIdle, HeartbeatLost
    <3>2. CASE o.phase = "Hibernating"
      BY <3>2 DEF DecideHibernating
    <3>3. CASE o.phase = "Hibernated"
      BY <3>3 DEF DecideHibernated
    <3>4. CASE o.phase = "Resuming"
      BY <3>4 DEF DecideResuming
    <3> QED
      BY <1>5, <3>1, <3>2, <3>3, <3>4
  <2> HIDE DEF d, p, r
  <2>2. \/ p \in ClaimedPhase /\ r = "None"
        \/ o.claim # "held" /\ p = "Terminating" /\ r = "ClientReleased"
        \/ p = "Terminating" /\ r \in SessionEnds
    BY <1>1, <1>5, <2>1 DEF Reclaimed, ClaimedPhase
  <2> QED
    BY <1>5, <2>2 DEF Table, ClaimedPhase
<1>6. CASE o.phase \notin {"New", "Provisioning", "Ready"} \cup ClaimedPhase
  <2> HIDE DEF p, r
  <2> QED
    BY <1>6 DEF Table
<1> QED
  BY <1>2, <1>3, <1>4, <1>5, <1>6

(* The fields that the views read, before and after a round.               *)
RoundEffect ==
  /\ obj.phase \in Phase \ Reclaimed /\ obj.reason = "None"
  /\ Table(obj, obj'.phase, obj'.reason)
  /\ obj'.claim = obj.claim
  /\ obj'.claimedAt # Never <=> obj.claimedAt # Never \/ obj.claim = "held"

LEMMA RoundHasEffect ==
  ASSUME ViewInv, Reconcile PROVE RoundEffect
<1> DEFINE o == BindClaimStatus(obj)
           d == NextPhase(o)
<1>1. TypeOK /\ obj \in Object /\ now \in Time /\ pod \in Pod
  BY DEF ViewInv, TypeOK
<1>2. o \in Object /\ o = [obj EXCEPT !.claimedAt = o.claimedAt]
  BY <1>1, BindTypes
<1>3. o.phase = obj.phase /\ o.claim = obj.claim /\ o.reason = obj.reason
  BY <1>1, <1>2 DEF Object
<1>4. o.claimedAt # Never <=> obj.claimedAt # Never \/ obj.claim = "held"
  <2>1. now # Never
    BY <1>1, Numbers DEF Time, Never
  <2> QED
    BY <1>1, <2>1 DEF BindClaimStatus, Object
<1>5. d \in DecisionType
  BY DecisionTypes
<1>6. obj' = Applied(o, d) /\ obj.phase \notin Reclaimed
  BY DEF Reconcile
<1>7. obj.reason = "None"
  BY <1>6 DEF ViewInv, EndInv
<1>8. Table(o, Then(o, d), Reason(d))
  BY DecisionsInTable
<1> HIDE DEF o, d
<1>9. /\ obj'.claim = o.claim /\ obj'.claimedAt = o.claimedAt
      /\ obj'.phase = Then(o, d)
      /\ obj'.reason = IF d.next \in Reclaimed THEN d.why ELSE o.reason
  BY <1>1, <1>2, <1>5, <1>6, AppliedTypes DEF Then
<1>10. obj'.reason = Reason(d)
  BY <1>3, <1>7, <1>9 DEF Reason
<1>11. Table(obj, obj'.phase, obj'.reason)
  BY <1>3, <1>8, <1>9, <1>10 DEF Table
<1>12. obj.phase \in Phase
  BY <1>1 DEF Object
<1> QED
  BY <1>3, <1>4, <1>6, <1>7, <1>9, <1>11, <1>12 DEF RoundEffect

-----------------------------------------------------------------------------
(***************************************************************************)
(* One round.                                                              *)
(***************************************************************************)

(* A step changes five fields of the object of ClaimProtocol at most.      *)
LEMMA ClaimObjectFields ==
  /\ DOMAIN ClaimObject = {"phase", "claim", "owner", "claimRef", "reason",
                           "draining", "finalizers", "deleting", "gone"}
  /\ DOMAIN ClaimObject' = DOMAIN ClaimObject
  /\ ClaimObject = [x \in DOMAIN ClaimObject |-> ClaimObject[x]]
  /\ ClaimObject' = [x \in DOMAIN ClaimObject |-> ClaimObject'[x]]
  /\ ClaimObject'.draining = ClaimObject.draining
  /\ ClaimObject'.finalizers = ClaimObject.finalizers
  /\ ClaimObject'.deleting = ClaimObject.deleting
  /\ ClaimObject'.gone = ClaimObject.gone
<1>1. /\ DOMAIN ClaimObject = {"phase", "claim", "owner", "claimRef", "reason",
                               "draining", "finalizers", "deleting", "gone"}
      /\ DOMAIN ClaimObject' = DOMAIN ClaimObject
      /\ ClaimObject = [x \in DOMAIN ClaimObject |-> ClaimObject[x]]
      /\ ClaimObject' = [x \in DOMAIN ClaimObject |-> ClaimObject'[x]]
  BY DEF ClaimObject
<1>2. /\ ClaimObject.draining = FALSE /\ ClaimObject.finalizers = TRUE
      /\ ClaimObject.deleting = FALSE /\ ClaimObject.gone = FALSE
      /\ ClaimObject'.draining = FALSE /\ ClaimObject'.finalizers = TRUE
      /\ ClaimObject'.deleting = FALSE /\ ClaimObject'.gone = FALSE
  BY Zenon DEF ClaimObject
<1> QED
  BY <1>1, <1>2, Zenon

(* What ClaimProtocol makes of its object by decision (p, r).              *)
LEMMA AppliedObject ==
  ASSUME NEW p, NEW r,
         ClaimObject'.phase = p, ClaimObject'.reason = r,
         ClaimObject'.claim = ClaimObject.claim,
         ClaimObject'.owner = ClaimObject.owner,
         ClaimObject'.claimRef = IF ClaimObject.claim = NoSession
                                 THEN ClaimObject.claimRef ELSE ClaimObject.claim
  PROVE  ClaimObject' = CP!Applied(ClaimObject, CP!Decision(p, r))
<1> DEFINE b == CP!BindClaimStatus(ClaimObject)
<1>1. b = [ClaimObject EXCEPT !.claimRef = ClaimObject'.claimRef]
  <2>1. ClaimObject = [ClaimObject EXCEPT !.claimRef = ClaimObject.claimRef]
    BY ClaimObjectFields
  <2>2. CASE ClaimObject.claim = NoSession
    <3>1. b = ClaimObject
      BY <2>2, Zenon DEF CP!BindClaimStatus
    <3>2. ClaimObject'.claimRef = ClaimObject.claimRef
      BY <2>2
    <3> HIDE DEF b
    <3> QED
      BY <2>1, <3>1, <3>2, Zenon
  <2>3. CASE ClaimObject.claim # NoSession
    <3>1. b = [ClaimObject EXCEPT !.claimRef = ClaimObject.claim]
      BY <2>3, Zenon DEF CP!BindClaimStatus
    <3>2. ClaimObject'.claimRef = ClaimObject.claim
      BY <2>3
    <3> HIDE DEF b
    <3> QED
      BY <3>1, <3>2, Zenon
  <2> QED
    BY <2>2, <2>3
<1>2. [b EXCEPT !.phase = p, !.reason = r] = ClaimObject'
  <2>1. ClaimObject' = [ClaimObject EXCEPT !.claimRef = ClaimObject'.claimRef,
                                           !.phase = p, !.reason = r]
    BY ClaimObjectFields
  <2> QED
    BY <1>1, <2>1
<1>3. CP!Applied(ClaimObject, CP!Decision(p, r)) = [b EXCEPT !.phase = p, !.reason = r]
  BY DEF CP!Applied, CP!Decision
<1> QED
  BY <1>2, <1>3

LEMMA RoundClaimView ==
  ASSUME ViewInv, Reconcile PROVE ClaimView
<1>1. RoundEffect
  BY RoundHasEffect
<1>2. /\ ClaimObject'.claim = ClaimObject.claim
      /\ ClaimObject'.owner = ClaimObject.owner
      /\ ClaimObject'.claimRef = IF ClaimObject.claim = NoSession
                                 THEN ClaimObject.claimRef ELSE ClaimObject.claim
  BY <1>1 DEF RoundEffect, ClaimObject, NoSession, Session
<1>3. /\ ClaimObject.phase = CoarsePhase(obj.phase)
      /\ ClaimObject.reason = "None"
  BY <1>1 DEF RoundEffect, ClaimObject, CoarseReason, Reclaimed
<1>4. /\ ClaimObject'.phase =
           IF obj'.phase \in ClaimedPhase THEN "Running" ELSE obj'.phase
      /\ ClaimObject'.reason =
           IF /\ obj'.phase = "Terminating"
              /\ obj'.reason \notin {"StockRotation", "ClientReleased"}
           THEN "SessionEnded" ELSE obj'.reason
  BY DEF ClaimObject, CoarsePhase, CoarseReason
<1>5. ClaimObject.claim = NoSession <=> obj.claim # "held"
  BY DEF ClaimObject, NoSession, Session
<1>6. ASSUME NEW p, NEW r, ClaimObject'.phase = p, ClaimObject'.reason = r,
             CP!Decision(p, r) \in CP!Decisions(ClaimObject)
      PROVE  ClaimView
  <2>1. ClaimObject' = CP!Applied(ClaimObject, CP!Decision(p, r))
    BY <1>2, <1>6, AppliedObject
  <2> QED
    BY <1>6, <2>1 DEF ClaimView
<1>7. ASSUME ClaimObject'.phase = ClaimObject.phase, ClaimObject'.reason = "None",
             obj.phase \notin {"New", "Ready"} \/ obj.claim # "held"
      PROVE  ClaimView
  <2>1. obj'.claimedAt # Never <=> obj.claimedAt # Never
    BY <1>1, <1>7 DEF RoundEffect, ViewInv, BoundInv
  <2>2. ClaimObject'.claimRef = ClaimObject.claimRef
    BY <2>1 DEF ClaimObject
  <2>3. ClaimObject' = ClaimObject
    BY <1>2, <1>3, <1>7, <2>2 DEF ClaimObject
  <2> QED
    BY <2>3 DEF ClaimView
<1>8. CASE obj.phase = "New"
  <2>1. ClaimObject'.phase = "Provisioning" /\ ClaimObject'.reason = "None"
    BY <1>1, <1>4, <1>8 DEF RoundEffect, Table, ClaimedPhase
  <2>2. CP!Decision("Provisioning", "None") \in CP!Decisions(ClaimObject)
    BY <1>3, <1>8 DEF CP!Decisions, CoarsePhase, ClaimedPhase
  <2> QED
    BY <1>6, <2>1, <2>2
<1>9. CASE obj.phase = "Provisioning"
  <2>1. CP!Decisions(ClaimObject) = CP!DecideProvisioning(ClaimObject)
    BY <1>3, <1>9 DEF CP!Decisions, CoarsePhase, ClaimedPhase
  <2>2. CASE obj'.phase = "Provisioning" /\ obj'.reason = "None"
    BY <1>3, <1>4, <1>7, <1>9, <2>2 DEF CoarsePhase, ClaimedPhase
  <2>3. CASE obj'.phase = "Failed" /\ obj'.reason \in {"NodeLost", "RuntimeError"}
    <3>1. ClaimObject'.phase = "Failed" /\ ClaimObject'.reason = obj'.reason
      BY <1>4, <2>3 DEF ClaimedPhase
    <3>2. CP!Decision("Failed", obj'.reason) \in CP!Decisions(ClaimObject)
      BY <2>1, <2>3 DEF CP!DecideProvisioning
    <3> QED
      BY <1>6, <3>1, <3>2
  <2>4. CASE obj.claim = "held" /\ obj'.phase = "Running" /\ obj'.reason = "None"
    <3>1. ClaimObject'.phase = "Running" /\ ClaimObject'.reason = "None"
      BY <1>4, <2>4 DEF ClaimedPhase
    <3>2. CP!Decision("Running", "None") \in CP!Decisions(ClaimObject)
      BY <1>5, <2>1, <2>4 DEF CP!DecideProvisioning
    <3> QED
      BY <1>6, <3>1, <3>2
  <2>5. CASE obj.claim # "held" /\ obj'.phase = "Ready" /\ obj'.reason = "None"
    <3>1. ClaimObject'.phase = "Ready" /\ ClaimObject'.reason = "None"
      BY <1>4, <2>5 DEF ClaimedPhase
    <3>2. CP!Decision("Ready", "None") \in CP!Decisions(ClaimObject)
      BY <1>5, <2>1, <2>5 DEF CP!DecideProvisioning
    <3> QED
      BY <1>6, <3>1, <3>2
  <2> QED
    BY <1>1, <1>9, <2>2, <2>3, <2>4, <2>5 DEF RoundEffect, Table
<1>10. CASE obj.phase = "Ready"
  <2>1. CP!Decisions(ClaimObject) = CP!DecideStock(ClaimObject)
    BY <1>3, <1>10 DEF CP!Decisions, CoarsePhase, ClaimedPhase
  <2>2. CASE obj.claim = "held" /\ obj'.phase = "Running" /\ obj'.reason = "None"
    <3>1. ClaimObject'.phase = "Running" /\ ClaimObject'.reason = "None"
      BY <1>4, <2>2 DEF ClaimedPhase
    <3>2. CP!Decision("Running", "None") \in CP!Decisions(ClaimObject)
      BY <1>5, <2>1, <2>2 DEF CP!DecideStock
    <3> QED
      BY <1>6, <3>1, <3>2
  <2>3. CASE obj.claim # "held" /\ obj'.phase = "Failed" /\ obj'.reason = "NodeLost"
    <3>1. ClaimObject'.phase = "Failed" /\ ClaimObject'.reason = "NodeLost"
      BY <1>4, <2>3 DEF ClaimedPhase
    <3>2. CP!Decision("Failed", "NodeLost") \in CP!Decisions(ClaimObject)
      BY <1>5, <2>1, <2>3 DEF CP!DecideStock
    <3> QED
      BY <1>6, <3>1, <3>2
  <2>4. CASE /\ obj.claim # "held"
             /\ obj'.phase = "Terminating" /\ obj'.reason = "StockRotation"
    <3>1. ClaimObject'.phase = "Terminating" /\ ClaimObject'.reason = "StockRotation"
      BY <1>4, <2>4 DEF ClaimedPhase
    <3>2. CP!Decision("Terminating", "StockRotation") \in CP!Decisions(ClaimObject)
      BY <1>5, <2>1, <2>4 DEF CP!DecideStock
    <3> QED
      BY <1>6, <3>1, <3>2
  <2>5. CASE obj.claim # "held" /\ obj'.phase = "Ready" /\ obj'.reason = "None"
    BY <1>3, <1>4, <1>7, <1>10, <2>5 DEF CoarsePhase, ClaimedPhase
  <2> QED
    BY <1>1, <1>10, <2>2, <2>3, <2>4, <2>5 DEF RoundEffect, Table
<1>11. CASE obj.phase \in ClaimedPhase
  <2>1. CP!Decisions(ClaimObject) = CP!DecideClaimed(ClaimObject)
    BY <1>3, <1>11 DEF CP!Decisions, CoarsePhase
  <2>2. obj.phase \notin {"New", "Provisioning", "Ready"}
    BY <1>11 DEF ClaimedPhase
  <2>3. CASE obj'.phase \in ClaimedPhase /\ obj'.reason = "None"
    <3>1. obj'.phase # "Terminating"
      BY <2>3 DEF ClaimedPhase
    <3> QED
      BY <1>3, <1>4, <1>7, <1>11, <2>2, <2>3, <3>1 DEF CoarsePhase
  <2>4. CASE /\ obj.claim # "held"
             /\ obj'.phase = "Terminating" /\ obj'.reason = "ClientReleased"
    <3>1. ClaimObject'.phase = "Terminating" /\ ClaimObject'.reason = "ClientReleased"
      BY <1>4, <2>4 DEF ClaimedPhase
    <3>2. CP!Decision("Terminating", "ClientReleased") \in CP!Decisions(ClaimObject)
      BY <1>5, <2>1, <2>4 DEF CP!DecideClaimed
    <3> QED
      BY <1>6, <3>1, <3>2
  <2>5. CASE obj'.phase = "Terminating" /\ obj'.reason \in SessionEnds
    <3>1. ClaimObject'.phase = "Terminating" /\ ClaimObject'.reason = "SessionEnded"
      BY <1>4, <2>5 DEF ClaimedPhase, SessionEnds
    <3>2. CP!Decision("Terminating", "SessionEnded") \in CP!Decisions(ClaimObject)
      BY <2>1 DEF CP!DecideClaimed
    <3> QED
      BY <1>6, <3>1, <3>2
  <2> QED
    BY <1>1, <1>11, <2>3, <2>4, <2>5 DEF RoundEffect, Table
<1>12. obj.phase \in {"New", "Provisioning", "Ready"} \cup ClaimedPhase
  BY <1>1 DEF RoundEffect, Phase, ClaimedPhase, Reclaimed
<1> QED
  BY <1>8, <1>9, <1>10, <1>11, <1>12

LEMMA RoundStockView ==
  ASSUME ViewInv, Reconcile PROVE StockView
<1>1. RoundEffect
  BY RoundHasEffect
<1> DEFINE held == obj.claim = "held"
<1>2. /\ StockKind = KindOf(obj.phase, held)
      /\ StockKind' = KindOf(obj'.phase, held)
  BY <1>1 DEF StockKind, RoundEffect
<1>3. CASE obj.phase = "New"
  <2>1. obj'.phase = "Provisioning"
    BY <1>1, <1>3 DEF RoundEffect, Table
  <2> QED
    BY <1>2, <1>3, <2>1 DEF StockView, KindOf, Advances
<1>4. CASE obj.phase = "Provisioning"
  <2>1. \/ obj'.phase \in {"Provisioning", "Failed"}
        \/ held /\ obj'.phase = "Running"
        \/ ~held /\ obj'.phase = "Ready"
    BY <1>1, <1>4 DEF RoundEffect, Table
  <2> QED
    BY <1>2, <1>4, <2>1 DEF StockView, KindOf, Advances, Failures
<1>5. CASE obj.phase = "Ready"
  <2>1. \/ held /\ obj'.phase = "Running"
        \/ ~held /\ obj'.phase \in {"Ready", "Failed", "Terminating"}
    BY <1>1, <1>5 DEF RoundEffect, Table
  <2> QED
    BY <1>2, <1>5, <2>1 DEF StockView, KindOf, Advances, Failures
<1>6. CASE obj.phase \in ClaimedPhase
  <2>1. obj'.phase \in ClaimedPhase \cup {"Terminating"}
    BY <1>1, <1>6 DEF RoundEffect, Table
  <2>2. KindOf(obj.phase, held) = "Session"
    BY <1>6 DEF KindOf, ClaimedPhase
  <2>3. KindOf(obj'.phase, held) \in {"Session", "None"}
    BY <2>1 DEF KindOf, ClaimedPhase
  <2> QED
    BY <1>2, <2>2, <2>3 DEF StockView
<1> QED
  BY <1>1, <1>3, <1>4, <1>5, <1>6 DEF RoundEffect, Phase, ClaimedPhase, Reclaimed

LEMMA RoundRemovalView ==
  ASSUME ViewInv, Reconcile PROVE RemovalView
<1>1. RoundEffect
  BY RoundHasEffect
<1>2. pod \in Pod /\ now \in Time /\ lease \in Int
  BY Numbers DEF ViewInv, TypeOK, Time, Never
<1>3. RM!Healthy("s") <=> Usable
  <2>1. pod.node \in BOOLEAN
    BY <1>2 DEF Pod
  <2> QED
    BY <2>1 DEF RM!Healthy, RM!Has, RM!There, RM!Missing, RemovalObject, Made,
                PodThere, Usable, PodExists, NodeReady
<1>4. CoarsePhase(obj.phase)' = CoarsePhase(obj'.phase)
  BY DEF CoarsePhase, ClaimedPhase
<1>5. CoarsePhase(obj.phase)' \in RM!NextPhases("s")
  <2> DEFINE S == RM!NextPhases("s")
             held == obj.claim = "held"
             p == CoarsePhase(obj.phase)
             q == CoarsePhase(obj'.phase)
  <2>1. /\ p = "New" => S = {"Provisioning"}
        /\ p = "Provisioning" =>
             S = {"Provisioning", "Failed"} \cup
                   {x \in {"Ready", "Running"} : Usable /\ (held <=> x = "Running")}
        /\ p = "Ready" =>
             S = IF held THEN {"Running"}
                 ELSE IF ~Usable THEN {"Failed"} ELSE {"Ready", "Terminating"}
        /\ p = "Running" => S = {"Running", "Terminating"}
    BY <1>3 DEF RM!NextPhases, RemovalObject
  <2>2. obj.phase \in {"New", "Provisioning", "Ready"} \cup ClaimedPhase
    BY <1>1 DEF RoundEffect, Phase, ClaimedPhase, Reclaimed
  <2> HIDE DEF S
  <2>3. CASE obj.phase = "New"
    <3>1. p = "New" /\ q = "Provisioning"
      BY <1>1, <2>3 DEF RoundEffect, Table, CoarsePhase, ClaimedPhase
    <3> QED
      BY <1>4, <2>1, <3>1 DEF S
  <2>4. CASE obj.phase = "Provisioning"
    <3>1. p = "Provisioning"
      BY <2>4 DEF CoarsePhase, ClaimedPhase
    <3>2. \/ q = "Provisioning" \/ q = "Failed"
          \/ Usable /\ held /\ q = "Running"
          \/ Usable /\ ~held /\ q = "Ready"
      BY <1>1, <2>4 DEF RoundEffect, Table, CoarsePhase, ClaimedPhase
    <3> HIDE DEF p, q, held
    <3>3. q \in S
      BY <2>1, <3>1, <3>2
    <3> QED
      BY <1>4, <3>3 DEF S, q
  <2>5. CASE obj.phase = "Ready"
    <3>1. p = "Ready"
      BY <2>5 DEF CoarsePhase, ClaimedPhase
    <3>2. \/ held /\ q = "Running"
          \/ ~held /\ ~Usable /\ q = "Failed"
          \/ ~held /\ Usable /\ q \in {"Ready", "Terminating"}
      BY <1>1, <2>5 DEF RoundEffect, Table, CoarsePhase, ClaimedPhase
    <3> HIDE DEF p, q, held
    <3>3. q \in S
      BY <2>1, <3>1, <3>2
    <3> QED
      BY <1>4, <3>3 DEF S, q
  <2>6. CASE obj.phase \in ClaimedPhase
    <3>1. p = "Running"
      BY <2>6 DEF CoarsePhase
    <3>2. q \in {"Running", "Terminating"}
      BY <1>1, <2>6 DEF RoundEffect, Table, CoarsePhase, ClaimedPhase
    <3> HIDE DEF p, q, held
    <3>3. q \in S
      BY <2>1, <3>1, <3>2
    <3> QED
      BY <1>4, <3>3 DEF S, q
  <2> QED
    BY <2>2, <2>3, <2>4, <2>5, <2>6
<1>6. ASSUME NEW k \in RM!Wanted("s", CoarsePhase(obj.phase))
      PROVE  Made(k)' \/ (k = "Pod" /\ ~pod.runtime)
  <2>1. \/ k = "Lease" /\ obj.claim = "held"
        \/ k = "Pod" /\ CoarsePhase(obj.phase) = "New"
    BY <1>6 DEF RM!Wanted, RemovalObject
  <2>2. CASE k = "Lease" /\ obj.claim = "held"
    <3>1. lease' # Never
      BY <1>2, <2>2, Numbers DEF Reconcile, EnsureLease, Time, Never
    <3> QED
      BY <2>2, <3>1 DEF Made, LeaseThere
  <2>3. CASE k = "Pod" /\ CoarsePhase(obj.phase) = "New"
    <3> SUFFICES ASSUME pod.runtime PROVE pod'.state # "absent"
      BY <2>3 DEF Made, PodThere
    <3> DEFINE o == BindClaimStatus(obj)
    <3>1. obj.phase = "New"
      BY <2>3 DEF CoarsePhase
    <3>2. o.phase = "New"
      BY <3>1 DEF BindClaimStatus, ViewInv, TypeOK, Object
    <3>3. NextPhase(o).next = "Provisioning"
      <4> HIDE DEF o
      <4> QED
        BY <3>2 DEF NextPhase, Transition
    <3>4. pod' = EnsurePod
      BY <3>3 DEF Reconcile
    <3> QED
      BY <1>2, <3>4 DEF EnsurePod, Pod
  <2> QED
    BY <2>1, <2>2, <2>3
<1> QED
  BY <1>5, <1>6 DEF RemovalView

-----------------------------------------------------------------------------
(***************************************************************************)
(* Every other step.                                                       *)
(***************************************************************************)

(* What the others leave alone is all that the views tell apart.           *)
LEMMA SameViews ==
  ASSUME SameObject PROVE ClaimView /\ StockView
<1>1. ClaimObject' = ClaimObject
  BY DEF SameObject, ClaimObject, CoarsePhase, CoarseReason
<1>2. StockKind' = StockKind
  BY DEF SameObject, StockKind, KindOf
<1> QED
  BY <1>1, <1>2 DEF ClaimView, StockView

LEMMA ClaimSeen ==
  ASSUME ViewInv, Claim PROVE ClaimView /\ StockView
<1>1. PICK x \in Deadlines : obj' = [obj EXCEPT !.claim = "held", !.deadline = x]
  BY DEF Claim
<1>2. /\ obj'.claim = "held" /\ obj'.phase = obj.phase
      /\ obj'.claimedAt = obj.claimedAt /\ obj'.reason = obj.reason
  BY <1>1 DEF ViewInv, TypeOK, Object
<1>3. obj.phase = "Ready" /\ obj.claim = "none"
  BY DEF Claim
<1>4. /\ ClaimObject.phase = "Ready" /\ ~ClaimObject.deleting
      /\ ClaimObject.claim = NoSession /\ ClaimObject.owner = NoSession
  BY <1>3 DEF ClaimObject, CoarsePhase, ClaimedPhase
<1>5. CP!Claimable(ClaimObject)
  BY <1>4 DEF CP!Claimable
<1>6. ClaimObject' = CP!Bound(ClaimObject, Session)
  <2>1. /\ ClaimObject'.claim = Session /\ ClaimObject'.owner = Session
        /\ ClaimObject'.phase = ClaimObject.phase
        /\ ClaimObject'.claimRef = ClaimObject.claimRef
        /\ ClaimObject'.reason = ClaimObject.reason
    BY <1>2, <1>3 DEF ClaimObject, CoarsePhase, CoarseReason
  <2> QED
    BY <2>1, ClaimObjectFields DEF CP!Bound
<1>7. StockKind = "Warm" /\ StockKind' = "Taken"
  BY <1>2, <1>3 DEF StockKind, KindOf
<1> QED
  BY <1>4, <1>5, <1>6, <1>7 DEF ClaimView, StockView

LEMMA ReleaseSeen ==
  ASSUME ViewInv, Release PROVE ClaimView /\ StockView
<1>1. /\ obj'.claim = "released" /\ obj'.phase = obj.phase
      /\ obj'.claimedAt = obj.claimedAt /\ obj'.reason = obj.reason
  BY DEF Release, ViewInv, TypeOK, Object
<1>2. obj.claim = "held" /\ obj.phase \in Phase \ Reclaimed
  BY DEF Release, Owned, ViewInv, TypeOK, Object
<1>3. ClaimObject.phase \notin Reclaimed
  BY <1>2 DEF ClaimObject, CoarsePhase, ClaimedPhase, Reclaimed
<1>4. ClaimObject' = CP!Unclaimed(ClaimObject)
  <2>1. /\ ClaimObject'.claim = NoSession
        /\ ClaimObject'.owner = ClaimObject.owner
        /\ ClaimObject'.phase = ClaimObject.phase
        /\ ClaimObject'.claimRef = ClaimObject.claimRef
        /\ ClaimObject'.reason = ClaimObject.reason
    BY <1>1, <1>2 DEF ClaimObject, CoarsePhase, CoarseReason
  <2> QED
    BY <2>1, ClaimObjectFields DEF CP!Unclaimed
<1>5. <<StockKind, StockKind'>> \in EarlyReleases \/ StockKind' = StockKind
  BY <1>1, <1>2 DEF StockKind, KindOf, EarlyReleases, Phase, Reclaimed
<1> QED
  BY <1>3, <1>4, <1>5 DEF ClaimView, StockView

LEMMA StepsSeen ==
  ASSUME ViewInv, [Next]_vars
  PROVE  ClaimView /\ RemovalView /\ StockView
<1>1. RemovalView
  BY RoundRemovalView DEF RemovalView
<1>2. ClaimView /\ StockView
  BY RoundClaimView, RoundStockView, ClaimSeen, ReleaseSeen, OtherSteps, SameViews
     DEF ViewInv
<1> QED
  BY <1>1, <1>2

LEMMA NextBound == ViewInv /\ [Next]_vars => BoundInv'
<1> SUFFICES ASSUME ViewInv, [Next]_vars PROVE BoundInv'
  OBVIOUS
<1>1. CASE Reconcile
  <2>1. RoundEffect
    BY <1>1, RoundHasEffect
  <2> QED
    BY <2>1 DEF RoundEffect, BoundInv
<1>2. CASE Claim
  <2>1. PICK x \in Deadlines : obj' = [obj EXCEPT !.claim = "held", !.deadline = x]
    BY <1>2 DEF Claim
  <2>2. obj'.phase = "Ready"
    BY <1>2, <2>1 DEF Claim, ViewInv, TypeOK, Object
  <2> QED
    BY <2>2 DEF BoundInv
<1>3. CASE Release
  <2>1. obj'.claim = "released"
    BY <1>3 DEF Release, ViewInv, TypeOK, Object
  <2> QED
    BY <2>1 DEF BoundInv
<1>4. CASE ~Reconcile /\ ~Claim /\ ~Release
  BY <1>4, OtherSteps DEF SameObject, BoundInv, ViewInv
<1> QED
  BY <1>1, <1>2, <1>3, <1>4

(* Who owns a sandbox, what belongs to it and what it counts for: the      *)
(* three modules that model these follow every step of its life, for all   *)
(* times, deadlines and policies and under every fault. What is shown of   *)
(* their steps is shown of this code, and not of three pictures of it.     *)
THEOREM LifeIsSeen == Spec => ViewsAgree
<1>1. Init => ViewInv
  <2> SUFFICES ASSUME Init PROVE ViewInv
    OBVIOUS
  <2>1. PICK c, x : obj = [phase |-> "New", claim |-> c, deadline |-> x,
                           claimedAt |-> Never, podName |-> FALSE,
                           runtime |-> "None", wake |-> FALSE,
                           sleep |-> FALSE, reason |-> "None"]
    BY Zenon DEF Init
  <2>2. obj.phase = "New" /\ obj.reason = "None"
    BY <2>1
  <2> QED
    BY <2>2, InitType, InitFreeze DEF ViewInv, EndInv, BoundInv
<1>2. ViewInv /\ [Next]_vars => ViewInv'
  BY NextType, NextFreeze, NextEnd, NextBound DEF ViewInv
<1>3. ViewInv /\ [Next]_vars => [ClaimView /\ RemovalView /\ StockView]_vars
  BY StepsSeen
<1> QED
  BY <1>1, <1>2, <1>3, PTL DEF Spec, ViewsAgree
=============================================================================
