---------------------------- MODULE SweeperProof ----------------------------
(* Proofs about Sweeper: its types, and that it deletes orphans only, for  *)
(* any number of sandboxes and any grace period longer than a round.       *)
EXTENDS Sweeper, TLAPS

-----------------------------------------------------------------------------
(***************************************************************************)
(* Inductive invariants.                                                   *)
(***************************************************************************)
RemovalTypeOK ==
  /\ sbx \in [Sandbox -> Object]
  /\ thing \in [Sandbox -> [Kind -> Age \cup {Missing, Unmarked}]]
  /\ node \in [Sandbox -> BOOLEAN]
  /\ work \in [Sandbox -> Phase \cup {"idle", "step"}]

(* Nothing is made before its sandbox, and a mark is at most RoundTimeout  *)
(* older than the sandbox that exists: a round puts its start as the mark. *)
MarkInv ==
  \A s \in Sandbox :
    /\ sbx[s].phase = "Absent" => sbx[s].age = 0 /\ work[s] = "idle"
    /\ \A k \in Kind :
         /\ There(s, k) => sbx[s].phase # "Absent"
         /\ Exists(s) => thing[s][k] <= sbx[s].age + RoundTimeout

(* While the snapshot is made, a sandbox that was not listed and exists is *)
(* younger than the round; so what is due has no sandbox any more.         *)
SnapshotInv ==
  /\ round.todo # {} => round.listed = 6
  /\ round.listed = 0 =>
       \A s \in Sandbox, k \in Kind : round.things[s][k] = "missing"
  /\ round.listed \in 1 .. 5 =>
       \A s \in Sandbox : ~Owned(round, s) =>
         /\ Running /\ Exists(s) => sbx[s].age <= round.age
         /\ \A k \in Kind :
              round.things[s][k] = "due" => sbx[s].phase = "Gone"

IInv == TypeOK /\ MarkInv /\ SnapshotInv /\ DeletesOnlyOrphans

(* What a step that leaves the clock alone may do to the sandboxes and to  *)
(* what belongs to them.                                                   *)
Effect ==
  \A s \in Sandbox :
    /\ sbx'[s].phase # "Gone" => sbx'[s].age = sbx[s].age
    /\ sbx[s].phase = "Gone" => sbx'[s].phase = "Gone"
    /\ sbx'[s].phase = "Absent" =>
         sbx[s].phase = "Absent" /\ work'[s] = work[s]
    /\ \A k \in Kind :
         \/ thing'[s][k] \in {thing[s][k], Missing}
         \/ sbx[s].phase # "Absent" /\ thing'[s][k] \in -1 .. RoundTimeout

-----------------------------------------------------------------------------
(***************************************************************************)
(* The initial state.                                                      *)
(***************************************************************************)
LEMMA Constants ==
  /\ Kind \subseteq AttachedKind /\ Horizon \in Nat
  /\ OrphanGrace \in Nat /\ RoundTimeout \in Nat /\ RoundTimeout < OrphanGrace
  /\ Horizon >= RoundTimeout + OrphanGrace
BY RemovalAssumption, SweeperAssumption

LEMMA InitInv == Init => IInv
<1> SUFFICES ASSUME Init PROVE IInv
  OBVIOUS
<1> USE Constants DEF Init, RemovalInit
<1>1. Nothing \in Object
  BY DEF Nothing, Object, ClaimState, Phase, Age
<1>2. RemovalTypeOK
  BY <1>1 DEF RemovalTypeOK
<1>3. NoRound \in Round
  BY DEF NoRound, Round, Unseen, SandboxView, Standing, ThingView
<1>4. TypeOK
  BY <1>2, <1>3 DEF TypeOK, RemovalTypeOK
<1>5. MarkInv
  BY DEF MarkInv, Nothing, There, Exists, Missing
<1>6. SnapshotInv /\ DeletesOnlyOrphans
  BY DEF SnapshotInv, DeletesOnlyOrphans, NoRound
<1> QED
  BY <1>4, <1>5, <1>6 DEF IInv

-----------------------------------------------------------------------------
(***************************************************************************)
(* The controller and the cluster.                                         *)
(***************************************************************************)
LEMMA NextPhasesType == ASSUME NEW s PROVE NextPhases(s) \subseteq Phase \ {"Absent", "Gone"}
BY DEF NextPhases, Phase

LEMMA StepEffect ==
  ASSUME NEW s \in Sandbox, NEW step, RemovalTypeOK,
         StepDone(s, step) \/ StepFailed(s, step)
  PROVE  /\ sbx' \in [Sandbox -> Object]
         /\ thing' \in [Sandbox -> [Kind -> Age \cup {Missing, Unmarked}]]
         /\ \A t \in Sandbox :
              /\ sbx'[t].age = sbx[t].age /\ sbx'[t].phase = sbx[t].phase
              /\ \A k \in Kind : thing'[t][k] \in {thing[t][k], Missing}
<1> USE DEF RemovalTypeOK
<1>1. CASE StepFailed(s, step)
  <2> DEFINE cut == IF step = "network" THEN "failed" ELSE sbx[s].network
             new == [sbx[s] EXCEPT !.network = cut]
  <2>1. cut \in {"open", "cut", "failed"}
    BY DEF Object
  <2>2. sbx' = [sbx EXCEPT ![s] = new] /\ thing' = thing
    BY <1>1 DEF StepFailed
  <2> HIDE DEF cut
  <2>3. new \in Object /\ new.age = sbx[s].age /\ new.phase = sbx[s].phase
    BY <2>1 DEF Object
  <2> QED
    BY <2>2, <2>3
<1>2. CASE StepDone(s, step)
  <2> DEFINE cut == IF step = "network" /\ There(s, "NetworkPolicy")
                    THEN "cut" ELSE sbx[s].network
             flush == sbx[s].flushed \/ step = "flush"
             record == sbx[s].recorded \/ (step = "metrics" /\
                         (sbx[s].placed => ~There(s, "Pod")))
             one == [sbx[s] EXCEPT !.network = cut]
             two == [one EXCEPT !.flushed = flush]
             new == [two EXCEPT !.recorded = record]
  <2>1. cut \in {"open", "cut", "failed"} /\ flush \in BOOLEAN /\ record \in BOOLEAN
    BY DEF Object
  <2>2. sbx' = [sbx EXCEPT ![s] = new]
    BY <1>2 DEF StepDone
  <2> HIDE DEF cut, flush, record
  <2>3. new \in Object /\ new.age = sbx[s].age /\ new.phase = sbx[s].phase
    <3>1. one \in Object /\ one.age = sbx[s].age /\ one.phase = sbx[s].phase
      BY <2>1 DEF Object
    <3> HIDE DEF one
    <3>2. two \in Object /\ two.age = one.age /\ two.phase = one.phase
      BY <2>1, <3>1 DEF Object
    <3> HIDE DEF two
    <3>3. new \in Object /\ new.age = two.age /\ new.phase = two.phase
      BY <2>1, <3>2 DEF Object
    <3> QED
      BY <3>1, <3>2, <3>3
  <2> DEFINE deleted == {k \in Kind : \/ step = "lease"  /\ k = "Lease"
                                      \/ step = "volume" /\ k = "Volume"}
             row == [k \in Kind |-> IF k \in deleted THEN Missing ELSE thing[s][k]]
  <2>4. thing' = [thing EXCEPT ![s] = row]
    BY <1>2 DEF StepDone
  <2>5. /\ row \in [Kind -> Age \cup {Missing, Unmarked}]
        /\ \A k \in Kind : row[k] \in {thing[s][k], Missing}
    <3> HIDE DEF deleted
    <3> QED OBVIOUS
  <2> HIDE DEF new, row
  <2> QED
    BY <2>2, <2>3, <2>4, <2>5
<1> QED
  BY <1>1, <1>2

(* What an object leaves when it is gone.                                  *)
LEMMA EndedType ==
  ASSUME NEW o \in Object
  PROVE  /\ Ended(o) \in Object /\ Ended(o).phase = "Gone"
         /\ [Ended(o) EXCEPT !.forced = TRUE] \in Object
         /\ [Ended(o) EXCEPT !.forced = TRUE].phase = "Gone"
<1> DEFINE one == [Nothing EXCEPT !.phase = "Gone"]
           two == [one EXCEPT !.served = o.served]
           three == [two EXCEPT !.network = o.network]
           four == [three EXCEPT !.flushed = o.flushed]
           five == [four EXCEPT !.recorded = o.recorded]
           six == [five EXCEPT !.forced = TRUE]
<1>0. Nothing \in Object /\ "Gone" \in Phase
  BY Constants DEF Nothing, Object, ClaimState, Phase, Age
<1>1. one \in Object /\ one.phase = "Gone"
  BY <1>0 DEF Object
<1> HIDE DEF one
<1>2. two \in Object /\ two.phase = "Gone"
  BY <1>1 DEF Object
<1> HIDE DEF two
<1>3. three \in Object /\ three.phase = "Gone"
  BY <1>2 DEF Object
<1> HIDE DEF three
<1>4. four \in Object /\ four.phase = "Gone"
  BY <1>3 DEF Object
<1> HIDE DEF four
<1>5. five \in Object /\ five.phase = "Gone"
  BY <1>4 DEF Object
<1>6. Ended(o) = five
  BY DEF Ended, one, two, three, four
<1> HIDE DEF five
<1>7. six \in Object /\ six.phase = "Gone"
  BY <1>5 DEF Object
<1> QED
  BY <1>5, <1>6, <1>7

(* A change of the fields of one sandbox that keeps its age or ends it,    *)
(* and does not bring it back, is an effect.                               *)
LEMMA UpdateEffect ==
  ASSUME RemovalTypeOK, NEW s \in Sandbox, NEW new \in Object,
         sbx' = [sbx EXCEPT ![s] = new],
         new.age = sbx[s].age \/ new.phase = "Gone", new.phase # "Absent",
         sbx[s].phase = "Gone" => new.phase = "Gone",
         UNCHANGED thing, \A t \in Sandbox \ {s} : work'[t] = work[t]
  PROVE  sbx' \in [Sandbox -> Object] /\ Effect
BY DEF RemovalTypeOK, Effect

LEMMA RemovalStep ==
  ASSUME RemovalTypeOK, MarkInv, NEW s \in Sandbox, RemovalNext(s)
  PROVE  RemovalTypeOK' /\ Effect
<1> USE DEF RemovalTypeOK
<1>a. Nothing \in Object /\ Nothing.age = 0
  BY Constants DEF Nothing, Object, ClaimState, Phase, Age
<1>b. {"Absent", "New", "Ready", "Gone", "Running"} \subseteq Phase
  BY DEF Phase
<1>c. sbx[s] \in Object /\ work[s] \in Phase \cup {"idle", "step"}
  OBVIOUS
<1>d. sbx[s].phase \in Phase
  BY <1>c DEF Object
<1>e. work[s] # "idle" => sbx[s].phase # "Absent"
  BY DEF MarkInv
<1>0. /\ sbx[s] \in Object /\ work[s] \in Phase \cup {"idle", "step"}
      /\ sbx[s].phase \in Phase
      /\ work[s] # "idle" => sbx[s].phase # "Absent"
      /\ {"Absent", "New", "Ready", "Gone", "Running"} \subseteq Phase
      /\ Nothing \in Object /\ Nothing.age = 0
  BY <1>a, <1>b, <1>c, <1>d, <1>e
<1>1. CASE Create(s)
  <2> PICK c \in {"none", "held"} :
        sbx' = [sbx EXCEPT ![s] = [Nothing EXCEPT !.phase = "New", !.claim = c]]
    BY <1>1 DEF Create
  <2> DEFINE new == [Nothing EXCEPT !.phase = "New", !.claim = c]
  <2>1. new \in Object /\ new.age = 0 /\ new.phase = "New"
    BY <1>0 DEF Object, ClaimState
  <2>2. UNCHANGED <<thing, node, work>> /\ sbx[s].phase = "Absent" /\ sbx[s].age = 0
    BY <1>1 DEF Create, MarkInv
  <2>3. sbx' = [sbx EXCEPT ![s] = new]
    OBVIOUS
  <2> HIDE DEF new
  <2> QED
    BY <2>1, <2>2, <2>3, UpdateEffect
<1>2. CASE Claim(s)
  <2> DEFINE new == [sbx[s] EXCEPT !.claim = "held"]
  <2>1. new \in Object /\ new.age = sbx[s].age /\ new.phase = sbx[s].phase
    BY <1>0 DEF Object, ClaimState
  <2>2. /\ UNCHANGED <<thing, node, work>> /\ sbx[s].phase # "Absent"
        /\ sbx' = [sbx EXCEPT ![s] = new]
    BY <1>2 DEF Claim
  <2> HIDE DEF new
  <2> QED
    BY <2>1, <2>2, UpdateEffect
<1>15. CASE Release(s)
  <2> DEFINE new == [sbx[s] EXCEPT !.claim = "released"]
  <2>1. new \in Object /\ new.age = sbx[s].age /\ new.phase = sbx[s].phase
    BY <1>0 DEF Object, ClaimState
  <2>2. /\ UNCHANGED <<thing, node, work>> /\ sbx[s].phase # "Absent"
        /\ sbx' = [sbx EXCEPT ![s] = new]
    BY <1>15 DEF Release, Exists
  <2> HIDE DEF new
  <2> QED
    BY <2>1, <2>2, UpdateEffect
<1>3. CASE BeginRound(s)
  BY <1>0, <1>3 DEF BeginRound, Exists, Effect
<1>4. ASSUME NEW k \in Kind, Ensure(s, k) PROVE RemovalTypeOK' /\ Effect
  <2>1. sbx[s].phase # "Absent"
    BY <1>0, <1>4 DEF Ensure, Phase
  <2>2. thing' = [thing EXCEPT ![s][k] = Unmarked] /\ UNCHANGED <<sbx, node, work>>
    BY <1>4 DEF Ensure, Put
  <2> QED
    BY <2>1, <2>2, Constants DEF Effect, Unmarked
<1>5. CASE Advance(s)
  <2> DEFINE placed == sbx[s].placed \/ work[s] = "New"
             served(p) == sbx[s].served \/ p = "Running"
             new(p) == [sbx[s] EXCEPT !.phase = p, !.placed = placed, !.served = served(p)]
  <2> PICK p \in NextPhases(s) : sbx' = [sbx EXCEPT ![s] = new(p)]
    BY <1>5 DEF Advance
  <2>1. p \in Phase \ {"Absent", "Gone"}
    BY NextPhasesType
  <2>2. placed \in BOOLEAN /\ served(p) \in BOOLEAN
    BY <1>0 DEF Object
  <2> HIDE DEF placed, served
  <2>3. new(p) \in Object /\ new(p).age = sbx[s].age /\ new(p).phase = p
    BY <1>0, <2>1, <2>2 DEF Object
  <2>4. sbx[s].phase # "Gone" /\ UNCHANGED <<thing, node>> /\ work' = [work EXCEPT ![s] = "idle"]
    BY <1>5 DEF Advance, Exists
  <2> HIDE DEF new
  <2> QED
    BY <2>1, <2>3, <2>4, UpdateEffect
<1>16. CASE AdvanceWithoutPod(s)
  <2> DEFINE new == [sbx[s] EXCEPT !.phase = "Provisioning"]
  <2>1. new \in Object /\ new.age = sbx[s].age /\ new.phase = "Provisioning"
    BY <1>0 DEF Object, Phase
  <2>2. /\ sbx' = [sbx EXCEPT ![s] = new] /\ UNCHANGED <<thing, node>>
        /\ sbx[s].phase = "New" /\ work' = [work EXCEPT ![s] = "idle"]
    BY <1>16 DEF AdvanceWithoutPod
  <2> HIDE DEF new
  <2> QED
    BY <2>1, <2>2, UpdateEffect
<1>6. CASE StopRound(s)
  BY <1>0, <1>6 DEF StopRound, Effect
<1>7. CASE DeleteReclaimed(s)
  <2> DEFINE del == sbx[s].deleting \/ Exists(s)
             new == [sbx[s] EXCEPT !.deleting = del]
  <2>1. del \in BOOLEAN
    BY <1>0 DEF Object, Exists
  <2>2. sbx' = [sbx EXCEPT ![s] = new] /\ UNCHANGED <<thing, node>>
        /\ work[s] # "idle" /\ work' = [work EXCEPT ![s] = "idle"]
    BY <1>7 DEF DeleteReclaimed, Reclaimed
  <2> HIDE DEF del
  <2>3. new \in Object /\ new.age = sbx[s].age /\ new.phase = sbx[s].phase
    BY <1>0, <2>1 DEF Object
  <2> HIDE DEF new
  <2> QED
    BY <1>0, <2>2, <2>3, UpdateEffect
<1>8. CASE DeleteDraining(s)
  <2> DEFINE new == [sbx[s] EXCEPT !.deleting = TRUE]
  <2>1. new \in Object /\ new.age = sbx[s].age /\ new.phase = sbx[s].phase
    BY <1>0 DEF Object
  <2>2. /\ sbx' = [sbx EXCEPT ![s] = new] /\ UNCHANGED <<thing, node, work>>
        /\ sbx[s].phase \notin {"Absent", "Gone"}
    BY <1>8 DEF DeleteDraining, Reclaimed
  <2> HIDE DEF new
  <2> QED
    BY <2>1, <2>2, UpdateEffect
<1>9. CASE RunFinalizerStep(s)
  <2>1. PICK step : StepDone(s, step) \/ StepFailed(s, step)
    BY <1>9 DEF RunFinalizerStep
  <2>2. sbx[s].phase # "Absent" /\ work' = [work EXCEPT ![s] = "step"] /\ node' = node
    BY <1>9 DEF RunFinalizerStep, Exists
  <2> QED
    BY <2>1, <2>2, StepEffect DEF Effect
<1>10. CASE RemoveFinalizer(s)
  <2> DEFINE new == IF sbx[s].done = 4 THEN Ended(sbx[s])
                                       ELSE [sbx[s] EXCEPT !.done = @ + 1]
  <2>1. /\ new \in Object
        /\ new.age = sbx[s].age \/ new.phase = "Gone"
        /\ new.phase \in {"Gone", sbx[s].phase}
    <3>1. CASE sbx[s].done = 4
      BY <1>0, <3>1, EndedType
    <3>2. CASE sbx[s].done # 4
      <4>1. sbx[s].done + 1 \in 0 .. 4
        BY <1>0, <3>2 DEF Object
      <4> QED
        BY <1>0, <3>2, <4>1 DEF Object
    <3> QED
      BY <3>1, <3>2
  <2>2. /\ sbx' = [sbx EXCEPT ![s] = new] /\ UNCHANGED <<thing, node>>
        /\ sbx[s].phase \notin {"Absent", "Gone"} /\ work' = [work EXCEPT ![s] = "idle"]
    BY <1>10 DEF RemoveFinalizer, Exists
  <2> HIDE DEF new
  <2>3. new.phase # "Absent" /\ \A t \in Sandbox \ {s} : work'[t] = work[t]
    BY <2>1, <2>2
  <2>4. sbx' \in [Sandbox -> Object] /\ Effect
    BY <2>1, <2>2, <2>3, UpdateEffect
  <2>5. work' \in [Sandbox -> Phase \cup {"idle", "step"}]
    BY <2>2
  <2> QED
    BY <2>2, <2>4, <2>5
<1>11. CASE VolumeAppears(s)
  BY <1>11, Constants DEF VolumeAppears, Put, Effect, Unmarked
<1>12. ASSUME NEW k \in Kind, CollectGarbage(s, k) PROVE RemovalTypeOK' /\ Effect
  BY <1>12 DEF CollectGarbage, Remove, Effect
<1>13. CASE PodLost(s)
  BY <1>13 DEF PodLost, There, Remove, Effect
<1>14. CASE NodeChanges(s)
  BY <1>14 DEF NodeChanges, Effect
<1> QED
  BY <1>1, <1>2, <1>3, <1>4, <1>5, <1>6, <1>7, <1>8, <1>9, <1>10, <1>11,
     <1>12, <1>13, <1>14, <1>15, <1>16 DEF RemovalNext

(* What an effect preserves.                                               *)
LEMMA EffectKeepsMarks ==
  ASSUME RemovalTypeOK, RemovalTypeOK', MarkInv, Effect
  PROVE  MarkInv'
<1>0. ASSUME NEW s \in Sandbox
      PROVE  sbx'[s].phase = "Absent" => sbx'[s].age = 0 /\ work'[s] = "idle"
  BY <1>0 DEF MarkInv, Effect
<1> SUFFICES ASSUME NEW s \in Sandbox, NEW k \in Kind
             PROVE  /\ There(s, k)' => sbx'[s].phase # "Absent"
                    /\ Exists(s)' => thing'[s][k] <= sbx'[s].age + RoundTimeout
  BY <1>0 DEF MarkInv
<1>1. /\ sbx'[s].phase # "Gone" => sbx'[s].age = sbx[s].age
      /\ sbx[s].age \in Nat
      /\ thing[s][k] \in Int /\ thing'[s][k] \in Int
  <2>1. sbx[s] \in Object /\ (sbx'[s].phase # "Gone" => sbx'[s].age = sbx[s].age)
    BY DEF RemovalTypeOK, Effect
  <2>2. {thing[s][k], thing'[s][k]} \subseteq Age \cup {Missing, Unmarked}
    BY DEF RemovalTypeOK
  <2> QED
    BY <2>1, <2>2, Constants DEF Object, Age, Missing, Unmarked
<1>2. /\ There(s, k) => sbx[s].phase # "Absent"
      /\ Exists(s) => thing[s][k] <= sbx[s].age + RoundTimeout
  BY DEF MarkInv
<1>3. /\ sbx[s].phase = "Gone" => sbx'[s].phase = "Gone"
      /\ sbx'[s].phase = "Absent" => sbx[s].phase = "Absent" /\ work'[s] = work[s]
      /\ \/ thing'[s][k] \in {thing[s][k], Missing}
         \/ sbx[s].phase # "Absent" /\ thing'[s][k] \in -1 .. RoundTimeout
  BY DEF Effect
<1> QED
  BY <1>1, <1>2, <1>3, Constants DEF There, Exists, Missing

LEMMA EffectKeepsRound ==
  ASSUME IInv, RemovalTypeOK', Effect, UNCHANGED round
  PROVE  SnapshotInv' /\ DeletesOnlyOrphans'
<1>1. DeletesOnlyOrphans'
  BY DEF IInv, TypeOK, Round, Finding, DeletesOnlyOrphans, Effect
<1>2. ASSUME NEW s \in Sandbox, round.listed \in 1 .. 5, ~Owned(round, s)
      PROVE  /\ Running' /\ Exists(s)' => sbx'[s].age <= round.age
             /\ \A k \in Kind : round.things[s][k] = "due" => sbx'[s].phase = "Gone"
  <2>1. /\ sbx'[s].phase # "Gone" => sbx'[s].age = sbx[s].age
        /\ round.age \in Nat
        /\ sbx[s].phase = "Gone" => sbx'[s].phase = "Gone"
        /\ sbx[s].phase = "Absent" => sbx[s].age = 0
    BY Constants DEF IInv, TypeOK, Round, Effect, MarkInv
  <2>2. /\ Running /\ Exists(s) => sbx[s].age <= round.age
        /\ \A k \in Kind : round.things[s][k] = "due" => sbx[s].phase = "Gone"
    BY <1>2 DEF IInv, SnapshotInv
  <2> QED
    BY <2>1, <2>2 DEF Running, Exists
<1>3. SnapshotInv'
  BY <1>2 DEF IInv, SnapshotInv, Owned
<1> QED
  BY <1>1, <1>3

LEMMA EffectStep ==
  ASSUME IInv, RemovalTypeOK', Effect, UNCHANGED round
  PROVE  IInv'
<1>1. TypeOK' /\ RemovalTypeOK
  BY DEF IInv, TypeOK, RemovalTypeOK
<1> QED
  BY <1>1, EffectKeepsMarks, EffectKeepsRound DEF IInv

-----------------------------------------------------------------------------
(***************************************************************************)
(* The round.                                                              *)
(***************************************************************************)
LEMMA NoRoundInv ==
  ASSUME NEW r, r \in {NoRound, [NoRound EXCEPT !.on = TRUE]}, round' = r
  PROVE  round' \in Round /\ SnapshotInv' /\ DeletesOnlyOrphans'
<1>1. NoRound \in Round
  BY Constants DEF NoRound, Round, Unseen, SandboxView, Standing, ThingView
<1>2. round' \in Round
  BY <1>1 DEF Round
<1>3. /\ round'.todo = {} /\ round'.listed = 0
      /\ \A s \in Sandbox, k \in Kind : round'.things[s][k] = "missing"
  BY DEF NoRound
<1> QED
  BY <1>2, <1>3 DEF SnapshotInv, DeletesOnlyOrphans

LEMMA UnchangedEffect ==
  ASSUME IInv, UNCHANGED removalVars
  PROVE  RemovalTypeOK' /\ Effect
BY DEF IInv, TypeOK, RemovalTypeOK, Effect, removalVars

LEMMA ResetStep ==
  ASSUME IInv, RemovalTypeOK', Effect,
         round' \in {NoRound, [NoRound EXCEPT !.on = TRUE]}
  PROVE  IInv'
<1>1. RemovalTypeOK
  BY DEF IInv, TypeOK, RemovalTypeOK
<1>2. TypeOK'
  BY NoRoundInv DEF TypeOK, RemovalTypeOK
<1> QED
  BY <1>1, <1>2, NoRoundInv, EffectKeepsMarks DEF IInv

LEMMA ApplyEffect ==
  ASSUME IInv, NEW f \in round.todo, Apply(f)
  PROVE  RemovalTypeOK' /\ Effect
<1> DEFINE s == f.sandbox
           k == f.kind
<1>1. RemovalTypeOK /\ MarkInv /\ f \in Finding /\ s \in Sandbox
  BY DEF IInv, TypeOK, RemovalTypeOK, Round, Finding
<1>2. round.age \in 0 .. RoundTimeout /\ round.age \in Age
  BY Constants DEF Apply, Running, IInv, TypeOK, Round, Age
<1>3. UNCHANGED <<node, work>>
  BY DEF Apply
<1>4. \/ f.action = "Block" /\ Block(s, k)
      \/ f.action = "DeleteObject" /\ DeleteObject(s, k)
      \/ ForceFinalize(s) \/ MarkFailed(s) \/ UNCHANGED <<sbx, thing>>
  BY <1>1 DEF Apply, Finding
<1>5. CASE Block(s, k)
  BY <1>1, <1>2, <1>3, <1>5 DEF Block, RemovalTypeOK, MarkInv, There, Effect
<1>6. CASE DeleteObject(s, k)
  BY <1>1, <1>3, <1>6 DEF DeleteObject, Remove, RemovalTypeOK, Effect
<1>7. ASSUME NEW new \in Object, new.age = sbx[s].age \/ new.phase = "Gone",
             new.phase # "Absent",
             sbx' = IF Exists(s) THEN [sbx EXCEPT ![s] = new] ELSE sbx,
             thing' = thing
      PROVE  RemovalTypeOK' /\ Effect
  <2>1. CASE Exists(s)
    <3>1. sbx[s].phase # "Gone"
      BY <2>1 DEF Exists
    <3> QED
      BY <1>1, <1>3, <1>7, <2>1, <3>1, UpdateEffect DEF RemovalTypeOK
  <2>2. CASE ~Exists(s)
    BY <1>1, <1>3, <1>7, <2>2 DEF RemovalTypeOK, Effect
  <2> QED
    BY <2>1, <2>2
<1>8. CASE ForceFinalize(s)
  <2> DEFINE new == [Ended(sbx[s]) EXCEPT !.forced = TRUE]
  <2>1. new \in Object /\ new.phase = "Gone"
    <3>1. sbx[s] \in Object
      BY <1>1 DEF RemovalTypeOK
    <3> QED
      BY <3>1, EndedType
  <2>2. sbx' = (IF Exists(s) THEN [sbx EXCEPT ![s] = new] ELSE sbx) /\ thing' = thing
    BY <1>8 DEF ForceFinalize
  <2> HIDE DEF new
  <2> QED
    BY <1>7, <2>1, <2>2
<1>9. CASE MarkFailed(s)
  <2> DEFINE new == [sbx[s] EXCEPT !.phase = "Failed"]
  <2>1. new \in Object /\ new.age = sbx[s].age /\ new.phase # "Absent"
    <3>1. sbx[s] \in Object /\ {"Gone", "Failed"} \subseteq Phase
      BY <1>1 DEF RemovalTypeOK, Phase
    <3> QED
      BY <3>1 DEF Object
  <2>2. sbx' = (IF Exists(s) THEN [sbx EXCEPT ![s] = new] ELSE sbx) /\ thing' = thing
    BY <1>9 DEF MarkFailed
  <2> HIDE DEF new
  <2> QED
    BY <1>7, <2>1, <2>2
<1>10. CASE UNCHANGED <<sbx, thing>>
  BY <1>1, <1>3, <1>10 DEF RemovalTypeOK, Effect
<1> QED
  BY <1>4, <1>5, <1>6, <1>8, <1>9, <1>10

(* A finding is dropped: the round goes on with fewer, or ends.            *)
LEMMA DropStep ==
  ASSUME IInv, RemovalTypeOK', Effect, NEW f \in round.todo, Drop(f)
  PROVE  IInv'
<1>1. CASE round.todo = {f}
  BY <1>1, ResetStep DEF Drop
<1>2. CASE round.todo # {f}
  <2>1. round' = [round EXCEPT !.todo = @ \ {f}]
    BY <1>2 DEF Drop
  <2>2. /\ round' \in Round /\ round'.todo \subseteq round.todo
        /\ round'.listed = round.listed /\ round.listed = 6
    BY <2>1 DEF IInv, TypeOK, Round, SnapshotInv
  <2>3. TypeOK' /\ RemovalTypeOK
    BY <2>2 DEF IInv, TypeOK, RemovalTypeOK
  <2>4. SnapshotInv'
    BY <2>2 DEF SnapshotInv
  <2>5. DeletesOnlyOrphans'
    BY <2>2 DEF IInv, TypeOK, Round, Finding, DeletesOnlyOrphans, Effect
  <2> QED
    BY <2>3, <2>4, <2>5, EffectKeepsMarks DEF IInv
<1> QED
  BY <1>1, <1>2

-----------------------------------------------------------------------------
(***************************************************************************)
(* The snapshot and the classification.                                    *)
(***************************************************************************)
LEMMA ViewTypes ==
  ASSUME RemovalTypeOK, NEW s \in Sandbox
  PROVE  /\ ViewOf(s) \in SandboxView
         /\ ViewOf(s).standing = "unlisted" <=> ~Exists(s)
<1>1. sbx[s] \in Object
  BY DEF RemovalTypeOK
<1>2. StandingOf(s) \in Standing
  BY DEF StandingOf, Standing
<1>3. Exists(s) => StandingOf(s) # "unlisted"
  BY DEF StandingOf
<1>4. CASE Exists(s)
  BY <1>1, <1>2, <1>3, <1>4 DEF ViewOf, SandboxView, Object
<1>5. CASE ~Exists(s)
  BY <1>5 DEF ViewOf, Unseen, SandboxView, Standing
<1> QED
  BY <1>4, <1>5

LEMMA ThingViewTypes ==
  ASSUME RemovalTypeOK, round.age \in Nat, NEW s \in Sandbox, NEW k \in Kind
  PROVE  /\ ThingViewOf(s, k) \in ThingView
         /\ ThingViewOf(s, k) = "due" =>
              There(s, k) /\ thing[s][k] >= OrphanGrace + round.age
<1>1. thing[s][k] \in Age \cup {Missing, Unmarked}
  BY DEF RemovalTypeOK
<1> QED
  BY <1>1, Constants DEF ThingViewOf, ThingView, There, Elapsed, Age, Missing, Unmarked

LEMMA AnomalyTypes ==
  ASSUME NEW r, NEW s \in Sandbox
  PROVE  /\ Anomaly(r, s) \subseteq Finding
         /\ \A f \in Anomaly(r, s) : f.action # "DeleteObject"
BY DEF Anomaly, Finding, SandboxFinding

LEMMA FindingTypes ==
  ASSUME NEW r \in Round
  PROVE  /\ Findings(r) \subseteq Finding
         /\ \A f \in Findings(r) : f.action = "DeleteObject" =>
              /\ f.kind \in Kind /\ f.sandbox \in Sandbox
              /\ ~Owned(r, f.sandbox) /\ r.things[f.sandbox][f.kind] = "due"
<1>1. ASSUME NEW f \in Orphans(r), f.action = "DeleteObject"
      PROVE  /\ f.kind \in Kind /\ f.sandbox \in Sandbox
             /\ ~Owned(r, f.sandbox) /\ r.things[f.sandbox][f.kind] = "due"
  <2>1. /\ f.kind \in Kind /\ f.sandbox \in Sandbox /\ ~Owned(r, f.sandbox)
        /\ r.things[f.sandbox][f.kind] # "missing"
        /\ OrphanAction(r.things[f.sandbox][f.kind]) = "DeleteObject"
    BY <1>1 DEF Orphans, Finding
  <2>2. r.things[f.sandbox][f.kind] \in ThingView
    BY <2>1 DEF Round
  <2> QED
    BY <2>1, <2>2 DEF OrphanAction, ThingView
<1> QED
  BY <1>1, AnomalyTypes DEF Findings, Orphans

(* What the snapshot says of a sandbox that is not in it.                  *)
LEMMA ListStep ==
  ASSUME IInv, List
  PROVE  IInv'
<1> DEFINE kind == ListOrder[round.listed + 1]
           sandboxes == IF kind = "AgentSandbox"
                        THEN [s \in Sandbox |-> ViewOf(s)] ELSE round.sandboxes
           things == [s \in Sandbox |-> [k \in Kind |->
                        IF k = kind THEN ThingViewOf(s, k) ELSE round.things[s][k]]]
           listed == round.listed + 1
           seen == [round EXCEPT !.listed = listed, !.sandboxes = sandboxes,
                                 !.things = things]
<1>1. /\ RemovalTypeOK /\ round \in Round /\ MarkInv
      /\ round.listed \in 0 .. 5 /\ round.age \in Nat /\ round.todo = {}
      /\ Running /\ UNCHANGED removalVars
  <2>1. Running /\ round.listed < Len(ListOrder) /\ UNCHANGED removalVars
    BY DEF List
  <2>2. round \in Round /\ RemovalTypeOK /\ MarkInv
    BY DEF IInv, TypeOK, RemovalTypeOK
  <2>3. round.listed < 6
    BY <2>1 DEF ListOrder
  <2>4. round.listed \in 0 .. 5 /\ round.age \in Nat
    BY <2>2, <2>3, Constants DEF Round
  <2>5. round.todo = {}
    BY <2>4 DEF IInv, SnapshotInv
  <2> QED
    BY <2>1, <2>2, <2>4, <2>5
<1>2. /\ kind = "AgentSandbox" <=> round.listed = 0
      /\ \A k \in Kind : k # "AgentSandbox"
  BY <1>1, Constants DEF ListOrder, AttachedKind
<1>3. sandboxes \in [Sandbox -> SandboxView]
  BY <1>1, ViewTypes DEF Round
<1>4. things \in [Sandbox -> [Kind -> ThingView]]
  BY <1>1, ThingViewTypes DEF Round
<1>5. seen \in Round /\ seen.todo = {} /\ seen.listed = round.listed + 1
      /\ seen.age = round.age /\ seen.sandboxes = sandboxes /\ seen.things = things
  <2>1. listed \in 0 .. 6
    BY <1>1
  <2> HIDE DEF sandboxes, things, listed
  <2>2. seen \in Round
    BY <1>1, <1>3, <1>4, <2>1 DEF Round
  <2>3. /\ seen.todo = round.todo /\ seen.listed = listed /\ seen.age = round.age
        /\ seen.sandboxes = sandboxes /\ seen.things = things
    BY <1>1 DEF Round
  <2> QED
    BY <1>1, <2>2, <2>3 DEF listed
<1>6. ASSUME NEW s \in Sandbox, ~Owned(seen, s)
      PROVE  /\ Exists(s) => sbx[s].age <= round.age
             /\ \A k \in Kind : things[s][k] = "due" => sbx[s].phase = "Gone"
  <2>1. CASE round.listed = 0
    <3>1. ~Exists(s)
      BY <1>1, <1>2, <1>5, <1>6, <2>1, ViewTypes DEF Owned
    <3>2. \A k \in Kind : things[s][k] = "missing"
      BY <1>2, <2>1 DEF IInv, SnapshotInv
    <3> QED
      BY <3>1, <3>2
  <2>2. CASE round.listed \in 1 .. 5
    <3>1. ~Owned(round, s)
      BY <1>2, <1>5, <1>6, <2>2 DEF Owned
    <3>2. /\ Exists(s) => sbx[s].age <= round.age
          /\ \A k \in Kind : round.things[s][k] = "due" => sbx[s].phase = "Gone"
      BY <1>1, <2>2, <3>1 DEF IInv, SnapshotInv
    <3>3. ASSUME NEW k \in Kind, ThingViewOf(s, k) = "due"
          PROVE  sbx[s].phase = "Gone"
      <4>1. There(s, k) /\ thing[s][k] >= OrphanGrace + round.age
        BY <1>1, <3>3, ThingViewTypes
      <4>2. sbx[s].age \in Nat /\ thing[s][k] \in Int
        BY <1>1, Constants DEF RemovalTypeOK, Object, Age, Missing, Unmarked
      <4>3. ~Exists(s)
        BY <1>1, <3>2, <4>1, <4>2, Constants DEF MarkInv
      <4> QED
        BY <1>1, <4>1, <4>3 DEF MarkInv, Exists
    <3> QED
      BY <3>2, <3>3
  <2> QED
    BY <1>1, <2>1, <2>2
<1>7. RemovalTypeOK' /\ Effect
  BY UnchangedEffect, <1>1
<1> HIDE DEF sandboxes, things, kind
<1>8. CASE seen.listed < 6
  <2>1. round' = seen
    BY <1>8 DEF List, ListOrder, kind, sandboxes, things
  <2>2. SnapshotInv'
    <3>1. round.listed + 1 \in 1 .. 5
      BY <1>1, <1>5, <1>8
    <3> HIDE DEF seen
    <3> QED
      BY <1>1, <1>5, <1>6, <2>1, <3>1 DEF SnapshotInv, Owned, Exists, Running, removalVars
  <2>3. DeletesOnlyOrphans'
    BY <1>5, <2>1 DEF DeletesOnlyOrphans
  <2> HIDE DEF seen
  <2>4. TypeOK'
    BY <1>5, <1>7, <2>1 DEF TypeOK, RemovalTypeOK
  <2> QED
    BY <1>1, <1>7, <2>2, <2>3, <2>4, EffectKeepsMarks DEF IInv
<1>9. CASE ~(seen.listed < 6)
  <2>1. PICK F \in Collected(Findings(seen)) :
          round' = IF F = {} THEN NoRound
                   ELSE [NoRound EXCEPT !.on = TRUE, !.age = round.age,
                           !.listed = 6, !.todo = F]
    BY <1>9 DEF List, ListOrder, kind, sandboxes, things
  <2> HIDE DEF seen
  <2>2. F \subseteq Findings(seen)
    BY <2>1 DEF Collected
  <2>3. CASE F = {}
    BY <1>7, <2>1, <2>3, ResetStep
  <2>4. CASE F # {}
    <3>1. /\ NoRound \in Round /\ F \subseteq Finding
          /\ round.age \in 0 .. RoundTimeout + 1
      <4>1. NoRound \in Round
        BY Constants DEF NoRound, Round, Unseen, SandboxView, Standing, ThingView
      <4> QED
        BY <1>1, <1>5, <2>2, <4>1, FindingTypes DEF Round
    <3>2. round' \in Round /\ round'.listed = 6 /\ round'.todo = F
      <4> DEFINE next == [NoRound EXCEPT !.on = TRUE, !.age = round.age,
                                         !.listed = 6, !.todo = F]
      <4>0. 6 \in 0 .. 6 /\ F \in SUBSET Finding
        BY <3>1
      <4>1. next \in Round
        BY <3>1, <4>0 DEF Round
      <4>2. next.listed = 6 /\ next.todo = F
        BY <3>1 DEF Round
      <4> QED
        BY <2>1, <2>4, <4>1, <4>2
    <3>3. SnapshotInv'
      BY <3>2 DEF SnapshotInv
    <3>4. DeletesOnlyOrphans'
      <4> SUFFICES ASSUME NEW f \in F, f.action = "DeleteObject"
                   PROVE  sbx[f.sandbox].phase = "Gone"
        BY <1>1, <3>2 DEF DeletesOnlyOrphans, removalVars
      <4>1. /\ f.kind \in Kind /\ f.sandbox \in Sandbox
            /\ ~Owned(seen, f.sandbox) /\ things[f.sandbox][f.kind] = "due"
        BY <1>5, <2>2, FindingTypes
      <4> QED
        BY <1>6, <4>1
    <3>5. TypeOK'
      BY <1>7, <3>2 DEF TypeOK, RemovalTypeOK
    <3> QED
      BY <1>1, <1>7, <3>3, <3>4, <3>5, EffectKeepsMarks DEF IInv
  <2> QED
    BY <2>3, <2>4
<1> QED
  BY <1>8, <1>9

-----------------------------------------------------------------------------
(***************************************************************************)
(* Time.                                                                   *)
(***************************************************************************)
LEMMA OlderFacts ==
  ASSUME NEW limit \in Nat, NEW age \in 0 .. limit
  PROVE  /\ Older(age, limit) \in 0 .. limit
         /\ Older(age, limit) = IF age = limit THEN limit ELSE age + 1
BY DEF Older

LEMMA TickStep ==
  ASSUME IInv, Tick
  PROVE  IInv'
<1>1. /\ RemovalTypeOK /\ MarkInv /\ round \in Round
      /\ RoundTimeout \in Nat /\ RoundTimeout + 1 \in Nat /\ Horizon \in Nat
  BY Constants DEF IInv, TypeOK, RemovalTypeOK
<1>2. ASSUME NEW s \in Sandbox
      PROVE  /\ sbx'[s] \in Object /\ sbx'[s].phase = sbx[s].phase
             /\ ~Exists(s) => sbx'[s].age = sbx[s].age
             /\ Exists(s) => sbx'[s].age = Older(sbx[s].age, Horizon)
  <2> DEFINE age == Older(sbx[s].age, Horizon)
             deletingAge == IF sbx[s].deleting THEN Older(sbx[s].deletingAge, Horizon)
                                               ELSE sbx[s].deletingAge
             new == [sbx[s] EXCEPT !.age = age, !.deletingAge = deletingAge]
  <2>1. sbx'[s] = IF ~Exists(s) THEN sbx[s] ELSE new
    BY <1>1 DEF Tick, RemovalTypeOK
  <2>2. sbx[s] \in Object
    BY <1>1 DEF RemovalTypeOK
  <2>3. age \in Age /\ deletingAge \in Age
    BY <1>1, <2>2, OlderFacts DEF Object, Age
  <2> HIDE DEF age, deletingAge
  <2>4. new \in Object /\ new.phase = sbx[s].phase /\ new.age = age
    BY <2>2, <2>3 DEF Object
  <2> HIDE DEF new
  <2> QED
    BY <2>1, <2>2, <2>4 DEF age
<1>3. ASSUME NEW s \in Sandbox, NEW k \in Kind
      PROVE  /\ thing'[s][k] \in Age \cup {Missing, Unmarked}
             /\ thing'[s][k] = IF thing[s][k] >= 0 THEN Older(thing[s][k], Horizon)
                                                   ELSE thing[s][k]
  <2>1. thing'[s][k] = IF thing[s][k] >= 0 THEN Older(thing[s][k], Horizon)
                                           ELSE thing[s][k]
    BY DEF Tick
  <2>2. thing[s][k] \in Age \cup {Missing, Unmarked}
    BY <1>1 DEF RemovalTypeOK
  <2>3. thing[s][k] >= 0 => Older(thing[s][k], Horizon) \in Age
    BY <1>1, <2>2, OlderFacts DEF Age, Missing, Unmarked
  <2> QED
    BY <2>1, <2>2, <2>3
<1>4. RemovalTypeOK'
  <2>1. sbx' \in [Sandbox -> Object]
    BY <1>2 DEF Tick
  <2>2. thing' \in [Sandbox -> [Kind -> Age \cup {Missing, Unmarked}]]
    BY <1>3 DEF Tick
  <2> QED
    BY <1>1, <2>1, <2>2 DEF Tick, RemovalTypeOK
<1>5. /\ round' \in Round /\ round'.todo = round.todo /\ round'.listed = round.listed
      /\ round'.sandboxes = round.sandboxes /\ round'.things = round.things
      /\ round'.on = round.on
      /\ round'.age = IF round.on THEN Older(round.age, RoundTimeout + 1)
                                  ELSE round.age
  <2> DEFINE age == Older(round.age, RoundTimeout + 1)
             next == [round EXCEPT !.age = age]
  <2>1. round' = IF round.on THEN next ELSE round
    BY DEF Tick
  <2>2. round.age \in 0 .. RoundTimeout + 1
    BY <1>1 DEF Round
  <2>3. age \in 0 .. RoundTimeout + 1
    BY <1>1, <2>2, OlderFacts
  <2> HIDE DEF age
  <2>4. /\ next \in Round /\ next.todo = round.todo /\ next.listed = round.listed
        /\ next.sandboxes = round.sandboxes /\ next.things = round.things
        /\ next.on = round.on /\ next.age = age
    BY <1>1, <2>3 DEF Round
  <2> HIDE DEF next
  <2> QED
    BY <1>1, <2>1, <2>4 DEF age
<1>6. TypeOK'
  BY <1>4, <1>5 DEF TypeOK, RemovalTypeOK
<1>7. MarkInv'
  <2>1. ASSUME NEW s \in Sandbox
        PROVE  sbx'[s].phase = "Absent" => sbx'[s].age = 0 /\ work'[s] = "idle"
    BY <1>1, <1>2 DEF MarkInv, Exists, Tick
  <2>2. ASSUME NEW s \in Sandbox, NEW k \in Kind
        PROVE  /\ There(s, k)' => sbx'[s].phase # "Absent"
               /\ Exists(s)' => thing'[s][k] <= sbx'[s].age + RoundTimeout
    <3>1. /\ sbx[s].age \in 0 .. Horizon
          /\ thing[s][k] \in (0 .. Horizon) \cup {-2, -1}
      BY <1>1 DEF RemovalTypeOK, Object, Age, Missing, Unmarked
    <3>2. /\ There(s, k) => sbx[s].phase # "Absent"
          /\ Exists(s) => thing[s][k] <= sbx[s].age + RoundTimeout
      BY <1>1 DEF MarkInv
    <3>3. There(s, k)' => There(s, k)
      BY <1>3, <3>1, OlderFacts DEF There, Missing
    <3>4. Exists(s)' = Exists(s)
      BY <1>2 DEF Exists
    <3>5. ASSUME Exists(s) PROVE thing'[s][k] <= sbx'[s].age + RoundTimeout
      <4>1. sbx'[s].age = IF sbx[s].age = Horizon THEN Horizon ELSE sbx[s].age + 1
        BY <1>1, <1>2, <3>1, <3>5, OlderFacts
      <4>2. thing[s][k] >= 0 =>
              thing'[s][k] = IF thing[s][k] = Horizon THEN Horizon ELSE thing[s][k] + 1
        BY <1>1, <1>3, <3>1, OlderFacts
      <4>3. thing[s][k] < 0 => thing'[s][k] = thing[s][k]
        BY <1>3, <3>1
      <4>4. thing[s][k] <= sbx[s].age + RoundTimeout
        BY <3>2, <3>5
      <4> QED
        BY <1>1, <3>1, <4>1, <4>2, <4>3, <4>4
    <3> QED
      BY <1>2, <3>2, <3>3, <3>4, <3>5
  <2> QED
    BY <2>1, <2>2 DEF MarkInv
<1>8. SnapshotInv'
  <2>1. ASSUME NEW s \in Sandbox, round.listed \in 1 .. 5, ~Owned(round, s),
               Running', Exists(s)'
        PROVE  sbx'[s].age <= round'.age
    <3>1. /\ sbx[s].age \in 0 .. Horizon /\ round.age \in 0 .. RoundTimeout + 1
          /\ round.on
      BY <1>1, <1>5, <2>1 DEF RemovalTypeOK, Object, Age, Round, Running
    <3>2. round'.age = IF round.age = RoundTimeout + 1 THEN round.age ELSE round.age + 1
      BY <1>1, <1>5, <3>1, OlderFacts
    <3>3. round'.age <= RoundTimeout
      BY <2>1 DEF Running
    <3>4. Running /\ Exists(s)
      BY <1>1, <1>2, <2>1, <3>1, <3>2, <3>3 DEF Running, Exists
    <3>5. sbx[s].age <= round.age
      BY <2>1, <3>4 DEF IInv, SnapshotInv
    <3>6. sbx'[s].age = IF sbx[s].age = Horizon THEN Horizon ELSE sbx[s].age + 1
      BY <1>1, <1>2, <3>1, <3>4, OlderFacts
    <3> QED
      BY <1>1, <3>1, <3>2, <3>3, <3>5, <3>6
  <2>2. ASSUME NEW s \in Sandbox, NEW k \in Kind, round.listed \in 1 .. 5,
               ~Owned(round, s), round.things[s][k] = "due"
        PROVE  sbx'[s].phase = "Gone"
    BY <1>2, <2>2 DEF IInv, SnapshotInv
  <2>3. \A s \in Sandbox : Owned(round, s)' = Owned(round, s)
    BY <1>5 DEF Owned
  <2> QED
    BY <1>5, <2>1, <2>2, <2>3 DEF IInv, SnapshotInv, Owned
<1>9. DeletesOnlyOrphans'
  <2> SUFFICES ASSUME NEW f \in round.todo, f.action = "DeleteObject"
               PROVE  sbx'[f.sandbox].phase = "Gone"
    BY <1>5 DEF DeletesOnlyOrphans
  <2>1. f.sandbox \in Sandbox /\ sbx[f.sandbox].phase = "Gone"
    BY <1>1 DEF IInv, DeletesOnlyOrphans, Round, Finding
  <2> QED
    BY <1>2, <2>1
<1> QED
  BY <1>6, <1>7, <1>8, <1>9 DEF IInv

-----------------------------------------------------------------------------
(***************************************************************************)
(* Theorems.                                                               *)
(***************************************************************************)
LEMMA NextInv == IInv /\ [Next]_vars => IInv'
<1> SUFFICES ASSUME IInv, [Next]_vars PROVE IInv'
  OBVIOUS
<1>1. ASSUME NEW s \in Sandbox, RemovalNext(s), UNCHANGED round PROVE IInv'
  <2>1. RemovalTypeOK /\ MarkInv
    BY DEF IInv, TypeOK, RemovalTypeOK
  <2> QED
    BY <1>1, <2>1, RemovalStep, EffectStep
<1>2. CASE StartRound
  BY <1>2, UnchangedEffect, ResetStep DEF StartRound
<1>3. CASE List
  BY <1>3, ListStep
<1>4. CASE EndRound
  BY <1>4, UnchangedEffect, ResetStep DEF EndRound
<1>5. ASSUME NEW f \in round.todo, Apply(f) PROVE IInv'
  <2>1. Drop(f)
    BY <1>5 DEF Apply
  <2> QED
    BY <1>5, <2>1, ApplyEffect, DropStep
<1>6. ASSUME NEW f \in round.todo, ApplyFails(f) PROVE IInv'
  BY <1>6, UnchangedEffect, DropStep DEF ApplyFails
<1>7. CASE Tick
  BY <1>7, TickStep
<1>8. CASE UNCHANGED vars
  BY <1>8, UnchangedEffect, EffectStep DEF vars, removalVars
<1> QED
  BY <1>1, <1>2, <1>3, <1>4, <1>5, <1>6, <1>7, <1>8 DEF Next

(* Every variable of the sweeper's model keeps its type.                   *)
THEOREM SweeperTypes == Spec => []TypeOK
<1>1. IInv => TypeOK
  BY DEF IInv
<1> QED
  BY <1>1, InitInv, NextInv, PTL DEF Spec

(* Whatever the controller, the cluster and time do between the lists of a *)
(* round and its deletes, the sweeper deletes nothing whose sandbox exists *)
(* or will exist, as long as the grace is longer than a round can last.    *)
THEOREM SweeperDeletesOnlyOrphans == Spec => []DeletesOnlyOrphans
<1>1. IInv => DeletesOnlyOrphans
  BY DEF IInv
<1> QED
  BY <1>1, InitInv, NextInv, PTL DEF Spec
=============================================================================
