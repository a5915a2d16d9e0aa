-------------------------- MODULE SweeperChainProof --------------------------
(* Proofs about Sweeper that follow a sandbox through its life: its state  *)
(* is saved only behind a closed network, and what the sweeper found of it *)
(* is still so when the sweeper acts.                                      *)
EXTENDS SweeperProof

-----------------------------------------------------------------------------
(***************************************************************************)
(* Inductive invariants.                                                   *)
(***************************************************************************)

(* A round that read New makes a Pod; by then no Pod was waited for yet.   *)
WorkInv(s) ==
  work[s] = "New" => sbx[s].phase \notin {"Provisioning", "Ready", "Running"}

(* What has a Pod, there or only named by the status, has its network      *)
(* policy until it is gone.                                                *)
PolicyInv(s) ==
  Exists(s) =>
    /\ sbx[s].served \/ sbx[s].phase \in {"Ready", "Running"} => sbx[s].placed
    /\ sbx[s].placed \/ There(s, "Pod") => There(s, "NetworkPolicy")

(* The chain only starts with the deletion, and flushes after it has cut.  *)
ChainInv(s) ==
  /\ Exists(s) =>
       /\ work[s] = "step" => sbx[s].deleting
       /\ sbx[s].done > 0 => sbx[s].deleting
       /\ sbx[s].flushed => sbx[s].deleting
       /\ sbx[s].network # "open" => sbx[s].deleting
       /\ sbx[s].flushed => sbx[s].done >= 2
       /\ sbx[s].served /\ (sbx[s].done >= 2 \/ (sbx[s].done = 1 /\ work[s] = "step"))
            => sbx[s].network # "open"
  /\ sbx[s].flushed /\ sbx[s].served => sbx[s].network # "open"

SandboxInv(s) ==
  /\ WorkInv(s)
  /\ "NetworkPolicy" \in Kind => PolicyInv(s) /\ ChainInv(s)

(* No round over s can make a Pod any more.                                *)
PastNew(s) == sbx[s].phase \notin {"Absent", "New"} /\ work[s] # "New"

(* The deletion of s takes too long, or is done.                           *)
Overdue(s) ==
  \/ sbx[s].phase = "Gone"
  \/ /\ sbx[s].phase # "Absent" /\ sbx[s].deleting
     /\ sbx[s].deletingAge > StuckTerminatingGrace

Calm(s) ==
  /\ PastNew(s) => /\ PastNew(s)'
                   /\ ~There(s, "Pod") => ~There(s, "Pod")'
  /\ Overdue(s) => Overdue(s)'

(* What most steps do to a sandbox at most.                                *)
Quiet(s) ==
  /\ \/ sbx'[s].phase = sbx[s].phase
     \/ Exists(s) /\ sbx'[s].phase \in {"Failed", "Gone"}
  /\ Exists(s)' =>
       /\ sbx'[s].placed = sbx[s].placed /\ sbx'[s].done = sbx[s].done
       /\ sbx[s].deleting => sbx'[s].deleting
  /\ sbx'[s].served = sbx[s].served /\ sbx'[s].network = sbx[s].network
  /\ sbx'[s].flushed = sbx[s].flushed
  /\ \/ work'[s] \in {work[s], "idle"}
     \/ sbx'[s].phase = sbx[s].phase /\ work'[s] = sbx[s].phase /\ Exists(s)
  /\ Exists(s)' /\ There(s, "NetworkPolicy") => There(s, "NetworkPolicy")'
  /\ There(s, "Pod")' => There(s, "Pod") \/ work[s] = "New"
  /\ "NetworkPolicy" \in Kind /\ There(s, "Pod")' =>
       There(s, "Pod") \/ There(s, "NetworkPolicy")'
  /\ Overdue(s) => Overdue(s)'

LEMMA QuietStep ==
  ASSUME NEW s \in Sandbox, RemovalTypeOK, RemovalTypeOK', SandboxInv(s), Quiet(s)
  PROVE  SandboxInv(s)' /\ Calm(s)
<1>1. sbx[s].phase \in Phase
  BY DEF RemovalTypeOK, Object
<1>2. WorkInv(s)'
  BY <1>1 DEF Quiet, SandboxInv, WorkInv, Phase, Exists
<1>3. "NetworkPolicy" \in Kind /\ PolicyInv(s) => PolicyInv(s)'
  BY <1>1 DEF Quiet, PolicyInv, Exists
<1>4. ChainInv(s) => ChainInv(s)'
  BY <1>1 DEF Quiet, ChainInv, Phase, Exists
<1>5. Calm(s)
  BY <1>1 DEF Quiet, Calm, PastNew, Exists
<1> QED
  BY <1>2, <1>3, <1>4, <1>5 DEF SandboxInv

(* A step about s leaves the others alone.                                 *)
LEMMA OthersQuiet ==
  ASSUME RemovalTypeOK, NEW s \in Sandbox, RemovalNext(s), NEW t \in Sandbox \ {s}
  PROVE  Quiet(t)
<1>1. sbx'[t] = sbx[t]
  BY DEF RemovalTypeOK, RemovalNext, Create, Claim, Release, BeginRound, Ensure,
         Advance, AdvanceWithoutPod,
         StopRound, DeleteReclaimed, DeleteDraining, RunFinalizerStep,
         StepDone, StepFailed, RemoveFinalizer, VolumeAppears, CollectGarbage,
         PodLost, NodeChanges
<1>2. work'[t] = work[t]
  BY DEF RemovalTypeOK, RemovalNext, Create, Claim, Release, BeginRound, Ensure,
         Advance, AdvanceWithoutPod,
         StopRound, DeleteReclaimed, DeleteDraining, RunFinalizerStep,
         RemoveFinalizer, VolumeAppears, CollectGarbage, PodLost, NodeChanges
<1>3. thing'[t] = thing[t]
  BY DEF RemovalTypeOK, RemovalNext, Create, Claim, Release, BeginRound, Ensure,
         Advance, AdvanceWithoutPod,
         StopRound, DeleteReclaimed, DeleteDraining, RunFinalizerStep,
         StepDone, StepFailed, RemoveFinalizer, VolumeAppears, CollectGarbage,
         PodLost, NodeChanges, Put, Remove
<1> QED
  BY <1>1, <1>2, <1>3 DEF Quiet, There, Exists, Overdue

-----------------------------------------------------------------------------
(***************************************************************************)
(* The steps that are not quiet about their sandbox.                       *)
(***************************************************************************)
LEMMA CreateStep ==
  ASSUME NEW s \in Sandbox, RemovalTypeOK, MarkInv, Create(s)
  PROVE  SandboxInv(s)' /\ Calm(s)
<1>1. PICK c \in {"none", "held"} :
        sbx' = [sbx EXCEPT ![s] = [Nothing EXCEPT !.phase = "New", !.claim = c]]
  BY DEF Create
<1>2. /\ sbx'[s].phase = "New" /\ sbx'[s].done = 0 /\ ~sbx'[s].served
      /\ sbx'[s].network = "open" /\ ~sbx'[s].flushed /\ ~sbx'[s].placed
  BY <1>1 DEF RemovalTypeOK, Nothing
<1>3. sbx[s].phase = "Absent" /\ work'[s] = "idle"
  BY DEF Create, MarkInv
<1>4. ~There(s, "Pod")'
  BY <1>3 DEF Create, MarkInv, There
<1> QED
  BY <1>2, <1>3, <1>4 DEF SandboxInv, WorkInv, PolicyInv, ChainInv, Calm, PastNew, Overdue

LEMMA AdvanceStep ==
  ASSUME NEW s \in Sandbox, RemovalTypeOK, SandboxInv(s), Advance(s)
  PROVE  SandboxInv(s)' /\ Calm(s)
<1> DEFINE placed == sbx[s].placed \/ work[s] = "New"
           new(p) == [sbx[s] EXCEPT !.phase = p, !.placed = placed,
                                    !.served = @ \/ p = "Running"]
<1>1. PICK p \in NextPhases(s) : sbx' = [sbx EXCEPT ![s] = new(p)]
  BY DEF Advance
<1>2. /\ sbx[s].phase \in Phase /\ sbx[s].placed \in BOOLEAN
      /\ sbx[s] \in Object
  BY DEF RemovalTypeOK, Object
<1>3. /\ ~sbx[s].deleting /\ work[s] = sbx[s].phase
      /\ sbx[s].phase \notin Reclaimed \cup {"Absent", "Gone"}
      /\ AllMade(s) /\ work'[s] = "idle" /\ thing' = thing
  BY DEF Advance, Exists, RemovalTypeOK
<1>4. /\ sbx'[s].phase = p /\ sbx'[s].placed = placed
      /\ sbx'[s].served = (sbx[s].served \/ p = "Running")
      /\ sbx'[s].deleting = sbx[s].deleting /\ sbx'[s].done = sbx[s].done
      /\ sbx'[s].network = sbx[s].network /\ sbx'[s].flushed = sbx[s].flushed
  <2> HIDE DEF placed
  <2> QED
    BY <1>1, <1>2 DEF RemovalTypeOK, Object
<1>5. p \in Phase \ {"Absent", "New", "Gone"}
  BY <1>2, <1>3 DEF NextPhases, Phase, Reclaimed
<1>6. WorkInv(s)' /\ Calm(s)
  BY <1>3, <1>4, <1>5 DEF WorkInv, Calm, PastNew, There, Overdue
<1>7. ASSUME "NetworkPolicy" \in Kind, PolicyInv(s), ChainInv(s)
      PROVE  PolicyInv(s)' /\ ChainInv(s)'
  <2>1. sbx[s].phase \in {"New", "Provisioning", "Ready", "Running"}
    BY <1>2, <1>3 DEF Phase, Reclaimed
  <2>2. Exists(s)
    BY <1>3 DEF Exists
  <2>3. p \in {"Ready", "Running"} => sbx[s].placed
    <3>1. sbx[s].phase \in {"Ready", "Running"} => sbx[s].placed
      BY <1>7, <2>2 DEF PolicyInv
    <3>2. sbx[s].phase = "New" => p = "Provisioning"
      BY <1>1 DEF NextPhases
    <3>3. sbx[s].phase = "Provisioning" /\ p \in {"Ready", "Running"} => Healthy(s)
      BY <1>1 DEF NextPhases
    <3> QED
      BY <2>1, <3>1, <3>2, <3>3 DEF Healthy
  <2>4. sbx'[s].placed => There(s, "NetworkPolicy")
    <3>1. sbx'[s].placed => "NetworkPolicy" \in Wanted(s, work[s])
      BY <1>4, <1>7 DEF Wanted
    <3> QED
      BY <1>3, <3>1 DEF AllMade
  <2>5. sbx'[s].served => sbx'[s].placed
    BY <1>4, <1>7, <2>2, <2>3 DEF PolicyInv
  <2>6. PolicyInv(s)'
    BY <1>3, <1>4, <1>7, <2>2, <2>3, <2>4, <2>5 DEF PolicyInv, There
  <2>7. ChainInv(s)'
    BY <1>2, <1>3, <1>4, <1>7, <2>2 DEF ChainInv, Object
  <2> QED
    BY <2>6, <2>7
<1> QED
  BY <1>6, <1>7 DEF SandboxInv

LEMMA AdvanceWithoutPodStep ==
  ASSUME NEW s \in Sandbox, RemovalTypeOK, SandboxInv(s), AdvanceWithoutPod(s)
  PROVE  SandboxInv(s)' /\ Calm(s)
<1>1. /\ sbx' = [sbx EXCEPT ![s].phase = "Provisioning"] /\ sbx[s].phase = "New"
      /\ work'[s] = "idle" /\ thing' = thing /\ ~sbx[s].deleting /\ Exists(s)
  BY DEF AdvanceWithoutPod, RemovalTypeOK
<1>2. sbx[s] \in Object
  BY DEF RemovalTypeOK
<1>3. /\ sbx'[s].phase = "Provisioning" /\ sbx'[s].placed = sbx[s].placed
      /\ sbx'[s].deleting = sbx[s].deleting /\ sbx'[s].done = sbx[s].done
      /\ sbx'[s].served = sbx[s].served /\ sbx'[s].network = sbx[s].network
      /\ sbx'[s].flushed = sbx[s].flushed
  BY <1>1, <1>2 DEF RemovalTypeOK, Object
<1>4. WorkInv(s)' /\ Calm(s)
  BY <1>1, <1>3 DEF WorkInv, Calm, PastNew, Overdue
<1>5. PolicyInv(s) => PolicyInv(s)'
  BY <1>1, <1>3 DEF PolicyInv, There, Exists
<1>6. ChainInv(s) => ChainInv(s)'
  BY <1>1, <1>3 DEF ChainInv, Exists
<1> QED
  BY <1>4, <1>5, <1>6 DEF SandboxInv

LEMMA EndedFields ==
  ASSUME NEW o \in Object, NEW e \in {Ended(o), [Ended(o) EXCEPT !.forced = TRUE]}
  PROVE  /\ e.phase = "Gone" /\ e.served = o.served
         /\ e.network = o.network /\ e.flushed = o.flushed
BY DEF Ended, Nothing

(* The network is closed, or fails to be, before the state is saved.       *)
LEMMA FinalizerStep ==
  ASSUME NEW s \in Sandbox, RemovalTypeOK, SandboxInv(s), RunFinalizerStep(s)
  PROVE  SandboxInv(s)' /\ Calm(s)
<1> DEFINE step == FinalizerOrder[sbx[s].done + 1]
<1>1. /\ Exists(s) /\ sbx[s].deleting /\ work'[s] = "step"
      /\ StepDone(s, step) \/ StepFailed(s, step)
  BY DEF RunFinalizerStep, RemovalTypeOK
<1>2. sbx[s] \in Object /\ sbx[s].done \in 0 .. 4 /\ sbx[s].flushed \in BOOLEAN
  BY DEF RemovalTypeOK, Object
<1>3. /\ step = "network" <=> sbx[s].done = 1
      /\ step = "flush" <=> sbx[s].done = 2
  BY <1>2 DEF FinalizerOrder
<1>4. /\ sbx'[s].phase = sbx[s].phase /\ sbx'[s].placed = sbx[s].placed
      /\ sbx'[s].deleting = sbx[s].deleting /\ sbx'[s].done = sbx[s].done
      /\ sbx'[s].served = sbx[s].served
      /\ sbx'[s].flushed => sbx[s].flushed \/ step = "flush"
      /\ step # "network" => sbx'[s].network = sbx[s].network
      /\ step = "network" /\ There(s, "NetworkPolicy") => sbx'[s].network # "open"
      /\ sbx'[s].deletingAge = sbx[s].deletingAge
  <2> HIDE DEF step
  <2>1. CASE StepFailed(s, step)
    BY <1>2, <2>1 DEF StepFailed, RemovalTypeOK, Object
  <2>2. CASE StepDone(s, step)
    <3> DEFINE cut == IF step = "network" /\ There(s, "NetworkPolicy")
                      THEN "cut" ELSE sbx[s].network
               flush == sbx[s].flushed \/ step = "flush"
               record == sbx[s].recorded \/ (step = "metrics" /\
                           (sbx[s].placed => ~There(s, "Pod")))
    <3>1. sbx' = [sbx EXCEPT ![s] = [sbx[s] EXCEPT !.network = cut,
                                !.flushed = flush, !.recorded = record]]
      BY <2>2 DEF StepDone
    <3>2. flush \in BOOLEAN /\ (flush => sbx[s].flushed \/ step = "flush")
      BY <1>2
    <3>3. /\ step # "network" => cut = sbx[s].network
          /\ step = "network" /\ There(s, "NetworkPolicy") => cut # "open"
      OBVIOUS
    <3> HIDE DEF cut, flush, record
    <3>4. /\ sbx'[s].phase = sbx[s].phase /\ sbx'[s].placed = sbx[s].placed
          /\ sbx'[s].deleting = sbx[s].deleting /\ sbx'[s].done = sbx[s].done
          /\ sbx'[s].served = sbx[s].served
          /\ sbx'[s].flushed = flush /\ sbx'[s].network = cut
          /\ sbx'[s].deletingAge = sbx[s].deletingAge
      BY <1>2, <3>1 DEF RemovalTypeOK, Object
    <3> QED
      BY <3>2, <3>3, <3>4
  <2> QED
    BY <1>1, <2>1, <2>2
<1>5. \A k \in {"Pod", "NetworkPolicy"} : There(s, k)' <=> There(s, k)
  <2> HIDE DEF step
  <2>1. CASE StepFailed(s, step)
    BY <2>1 DEF StepFailed, There
  <2>2. CASE StepDone(s, step)
    BY <2>2 DEF StepDone, There, RemovalTypeOK
  <2> QED
    BY <1>1, <2>1, <2>2
<1>6. WorkInv(s)' /\ Calm(s)
  BY <1>1, <1>4, <1>5 DEF WorkInv, Calm, PastNew, Overdue
<1>7. PolicyInv(s) => PolicyInv(s)'
  BY <1>4, <1>5 DEF PolicyInv, Exists
<1>8. ASSUME PolicyInv(s), ChainInv(s) PROVE ChainInv(s)'
  <2> HIDE DEF step
  <2>1. sbx[s].served => There(s, "NetworkPolicy")
    BY <1>1, <1>8 DEF PolicyInv
  <2>2. sbx'[s].flushed => sbx'[s].done >= 2
    BY <1>1, <1>2, <1>3, <1>4, <1>8 DEF ChainInv
  <2>3. sbx'[s].served /\ sbx'[s].done >= 1 => sbx'[s].network # "open"
    BY <1>1, <1>2, <1>3, <1>4, <1>8, <2>1 DEF ChainInv
  <2> QED
    BY <1>1, <1>2, <1>4, <2>2, <2>3 DEF ChainInv
<1> QED
  BY <1>6, <1>7, <1>8 DEF SandboxInv

LEMMA RemoveFinalizerStep ==
  ASSUME NEW s \in Sandbox, RemovalTypeOK, SandboxInv(s), RemoveFinalizer(s)
  PROVE  SandboxInv(s)' /\ Calm(s)
<1>1. /\ Exists(s) /\ work[s] = "step" /\ work'[s] = "idle" /\ thing' = thing
      /\ sbx' = [sbx EXCEPT ![s] = IF sbx[s].done = 4 THEN Ended(sbx[s])
                                   ELSE [sbx[s] EXCEPT !.done = @ + 1]]
  BY DEF RemoveFinalizer, RemovalTypeOK
<1>2. sbx[s] \in Object /\ sbx[s].done \in 0 .. 4
  BY DEF RemovalTypeOK, Object
<1>3. CASE sbx[s].done = 4
  <2>1. /\ sbx'[s].phase = "Gone" /\ sbx'[s].served = sbx[s].served
        /\ sbx'[s].network = sbx[s].network /\ sbx'[s].flushed = sbx[s].flushed
    BY <1>1, <1>2, <1>3, EndedFields DEF RemovalTypeOK
  <2>2. WorkInv(s)' /\ Calm(s)
    BY <1>1, <2>1 DEF WorkInv, Calm, PastNew, There, Overdue
  <2>3. PolicyInv(s)'
    BY <2>1 DEF PolicyInv, Exists
  <2>4. ChainInv(s) => ChainInv(s)'
    BY <2>1 DEF ChainInv, Exists
  <2> QED
    BY <2>2, <2>3, <2>4 DEF SandboxInv
<1>4. CASE sbx[s].done # 4
  <2>1. /\ sbx'[s].placed = sbx[s].placed /\ sbx'[s].deleting = sbx[s].deleting
        /\ sbx'[s].served = sbx[s].served /\ sbx'[s].network = sbx[s].network
        /\ sbx'[s].flushed = sbx[s].flushed /\ sbx'[s].phase = sbx[s].phase
        /\ sbx'[s].done = sbx[s].done + 1
        /\ sbx'[s].deletingAge = sbx[s].deletingAge
    BY <1>1, <1>2, <1>4 DEF RemovalTypeOK, Object
  <2>2. WorkInv(s)' /\ Calm(s)
    BY <1>1, <2>1 DEF WorkInv, Calm, PastNew, There, Overdue
  <2>3. PolicyInv(s) => PolicyInv(s)'
    BY <1>1, <2>1 DEF PolicyInv, Exists, There
  <2>4. ChainInv(s) => ChainInv(s)'
    BY <1>1, <1>2, <2>1 DEF ChainInv, Exists
  <2> QED
    BY <2>2, <2>3, <2>4 DEF SandboxInv
<1> QED
  BY <1>3, <1>4

-----------------------------------------------------------------------------
(***************************************************************************)
(* The steps of the controller, the cluster and the sweeper.               *)
(***************************************************************************)
AllInv  == \A s \in Sandbox : SandboxInv(s)
AllCalm == \A s \in Sandbox : Calm(s)

LEMMA RemovalChain ==
  ASSUME RemovalTypeOK, RemovalTypeOK', MarkInv, AllInv,
         NEW s \in Sandbox, RemovalNext(s)
  PROVE  AllInv' /\ AllCalm
<1>1. ASSUME NEW t \in Sandbox \ {s} PROVE SandboxInv(t)' /\ Calm(t)
  BY <1>1, OthersQuiet, QuietStep DEF AllInv
<1>2. Quiet(s) => SandboxInv(s)' /\ Calm(s)
  BY QuietStep DEF AllInv
<1>0. sbx[s] \in Object /\ SandboxInv(s)
  BY DEF RemovalTypeOK, AllInv
<1>3. CASE Create(s)
  BY <1>1, <1>3, CreateStep DEF AllInv, AllCalm
<1>4. CASE Claim(s)
  <2>1. /\ sbx' = [sbx EXCEPT ![s].claim = "held"]
        /\ UNCHANGED <<thing, work>>
    BY <1>4 DEF Claim
  <2>2. Quiet(s)
    BY <1>0, <2>1 DEF RemovalTypeOK, Object, Quiet, There, Exists, Overdue
  <2> QED
    BY <1>1, <1>2, <2>2 DEF AllInv, AllCalm
<1>17. CASE Release(s)
  <2>1. /\ sbx' = [sbx EXCEPT ![s].claim = "released"]
        /\ UNCHANGED <<thing, work>>
    BY <1>17 DEF Release
  <2>2. Quiet(s)
    BY <1>0, <2>1 DEF RemovalTypeOK, Object, Quiet, There, Exists, Overdue
  <2> QED
    BY <1>1, <1>2, <2>2 DEF AllInv, AllCalm
<1>5. CASE BeginRound(s)
  <2>1. Quiet(s)
    BY <1>5 DEF BeginRound, RemovalTypeOK, Quiet, There, Exists, Overdue
  <2> QED
    BY <1>1, <1>2, <2>1 DEF AllInv, AllCalm
<1>6. ASSUME NEW k \in Kind, Ensure(s, k) PROVE AllInv' /\ AllCalm
  <2>1. /\ UNCHANGED <<sbx, work>> /\ thing' = [thing EXCEPT ![s][k] = Unmarked]
        /\ k = "Pod" => work[s] = "New"
        /\ k = "Pod" /\ "NetworkPolicy" \in Kind => There(s, "NetworkPolicy")
    BY <1>6 DEF Ensure, Put, Wanted
  <2>2. There(s, "NetworkPolicy") => There(s, "NetworkPolicy")'
    BY <2>1 DEF There, RemovalTypeOK, Unmarked, Missing
  <2>3. There(s, "Pod")' => There(s, "Pod") \/ work[s] = "New"
    BY <2>1 DEF There, RemovalTypeOK
  <2>5. There(s, "Pod")' => There(s, "Pod") \/ k = "Pod"
    BY <2>1 DEF There, RemovalTypeOK
  <2>4. Quiet(s)
    BY <2>1, <2>2, <2>3, <2>5 DEF Quiet, Exists, Overdue
  <2> QED
    BY <1>1, <1>2, <2>4 DEF AllInv, AllCalm
<1>7. CASE Advance(s)
  BY <1>0, <1>1, <1>7, AdvanceStep DEF AllInv, AllCalm
<1>18. CASE AdvanceWithoutPod(s)
  BY <1>0, <1>1, <1>18, AdvanceWithoutPodStep DEF AllInv, AllCalm
<1>8. CASE StopRound(s)
  <2>1. Quiet(s)
    BY <1>8 DEF StopRound, RemovalTypeOK, Quiet, There, Exists, Overdue
  <2> QED
    BY <1>1, <1>2, <2>1 DEF AllInv, AllCalm
<1>9. CASE DeleteReclaimed(s)
  <2> DEFINE del == sbx[s].deleting \/ Exists(s)
  <2>1. /\ sbx' = [sbx EXCEPT ![s] = [sbx[s] EXCEPT !.deleting = del]]
        /\ work' = [work EXCEPT ![s] = "idle"] /\ thing' = thing
    BY <1>9 DEF DeleteReclaimed
  <2>2. sbx[s].deleting => del
    OBVIOUS
  <2> HIDE DEF del
  <2>3. Quiet(s)
    BY <1>0, <2>1, <2>2 DEF RemovalTypeOK, Object, Quiet, There, Exists, Overdue
  <2> QED
    BY <1>1, <1>2, <2>3 DEF AllInv, AllCalm
<1>10. CASE DeleteDraining(s)
  <2>1. /\ sbx' = [sbx EXCEPT ![s].deleting = TRUE]
        /\ UNCHANGED <<thing, work>>
    BY <1>10 DEF DeleteDraining
  <2>2. Quiet(s)
    BY <1>0, <2>1 DEF RemovalTypeOK, Object, Quiet, There, Exists, Overdue
  <2> QED
    BY <1>1, <1>2, <2>2 DEF AllInv, AllCalm
<1>11. CASE RunFinalizerStep(s)
  BY <1>0, <1>1, <1>11, FinalizerStep DEF AllInv, AllCalm
<1>12. CASE RemoveFinalizer(s)
  BY <1>0, <1>1, <1>12, RemoveFinalizerStep DEF AllInv, AllCalm
<1>13. CASE VolumeAppears(s)
  <2>1. /\ UNCHANGED <<sbx, work>>
        /\ "Volume" \in Kind /\ thing' = [thing EXCEPT ![s]["Volume"] = Unmarked]
    BY <1>13 DEF VolumeAppears, Put
  <2>2. \A k \in {"Pod", "NetworkPolicy"} : There(s, k)' <=> There(s, k)
    BY <2>1 DEF There, RemovalTypeOK
  <2>3. Quiet(s)
    BY <2>1, <2>2 DEF Quiet, Exists, Overdue
  <2> QED
    BY <1>1, <1>2, <2>3 DEF AllInv, AllCalm
<1>14. ASSUME NEW k \in Kind, CollectGarbage(s, k) PROVE AllInv' /\ AllCalm
  <2>1. /\ UNCHANGED <<sbx, work>> /\ sbx[s].phase = "Gone"
        /\ thing' = [thing EXCEPT ![s][k] = Missing]
    BY <1>14 DEF CollectGarbage, Remove
  <2>2. There(s, "Pod")' => There(s, "Pod")
    BY <2>1 DEF There, RemovalTypeOK
  <2>3. Quiet(s)
    BY <2>1, <2>2 DEF Quiet, Exists, Overdue
  <2> QED
    BY <1>1, <1>2, <2>3 DEF AllInv, AllCalm
<1>15. CASE PodLost(s)
  <2>1. /\ UNCHANGED <<sbx, work>> /\ "Pod" \in Kind
        /\ thing' = [thing EXCEPT ![s]["Pod"] = Missing]
    BY <1>15 DEF PodLost, Remove, There
  <2>2. /\ There(s, "NetworkPolicy")' <=> There(s, "NetworkPolicy")
        /\ There(s, "Pod")' => There(s, "Pod")
    BY <2>1 DEF There, RemovalTypeOK
  <2>3. Quiet(s)
    BY <2>1, <2>2 DEF Quiet, Exists, Overdue
  <2> QED
    BY <1>1, <1>2, <2>3 DEF AllInv, AllCalm
<1>16. CASE NodeChanges(s)
  <2>1. Quiet(s)
    BY <1>16 DEF NodeChanges, Quiet, There, Exists, Overdue
  <2> QED
    BY <1>1, <1>2, <2>1 DEF AllInv, AllCalm
<1> QED
  BY <1>3, <1>4, <1>5, <1>6, <1>7, <1>8, <1>9, <1>10, <1>11, <1>12, <1>13,
     <1>14, <1>15, <1>16, <1>17, <1>18 DEF RemovalNext

(* The sweeper removes objects of what is gone, and fails or ends sandboxes*)
(* that exist.                                                             *)
LEMMA ApplyChain ==
  ASSUME IInv, AllInv, RemovalTypeOK', NEW f \in round.todo, Apply(f)
  PROVE  AllInv' /\ AllCalm
<1> DEFINE s == f.sandbox
           k == f.kind
<1>1. RemovalTypeOK /\ f \in Finding /\ s \in Sandbox /\ sbx[s] \in Object
  BY DEF IInv, TypeOK, RemovalTypeOK, Round, Finding
<1>2. work' = work /\ round.age \in Nat
  BY Constants DEF Apply, Running, IInv, TypeOK, Round
<1>3. SUFFICES ASSUME NEW t \in Sandbox PROVE Quiet(t)
  BY <1>1, QuietStep DEF AllInv, AllCalm
<1>4. \/ Block(s, k)
      \/ f.action = "DeleteObject" /\ DeleteObject(s, k)
      \/ ForceFinalize(s) \/ MarkFailed(s) \/ UNCHANGED <<sbx, thing>>
  BY <1>1 DEF Apply, Finding
<1>5. CASE Block(s, k)
  <2>1. /\ sbx' = sbx
        /\ \/ thing' = thing
           \/ There(s, k) /\ thing' = [thing EXCEPT ![s][k] = round.age]
    BY <1>5 DEF Block
  <2>2. \A j \in Kind : There(t, j)' <=> There(t, j)
    BY <1>1, <1>2, <2>1 DEF There, RemovalTypeOK, Missing
  <2>3. \A j : There(t, j)' <=> There(t, j)
    BY <2>2 DEF There
  <2> QED
    BY <1>2, <2>1, <2>3 DEF Quiet, Exists, Overdue
<1>6. CASE f.action = "DeleteObject" /\ DeleteObject(s, k)
  <2>1. sbx' = sbx /\ thing' = [thing EXCEPT ![s][k] = Missing] /\ ~Exists(s)
    BY <1>6 DEF DeleteObject, Remove, IInv, DeletesOnlyOrphans, Exists
  <2>2. There(t, "Pod")' => There(t, "Pod")
    BY <1>1, <2>1 DEF There, RemovalTypeOK
  <2>3. t # s => thing'[t] = thing[t]
    BY <1>1, <2>1 DEF RemovalTypeOK
  <2>4. Exists(t)' /\ There(t, "NetworkPolicy") => There(t, "NetworkPolicy")'
    BY <2>1, <2>3 DEF There, Exists
  <2> QED
    BY <1>2, <2>1, <2>2, <2>4 DEF Quiet, Exists, Overdue
<1>7. CASE ForceFinalize(s)
  <2>1. /\ thing' = thing
        /\ sbx' = IF Exists(s) THEN [sbx EXCEPT ![s] =
                                        [Ended(@) EXCEPT !.forced = TRUE]]
                               ELSE sbx
    BY <1>7 DEF ForceFinalize
  <2> DEFINE e == [Ended(sbx[s]) EXCEPT !.forced = TRUE]
  <2>2. /\ e.phase = "Gone" /\ e.served = sbx[s].served
        /\ e.network = sbx[s].network /\ e.flushed = sbx[s].flushed
    BY <1>1, EndedFields
  <2>3. sbx'[t] = IF Exists(s) /\ t = s THEN e ELSE sbx[t]
    BY <1>1, <2>1 DEF RemovalTypeOK
  <2> HIDE DEF e
  <2> QED
    BY <1>2, <2>1, <2>2, <2>3 DEF Quiet, There, Exists, Overdue
<1>8. CASE MarkFailed(s)
  <2>1. /\ thing' = thing
        /\ sbx' = IF Exists(s) THEN [sbx EXCEPT ![s].phase = "Failed"] ELSE sbx
    BY <1>8 DEF MarkFailed
  <2> QED
    BY <1>1, <1>2, <2>1 DEF Quiet, There, RemovalTypeOK, Object, Exists, Overdue
<1>9. CASE UNCHANGED <<sbx, thing>>
  BY <1>2, <1>9 DEF Quiet, There, Exists, Overdue
<1> QED
  BY <1>4, <1>5, <1>6, <1>7, <1>8, <1>9

LEMMA StillChain ==
  ASSUME RemovalTypeOK, RemovalTypeOK', AllInv, UNCHANGED removalVars
  PROVE  AllInv' /\ AllCalm
<1>1. \A t \in Sandbox : Quiet(t)
  BY DEF Quiet, There, Exists, Overdue, removalVars
<1> QED
  BY <1>1, QuietStep DEF AllInv, AllCalm

LEMMA TickChain ==
  ASSUME RemovalTypeOK, RemovalTypeOK', AllInv, Tick
  PROVE  AllInv' /\ AllCalm
<1>1. SUFFICES ASSUME NEW t \in Sandbox PROVE Quiet(t)
  BY QuietStep DEF AllInv, AllCalm
<1>2. sbx[t] \in Object /\ work' = work
  BY DEF RemovalTypeOK, Tick
<1>3. sbx'[t] = IF ~Exists(t) THEN sbx[t]
                ELSE [sbx[t] EXCEPT !.age = Older(@, Horizon),
                        !.deletingAge = IF sbx[t].deleting THEN Older(@, Horizon)
                                                           ELSE @]
  BY DEF Tick
<1>4. /\ sbx'[t].phase = sbx[t].phase /\ sbx'[t].placed = sbx[t].placed
      /\ sbx'[t].deleting = sbx[t].deleting /\ sbx'[t].done = sbx[t].done
      /\ sbx'[t].served = sbx[t].served /\ sbx'[t].network = sbx[t].network
      /\ sbx'[t].flushed = sbx[t].flushed
      /\ \/ sbx'[t].deletingAge = sbx[t].deletingAge
         \/ sbx'[t].deletingAge = Older(sbx[t].deletingAge, Horizon)
  BY <1>2, <1>3 DEF Object
<1>5. ASSUME NEW k \in Kind PROVE thing'[t][k] # Missing <=> thing[t][k] # Missing
  <2>1. thing'[t][k] = IF thing[t][k] >= 0 THEN Older(thing[t][k], Horizon)
                                           ELSE thing[t][k]
    BY DEF Tick
  <2>2. thing[t][k] \in Int
    BY Constants DEF RemovalTypeOK, Age, Missing, Unmarked
  <2> QED
    BY <2>1, <2>2, Constants DEF Older, Missing
<1>6. \A k : There(t, k)' <=> There(t, k)
  BY <1>5 DEF There
<1>7. sbx[t].deletingAge > StuckTerminatingGrace =>
        sbx'[t].deletingAge > StuckTerminatingGrace
  BY <1>2, <1>4, RemovalAssumption, SweeperAssumption DEF Older, Object, Age
<1> QED
  BY <1>2, <1>4, <1>6, <1>7 DEF Quiet, Exists, Overdue

LEMMA NextChain ==
  ASSUME IInv, IInv', AllInv, [Next]_vars
  PROVE  AllInv' /\ AllCalm
<1>0. RemovalTypeOK /\ RemovalTypeOK' /\ MarkInv
  BY DEF IInv, TypeOK, RemovalTypeOK
<1>1. ASSUME NEW s \in Sandbox, RemovalNext(s) PROVE AllInv' /\ AllCalm
  BY <1>0, <1>1, RemovalChain
<1>2. CASE StartRound \/ List \/ EndRound \/ UNCHANGED vars
  <2>1. UNCHANGED removalVars
    BY <1>2 DEF StartRound, List, EndRound, vars, removalVars
  <2> QED
    BY <1>0, <2>1, StillChain
<1>3. ASSUME NEW f \in round.todo, Apply(f) PROVE AllInv' /\ AllCalm
  BY <1>0, <1>3, ApplyChain
<1>4. ASSUME NEW f \in round.todo, ApplyFails(f) PROVE AllInv' /\ AllCalm
  BY <1>0, <1>4, StillChain DEF ApplyFails
<1>5. CASE Tick
  BY <1>0, <1>5, TickChain
<1> QED
  BY <1>1, <1>2, <1>3, <1>4, <1>5 DEF Next

LEMMA InitChain == Init => AllInv
<1> SUFFICES ASSUME Init, NEW s \in Sandbox PROVE SandboxInv(s)
  BY DEF AllInv
<1>1. sbx[s] = Nothing /\ work[s] = "idle"
  BY DEF Init, RemovalInit
<1> QED
  BY <1>1 DEF SandboxInv, WorkInv, PolicyInv, ChainInv, Exists, Nothing

(* Where sandboxes have network policies, the state of a session is saved  *)
(* only after its network was closed or could not be: no order of rounds,  *)
(* failures, losses and actions of the sweeper changes the order.          *)
THEOREM FlushFollowsCut ==
  ASSUME "NetworkPolicy" \in Kind PROVE Spec => []FlushIsCut
<1>1. Init => IInv /\ AllInv
  BY InitInv, InitChain
<1>2. IInv /\ AllInv /\ [Next]_vars => (IInv /\ AllInv)'
  BY NextInv, NextChain
<1>3. IInv /\ AllInv => FlushIsCut
  <2> SUFFICES ASSUME IInv, AllInv, NEW s \in Sandbox,
                      sbx[s].flushed, sbx[s].served
               PROVE  sbx[s].network # "open"
    BY DEF FlushIsCut
  <2> QED
    BY DEF AllInv, SandboxInv, ChainInv
<1> QED
  BY <1>1, <1>2, <1>3, PTL DEF Spec

(* Where sandboxes have network policies, no Pod of a sandbox is ever      *)
(* there without one, and the sweeper takes none away too early: the door  *)
(* is shut before anybody is in the room, and as long as there is a room.  *)
THEOREM PodsAreBehindPolicies ==
  ASSUME "NetworkPolicy" \in Kind
  PROVE  Spec => [](\A s \in Sandbox :
                      Exists(s) /\ There(s, "Pod") => There(s, "NetworkPolicy"))
<1> DEFINE Guarded == \A s \in Sandbox :
                        Exists(s) /\ There(s, "Pod") => There(s, "NetworkPolicy")
<1>1. Init => IInv /\ AllInv
  BY InitInv, InitChain
<1>2. IInv /\ AllInv /\ [Next]_vars => (IInv /\ AllInv)'
  BY NextInv, NextChain
<1>3. IInv /\ AllInv => Guarded
  BY DEF AllInv, SandboxInv, PolicyInv
<1> QED
  BY <1>1, <1>2, <1>3, PTL DEF Spec

-----------------------------------------------------------------------------
(***************************************************************************)
(* Findings.                                                               *)
(***************************************************************************)

(* What was seen as ready waits for no Pod, and what was not there when    *)
(* the Pods were listed is not made later. A deletion that was seen to     *)
(* take too long goes on doing so.                                         *)
FindingInv ==
  /\ round.listed \in 1 .. 5 =>
       \A s \in Sandbox :
         /\ round.sandboxes[s].standing = "ready" =>
              /\ PastNew(s)
              /\ round.listed >= 2 /\ "Pod" \in Kind
                   /\ round.things[s]["Pod"] = "missing" => ~There(s, "Pod")
         /\ round.sandboxes[s].standing = "stuck" => Overdue(s)
  /\ \A f \in round.todo :
       /\ f.kind = "stock_without_pod" =>
            PastNew(f.sandbox) /\ ~There(f.sandbox, "Pod")
       /\ f.action = "ForceFinalize" => Overdue(f.sandbox)

LEMMA CalmStep ==
  ASSUME IInv, FindingInv, AllCalm,
         \/ round'.listed = 0 /\ round'.todo = {}
         \/ /\ round'.listed = round.listed
            /\ round'.sandboxes = round.sandboxes
            /\ round'.things = round.things
            /\ round'.todo \subseteq round.todo
  PROVE  FindingInv'
<1>1. \A f \in round.todo : f.sandbox \in Sandbox
  BY DEF IInv, TypeOK, Round, Finding
<1>2. \A s \in Sandbox :
        /\ PastNew(s) => PastNew(s)' /\ (~There(s, "Pod") => ~There(s, "Pod")')
        /\ Overdue(s) => Overdue(s)'
  BY DEF AllCalm, Calm
<1>3. CASE round'.listed = 0 /\ round'.todo = {}
  BY <1>3 DEF FindingInv
<1>4. CASE /\ round'.listed = round.listed
           /\ round'.sandboxes = round.sandboxes
           /\ round'.things = round.things
           /\ round'.todo \subseteq round.todo
  BY <1>1, <1>2, <1>4 DEF FindingInv
<1> QED
  BY <1>3, <1>4

LEMMA DropFinding ==
  ASSUME IInv, FindingInv, AllCalm, NEW f \in round.todo, Drop(f)
  PROVE  FindingInv'
<1>1. CASE round.todo = {f}
  BY <1>1, CalmStep DEF Drop, NoRound
<1>2. CASE round.todo # {f}
  <2>1. round \in Round
    BY DEF IInv, TypeOK
  <2>2. round' = [round EXCEPT !.todo = @ \ {f}]
    BY <1>2 DEF Drop
  <2> QED
    BY <2>1, <2>2, CalmStep DEF Round
<1> QED
  BY <1>1, <1>2

LEMMA StockFindings ==
  ASSUME NEW r \in Round, NEW f \in Findings(r), f.kind = "stock_without_pod"
  PROVE  /\ f.sandbox \in Sandbox /\ "Pod" \in Kind
         /\ r.sandboxes[f.sandbox].standing = "ready"
         /\ r.things[f.sandbox]["Pod"] = "missing"
<1>1. f \notin Orphans(r)
  BY Constants DEF Orphans, AttachedKind
<1>2. PICK s \in Sandbox : f \in Anomaly(r, s)
  BY <1>1 DEF Findings
<1>3. r.sandboxes[s].standing \in Standing
  BY DEF Round, SandboxView
<1> QED
  BY <1>2, <1>3 DEF Anomaly, Standing

LEMMA ForceFindings ==
  ASSUME NEW r \in Round, NEW f \in Findings(r), f.action = "ForceFinalize"
  PROVE  f.sandbox \in Sandbox /\ r.sandboxes[f.sandbox].standing = "stuck"
<1>1. f \notin Orphans(r)
  <2> SUFFICES ASSUME f \in Orphans(r) PROVE FALSE
    OBVIOUS
  <2>1. /\ f.kind \in Kind /\ f.sandbox \in Sandbox
        /\ f.action = OrphanAction(r.things[f.sandbox][f.kind])
        /\ r.things[f.sandbox][f.kind] # "missing"
    BY DEF Orphans, Finding
  <2>2. r.things[f.sandbox][f.kind] \in ThingView
    BY <2>1 DEF Round
  <2> QED
    BY <2>1, <2>2 DEF OrphanAction, ThingView
<1>2. PICK s \in Sandbox : f \in Anomaly(r, s)
  BY <1>1 DEF Findings
<1>3. r.sandboxes[s].standing \in Standing
  BY DEF Round, SandboxView
<1> QED
  BY <1>2, <1>3 DEF Anomaly, Standing

(* Elapsed time is counted up to the start of the round.                   *)
LEMMA StuckIsOverdue ==
  ASSUME RemovalTypeOK, round \in Round, NEW s \in Sandbox, StandingOf(s) = "stuck"
  PROVE  Overdue(s)
<1>1. /\ Exists(s) /\ sbx[s].deleting
      /\ sbx[s].deletingAge - round.age > StuckTerminatingGrace
  BY DEF StandingOf, Elapsed
<1>2. /\ sbx[s].deletingAge \in Nat /\ round.age \in Nat
      /\ StuckTerminatingGrace \in Nat
  BY RemovalAssumption, SweeperAssumption DEF RemovalTypeOK, Object, Age, Round
<1> QED
  BY <1>1, <1>2 DEF Overdue, Exists

LEMMA ListFindings ==
  ASSUME IInv, AllInv, FindingInv, List
  PROVE  FindingInv'
<1> DEFINE kind == ListOrder[round.listed + 1]
           sandboxes == IF kind = "AgentSandbox"
                        THEN [s \in Sandbox |-> ViewOf(s)] ELSE round.sandboxes
           things == [s \in Sandbox |-> [k \in Kind |->
                        IF k = kind THEN ThingViewOf(s, k) ELSE round.things[s][k]]]
           seen == [round EXCEPT !.listed = @ + 1, !.sandboxes = sandboxes,
                                 !.things = things]
<1>1. /\ RemovalTypeOK /\ round \in Round /\ round.listed \in 0 .. 5
      /\ round.todo = {} /\ UNCHANGED removalVars
  <2>1. round.listed < 6 /\ UNCHANGED removalVars
    BY DEF List, ListOrder
  <2>2. round \in Round /\ RemovalTypeOK
    BY DEF IInv, TypeOK, RemovalTypeOK
  <2> QED
    BY <2>1, <2>2 DEF Round, IInv, SnapshotInv
<1>2. /\ kind = "AgentSandbox" <=> round.listed = 0
      /\ kind = "Pod" <=> round.listed = 1
  BY <1>1 DEF ListOrder
<1>3. /\ sandboxes \in [Sandbox -> SandboxView]
      /\ things \in [Sandbox -> [Kind -> ThingView]]
  BY <1>1, ViewTypes, ThingViewTypes DEF Round
<1>4. /\ seen \in Round /\ seen.listed = round.listed + 1 /\ seen.todo = {}
      /\ seen.sandboxes = sandboxes /\ seen.things = things
  <2> HIDE DEF sandboxes, things
  <2>1. round.listed + 1 \in 0 .. 6
    BY <1>1
  <2> QED
    BY <1>1, <1>3, <2>1 DEF Round
<1>5. ASSUME NEW s \in Sandbox, sandboxes[s].standing = "ready" PROVE PastNew(s)
  <2>1. CASE round.listed = 0
    <3>1. StandingOf(s) = "ready"
      BY <1>2, <1>5, <2>1 DEF ViewOf, Unseen
    <3>2. sbx[s].phase = "Ready"
      BY <3>1 DEF StandingOf
    <3> QED
      BY <3>2 DEF PastNew, AllInv, SandboxInv, WorkInv
  <2>2. CASE round.listed \in 1 .. 5
    BY <1>2, <1>5, <2>2 DEF FindingInv
  <2> QED
    BY <1>1, <2>1, <2>2
<1>6. ASSUME NEW s \in Sandbox, sandboxes[s].standing = "ready",
             round.listed >= 1, "Pod" \in Kind, things[s]["Pod"] = "missing"
      PROVE  ~There(s, "Pod")
  <2>1. CASE round.listed = 1
    <3>1. ThingViewOf(s, "Pod") = "missing"
      BY <1>2, <1>6, <2>1
    <3> QED
      BY <3>1 DEF ThingViewOf
  <2>2. CASE round.listed \in 2 .. 5
    BY <1>2, <1>6, <2>2 DEF FindingInv
  <2> QED
    BY <1>1, <1>6, <2>1, <2>2
<1>9. ASSUME NEW s \in Sandbox, sandboxes[s].standing = "stuck" PROVE Overdue(s)
  <2>1. CASE round.listed = 0
    <3>1. StandingOf(s) = "stuck"
      BY <1>2, <1>9, <2>1 DEF ViewOf, Unseen
    <3> QED
      BY <1>1, <3>1, StuckIsOverdue
  <2>2. CASE round.listed \in 1 .. 5
    BY <1>2, <1>9, <2>2 DEF FindingInv
  <2> QED
    BY <1>1, <2>1, <2>2
<1> HIDE DEF sandboxes, things, kind
<1>7. CASE seen.listed < 6
  <2>1. round' = seen
    BY <1>7 DEF List, ListOrder, kind, sandboxes, things
  <2> HIDE DEF seen
  <2> QED
    BY <1>1, <1>4, <1>5, <1>6, <1>9, <2>1
       DEF FindingInv, PastNew, There, Overdue, removalVars
<1>8. CASE ~(seen.listed < 6)
  <2>1. PICK F \in Collected(Findings(seen)) :
          round' = IF F = {} THEN NoRound
                   ELSE [NoRound EXCEPT !.on = TRUE, !.age = round.age,
                           !.listed = 6, !.todo = F]
    BY <1>8 DEF List, ListOrder, kind, sandboxes, things
  <2>2. round.listed = 5
    BY <1>1, <1>4, <1>8
  <2> HIDE DEF seen
  <2>3. F \subseteq Findings(seen)
    BY <2>1 DEF Collected
  <2>4. round'.todo \subseteq F /\ round'.listed \in {0, 6}
    BY <2>1 DEF NoRound
  <2>5. ASSUME NEW f \in F, f.kind = "stock_without_pod"
        PROVE  PastNew(f.sandbox) /\ ~There(f.sandbox, "Pod")
    BY <1>4, <1>5, <1>6, <2>2, <2>3, <2>5, StockFindings
  <2>6. ASSUME NEW f \in F, f.action = "ForceFinalize" PROVE Overdue(f.sandbox)
    BY <1>4, <1>9, <2>3, <2>6, ForceFindings
  <2> QED
    BY <1>1, <2>4, <2>5, <2>6 DEF FindingInv, PastNew, There, Overdue, removalVars
<1> QED
  BY <1>7, <1>8

LEMMA NextFindings ==
  ASSUME IInv, IInv', AllInv, FindingInv, [Next]_vars
  PROVE  FindingInv'
<1>0. AllCalm
  BY NextChain
<1>1. CASE UNCHANGED round
  BY <1>0, <1>1, CalmStep
<1>2. CASE StartRound \/ EndRound
  <2>1. round'.listed = 0 /\ round'.todo = {}
    BY <1>2 DEF StartRound, EndRound, NoRound
  <2> QED
    BY <1>0, <2>1, CalmStep
<1>3. CASE List
  BY <1>3, ListFindings
<1>4. ASSUME NEW f \in round.todo, Apply(f) \/ ApplyFails(f) PROVE FindingInv'
  BY <1>0, <1>4, DropFinding DEF Apply, ApplyFails
<1>5. CASE Tick
  <2>1. /\ round'.listed = round.listed /\ round'.sandboxes = round.sandboxes
        /\ round'.things = round.things /\ round'.todo = round.todo
    BY <1>5 DEF Tick, IInv, TypeOK, Round
  <2> QED
    BY <1>0, <2>1, CalmStep
<1> QED
  BY <1>1, <1>2, <1>3, <1>4, <1>5 DEF Next, vars

(* What the sweeper found is still so when it acts on it, up to the call:  *)
(* the stock that it fails for want of a Pod has none, although the        *)
(* controller went on making Pods after the list of sandboxes, and no      *)
(* sandbox loses its finalizers before its deletion took too long.         *)
THEOREM FindingsAreStillTrue == Spec => []FindingsStayTrue
<1>1. Init => IInv /\ AllInv /\ FindingInv
  <2>1. Init => FindingInv
    BY DEF Init, NoRound, FindingInv
  <2> QED
    BY <2>1, InitInv, InitChain
<1>2. IInv /\ AllInv /\ FindingInv /\ [Next]_vars
        => (IInv /\ AllInv /\ FindingInv)'
  BY NextInv, NextChain, NextFindings
<1>3. FindingInv => FindingsStayTrue
  BY DEF FindingInv, FindingsStayTrue, Overdue
<1> QED
  BY <1>1, <1>2, <1>3, PTL DEF Spec
=============================================================================
