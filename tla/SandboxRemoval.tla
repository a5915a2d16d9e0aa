--------------------------- MODULE SandboxRemoval ---------------------------
(***************************************************************************)
(* The objects that belong to a sandbox (Pod, heartbeat lease, network     *)
(* policy, data volume): how the controller makes them, and how it and the *)
(* cluster take them away when the sandbox is deleted. Who else removes    *)
(* them is the matter of Sweeper, which extends this module.               *)
(*                                                                         *)
(* One worker serves a sandbox at a time. A round reads the sandbox, makes *)
(* what is missing, and moves the phase if nobody changed it meanwhile; it *)
(* can stop anywhere. Running stands for all the phases of a session.      *)
(***************************************************************************)
EXTENDS Integers, Sequences

CONSTANTS
  Sandbox,  \* names of AgentSandboxes; GenerateName never reuses one
  Kind,     \* kinds of attached objects that are modelled
  Horizon,  \* ages are counted up to this one
  Faults    \* what may go wrong

AttachedKind == {"Pod", "Lease", "NetworkPolicy", "Volume"}
Fault == {"stepFails", "podLost", "nodeLost", "noRuntime", "callFails",
          "roundStops"}

ASSUME RemovalAssumption ==
  Kind \subseteq AttachedKind /\ Horizon \in Nat /\ Faults \subseteq Fault

VARIABLES
  sbx,    \* the AgentSandboxes
  thing,  \* the attached objects of each
  node,   \* the node of each is Ready
  work    \* the phase the current round of each has read, or its progress

removalVars == <<sbx, thing, node, work>>

Phase == {"Absent", "New", "Provisioning", "Ready", "Running", "Terminating",
          "Failed", "Gone"}
Reclaimed == {"Terminating", "Failed"}
Age       == 0 .. Horizon

(* An attached object is missing, or there, with or without the mark that  *)
(* the sweeper puts on what it takes for an orphan; of a mark, its age.    *)
Missing  == -2
Unmarked == -1

(* done counts the finalizers removed from a sandbox that is still there.  *)
(* placed says that the status names a Pod. The last five fields are       *)
(* history: the session, and what became of it in the deletion.            *)
ClaimState == {"none", "held", "released"}

Object == [phase : Phase, claim : ClaimState, placed : BOOLEAN,
           deleting : BOOLEAN, age : Age, deletingAge : Age, done : 0 .. 4,
           served : BOOLEAN, network : {"open", "cut", "failed"},
           flushed : BOOLEAN, recorded : BOOLEAN, forced : BOOLEAN]

Nothing == [phase |-> "Absent", claim |-> "none", placed |-> FALSE,
            deleting |-> FALSE, age |-> 0, deletingAge |-> 0, done |-> 0,
            served |-> FALSE, network |-> "open",
            flushed |-> FALSE, recorded |-> FALSE, forced |-> FALSE]

(* An object that is gone leaves its history.                              *)
Ended(o) ==
  [Nothing EXCEPT !.phase = "Gone", !.served = o.served, !.network = o.network,
                  !.flushed = o.flushed, !.recorded = o.recorded]

RemovalInit ==
  /\ sbx = [s \in Sandbox |-> Nothing]
  /\ thing = [s \in Sandbox |-> [k \in Kind |-> Missing]]
  /\ node = [s \in Sandbox |-> TRUE]
  /\ work = [s \in Sandbox |-> "idle"]

Exists(s)   == sbx[s].phase \notin {"Absent", "Gone"}
There(s, k) == k \in Kind /\ thing[s][k] # Missing
Has(s, k)   == k \in Kind => There(s, k)

Put(s, k)    == thing' = [thing EXCEPT ![s][k] = Unmarked]
Remove(s, k) == thing' = [thing EXCEPT ![s][k] = Missing]

-----------------------------------------------------------------------------
(* Stock of the pool, or a sandbox made for a call on the cold path.       *)
Create(s) ==
  /\ sbx[s].phase = "Absent"
  /\ \E c \in {"none", "held"} :
       sbx' = [sbx EXCEPT ![s] = [Nothing EXCEPT !.phase = "New", !.claim = c]]
  /\ UNCHANGED <<thing, node, work>>

Claim(s) ==
  /\ sbx[s].phase = "Ready" /\ sbx[s].claim = "none" /\ ~sbx[s].deleting
  /\ sbx' = [sbx EXCEPT ![s].claim = "held"]
  /\ UNCHANGED <<thing, node, work>>

(* A release clears spec.claim and nothing else: the next round decides.   *)
Release(s) ==
  /\ Exists(s) /\ sbx[s].claim = "held"
  /\ sbx[s].phase \notin Reclaimed /\ ~sbx[s].deleting
  /\ sbx' = [sbx EXCEPT ![s].claim = "released"]
  /\ UNCHANGED <<thing, node, work>>

-----------------------------------------------------------------------------
(***************************************************************************)
(* A round over a sandbox that is not being deleted. The finalizers are    *)
(* counted as there from the start: nothing is deleted before its first    *)
(* round has put them.                                                     *)
(***************************************************************************)
BeginRound(s) ==
  /\ Exists(s) /\ ~sbx[s].deleting /\ work[s] = "idle"
  /\ work' = [work EXCEPT ![s] = sbx[s].phase]
  /\ UNCHANGED <<sbx, thing, node>>

(* What the round that read phase p makes: the policy for whatever has a   *)
(* Pod, even when it goes on to reclaim, the lease of a claim, and at last *)
(* the Pod of a new sandbox.                                               *)
Wanted(s, p) ==
  {k \in Kind :
     \/ k = "NetworkPolicy" /\ (p = "New" \/ sbx[s].placed)
     \/ k = "Lease" /\ p \notin Reclaimed /\ sbx[s].claim = "held"
     \/ k = "Pod" /\ p = "New"}

AllMade(s) == \A k \in Wanted(s, work[s]) : There(s, k)

Ensure(s, k) ==
  /\ work[s] \in Phase
  /\ k \in Wanted(s, work[s]) /\ ~There(s, k)
  /\ k = "Pod" => \A j \in Wanted(s, "New") \ {"Pod"} : There(s, j)
  /\ Put(s, k)
  /\ UNCHANGED <<sbx, node, work>>

(* The Pod that the status names is there, on a node that is Ready.        *)
Healthy(s) == sbx[s].placed /\ Has(s, "Pod") /\ node[s]

(* Mutant: a new sandbox enters a phase that the program does not have.    *)
NextPhasesPending(s) ==
  IF sbx[s].phase = "New" THEN {"Pending"} ELSE {"Running"}

(* What the phase may become; how long a phase lasts is left open here. A  *)
(* claim turns stock into a session before anybody looks at its Pod.       *)
NextPhases(s) ==
  LET held == sbx[s].claim = "held"
  IN  CASE sbx[s].phase = "New"          -> {"Provisioning"}
        [] sbx[s].phase = "Provisioning" ->
             {"Provisioning", "Failed"} \cup
               {p \in {"Ready", "Running"} : Healthy(s) /\ (held <=> p = "Running")}
        [] sbx[s].phase = "Ready"        ->
             IF held THEN {"Running"}
             ELSE IF ~Healthy(s) THEN {"Failed"} ELSE {"Ready", "Terminating"}
        [] OTHER                         -> {"Running", "Terminating"}

Advance(s) ==
  /\ Exists(s) /\ ~sbx[s].deleting
  /\ work[s] = sbx[s].phase /\ work[s] \notin Reclaimed
  /\ AllMade(s)
  /\ \E p \in NextPhases(s) :
       sbx' = [sbx EXCEPT ![s] =
                 [sbx[s] EXCEPT !.phase = p,
                                !.placed = @ \/ work[s] = "New",
                                !.served = @ \/ p = "Running"]]
  /\ work' = [work EXCEPT ![s] = "idle"]
  /\ UNCHANGED <<thing, node>>

(* Without a runtime for its isolation level a new sandbox goes on without *)
(* a Pod, and never gets one.                                              *)
AdvanceWithoutPod(s) ==
  /\ "noRuntime" \in Faults
  /\ Exists(s) /\ ~sbx[s].deleting
  /\ work[s] = "New" /\ sbx[s].phase = "New"
  /\ sbx[s].claim = "held" => Has(s, "Lease")
  /\ sbx' = [sbx EXCEPT ![s].phase = "Provisioning"]
  /\ work' = [work EXCEPT ![s] = "idle"]
  /\ UNCHANGED <<thing, node>>

(* An error, a conflict, or the end of the process. *)
StopRound(s) ==
  /\ work[s] # "idle"
  /\ work' = [work EXCEPT ![s] = "idle"]
  /\ UNCHANGED <<sbx, thing, node>>

-----------------------------------------------------------------------------
(***************************************************************************)
(* Deletion, by the round that finds the sandbox reclaimed, or by the      *)
(* PoolController that drains its stock.                                   *)
(***************************************************************************)
DeleteReclaimed(s) ==
  /\ work[s] \in Reclaimed /\ AllMade(s)
  /\ sbx' = [sbx EXCEPT ![s].deleting = @ \/ Exists(s)]
  /\ work' = [work EXCEPT ![s] = "idle"]
  /\ UNCHANGED <<thing, node>>

(* The pool deletes what carries its label. Ready stock gets it and nothing *)
(* takes it off, so by now it may have become a session or have failed. The *)
(* label is not kept here: a session served cold, which never was stock, is *)
(* let go in the same way.                                                 *)
DeleteDraining(s) ==
  /\ sbx[s].phase \in {"Ready", "Running"} \cup Reclaimed /\ ~sbx[s].deleting
  /\ sbx' = [sbx EXCEPT ![s].deleting = TRUE]
  /\ UNCHANGED <<thing, node, work>>

(* Mutant: the state is saved while the sandbox still has its network.     *)
FinalizerOrderFlushFirst ==
  <<"lease", "flush", "network", "volume", "metrics">>

FinalizerOrder == <<"lease", "network", "flush", "volume", "metrics">>

(* The effect of a step that works. Without a policy there is nothing to   *)
(* close; metrics waits for the Pod, and gives up on one that stays.       *)
StepDone(s, step) ==
  LET deleted == {k \in Kind : \/ step = "lease"  /\ k = "Lease"
                               \/ step = "volume" /\ k = "Volume"}
  IN  /\ thing' = [thing EXCEPT ![s] =
                     [k \in Kind |-> IF k \in deleted THEN Missing ELSE @[k]]]
      /\ sbx' = [sbx EXCEPT ![s] = [sbx[s] EXCEPT
           !.network  = IF step = "network" /\ There(s, "NetworkPolicy")
                        THEN "cut" ELSE @,
           !.flushed  = @ \/ step = "flush",
           !.recorded = @ \/ (step = "metrics" /\
                                (sbx[s].placed => ~There(s, "Pod")))]]

StepFailed(s, step) ==
  /\ "stepFails" \in Faults
  /\ sbx' = [sbx EXCEPT ![s].network = IF step = "network" THEN "failed" ELSE @]
  /\ UNCHANGED thing

(* A failed step does not stop the chain.                                  *)
RunFinalizerStep(s) ==
  /\ Exists(s) /\ sbx[s].deleting /\ work[s] = "idle"
  /\ LET step == FinalizerOrder[sbx[s].done + 1]
     IN  StepDone(s, step) \/ StepFailed(s, step)
  /\ work' = [work EXCEPT ![s] = "step"]
  /\ UNCHANGED node

RemoveFinalizer(s) ==
  /\ Exists(s) /\ work[s] = "step"
  /\ sbx' = [sbx EXCEPT ![s] =
                IF sbx[s].done = 4 THEN Ended(sbx[s])
                                   ELSE [sbx[s] EXCEPT !.done = @ + 1]]
  /\ work' = [work EXCEPT ![s] = "idle"]
  /\ UNCHANGED <<thing, node>>

-----------------------------------------------------------------------------
(***************************************************************************)
(* The cluster.                                                            *)
(***************************************************************************)
VolumeAppears(s) ==
  /\ "Volume" \in Kind /\ sbx[s].phase = "Running" /\ ~There(s, "Volume")
  /\ Put(s, "Volume")
  /\ UNCHANGED <<sbx, node, work>>

(* Owner references: dependents go after their owner is gone, if at all.   *)
CollectGarbage(s, k) ==
  /\ sbx[s].phase = "Gone" /\ There(s, k)
  /\ Remove(s, k)
  /\ UNCHANGED <<sbx, node, work>>

PodLost(s) ==
  /\ "podLost" \in Faults /\ There(s, "Pod")
  /\ Remove(s, "Pod")
  /\ UNCHANGED <<sbx, node, work>>

NodeChanges(s) ==
  /\ "nodeLost" \in Faults
  /\ node' = [node EXCEPT ![s] = ~@]
  /\ UNCHANGED <<sbx, thing, work>>

RemovalNext(s) ==
  \/ Create(s) \/ Claim(s) \/ Release(s)
  \/ BeginRound(s) \/ (\E k \in Kind : Ensure(s, k))
  \/ Advance(s) \/ AdvanceWithoutPod(s) \/ StopRound(s)
  \/ DeleteReclaimed(s) \/ DeleteDraining(s)
  \/ RunFinalizerStep(s) \/ RemoveFinalizer(s)
  \/ VolumeAppears(s) \/ (\E k \in Kind : CollectGarbage(s, k))
  \/ PodLost(s) \/ NodeChanges(s)
=============================================================================
