---------------------------- MODULE ClaimProtocol ----------------------------
(***************************************************************************)
(* Who gets which sandbox: gateway replicas claim stock by compare-and-    *)
(* swap, the SandboxController moves each object through its phases, the   *)
(* PoolController creates stock and drains it, tenants release.            *)
(*                                                                         *)
(* No controller step keeps anything in memory between two of its writes,  *)
(* so a crash between them is the absence of the second one.               *)
(***************************************************************************)
EXTENDS SandboxObjects, FiniteSets

CONSTANTS
  TenantOf,    \* TenantOf[c]: the authenticated tenant of call c
  KeyOf,       \* KeyOf[c]: its Idempotency-Key
  NoKey,       \* the header was not sent
  NoSandbox,
  MaxAttempts  \* Claimer.MaxAttempts: candidates tried per call

ASSUME ClaimAssumption ==
  /\ NoSandbox \notin Sandbox
  /\ MaxAttempts \in Nat \ {0}

VARIABLE call  \* call[c]: progress and answer of call c

vars == <<log, call>>

Step   == {"idle", "cold", "done"}
Answer == {"none", "warm", "cold", "idempotent", "contended", "refused",
           "error", "lost"}

(***************************************************************************)
(* got is the sandbox in the answer; tried are the candidates a call that  *)
(* found the pool exhausted had seen as claimable.                         *)
(***************************************************************************)
CallState == [step : Step, answer : Answer, got : Sandbox \cup {NoSandbox},
              tried : SUBSET Sandbox]

Idle == [step |-> "idle", answer |-> "none", got |-> NoSandbox, tried |-> {}]

Init ==
  /\ log = [s \in Sandbox |-> <<>>]
  /\ call = [c \in Call |-> Idle]

Finish(c, a, s) ==
  call' = [call EXCEPT ![c] = [Idle EXCEPT !.step = "done", !.answer = a,
                                           !.got = s]]

(***************************************************************************)
(* Gateway: POST /v1/sandboxes                                             *)
(*                                                                         *)
(* Claim is one step, taken when the last candidate is tried: what failed  *)
(* earlier in the call (a version that is no longer the last one) still    *)
(* fails then, and what the call read earlier may still be read.           *)
(***************************************************************************)

(* Mutant: the label match forgets the tenant. *)
MatchesAnyTenant(o, c) ==
  o.owner # NoCall /\ KeyOf[c] # NoKey /\ KeyOf[o.owner] = KeyOf[c]

(* The labels of object o say that it belongs to the tenant and key of c. *)
Matches(o, c) ==
  /\ o.owner # NoCall
  /\ KeyOf[c] # NoKey /\ KeyOf[o.owner] = KeyOf[c]
  /\ TenantOf[o.owner] = TenantOf[c]

FindByRequestID(c, s) == \E v \in Cached(s) : Matches(log[s][v], c)

(* What a cached list of claimed=false may return: a version, or 0 if absent. *)
Listed(s) == {0} \cup {v \in Cached(s) : log[s][v].owner = NoCall}

Views == {view \in [Sandbox -> UNION {Listed(s) : s \in Sandbox}] :
            \A s \in Sandbox : view[s] \in Listed(s)}

(* Mutant: stock is claimed in any phase. *)
ClaimableAnyPhase(o) == ~o.deleting /\ o.claim = NoCall

(* Last check on a cached candidate before the compare-and-swap. *)
Claimable(o) == ~o.deleting /\ o.claim = NoCall /\ o.phase = "Ready"

Candidates(view) == {s \in Sandbox : view[s] # 0}
Tried(view) == {s \in Candidates(view) : Claimable(log[s][view[s]])}
(* Mutant: every failed attempt counts as a conflict. *)
ConflictsAnyError(view) == Tried(view)

Conflicts(view) == {s \in Tried(view) : Live(s) /\ ~OptimisticLock(s, view[s])}

Bound(o, c) == [o EXCEPT !.claim = c, !.owner = c]

(* Mutant: a merge patch without the optimistic lock. *)
BindUnlocked(c, s, view) ==
  /\ s \in Tried(view) /\ Live(s)
  /\ Write(s, Bound(Latest(s), c))
  /\ Finish(c, "warm", s)

(* The merge patch carries the resourceVersion of the candidate. *)
Bind(c, s, view) ==
  /\ s \in Tried(view)
  /\ OptimisticLock(s, view[s])
  /\ Write(s, Bound(Latest(s), c))
  /\ Finish(c, "warm", s)

(* Every candidate was read, and those worth trying all conflicted. *)
Exhausted(c, view) ==
  /\ Tried(view) = Conflicts(view)
  /\ Cardinality(Conflicts(view)) <= MaxAttempts
  /\ call' = [call EXCEPT ![c].step = "cold", ![c].tried = Tried(view)]
  /\ UNCHANGED log

(* The attempts ran out with candidates unread: never the cold path. *)
Contended(c, view) ==
  /\ Cardinality(Conflicts(view)) >= MaxAttempts
  /\ Cardinality(Candidates(view)) > MaxAttempts
  /\ Finish(c, "contended", NoSandbox)
  /\ UNCHANGED log

(* Patching an object that is gone is not a conflict but an error. *)
BindFailed(c, view) ==
  /\ \E s \in Tried(view) : ~Live(s)
  /\ Finish(c, "error", NoSandbox)
  /\ UNCHANGED log

Claim(c) ==
  /\ call[c].step = "idle"
  /\ \/ \E s \in Sandbox :
          FindByRequestID(c, s) /\ Finish(c, "idempotent", s) /\ UNCHANGED log
     \/ \E view \in Views :
          \/ \E s \in Sandbox : Bind(c, s, view)
          \/ Exhausted(c, view) \/ Contended(c, view) \/ BindFailed(c, view)

(***************************************************************************)
(* The pool was exhausted: create a sandbox for this call, or answer 503   *)
(* or 507 (cold path not allowed, protect mode, draining pool, disabled).  *)
(***************************************************************************)
CreateCold(c) ==
  /\ call[c].step = "cold"
  /\ \/ \E s \in Sandbox : Create(s, c) /\ Finish(c, "cold", s)
     \/ Finish(c, "refused", NoSandbox) /\ UNCHANGED log

(***************************************************************************)
(* The request times out or the replica dies: before the next write of the *)
(* call, or after its last one, with the answer still on its way.          *)
(***************************************************************************)
LoseCall(c) ==
  /\ call[c].step = "cold" \/ call[c].answer \in {"warm", "cold"}
  /\ Finish(c, "lost", NoSandbox)
  /\ UNCHANGED log

(***************************************************************************)
(* DELETE of sandbox s by the tenant of c, who got s. Only spec.claim is   *)
(* cleared: the labels stay.                                               *)
(***************************************************************************)
(* Mutant: the release also resets the labels. *)
UnclaimedAndUnlabelled(o) == [o EXCEPT !.claim = NoCall, !.owner = NoCall]

Unclaimed(o) == [o EXCEPT !.claim = NoCall]

Release(c, s) ==
  /\ call[c].got = s
  /\ \E v \in Cached(s) :
       LET o == log[s][v] IN
       /\ ~o.deleting /\ o.phase \notin Reclaimed
       /\ o.owner # NoCall /\ TenantOf[o.owner] = TenantOf[c]
       /\ o.claim # NoCall
       /\ OptimisticLock(s, v)
       /\ Write(s, Unclaimed(Latest(s)))
  /\ UNCHANGED call

-----------------------------------------------------------------------------
(***************************************************************************)
(* SandboxController, one step per write. Every write but the delete       *)
(* carries the cached resourceVersion: after a conflict the work is left   *)
(* to a later reconcile.                                                   *)
(***************************************************************************)
EnsureFinalizers(s) ==
  /\ \E v \in Cached(s) :
       /\ ~log[s][v].deleting /\ ~log[s][v].finalizers
       /\ OptimisticLock(s, v)
       /\ Write(s, [log[s][v] EXCEPT !.finalizers = TRUE])
  /\ UNCHANGED call

(* Mutant: the release clears the contract. *)
BindClaimStatusMirrored(o) == [o EXCEPT !.claimRef = o.claim]

(* Mutant: the claim is recorded on the cold path only. *)
BindClaimStatusColdOnly(o) ==
  IF o.claim = NoCall \/ o.phase = "Ready" THEN o ELSE [o EXCEPT !.claimRef = o.claim]

(* bindClaimStatus: a claim is bound once, and stays bound after release. *)
BindClaimStatus(o) ==
  IF o.claim = NoCall THEN o ELSE [o EXCEPT !.claimRef = o.claim]

(* Mutant: a failure is recorded without its reason. *)
DecisionWithoutReason(p, r) ==
  [next |-> p, reason |-> IF p = "Failed" THEN "" ELSE r]

Decision(p, r) == [next |-> p, reason |-> r]

(***************************************************************************)
(* What NextPhase may decide about o, for every state of its Pod, node,    *)
(* lease and age. SessionEnded stands for the reasons for which a claimed  *)
(* session is reclaimed: deadline, TTL, idleness, heartbeat, lost node.    *)
(***************************************************************************)
DecideProvisioning(o) ==
  {Decision("Failed", "RuntimeError"), Decision("Failed", "NodeLost"),
   Decision(IF o.claim = NoCall THEN "Ready" ELSE "Running", "None")}

DecideStock(o) ==
  IF o.claim # NoCall
    THEN {Decision("Running", "None")}
    ELSE {Decision("Failed", "NodeLost"), Decision("Terminating", "StockRotation")}

(* Mutant: a running session is reclaimed for its own reasons only. *)
DecideClaimedOnly(o) ==
  IF o.claim = NoCall THEN {} ELSE {Decision("Terminating", "SessionEnded")}

(* Running stands for every claimed phase. A session ends for its own      *)
(* reasons at any time; once released it ends for that, unless it is       *)
(* frozen.                                                                 *)
DecideClaimed(o) ==
  {Decision("Terminating", "SessionEnded")} \cup
    (IF o.claim = NoCall THEN {Decision("Terminating", "ClientReleased")} ELSE {})

Decisions(o) ==
  CASE o.phase = "New"          -> {Decision("Provisioning", "None")}
    [] o.phase = "Provisioning" -> DecideProvisioning(o)
    [] o.phase = "Ready"        -> DecideStock(o)
    [] o.phase = "Running"      -> DecideClaimed(o)
    [] OTHER                    -> {}

Applied(o, d) == [BindClaimStatus(o) EXCEPT !.phase = d.next,
                                            !.reason = d.reason]

(* Mutant: the status is patched, not updated at the version read. *)
ReconcilePhaseUnlocked(s) ==
  /\ \E v \in Cached(s) :
       /\ Live(s) /\ ~log[s][v].deleting /\ log[s][v].finalizers
       /\ \E d \in Decisions(log[s][v]) : Write(s, Applied(Latest(s), d))
  /\ UNCHANGED call

ReconcilePhase(s) ==
  /\ \E v \in Cached(s) :
       /\ ~log[s][v].deleting /\ log[s][v].finalizers
       /\ \E d \in Decisions(log[s][v]) :
            /\ OptimisticLock(s, v)
            /\ Write(s, Applied(log[s][v], d))
  /\ UNCHANGED call

(***************************************************************************)
(* The second write of a reclaim, by the reconcile that wrote the phase or *)
(* by a later one that finds it there.                                     *)
(***************************************************************************)
DeleteReclaimed(s) ==
  /\ \E v \in Cached(s) : log[s][v].phase \in Reclaimed
  /\ Delete(s)
  /\ UNCHANGED call

(* Mutant: the chain fails on a sandbox that never had a contract. *)
FinalizeContracted(s) ==
  /\ \E v \in Cached(s) :
       /\ log[s][v].deleting /\ log[s][v].claimRef # NoCall
       /\ OptimisticLock(s, v)
       /\ Write(s, [log[s][v] EXCEPT !.finalizers = FALSE, !.gone = TRUE])
  /\ UNCHANGED call

(* The finalizer chain, which never blocks the deletion. *)
Finalize(s) ==
  /\ \E v \in Cached(s) :
       /\ log[s][v].deleting
       /\ OptimisticLock(s, v)
       /\ Write(s, [log[s][v] EXCEPT !.finalizers = FALSE, !.gone = TRUE])
  /\ UNCHANGED call

-----------------------------------------------------------------------------
(***************************************************************************)
(* PoolController. How many sandboxes it creates or drains is a matter of  *)
(* DecideScaling; here it may do either at any time.                       *)
(***************************************************************************)
CreateStock(s) ==
  /\ Create(s, NoCall)
  /\ UNCHANGED call

DrainCandidate(o) ==
  /\ o.owner = NoCall /\ ~o.deleting /\ ~o.draining
  /\ o.phase = "Ready" /\ o.claim = NoCall

(* A plain merge patch: it does not check that s still is a candidate. *)
MarkDraining(s) ==
  /\ \E v \in Cached(s) : DrainCandidate(log[s][v])
  /\ Live(s) /\ ~Latest(s).draining
  /\ Write(s, [Latest(s) EXCEPT !.draining = TRUE])
  /\ UNCHANGED call

DeleteDraining(s) ==
  /\ \E v \in Cached(s) : log[s][v].draining
  /\ Delete(s)
  /\ UNCHANGED call

-----------------------------------------------------------------------------
Reconcile(s) ==
  \/ EnsureFinalizers(s) \/ ReconcilePhase(s) \/ DeleteReclaimed(s)
  \/ Finalize(s)

Next ==
  \/ \E c \in Call : Claim(c) \/ CreateCold(c) \/ LoseCall(c)
  \/ \E c \in Call, s \in Sandbox : Release(c, s)
  \/ \E s \in Sandbox :
       Reconcile(s) \/ CreateStock(s) \/ MarkDraining(s) \/ DeleteDraining(s)

Spec == Init /\ [][Next]_vars

(***************************************************************************)
(* Fairness: what the controllers do whatever the environment does. Every  *)
(* write is watched and every reconcile is retried, so a step that stays   *)
(* enabled is taken; a phase moves by itself out of New and Provisioning   *)
(* (Pod ready, or provision timeout) and out of Ready (claimed, or too     *)
(* old: the maximal stock age is always positive), and a running session   *)
(* ends once it was released (SandboxLifecycle shows when it can be stuck  *)
(* in Hibernating instead). Nothing obliges the PoolController to drain    *)
(* stock, a tenant to release, or a session that is held to end.           *)
(***************************************************************************)
Due(o) == o.phase = "Running" => o.claim = NoCall

ReconcileDue(s) == Live(s) /\ Due(Latest(s)) /\ ReconcilePhase(s)

Fairness ==
  \A s \in Sandbox :
    /\ WF_vars(EnsureFinalizers(s)) /\ WF_vars(ReconcileDue(s))
    /\ WF_vars(DeleteReclaimed(s)) /\ WF_vars(Finalize(s))
    /\ WF_vars(DeleteDraining(s))

FairSpec == Spec /\ Fairness

-----------------------------------------------------------------------------
(* Types of the variables. *)
TypeOK ==
  /\ log \in [Sandbox -> Seq(Object)]
  /\ call \in [Call -> CallState]

(***************************************************************************)
(* A sandbox serves at most one session in its whole life: no two calls    *)
(* ever hold it, not even one after the other (bind under optimistic lock, *)
(* release keeping the labels; reuse across tenants is ruled out).         *)
(***************************************************************************)
OneSessionPerSandbox ==
  \A s \in Sandbox : \A i, j \in 1 .. Len(log[s]) :
    log[s][i].claim # NoCall /\ log[s][j].claim # NoCall
      => log[s][i].claim = log[s][j].claim

(***************************************************************************)
(* The sandbox in an answer was claimed for the tenant it is handed to: by *)
(* this call, or for an idempotent answer by a call with its key.          *)
(***************************************************************************)
HeldBy(s, c) == \E v \in 1 .. Len(log[s]) : log[s][v].claim = c

AnswerIsOwned ==
  \A c \in Call :
    /\ call[c].answer \in {"warm", "cold"} => HeldBy(call[c].got, c)
    /\ call[c].answer = "idempotent" =>
         \E d \in Call : /\ HeldBy(call[c].got, d)
                        /\ TenantOf[d] = TenantOf[c] /\ KeyOf[d] = KeyOf[c]

(***************************************************************************)
(* A sandbox that a conflict made a call give up on is not available stock *)
(* when the call turns to the cold path, or ever after: the version it     *)
(* lost to was another call's claim, a drain or a failure.                 *)
(***************************************************************************)
Available(s) ==
  /\ Live(s) /\ Claimable(Latest(s))
  /\ Latest(s).owner = NoCall /\ ~Latest(s).draining

ConflictMeansTaken ==
  \A c \in Call : call[c].step = "cold" => \A s \in call[c].tried : ~Available(s)

(***************************************************************************)
(* A session that runs has its contract in status.claimRef, and it is that *)
(* of the one call that ever held the sandbox, before and after release.   *)
(***************************************************************************)
SessionHasContract ==
  \A s \in Sandbox : \A v \in 1 .. Len(log[s]) :
    /\ log[s][v].phase = "Running" => log[s][v].claimRef # NoCall
    /\ log[s][v].claimRef # NoCall =>
         /\ log[s][v].claimRef = log[s][v].owner
         /\ Latest(s).claimRef = log[s][v].claimRef

(***************************************************************************)
(* Rotating stock, or failing it with its node, never takes it from a call *)
(* whose claim arrived after the controller looked.                        *)
(***************************************************************************)
StockReclaimSparesSessions ==
  [][\A s \in Sandbox :
       Created(s) /\ Latest(s).phase = "Ready" /\ Latest(s)'.phase \in Reclaimed
         => Latest(s).claim = NoCall]_vars

(***************************************************************************)
(* A claim lands only on stock that serves nobody: Ready, never owned, not *)
(* on its way out.                                                         *)
(***************************************************************************)
ClaimOnlyStock ==
  [][\A s \in Sandbox :
       Created(s) /\ Latest(s).claim = NoCall /\ Latest(s)'.claim # NoCall
         => /\ Latest(s).phase = "Ready" /\ Latest(s).owner = NoCall
            /\ ~Latest(s).deleting]_vars

(***************************************************************************)
(* Liveness.                                                               *)
(***************************************************************************)
Gone(s) == Created(s) /\ Latest(s).gone

(* What no session needs any more disappears: what is marked for reclaim   *)
(* or deletion, even when the controller crashed between its status write  *)
(* and its delete, and what was released, also when the release came       *)
(* before the controller had seen the claim.                               *)
Released(s) == Latest(s).owner # NoCall /\ Latest(s).claim = NoCall

FinishedIsCollected ==
  \A s \in Sandbox :
    (Live(s) /\ (\/ Latest(s).phase \in Reclaimed \/ Latest(s).deleting
                 \/ Released(s)))
      ~> Gone(s)

(* Stock marked draining disappears, unless a call claims it first. *)
DrainedStockIsCollected ==
  \A s \in Sandbox :
    (Live(s) /\ Latest(s).draining /\ Latest(s).owner = NoCall)
      ~> (Live(s) => Latest(s).owner # NoCall)

(* A claim gets its contract in status, unless the sandbox disappears or   *)
(* is released first: no claim stays unnoticed by the controller.          *)
ClaimIsRecorded ==
  \A s \in Sandbox :
    (Live(s) /\ Latest(s).claim # NoCall)
      ~> (Live(s) => Latest(s).claimRef # NoCall \/ Latest(s).claim = NoCall)

-----------------------------------------------------------------------------
(***************************************************************************)
(* What comments of the code say and the code does not keep.               *)
(***************************************************************************)

(* PoolReconciler: draining never touches a claimed sandbox. Only the      *)
(* PoolController deletes an object that is not in a reclaimed phase.      *)
DrainSparesSessions ==
  [][\A s \in Sandbox :
       Live(s) /\ ~Latest(s).deleting /\ Latest(s)'.deleting
         => Latest(s).claim = NoCall \/ Latest(s).phase \in Reclaimed]_vars
=============================================================================
