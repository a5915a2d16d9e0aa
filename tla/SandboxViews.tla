---------------------------- MODULE SandboxViews ----------------------------
(***************************************************************************)
(* Three modules look at a sandbox from further away than SandboxLifecycle *)
(* does, and each has its own idea of what may become of it: ClaimProtocol *)
(* (who owns it), SandboxRemoval (what belongs to it) and PoolController   *)
(* (whether it counts as stock). All of them translate the same code. Here *)
(* the object of SandboxLifecycle is mapped to theirs, and every step of   *)
(* the life of a sandbox to a step that they allow.                        *)
(***************************************************************************)
EXTENDS SandboxLifecycle, StockKinds

(* One session at most asks for the sandbox in all its life.               *)
Session   == "session"
NoSession == "none"

CoarsePhase(p) == IF p \in ClaimedPhase THEN "Running" ELSE p

(* A session that was claimed ends for reasons that ClaimProtocol does not *)
(* tell apart; Failed is for what never became one.                        *)
CoarseReason(o) ==
  IF o.phase = "Terminating" /\ o.reason \notin {"StockRotation", "ClientReleased"}
    THEN "SessionEnded" ELSE o.reason

(* The AgentSandbox of ClaimProtocol. Draining and deletion are not part   *)
(* of the life that SandboxLifecycle tells.                                *)
ClaimObject ==
  [phase      |-> CoarsePhase(obj.phase),
   claim      |-> IF obj.claim = "held" THEN Session ELSE NoSession,
   owner      |-> IF obj.claim # "none" THEN Session ELSE NoSession,
   claimRef   |-> IF obj.claimedAt # Never THEN Session ELSE NoSession,
   reason     |-> CoarseReason(obj),
   draining   |-> FALSE,
   finalizers |-> TRUE,
   deleting   |-> FALSE,
   gone       |-> FALSE]

CP == INSTANCE ClaimProtocol
        WITH Sandbox <- {"s"}, NoSandbox <- "none", MaxAttempts <- 1,
             Call <- {Session}, NoCall <- NoSession, NoKey <- "none",
             TenantOf <- [c \in {Session} |-> "tenant"],
             KeyOf <- [c \in {Session} |-> "none"],
             log <- [s \in {"s"} |-> <<ClaimObject>>],
             call <- [c \in {Session} |-> "idle"]

(* The sandbox of SandboxRemoval, of which its decision reads three fields.*)
RemovalObject ==
  [phase |-> CoarsePhase(obj.phase), claim |-> obj.claim, placed |-> obj.podName]

PodThere   == pod.state # "absent"
LeaseThere == lease # Never
Made(k)    == IF k = "Pod" THEN PodThere ELSE LeaseThere

RM == INSTANCE SandboxRemoval
        WITH Sandbox <- {"s"}, Kind <- {"Pod", "Lease"}, Horizon <- MaxTime,
             sbx <- [s \in {"s"} |-> RemovalObject],
             thing <- [s \in {"s"} |->
                         [k \in {"Pod", "Lease"} |-> IF Made(k) THEN -1 ELSE -2]],
             node <- [s \in {"s"} |-> pod.node],
             work <- [s \in {"s"} |-> "idle"]

(* The kind of stock that countStock takes the sandbox for.                *)
StockKind == KindOf(obj.phase, obj.claim = "held")

-----------------------------------------------------------------------------
(* A decision of the controller, a claim of stock that nobody had, or a    *)
(* release: ClaimProtocol sees no other change.                            *)
ClaimView ==
  \/ ClaimObject' = ClaimObject
  \/ \E d \in CP!Decisions(ClaimObject) : ClaimObject' = CP!Applied(ClaimObject, d)
  \/ /\ CP!Claimable(ClaimObject) /\ ClaimObject.owner = NoSession
     /\ ClaimObject' = CP!Bound(ClaimObject, Session)
  \/ /\ ClaimObject.phase \notin Reclaimed
     /\ ClaimObject' = CP!Unclaimed(ClaimObject)

(* A round leaves a phase that SandboxRemoval expects, and has made what   *)
(* it wants: all but a Pod for which there is no runtime.                  *)
RemovalView ==
  Reconcile =>
    /\ CoarsePhase(obj.phase)' \in RM!NextPhases("s")
    /\ \A k \in RM!Wanted("s", CoarsePhase(obj.phase)) :
         Made(k)' \/ (k = "Pod" /\ ~pod.runtime)

(* The moves of PoolController; None is a sandbox that counts no more.     *)
StockView ==
  \/ StockKind' = StockKind
  \/ <<StockKind, StockKind'>> \in
       Advances \cup EarlyReleases \cup Failures
         \cup {<<"Warm", "Taken">>, <<"Warm", "None">>, <<"Session", "None">>}

(* The modules agree on the life of a sandbox: no round, call, fault or    *)
(* report takes it where one of the others would not follow.               *)
ViewsAgree == [][ClaimView /\ RemovalView /\ StockView]_vars
=============================================================================
