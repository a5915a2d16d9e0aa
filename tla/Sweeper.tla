------------------------------- MODULE Sweeper -------------------------------
(***************************************************************************)
(* The sweeper: a CronJob that lists the cluster one kind after the other, *)
(* classifies what it saw, and acts on its findings one by one, while the  *)
(* controller goes on making and removing sandboxes (SandboxRemoval). At   *)
(* most one round runs at a time (concurrencyPolicy: Forbid), and none     *)
(* longer than its timeout.                                                *)
(*                                                                         *)
(* The code compares instants with the start of the round. Here every      *)
(* instant is kept as an age, counted up to Horizon, and what has elapsed  *)
(* at the start of the round is the age less the age of the round.         *)
(***************************************************************************)
EXTENDS SandboxRemoval, FiniteSetsExt

CONSTANTS
  OrphanGrace, StuckTerminatingGrace, PendingGrace, MaxFindings, \* Options
  RoundTimeout, \* the timeout of a round
  Rivals        \* how many findings a round may have about other sandboxes

ASSUME SweeperAssumption ==
  /\ {OrphanGrace, StuckTerminatingGrace, PendingGrace, RoundTimeout, Rivals} \subseteq Nat
  /\ MaxFindings \in Nat \ {0}
  /\ RoundTimeout < OrphanGrace
  /\ Horizon >= RoundTimeout + OrphanGrace
  /\ Horizon > RoundTimeout + StuckTerminatingGrace
  /\ Horizon > RoundTimeout + PendingGrace

VARIABLE round \* the round that is running
vars == <<sbx, thing, node, work, round>>

SandboxFinding == {"stuck_terminating", "stuck_pending", "stock_without_pod",
                   "node_lost", "claim_without_lease"}

(* A finding about an attached object has the object's kind. None stands   *)
(* for an action that finds nothing to do.                                 *)
Finding == [kind   : Kind \cup SandboxFinding,
            action : {"Block", "DeleteObject", "ForceFinalize", "MarkFailed", "None"},
            sandbox : Sandbox]

(* What the round has seen of a sandbox, and of an attached object: due is *)
(* an object whose mark is older than OrphanGrace.                         *)
Standing == {"unlisted", "stuck", "deleting", "pending", "ready", "other"}
SandboxView == [standing : Standing, placed : BOOLEAN, claimed : BOOLEAN,
                terminal : BOOLEAN]
ThingView == {"missing", "unmarked", "marked", "due"}

Unseen == [standing |-> "unlisted", placed |-> FALSE, claimed |-> FALSE,
           terminal |-> FALSE]

NoRound == [on |-> FALSE, age |-> 0, listed |-> 0,
            sandboxes |-> [s \in Sandbox |-> Unseen],
            things |-> [s \in Sandbox |-> [k \in Kind |-> "missing"]],
            todo |-> {}]

Init == RemovalInit /\ round = NoRound

-----------------------------------------------------------------------------
(***************************************************************************)
(* The snapshot.                                                           *)
(***************************************************************************)
(* Mutant: the attached objects are listed before their owners. *)
ListOrderOwnersLast ==
  <<"Pod", "Lease", "NetworkPolicy", "Volume", "AgentSandbox", "Node">>

ListOrder == <<"AgentSandbox", "Pod", "Lease", "NetworkPolicy", "Volume", "Node">>

Elapsed(age) == age - round.age

(* Mutant: only the phase Provisioning is looked at. *)
LongPendingProvisioning(o) ==
  o.phase = "Provisioning" /\ ~o.deleting /\ Elapsed(o.age) > PendingGrace

LongPending(o) ==
  o.phase \in {"New", "Provisioning"} /\ ~o.deleting /\ Elapsed(o.age) > PendingGrace

StandingOf(s) ==
  LET o == sbx[s]
  IN  IF ~Exists(s) THEN "unlisted"
      ELSE IF o.deleting
        THEN IF Elapsed(o.deletingAge) > StuckTerminatingGrace THEN "stuck"
                                                               ELSE "deleting"
      ELSE IF LongPending(o)    THEN "pending"
      ELSE IF o.phase = "Ready" THEN "ready" ELSE "other"

ViewOf(s) ==
  IF ~Exists(s) THEN Unseen
  ELSE [standing |-> StandingOf(s), placed |-> sbx[s].placed,
        claimed |-> sbx[s].claim = "held", terminal |-> sbx[s].phase = "Failed"]

(* Mutant: what has no mark counts as marked long ago. *)
ThingViewNoGrace(s, k) ==
  IF ~There(s, k) THEN "missing" ELSE "due"

ThingViewOf(s, k) ==
  IF ~There(s, k) THEN "missing"
  ELSE IF thing[s][k] = Unmarked THEN "unmarked"
  ELSE IF Elapsed(thing[s][k]) < OrphanGrace THEN "marked" ELSE "due"

-----------------------------------------------------------------------------
(***************************************************************************)
(* Classify.                                                               *)
(***************************************************************************)
(* An object is owned when its sandbox was listed, in whatever state.      *)
Owned(r, s) == r.sandboxes[s].standing # "unlisted"

(* Mutant: every round puts a fresh mark on an orphan. *)
OrphanActionRemarking(view) ==
  IF view = "due" THEN "DeleteObject" ELSE "Block"

OrphanAction(view) ==
  CASE view = "unmarked" -> "Block"
    [] view = "marked"   -> "None"
    [] view = "due"      -> "DeleteObject"

Orphans(r) ==
  {f \in Finding :
     /\ f.kind \in Kind /\ ~Owned(r, f.sandbox)
     /\ LET view == r.things[f.sandbox][f.kind]
        IN  view # "missing" /\ f.action = OrphanAction(view)}

(* At most one finding for a sandbox; markFailed leaves what was terminal. *)
Anomaly(r, s) ==
  LET v      == r.sandboxes[s]
      Fail   == IF v.terminal THEN "None" ELSE "MarkFailed"
      Is(kind, action) == {[kind |-> kind, action |-> action, sandbox |-> s]}
      Saw(k) == k \in Kind => r.things[s][k] # "missing"
  IN  CASE v.standing \in {"unlisted", "deleting"} -> {}
        [] v.standing = "stuck"   -> Is("stuck_terminating", "ForceFinalize")
        [] v.standing = "pending" -> Is("stuck_pending", Fail)
        [] v.standing = "ready"   ->
             IF Saw("Pod") THEN {} ELSE Is("stock_without_pod", Fail)
        [] v.placed /\ ~node[s]   -> Is("node_lost", Fail)
        [] v.claimed /\ ~Saw("Lease") -> Is("claim_without_lease", "None")
        [] OTHER                  -> {}

Findings(r) == Orphans(r) \cup UNION {Anomaly(r, s) : s \in Sandbox}

(* Findings are collected in this order, up to MaxFindings: those about the *)
(* rest of the cluster may come first, as many as there are in this round. *)
Rank(f) ==
  CASE f.kind = "Lease"         -> 1
    [] f.kind = "NetworkPolicy" -> 2
    [] f.kind = "Volume"        -> 3
    [] f.kind = "Pod"           -> 4
    [] OTHER                    -> 5

Collected(all) ==
  {F \in SUBSET all :
     /\ \E n \in 0 .. Min({Rivals, MaxFindings}) :
          Cardinality(F) = Min({MaxFindings - n, Cardinality(all)})
     /\ \A f \in F, g \in all \ F : Rank(f) <= Rank(g)}

-----------------------------------------------------------------------------
(***************************************************************************)
(* A round.                                                                *)
(***************************************************************************)
Running == round.on /\ round.age <= RoundTimeout

StartRound ==
  /\ ~round.on
  /\ round' = [NoRound EXCEPT !.on = TRUE]
  /\ UNCHANGED removalVars

(* One list call; after the last one the snapshot is classified.           *)
List ==
  /\ Running /\ round.listed < Len(ListOrder)
  /\ LET kind == ListOrder[round.listed + 1]
         seen == [round EXCEPT
           !.listed = @ + 1,
           !.sandboxes = IF kind = "AgentSandbox"
                         THEN [s \in Sandbox |-> ViewOf(s)] ELSE @,
           !.things = [s \in Sandbox |-> [k \in Kind |->
                         IF k = kind THEN ThingViewOf(s, k) ELSE @[s][k]]]]
     IN  IF seen.listed < Len(ListOrder)
         THEN round' = seen
         ELSE \E F \in Collected(Findings(seen)) :
                round' = IF F = {} THEN NoRound
                         ELSE [NoRound EXCEPT !.on = TRUE, !.age = round.age,
                                 !.listed = Len(ListOrder), !.todo = F]
  /\ UNCHANGED removalVars

(* A patch or a delete by name, of the object as it is now, without any    *)
(* precondition. The mark is the start of the round.                       *)
Block(s, k) ==
  /\ thing' = IF There(s, k) THEN [thing EXCEPT ![s][k] = round.age] ELSE thing
  /\ UNCHANGED sbx

DeleteObject(s, k) == Remove(s, k) /\ UNCHANGED sbx

(* Mutant: the finalizers stay, so the deletion changes nothing. *)
ForceFinalizeKeeping(s) == UNCHANGED <<sbx, thing>>

ForceFinalize(s) ==
  /\ sbx' = IF Exists(s)
            THEN [sbx EXCEPT ![s] = [Ended(@) EXCEPT !.forced = TRUE]]
            ELSE sbx
  /\ UNCHANGED thing

MarkFailed(s) ==
  /\ sbx' = IF Exists(s) THEN [sbx EXCEPT ![s].phase = "Failed"] ELSE sbx
  /\ UNCHANGED thing

(* The round ends with its last finding.                                   *)
Drop(f) ==
  round' = IF round.todo = {f} THEN NoRound
                               ELSE [round EXCEPT !.todo = @ \ {f}]

Apply(f) ==
  /\ Running /\ f \in round.todo
  /\ CASE f.action = "Block"         -> Block(f.sandbox, f.kind)
       [] f.action = "DeleteObject"  -> DeleteObject(f.sandbox, f.kind)
       [] f.action = "ForceFinalize" -> ForceFinalize(f.sandbox)
       [] f.action = "MarkFailed"    -> MarkFailed(f.sandbox)
       [] OTHER                      -> UNCHANGED <<sbx, thing>>
  /\ Drop(f)
  /\ UNCHANGED <<node, work>>

(* The call of one finding fails; the others are still applied.            *)
ApplyFails(f) ==
  /\ "callFails" \in Faults
  /\ Running /\ f \in round.todo
  /\ Drop(f)
  /\ UNCHANGED removalVars

(* A failed list, the timeout, or the end of the process.                  *)
EndRound ==
  /\ round.on
  /\ "roundStops" \in Faults \/ round.age > RoundTimeout
  /\ round' = NoRound
  /\ UNCHANGED removalVars

Older(age, limit) == IF age < limit THEN age + 1 ELSE limit

Tick ==
  /\ sbx' = [s \in Sandbox |->
       IF ~Exists(s) THEN sbx[s]
       ELSE [sbx[s] EXCEPT
               !.age = Older(@, Horizon),
               !.deletingAge = IF sbx[s].deleting THEN Older(@, Horizon) ELSE @]]
  /\ thing' = [s \in Sandbox |-> [k \in Kind |->
       IF thing[s][k] >= 0 THEN Older(thing[s][k], Horizon) ELSE thing[s][k]]]
  /\ round' = IF round.on THEN [round EXCEPT !.age = Older(@, RoundTimeout + 1)]
                          ELSE round
  /\ UNCHANGED <<node, work>>

-----------------------------------------------------------------------------
Next ==
  \/ \E s \in Sandbox : RemovalNext(s) /\ UNCHANGED round
  \/ StartRound \/ List \/ EndRound
  \/ \E f \in round.todo : Apply(f) \/ ApplyFails(f)
  \/ Tick

Spec == Init /\ [][Next]_vars

(* Rounds may fail, time out or be killed, but again and again one gets to *)
(* its end, having listed everything and applied its last finding; and     *)
(* time passes. Nothing is assumed of the controller or of the garbage     *)
(* collector: they may be down for good.                                   *)
RoundCompletes ==
  round' = NoRound /\ (List \/ \E f \in round.todo : Apply(f))

Fairness == WF_vars(Tick) /\ []<><<RoundCompletes>>_vars

FairSpec == Spec /\ Fairness

-----------------------------------------------------------------------------
(***************************************************************************)
(* Properties.                                                             *)
(***************************************************************************)
Round == [on : BOOLEAN, age : 0 .. RoundTimeout + 1, listed : 0 .. 6,
          sandboxes : [Sandbox -> SandboxView],
          things : [Sandbox -> [Kind -> ThingView]],
          todo : SUBSET Finding]

(* Every variable has its type. *)
TypeOK ==
  /\ sbx \in [Sandbox -> Object]
  /\ thing \in [Sandbox -> [Kind -> Age \cup {Missing, Unmarked}]]
  /\ node \in [Sandbox -> BOOLEAN]
  /\ work \in [Sandbox -> Phase \cup {"idle", "step"}]
  /\ round \in Round

(* What the sweeper is about to delete belongs to a sandbox that is gone,  *)
(* at every moment until the delete is sent: not to one that was being     *)
(* made while the sweeper looked, and not to one that is being deleted.    *)
DeletesOnlyOrphans ==
  \A f \in round.todo :
    f.action = "DeleteObject" => sbx[f.sandbox].phase = "Gone"

(* What the sweeper found is still so when it acts on it: stock that it is *)
(* about to fail for want of a Pod has none, and a sandbox whose           *)
(* finalizers it is about to take away has been deleted for too long, or   *)
(* is gone. Neither is checked again before the call.                      *)
FindingsStayTrue ==
  \A f \in round.todo :
    LET o == sbx[f.sandbox]
    IN  /\ f.kind = "stock_without_pod" => ~There(f.sandbox, "Pod")
        /\ f.action = "ForceFinalize" =>
             \/ o.phase = "Gone"
             \/ o.deleting /\ o.deletingAge > StuckTerminatingGrace

(* The state of a session is saved only after its network was closed, or   *)
(* could not be, whatever the sweeper does beside the chain.               *)
FlushIsCut ==
  \A s \in Sandbox :
    sbx[s].flushed /\ sbx[s].served => sbx[s].network # "open"

(* A finding that no action ends, node_lost of what has failed for one,    *)
(* comes up in every round: there is one at most for a sandbox, and a slot *)
(* is left for the next if there are more slots than such sandboxes.       *)
SlotsSuffice == Rivals + Cardinality(Sandbox) =< MaxFindings

(* A deletion ends although the controller never runs again, and although  *)
(* findings about other sandboxes come first in every round, as long as    *)
(* they leave a slot.                                                      *)
DeletingIsCollected ==
  SlotsSuffice => \A s \in Sandbox : sbx[s].deleting ~> sbx[s].phase = "Gone"

(* Nothing outlives its sandbox for ever, even without owner references    *)
(* and with one slot for all that it left behind.                          *)
OrphansAreCollected ==
  SlotsSuffice => \A s \in Sandbox : \A k \in Kind :
                    (sbx[s].phase = "Gone") ~> ~There(s, k)

(* A sandbox does not wait for ever for a controller that forgot it, with  *)
(* one slot left by findings about others.                                 *)
PendingEnds ==
  SlotsSuffice => \A s \in Sandbox :
    (sbx[s].phase \in {"New", "Provisioning"})
      ~> (sbx[s].phase \notin {"New", "Provisioning"})

-----------------------------------------------------------------------------
(***************************************************************************)
(* What comments and documents say, and the code does not do.              *)
(***************************************************************************)

(* metrics-finalize records the final usage of every reclaimed sandbox.    *)
UsageIsRecorded ==
  \A s \in Sandbox : sbx[s].phase = "Gone" /\ ~sbx[s].forced => sbx[s].recorded
=============================================================================
