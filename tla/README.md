# A verification of the sandbox pool

TLA+ models, model-checking configurations and machine-checked proofs for the
program in `src/`: an operator, a gateway, a node agent and a sweeper that keep
a pool of sandboxes on Kubernetes and hand them to the sessions of tenants.

Paths are relative to the repository (`src/internal/...`); `file:line` names the
code a statement is about. `PROJECT.json` maps every definition of the models to
the lines it stands for.

## 1. The system

### 1.1 Parts, state and operations

| Part | Code | State it keeps | Operations |
|---|---|---|---|
| Gateway | `internal/gateway/server.go`, `store.go`, `api.go` | none; several replicas, each with an informer cache | create, get, release, renew, hibernate, wake |
| Claimer | `internal/claim/claim.go` | none | find by request id, list candidates, bind |
| Limiter | `internal/gateway/limits.go` | token buckets and cached quota counts, under a mutex | Allow, Check, evict |
| SandboxController | `internal/controller/sandbox_controller.go`, `phases.go`, `lease.go`, `claim_binding.go` | none between rounds; writes `AgentSandbox`, Pod, Lease, NetworkPolicy | finalizers, observe, bind claim, decide the phase, delete |
| Finalizer chain | `internal/controller/finalizers.go` | one finalizer per step on the object | lease, network, state flush, volume, metrics |
| PoolController | `internal/controller/pool_controller.go`, `pool_scaling.go`, `protect.go` | `SandboxPool.status` (last scale times, oscillation, protect mode) | count, decide, create stock, mark and delete draining stock, protect |
| Node agent | `internal/nodeagent/agent.go` | none; writes the cgroup and `status.runtimeState` | freeze, thaw, report |
| Sweeper | `internal/sweeper/*.go` (CronJob, `config/sweeper/cronjob.yaml`) | none but a `blocked-since` annotation on suspects | list, classify, mark, delete, force-finalize, fail |
| Isolation resolver | `internal/isolation/*.go` | a cache of runtimes per level, under a mutex | Resolve, SetConfig, probe |
| Egress | `internal/egress/policy.go`, `controller/cilium_policy.go` | none | render and validate policy objects |

All parts meet in the API server: an `AgentSandbox` object is written by the
gateway (`spec.claim`, labels, annotations), the SandboxController (status,
finalizers), the PoolController (create, the draining label, delete), the node
agent (runtime state) and the sweeper (status, finalizers). Nobody holds a lock;
some writes carry a `resourceVersion` (`Update`, `MergeFromWithOptimisticLock`),
others are plain patches and deletes. Reads come from informer caches that lag.

### 1.2 What is hard, and what correct means

* **Claiming.** Two calls, or a call and a controller, write one object; caches
  are stale; requests are retried; answers get lost. Correct: a sandbox serves
  one session in its life, an answer names a sandbox that was claimed for that
  tenant, a reclaim of stock never hits a session, what is over disappears.
* **Life of a session.** Renewal, lease, idleness, TTL, deadline, hibernation and
  a late controller race. Correct: no session ends for a silence that did not
  happen, sandboxes are frozen before they are given up, the phase does not
  lie about the cgroup, every sandbox ends, and a wake is served before that.
* **Removal.** Controller, garbage collector and sweeper remove the same objects;
  each can be down; the sweeper's picture is not one instant. Correct: only
  orphans are deleted, deletions end, nothing outlives its sandbox for ever, a
  session is cut off before its state is saved.
* **Pool size.** Counts from a lagging cache, clamps in a row, cooldown, hysteresis
  and oscillation freeze over many rounds. Correct: bounds hold whatever the order
  of events, no flapping, no pool held below its target for good.
* **Protect mode.** The previous state is read back from a cached status.
  Correct: enter and leave thresholds are both respected, an expiry is renewed
  while the cause lasts.
* **Limiter, resolver.** Mutex, eviction at the limit of the table, work outside
  the lock. Correct: no tenant gains tokens by eviction, calls that pass the quota
  together exceed it by little; no answer is older than cache and probe allow, and a
  weaker runtime is never given unsaid.

`PROJECT.json` lists the hazards at their lines, each with the properties that
would catch it, or a note when none does yet.

## 2. The modules

```
SandboxObjects        versions of an object, lagging caches, locks, deletes
  ClaimProtocol       gateway + SandboxController + PoolController: who owns what
    ClaimRefinement   ... implements SessionLedger (INSTANCE ... WITH)
      ClaimProtocolProof
    MCClaimProtocol   constants for TLC
SessionLedger         the abstract promise: stock, held, spent
SandboxLifecycle      one sandbox over time: controller, gateway, agent, cluster
  SandboxLifecycleProof
  SandboxViews        ... agrees with ClaimProtocol, SandboxRemoval, StockKinds
    SandboxViewsProof, MCSandboxLifecycle
SandboxRemoval        attached objects and the finalizer chain
  Sweeper             rounds of the sweeper beside it
    SweeperProof, SweeperChainProof (extends it), MCSweeper
StockKinds            the kinds of stock of a pool and the moves between them
PoolScaling           how much stock to create or give up: DecideScaling
  ProtectMode         when to protect a pool: EvaluateProtectMode
    PoolController    (with StockKinds) rounds that apply both, beside all that
                      changes the stock
      PoolControllerProof, MCPoolController
TokenBucket           the abstract promise of a limiter
  Admission           limiter, quota and the call behind them implement it
    AdmissionProof, MCAdmission
IsolationResolver     which runtime a level gets: cache, probe, configuration
  IsolationResolverProof, MCIsolationResolver
```

The views of the program are cut where its state allows it: `ClaimProtocol` has
many sandboxes, many calls, stale reads and no time; `SandboxLifecycle` has one
sandbox, time, and reads that are up to date; `SandboxRemoval` and `Sweeper` have
the objects around a sandbox; `PoolController` counts sandboxes without telling them
apart; `Admission` and `IsolationResolver` are data structures behind a mutex and what
their callers do between two critical sections. Each abstraction is stated at the
head of its module.

Four modules thus speak of the same sandboxes, and three of them leave open what
`SandboxLifecycle` tells in detail. `SandboxViews` instantiates `ClaimProtocol` and
`SandboxRemoval` on the object of `SandboxLifecycle`, reads its kind off `StockKinds`,
and says in `ViewsAgree` that each of its steps is one that they allow: a decision, claim
or release; a phase that follows, with what a round must have made; a move between
kinds. So what is shown of those modules is not shown of a sandbox that does not exist.
It is proved for all constants (section 4).

### 2.1 ClaimProtocol

`log[s]` is the sequence of versions of sandbox `s`. A cached read is any version,
or nothing: that is weaker than an informer promises (it never goes back within
one process) and covers restarts and several replicas. A write with a
`resourceVersion` succeeds only on the last version. `call[c]` is one `POST
/v1/sandboxes`.

| Code | Action or operator |
|---|---|
| `Claimer.Claim`, `findByRequestID`, `candidates`, `bind` | `Claim(c)` with `FindByRequestID`, `Views`, `Bind`, `Exhausted`, `Contended`, `BindFailed` |
| `Store.CreateCold`; the 503 and 507 answers | `CreateCold(c)` |
| a request that times out, a replica that dies | `LoseCall(c)` |
| `Store.Release` | `Release(c, s)` |
| `ensureFinalizers`; observe, bind, decide, status update; `deleteSandbox`; `reconcileDelete` | `EnsureFinalizers`, `ReconcilePhase`, `DeleteReclaimed`, `Finalize` |
| `createStock`, `markDraining`, `deleteDraining` | `CreateStock`, `MarkDraining`, `DeleteDraining` |

`Claim` is one step taken when the last candidate is tried. That loses nothing: a
candidate that failed earlier in the call (a version that was no longer the last)
still fails then, and the versions read earlier may still be read. Running stands
for all claimed phases, whose differences do not matter for ownership.
A controller keeps nothing in memory between two writes, so a crash between them
is the absence of the second.

Two kinds of writes are left out: those that change nothing that is told apart here (in
Provisioning a round may write a new node name, `sandbox_controller.go:176`), and the
sweeper's `markFailed`, which patches without a lock whatever the object has become
(`Sweeper` has it; section 5 says what it does to a session).

`SessionLedger` is what the platform promises: created as stock or for a call,
granted at most once and out of stock only, spent for ever. `ClaimRefinement`
gives the mapping, `LedgerSpec` the promise as a property of the protocol.

### 2.2 SandboxLifecycle

One object `obj`, its lease, its Pod with node and runtime, its cgroup (`frozen`),
the step of the node agent (`agent`), the clock `now`, and a history `seen` of the
client's signs of life. `Reconcile` is a whole round: bind the claim, create the
lease, decide (`NextPhase`, in the order of the code), create the Pod on the
transition to Provisioning, update the status. `InterruptedReconcile` is a round
whose status update never happens (a crash, a conflict, an error). A round that
decides from an old version fails on the optimistic lock, which is why reads can be
up to date here. Agent steps are separate: list, write the cgroup, report; the
phase may change between them and the agent may die.

A renewal whose write conflicts is answered OK all the same (`store.go:522`). `Renew` writes
always: what it can lose against is another renewal, or a lease so new that the cache of the
replica does not show it, both of the same minute, which is the unit of the clock.

Two specifications state fairness. `FairSpec` lets time pass; in `PatientSpec` the clock
may stop at any moment, so that what happens under it does not happen because a deadline
ended the sandbox. `lifecycle_liveness` uses the second: that a frozen session runs again
before its TTL is over (`WakeIsServed`) cannot be met by the TTL.

### 2.3 SandboxRemoval and Sweeper

`sbx[s]` has the fields that matter for removal, `thing[s][k]` the attached object
of kind `k` with the age of its sweeper mark, `node[s]` whether its node is Ready,
`work[s]` the round the controller is in the middle of. When a phase ends is the matter
of `SandboxLifecycle`; here `NextPhases` allows any of its results that claim, Pod and
node permit. Creation of the attached objects, the five finalizer steps (each done,
failed or interrupted) and the garbage collector are steps of their own.

| Code | Action or operator |
|---|---|
| `CreateCold`, `createStock`; `bind`; `Release` | `Create`; `Claim`; `Release` |
| `Reconcile`: read; its errors and conflicts | `BeginRound`; `StopRound` |
| `ensureNetworkPolicy`, `ensureHeartbeatLease`, `ensurePod` | `Ensure(s, k)` with `Wanted`: the Pod last |
| `decide*`, status update; no runtime for the level | `Advance` with `NextPhases`; `AdvanceWithoutPod` |
| `deleteSandbox`; `deleteDraining`, which looks at the label only | `DeleteReclaimed`; `DeleteDraining` |
| `reconcileDelete`: a step of the chain, its finalizer | `RunFinalizerStep`, `RemoveFinalizer` |
| the cluster | `VolumeAppears`, `CollectGarbage`, `PodLost`, `NodeChanges` |

A claim is none, held or released, because a sandbox released before its session began
is stock again. A round looks at the claim as it is then, where in the code a claim that
arrives during a round makes its update conflict, and the next round sees it. The status names Pod and node in one field
(`placed`): the sweeper's `node_lost` looks at the node of a sandbox that is placed.
The draining label is not a field of `sbx`: `DeleteDraining` takes whatever may carry it,
sessions that were marked as they were claimed among it (section 5), and with them sessions
that began cold and cannot carry it, which is more than the code does.

`round` is the sweeper's round: `List` is one list call (the order of
`snapshot.go` matters), the classification follows the last one, `Apply(f)` is one
finding. Writes hit the object as it is then: patches and deletes have no
precondition. A round stops collecting at `MaxFindings`; `Rivals` is how many findings about
other sandboxes may come before those of the modelled ones, any number up to it in each
round, for ever if need be. Findings are applied in any order. At most one round runs
(`concurrencyPolicy: Forbid`) and none longer than `RoundTimeout` (`--timeout=2m`,
`activeDeadlineSeconds: 180`).

### 2.4 PoolScaling, ProtectMode, PoolController

`DecideScaling` and `EvaluateProtectMode` are pure functions in the code and
operators here, with all their gates and clamps in the order of the code. Ratios are
thousandths as in the code, whose floating point products are exact here.

`stock` counts the sandboxes of each kind as `countStock` tells them apart; `hidden` is how
many of the draining ones still look warm in the cache of the controller that marked them;
`pool` is the object, `shown` the cached copy and `lag` whether it is behind; `round` is
what a round holds in its local variables between two of its calls; `history` is the
scale history in the controller's memory. `trouble` says which kinds of trouble a
run may meet and how often.

A round reads the sandboxes twice, to count and to choose what to mark, and the cache may
catch up in between, before, or after. `CountWarm` has the hidden marks among the warm,
`Marks(n)` says how many of n patches then hit sandboxes that were marked already, and
`ShowMarks` is the watch delivering any part of them at any time. A round that counts before
the watch delivered is a trouble of its own (`"watch"`): it takes a requeue within
milliseconds of a mark, after a conflict on the status for instance.

| Code | Action or operator |
|---|---|
| `DecideScaling`, `suppressed`, `withinHysteresis`, `cooldownActive`, `throttleScaleUp` | `DecideScaling` with `Target`, `Suppression`, `Limited`, `Delta`, `Reason` |
| `EvaluateProtectMode`, `applyProtectMode` | `Trigger`, `Evaluate` |
| `Reconcile`: get, count, protect | `StartRound` |
| `deleteDraining`; its first error | `CleanUp`, `CleanUpFails` |
| `createStock`, `recordScale`; the first create that fails | `ScaleUp`, `CreateFails` |
| `markDraining`; the first patch that fails | `ScaleDown`, `Drain` (`reconcileDrain`) with `MarkDraining`, `Marks`, `Mark`; `MarkFails` |
| `drainCandidates`; `countStock` | `Candidates`; `CountWarm`, `CountDraining`, `CountInflight` |
| no runtime for the pool's isolation | `PauseScaling` |
| `finish`, `updateStatus`; the conflict | `FinishRound`, `UpdateConflicts` |
| any other error; the end of the process | `RoundFails`, `Crash` |
| SandboxController: phases forward; failures, also those the sweeper writes; rotation | `Progress`, `Fails`, `Reclaim` |
| calls: claim, release before the session began, cold start | `Claim`, `ReleaseEarly`, `CreateCold` |
| sandboxes end | `Ends` with `Gone` |
| an operator, `Store.DrainPool` | `EditPool`, `DrainPool` |
| the watches of the pool and of the sandboxes | `Deliver`, `ShowMarks` |

What the round decides is computed in `CleanUp`, since nothing between the two changes
its inputs.

### 2.5 Admission and TokenBucket

`buckets` is the table of the limiter, `calls[c]` where a create call is between
reading the clock and the cache showing its sandbox, `told[t]` what is left of the
wait a tenant was told. Instants are ages: `ago` is how long ago a call read the
clock. The lock makes `Allow` one step; reading the clock is one before it.

| Code | Action or operator |
|---|---|
| `time.Now()` before the lock | `Ask` |
| `Allow`: refill, take a token, refuse, no room in the table | `Admit`, `Refuse`, `TurnAway` with `Refilled`, `Table`, `Wait` |
| `evictStaleLocked` | `Evicted` |
| `QuotaChecker.Check`; its list fails | `Pass`, `Exceed`, `PassUnchecked` |
| claim or cold start; its failure | `Make`, `Fail` |
| informer cache, ends of sandboxes | `Show`, `EndUnseen`, `EndShown`, `Forget` |

`TokenBucket` is the promise: one bucket per tenant that time fills. The mapping gives
each tenant a credit: what its bucket would hold now, or all of it when it has none.

### 2.6 IsolationResolver

`cfg`, `cache` and `cacheAge` are the resolver's fields; `calls[c]` is a call of
`Resolve`, one step for each candidate it probes, with the configuration it copied
under the lock. `file` is the ConfigMap, `installed` what the probe sees of the
runtime classes. The history keeps, as ages, when each configuration was last in
force and each class last there and last gone.

| Code | Action or operator |
|---|---|
| `Resolve`: cached, or copy the configuration | `AskCached`, `Ask` |
| `resolve`: each probe, its error, no candidate left, unknown level | `ProbeFinds`, `ProbeMisses`, `ProbeFails`, `GiveUp`, `ProbeNothing` |
| `Resolve`: store and return | `Store`, `Return` |
| `candidates` | `Chain` |
| `ParseConfig`, `Validate`, `checkNoCycle` | `Valid` |
| `SetConfig`, `isolationConfigSync.sync`, a restart | `SetConfig`, `Sync`, `Restart` |
| the ConfigMap and the runtime classes change | `Edit`, `Install`, `Uninstall` |

## 3. The runs

### 3.1 What each run shows

| Run | Size | Shows |
|---|---|---|
| `claim_safety` | 2 sandboxes, 2 calls of different tenants with one key, 1 attempt | the ownership invariants, with every cache lag and every order of gateway and controllers |
| `claim_liveness` | 1 sandbox, 3 calls, one the retry of another | the refinement of `SessionLedger`; what is released, drained or marked disappears; every claim is recorded |
| `lifecycle_safety` | clock to 5, all policies, Pod and node losses, agent crashes | no wrong reclaim, freeze before reclaim, phase and cgroup agree, the other modules agree with this one |
| `lifecycle_liveness` | clock to 3, missing runtime, lost Pods and leases, agent crashes, a clock that may stop | a frozen session that is asked for runs again before its TTL is over; what is past its TTL ends |
| `sweeper_safety` | Pod and NetworkPolicy, two findings per round, one of them perhaps about others, failing steps and calls, lost Pods, rounds that stop | only orphans are deleted; what was found still holds when it is acted on; cut before flush |
| `sweeper_liveness` | Volume and Lease, two findings per round, one of them perhaps about others for ever, lost nodes, no runtime, a controller that may be down for good | with one slot left, deletions end, orphans go, pending sandboxes are failed |
| `pool` | 3 sandboxes of stock, minWarm 1 or 2, window 1, eight scenarios of trouble | a shrink leaves minWarm but for marks it could not see and what others took; at most three turns are remembered; protection held and counted; a pool left alone settles, protection ends |
| `admission` | 2 tenants, 1 bucket, 4 calls, late clocks, lagging count | the refinement of `TokenBucket`; a bounded overshoot of the quota; a wait that is enough |
| `resolver` | 2 levels, 1 class, 2 callers, 2 changes, `FallbackToRunc` | answers are not too old, nothing is weaker unsaid, answers catch up |
| `drain_spares_sessions`, `ended_pod_is_collected`, `usage_is_recorded` | the smallest that shows it | a statement of a comment or document that the code does not keep (section 5) |

The properties and their comments are at the end of each module. Every property
of a passing run has a mutant: an operator written just before the one it
replaces, with a bug that this code could have (a lock forgotten, a label reset,
a grace left out, a list moved). With the mutant in place TLC finds the property
violated under the same configuration.

### 3.2 Bounds, and why they are enough

* *Sandboxes and calls.* Ownership conflicts are between two writers of one
  object; two sandboxes are needed for giving up on one and taking the other, and
  for a retry that gets a second one; three calls for a claim, its retry and a
  stranger. The safety results are proved for all sizes (section 4).
* *MaxAttempts = 1.* With two sandboxes one attempt reaches both exits of the loop,
  exhausted and contended.
* *Versions.* No bound: objects have finitely many versions because phases only
  move forward, a sandbox is claimed once and labels are set once.
* *Clock (lifecycle).* One unit is a minute. Thresholds are 1 to 5 minutes with
  distinct orders (lease + grace < idle < TTL; hibernate < idle) so that each
  can be reached alone and in the wrong order. `MaxTime` is the TTL, when
  everything ends. Durations below a unit, cache lag among them, are not seen.
* *Ages (sweeper).* One unit is the time-out of a round. The real graces (10 and 15
  minutes) are shortened to 2 and 1; `OrphanGrace > RoundTimeout`, on which the
  proof rests, is kept. Beyond `Horizon` all comparisons have the same answer. In
  `sweeper_liveness` a round takes no time (`RoundTimeout` 0), so that ages end at 2: how
  long a round takes matters to what it deletes wrongly, which is the other run's.
* *MaxFindings 2, Rivals 1*: one slot is certain and another contested in each round. It is
  fewer than the findings there can be about one sandbox and what it leaves, so the limit
  bites, and findings about others, which may be permanent, take a slot in front of them.
  `SlotsSuffice`, the premise of the liveness properties, holds with equality: one rival
  more and they fail (section 5).
* *Kinds.* Two kinds per run; the finalizer chain treats them independently, the
  runs together have all four.
* *Pool.* One unit of time is a minute. Three sandboxes are enough for a target of three
  or two, for a step up of two (maxProvision) and one down (maxReclaim), and to
  reach the quota. Ages end at `MaxAge` 2, no cooldown, hold or window is longer. Trouble
  comes in `Scenarios`: up to four edits (each turns the pool once, the fourth must be
  refused); two of drains and failed calls (a drain can stop halfway), of claims and edits,
  of edits and rounds that run ahead of the watch, of failures and crashes, of claims and
  failures; one of claims, drains and failed calls;
  one of cold starts, failures and missing runtimes. Unbounded trouble is what the proofs
  are for.
* *Admission.* A token has two parts, so that half tokens occur. A tenant earns one in
  two seconds or in less than one; the burst is one call; a call stalls and the cache
  lags at most a second, a bucket is idle after three. There is room for one bucket and
  two tenants want one. Four calls: one shown, two that pass together, one refused.
* *Resolver.* A level with a class and a fallback to the default runtime, three versions of
  the ConfigMap (with the fallback, without it, and one that is refused), two callers
  that interleave, two changes in all; TTL and stall are one unit, so that what they
  add up to is longer than either. Other policies allow less; the proofs are for all.
* `CHECK_DEADLOCK FALSE` everywhere: all calls answered and all sandboxes gone, or
  the end of the clock, are states in which nothing is left to do; `pool`, `admission`
  and `resolver` have a clock that may always tick, but for a call that must move first.

### 3.3 Fairness

* `ClaimProtocol`: weak fairness of each controller step that needs no event from
  outside. Objects are watched and failed rounds requeued with back-off
  (`SetupWithManager`), so work that stays possible is done. `ReconcileDue` leaves
  out a held session, which may last. No fairness for calls, releases, drains.
* `SandboxLifecycle`: `RoundFairness` is weak fairness of `Reconcile` and strong fairness of
  the agent's three steps, because the agent is a loop under a DaemonSet: it may crash
  again and again, but not each time at the same point for ever. `FairSpec` adds weak
  fairness of `Tick`; `PatientSpec`, which assumes less, does not.
* `Sweeper`: time passes, and again and again a round gets to its end
  (`[]<><<RoundCompletes>>_vars`). Rounds may fail, time out or be killed in between,
  and nothing at all is assumed of the controller or of the garbage collector: the
  sweeper's promise is to work when they do not. A call of a completed round may not
  fail for ever in this run (`callFails` is not among its faults), since nothing
  ends a deletion whose call always fails.
* `PoolController`: weak fairness of the round as a whole (`finish` requeues after 30 s at
  the latest), of the sandboxes' progress, and of the watch. Strong fairness of `Tick`:
  rounds, a few seconds each, begin again and again within a minute and are not what time
  waits for. That a minute passes only between rounds, with the cache up to date and every
  new sandbox seen by its controller once, is an assumption of the model: rounds,
  delivery and the first status write take less than a minute. Weak fairness of `ShowMarks`:
  what was marked is shown in the end. That a round runs ahead of the watch is bounded like
  all trouble, and `PoolSettles` needs it: a pool whose every round counts without the marks
  of the last would shrink too far, grow, and shrink too far again for ever.
* `IsolationResolver`: weak fairness of each call (probes have a time limit), of the
  synchronisation (a ticker of a minute, `cmd/operator/main.go:250`) and of time.
* `Admission` needs none: its properties are safety.

## 4. The proofs

`tlapm` checks every theorem to the last leaf, for all values of the constants that
satisfy the named assumptions in the modules.

**ClaimProtocolProof** (assumptions `NoCallAssumption`, `ClaimAssumption`). The
invariant is about whole histories: each version follows its predecessor by a
transition the code can make, so that what is once true of an object stays true.
`LogInv` is typing plus three facts: every version is coherent (claim, owner,
contract and phase agree), what a version fixed persists in all later ones, and
Ready stock that changed is out of every call's reach for good. `NextAppends` says that every step of `Next` appends at most one
version to at most one log, and that this version follows the last; its lemmas are
one per action. From it: `TypeCorrect`, `OneSession`, `Contract`, the action
properties `StockReclaim` and `ClaimsStock`. `AnswerInv` adds the calls: answers
name owners, and what was tried in vain is taken (`AnswersOwned`, `ConflictsTaken`).
`TenantsAreSeparate` puts two invariants together: behind each answer stands a claim,
a sandbox has one claim in its life, so two answers that name one sandbox are of one
tenant and one key, and one of them at least was said to be a repetition.
`RefinesLedger` shows that initial states map to initial states and every step to a
step of the ledger or a stutter: `Spec => LedgerSpec`.

**SandboxLifecycleProof** (`LifecycleAssumption`). `TypeCorrect`;
`SilenceIsReal` (`EndsAreReal`: heartbeat and idleness) from `LeaseInv`: with nobody
deleting leases, a lease is never older than the last sign of life, and every session
that has begun has one. `EndsAreReal` has the hypothesis `"leaseDeleted" \notin Faults`
in its first part, and needs it (section 5).
`FreezeIsReal`, from `FreezeInv`, which says for each phase what the agent may be
doing and what the cgroup may be. The invariant the run checks is not inductive: an
agent about to report `frozen` after the phase moved on has to be excluded.
`FreezePrecedesReclaim` adds `EndInv`: a session that ended as idle stays frozen, for no
agent step is on its way; a Running or Idle one is refused the reclaim because it is not
frozen (`FreezeInv`) and thus due to hibernate. It needs no assumption on faults.
`ExpiredAreEnding` orders the phases: after the TTL each change of phase goes up, so a
sandbox changes its phase five times at most until it is reclaimed. That it changes at
all is liveness and stays with TLC (`SandboxEnds`).

**SandboxViewsProof** shows `ViewsAgree` (`LifeIsSeen`), under every fault. Its middle is
one table of what a round may leave behind for each phase (`DecisionsInTable`), from which
each view is read off (`RoundEffect` says what a round does to the fields they look at).
Two invariants are needed beside those of `SandboxLifecycleProof`: `EndInv`, and
`BoundInv`, that a claim no round has dated is one on a new sandbox or on stock, for
`ClaimProtocol` lets claims in nowhere else. Steps other than rounds, claims and releases
change no field that a view reads (`OtherSteps`).

**SweeperProof** (`RemovalAssumption`, `SweeperAssumption`). `SweeperTypes` and
`SweeperDeletesOnlyOrphans` from one inductive invariant: `TypeOK`; `MarkInv`, a
mark is at most `RoundTimeout` older than the sandbox it belongs to, if that
exists (a round puts its own start as the mark, and may have begun earlier); and
`SnapshotInv`, a sandbox that exists but was not listed is younger than the round.
So an object that is due has no sandbox, now or ever: `RoundTimeout < OrphanGrace`
is exactly what is used.

**SweeperChainProof** follows each sandbox. A round that read New makes the Pod, and no
other does, so what has left New without such a round (`PastNew`) gets no Pod any more;
and a deletion that takes too long (`Overdue`) goes on doing so until the sandbox is gone.
`FindingInv` carries both from the lists of a round through its findings to its calls:
`FindingsAreStillTrue`, so that the sweeper needs no second look. What is placed has its
network policy until it is gone (`PolicyInv`; here `DeletesOnlyOrphans` is used: the
sweeper does not take it), hence `PodsAreBehindPolicies`, and the network step either
closes the network or fails, before the state is saved (`ChainInv`): `FlushFollowsCut`.
Both have the hypothesis that policies are among the kinds that are modelled. Nearly all
steps are `Quiet` about a sandbox; a few lemmas are about those that are not.

**PoolControllerProof** (`PoolAssumption`). `ScalingIsSafe` is about `DecideScaling`
alone, for every specification and observation: the limits of a step, the cap of the
target, minWarm, and no step while draining, paused or frozen. So are `TargetCoversFloor`,
`StepsApproachTarget` (a step leaves a smaller gap and never passes the target, through all
clamps) and `HoldsHaveACause` (no step with a gap left means one of the named causes): they
are what convergence rests on, of which TLC checks the temporal part (`PoolSettles`). The
rest is about the loop, from one invariant. `CacheOK`: a cache that does not lag shows the pool. `ProtectOK`: what
a round that will be recorded makes of the protection it read; its update is refused when
anybody wrote meanwhile, so the trip counter is exact although it is read from a cache.
`HoldOK`: what is left of the hold and the time since the last trigger make up the hold.
`HistoryOK`: the history is in the order of time and has at most three turns. `StepOK`: a
round that has yet to shrink finds at least as much warm stock as it counted, less the marks
it could not see and what others took; all moves of `StockKinds` keep it by one lemma (`MoveKeeps`). `TurnsAreBounded` holds because a step is decided only below the limit and adds one
turn at most; the lemmas on `Recent` say that forgetting the old end of an ordered
history adds none.

**AdmissionProof** (`AdmissionAssumption`). An evicted bucket is one that time has
filled (`OldIsFull`; this is where the burst must be earned in less than `Idle - Stall`),
so eviction changes nothing that a tenant could spend. `RateOK` says for every k that what
was spent in the last k seconds and what is left of the credit are within the credit at
the start and what was earned since; from it `OvershootIsPaid`, and with it the count of
calls that passed together. `LimiterRefinesBucket` maps every step to one of `TokenBucket`
or a stutter. `WindowIsBounded` puts a meter beside the replica that starts in any state of
it: in n seconds it admits at most (burst + rate * (Stall + n)) / Token calls of a tenant.

**IsolationResolverProof** (`ResolverAssumption`). What a call or the cache knows is true
of some instant, and knowledge ages with the clock: `CacheOK` and `CallsOK` say how old it
may be at each stage. A probe may see a class that comes and goes between two candidates,
so an answer need not be true of one instant of the cluster; what is proved is that every
single thing it says was true within the bound. `WeakeningIsSaid` follows from `Valid`
and `Chain`, for every policy.

**Only model-checked:** the liveness properties, for which fairness and ENABLED are out of
the prover's reach. Every invariant and action property of the runs is proved.

## 5. Where the code and its words differ

Three are runs that TLC finds violated:

| Run | Statement | What happens |
|---|---|---|
| `drain_spares_sessions` | `pool_controller.go:47` draining never touches a claimed sandbox; `:401` a race with a claim does no harm | the draining label is written without a lock on a candidate claimed meanwhile, and the delete does not look at the claim |
| `ended_pod_is_collected` | `phases.go:199` no hanging in an intermediate phase; `:358` the TTL is never exceeded | a Pod that ended has no cgroup to freeze; Hibernating waits for ever |
| `usage_is_recorded` | `finalizers.go:133`, `docs/04:433` final usage is recorded | the step waits for a Pod that is collected only after the object is gone |

Others fail as formulas over the models, for who wants to see the behaviour:

* `gateway/server.go:242` one key, one claim: a retry reads a cache without the first
  claim (`claim.go:286`). Over `ClaimProtocol`:
  `\A s, t \in Sandbox, c, d \in Call : HeldBy(s, c) /\ HeldBy(t, d) /\ TenantOf[c] = TenantOf[d] /\ KeyOf[c] = KeyOf[d] /\ KeyOf[c] # NoKey => s = t`.
* `sandbox_controller.go:151` a deleted lease is repaired, not turned into a reclaim: observe
  comes before the repair (`:236`), and the same round reclaims. `HeartbeatLossIsReal` of
  `SandboxLifecycle` with `"leaseDeleted"` among the faults.
* `phases.go:385`, `docs/04-api-and-state-machine.md:375` Idle is left by renewal: nothing
  leaves Idle on renewal, so the second loss has no grace. Over `SandboxLifecycle`:
  `obj.reason = "HeartbeatLost" /\ spec.policy = "Grace" => ~seen.renewed`.
* `docs/05:292` the nodes of a drained pool may be upgraded, by the condition Drained:
  `reconcileDrain` looks at warm and draining stock only (`pool_controller.go:254`), and
  never resets it. Over `PoolController`: `pool.drain /\ pool.drained => Unclaimed = 0`.
* `docs/04-api-and-state-machine.md:417` stock never exceeds maxWarm: a round that reads a
  pool or stock from before its last update creates once more. Over `PoolController`:
  `stock["Warm"] + stock["Draining"] =< Scaling.maxWarm`.
* `pool_controller.go:133-138` two-phase shrinking does not shrink too far, for what is marked
  is out of the count: in the cache it is not yet. A round that conflicts on its status after
  marking (`:507`) is repeated at once, may count what it has just marked as warm, and marks
  others. Over `PoolController`, with the scenario `{"watch", "edit"}`:
  `[][ScaleDown /\ trouble.kinds = {"watch", "edit"} => stock'["Warm"] >= round.pool.minWarm]_vars`.
  `ShrinkKeepsMinWarm` states the bound that is kept: what is missing is what was marked and
  not shown at the count, or taken by others.
* `classify.go:118` a round stops collecting at `MaxFindings`, in a fixed order, so a finding
  that no action ends (`node_lost` of what has failed already, `:251`) takes its slot in every
  round; with `MaxFindings` of them nothing behind is ever collected. Over `Sweeper`, the
  liveness properties without their premise `SlotsSuffice`, with `Rivals` = `MaxFindings` = 2:
  `\A s \in Sandbox : sbx[s].deleting ~> sbx[s].phase = "Gone"`, and `PendingEnds` likewise.

Met while modelling, without a run or a formula of their own:

* `pool_controller.go:378` says that stock labelled draining leaves the claimable set at
  once; the list of candidates (`claim.go:199`) and `claimable` do not look at that label.
* A call whose cached list lags takes the cold path although Ready stock exists
  (`claim.go:189`, `server.go:297`).
* Stock that was claimed and released before the controller saw it is counted as warm
  (`pool_controller.go:300` against `docs/04:349`).
* The lease is judged by the grace without the template (`sandbox_controller.go:233`),
  the phase by the one with it (`phases.go:703`).
* The wake annotation is never cleared after it was served (`store.go:550` against
  `labels.go:52`, `docs/04:380`): every later freeze of that sandbox is undone.
* `ensurePod` runs only on the transition to Provisioning (`sandbox_controller.go:313`):
  a runtime that was missing then is not looked for again (`:473`).
* A release is not looked at while a sandbox is Hibernated (`phases.go:208`, `:331`); it
  ends by TTL, deadline or idleness.
* `markFailed` patches the status of a snapshot (`apply.go:138`): a session whose node
  was not Ready for a moment is failed after it recovered, while `sweeper.go:40`
  speaks of nodes that are not Ready for long. As a formula over `Sweeper`, which fails:
  `[][\A s \in Sandbox : sbx[s].phase = "Running" /\ There(s, "Pod") /\ node[s] => sbx'[s].phase # "Failed"]_vars`.
* `blocked-since` is never cleared. Since names are not reused and the owner index errs
  towards owned, the mark is right whenever it is used.
* `docs/04` section 6.3 starts the forced clean-up at hardDeadline + 10 minutes, the code
  10 minutes after the deletion began.
* `docs/05:304` and `docs/10:231` say that maxWarm 0 closes a pool; in the code 0 means no
  cap (`pool_scaling.go:200`). `docs/05:141` freezes beyond three turns, the code at three.
* `maxProvisionPerSecond` and `maxReclaimPerSecond` limit one round, not a second
  (`pool_scaling.go:409`); events of the pool's objects may start rounds much closer.
* `cooldownActive` holds back a step in the direction of the last one only (`pool_scaling.go:371`);
  a turn passes at once and is stopped by hysteresis or the freeze alone.
* Hysteresis is applied before minWarm: a pool may stay a little below minWarm.
* Nothing reports a rate of claims, the room on the nodes or a hit ratio, so that the target
  is constant: `Observation` has what the code passes. A source of metrics that is added
  later changes the operator, not the loop.
* A crash between marking and the status update forgets the step: the next round knows of no
  cooldown and may give up as much again, down to what `ShrinkKeepsMinWarm` states. The
  limit of three turns is one on what is remembered: the steps before a restart, and those of
  a round that failed half-way, are not among them. `createStock` that fails half-way
  writes no status. Sandboxes of the cold path count as stock in provision.
* `deleteDraining` spends its limit also on objects that are already being deleted
  (`pool_controller.go:459`), so stuck ones keep others waiting.
* `limits.go:249` speaks of one or two calls that overshoot a quota; what is bounded, and can
  be reached, is a burst and what is earned while the cache lags.
* A quota whose burst is below one token locks its tenant out; a rate so low that ten minutes
  do not fill the burst gains by eviction. Both are outside `AdmissionAssumption`.
* While the table is full of tenants that are active every ten minutes, a new tenant is turned
  away without end (`limits.go:131`). Each replica and each restart has full buckets.
* The result of a probe that began before `SetConfig` is stored after it (`resolver.go:182`)
  and served for up to TTL. `AnswersWereTrue` states the bound that is kept.
* `cmd/operator/main.go:126` says that pools may override the policy of degradation; `Resolve`
  takes none, and `DegradationFor` has no caller.

## 6. Not modelled

* `status.activity`: declared, read by `idleFor`, written by nothing in the repository;
  so idleness counts from creation, claim and renewal.
* The reuse limit: `status.reuseCount` is never raised, so it cannot be reached.
* Sandbox templates: a missing template ends a round with a retry; parameters of a
  template stand for themselves in the constants of `SandboxLifecycle`.
* Cache lag within a unit of time in `SandboxLifecycle`; caches are the subject of
  `ClaimProtocol`.
* In `SandboxRemoval`: adding finalizers (a stutter there, a step in `ClaimProtocol`).
* Sweeper: dry run, metrics and reports; the order in which findings are applied; a
  `blocked-since` mark that cannot be parsed (only other hands write one).
* Gateway: authentication, metrics, GET and list; the drain and protect gates of a create
  call, which are among the reasons of `CreateCold` to refuse.
* Limiter: the quota file and its reload; several replicas, which share nothing, so that k of
  them admit k times the rate and pass the quota k such windows over; a restart.
* Pool: which sandbox is marked or claimed (`ClaimProtocol`); a pool that is deleted.
* Resolver: alignment of overheads in `Validate`; `SetProbe`, `Invalidate` and `Snapshot`,
  which have no callers; the reason and message texts of an answer. The deployed operator uses
  `FailFast` (`cmd/operator/main.go:127`), of whose answers less can go wrong; the run uses
  `FallbackToRunc`, the proofs are for both.
* CRI client, egress and policy rendering, tiers, generated code, executables,
  deployment: I/O, tables or wiring without protocol state.

## 7. Plan

In order of importance; all are done.

1. `SandboxObjects`, `ClaimProtocol`, `SessionLedger`, `ClaimRefinement`: who owns a
   sandbox. Proof of every safety property and of the refinement.
2. `SandboxLifecycle`: time. Proof of types, silence and freezing.
3. `SandboxRemoval`: attached objects and finalizers.
4. `Sweeper` over 3. Proof that it deletes only orphans.
5. `PoolScaling`, `ProtectMode`: the two decisions of a pool.
6. `PoolController` over 5. Proof of every safety property.
7. `TokenBucket`, `Admission`. Proof of every property and of the refinement.
8. `IsolationResolver`. Proof of every safety property.
9. Proofs that follow a sandbox through its end: `FlushIsCut`, `FindingsStayTrue`,
   `FreezeBeforeReclaim`.
10. `SandboxViews`: the modules agree on the life of a sandbox. Proof.
11. What the proved invariants and the decisions imply: `TenantsAreSeparate`,
    `ExpiredAreEnding`, `WindowIsBounded`, `StepsApproachTarget`.
