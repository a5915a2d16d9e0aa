------------------------- MODULE ClaimProtocolProof -------------------------
(***************************************************************************)
(* ClaimProtocol, for any number of sandboxes, calls and attempts.         *)
(*                                                                         *)
(* Every write of every actor, stale or not, appends to one object a       *)
(* version that is a legal successor of the last one (StepAppends). What   *)
(* the properties say about two versions of an object then follows by      *)
(* induction along the versions.                                           *)
(***************************************************************************)
EXTENDS ClaimRefinement, TLAPS

-----------------------------------------------------------------------------
(* The first version of an object belongs to the call that created it.     *)
Fresh(o) ==
  /\ o.claim = o.owner /\ o.claimRef = NoCall /\ o.phase = "New"
  /\ ~o.deleting /\ ~o.gone

(* Out of reach of a call that wants stock. *)
Taken(o) ==
  \/ o.owner # NoCall \/ o.draining \/ o.deleting \/ o.gone \/ o.phase \in Reclaimed

(* What is true of one version of an object. *)
Coherent(o) ==
  /\ o.claim # NoCall => o.claim = o.owner
  /\ o.claimRef # NoCall => o.claimRef = o.owner
  /\ o.phase = "Running" => o.claimRef # NoCall
  /\ o.phase # "New" => o.finalizers \/ o.gone

(* What a later version keeps of an earlier one. *)
Persists(old, new) ==
  /\ old.owner # NoCall => new.owner = old.owner
  /\ old.claimRef # NoCall => new.claimRef = old.claimRef
  /\ Spent(old) => Spent(new)
  /\ Taken(old) => Taken(new)

(* The version new may directly follow the version old. *)
Follows(old, new) ==
  /\ Persists(old, new)
  /\ old.claim = NoCall /\ new.claim # NoCall =>
       /\ old.phase = "Ready" /\ old.owner = NoCall /\ ~old.deleting
       /\ ~Spent(old) /\ ~Spent(new)
  /\ new.owner # NoCall /\ new.claim = NoCall => old.owner # NoCall
  /\ old.phase = "Ready" /\ new.phase \in Reclaimed => old.claim = NoCall
  /\ old.phase = "Ready" => Taken(new)

(* One write: the object, its next version, and their relation. *)
Appends(s, o) ==
  /\ Write(s, o)
  /\ Coherent(o)
  /\ IF Created(s) THEN Follows(Latest(s), o) ELSE Fresh(o)

AllCoherent == \A s \in Sandbox : \A v \in 1 .. Len(log[s]) : Coherent(log[s][v])

AllPersist ==
  \A s \in Sandbox : \A i, j \in 1 .. Len(log[s]) :
    i <= j => Persists(log[s][i], log[s][j])

(* Ready stock that changed is out of reach, for good. *)
AllTaken ==
  \A s \in Sandbox : \A i, j \in 1 .. Len(log[s]) :
    i < j /\ log[s][i].phase = "Ready" => Taken(log[s][j])

LogInv == TypeOK /\ AllCoherent /\ AllPersist /\ AllTaken

-----------------------------------------------------------------------------
LEMMA LatestIsObject ==
  ASSUME TypeOK, NEW s \in Sandbox, Created(s)
  PROVE  /\ Len(log[s]) \in 1 .. Len(log[s])
         /\ Len(log[s]) \in Nat \ {0}
         /\ Latest(s) \in Object
  BY DEF TypeOK, Created, Latest

LEMMA CachedIsObject ==
  ASSUME TypeOK, NEW s \in Sandbox, NEW v \in Cached(s)
  PROVE  v \in 1 .. Len(log[s]) /\ log[s][v] \in Object /\ Created(s) /\ ~log[s][v].gone
  BY DEF TypeOK, Cached, Created

(* What every step below starts from: the last version, well formed. *)
LEMMA LatestIsCoherent ==
  ASSUME TypeOK, AllCoherent, NEW s \in Sandbox, Created(s)
  PROVE  Latest(s) \in Object /\ Coherent(Latest(s))
  BY LatestIsObject DEF AllCoherent, Latest

LEMMA LockedIsLatest ==
  ASSUME TypeOK, AllCoherent, NEW s \in Sandbox, NEW v \in Cached(s),
         OptimisticLock(s, v)
  PROVE  /\ Created(s) /\ log[s][v] = Latest(s) /\ ~Latest(s).gone
         /\ Latest(s) \in Object /\ Coherent(Latest(s))
  BY CachedIsObject, LatestIsCoherent DEF OptimisticLock, Latest

-----------------------------------------------------------------------------
(* One lemma per write: it appends one version that follows the last. *)
LEMMA CreateAppends ==
  ASSUME TypeOK, NEW s \in Sandbox, NEW c \in OptCall, Create(s, c)
  PROVE  \E o \in Object : Appends(s, o)
<1>1. NewObject(c) \in Object
  BY DEF NewObject, Object, OptCall, Phase, RecycleReason
<1>2. Coherent(NewObject(c)) /\ Fresh(NewObject(c))
  BY DEF Coherent, Fresh, NewObject
<1>3. QED
  BY <1>1, <1>2 DEF Create, Appends

LEMMA DeleteAppends ==
  ASSUME TypeOK, AllCoherent, NEW s \in Sandbox, Delete(s)
  PROVE  \E o \in Object : Appends(s, o)
<1> DEFINE o == [Latest(s) EXCEPT !.deleting = TRUE, !.gone = ~Latest(s).finalizers]
<1>1. Created(s) /\ Latest(s) \in Object /\ Coherent(Latest(s))
  BY LatestIsCoherent DEF Delete, Live
<1>2. o \in Object
  BY <1>1 DEF Object
<1>3. Coherent(o) /\ Follows(Latest(s), o)
  BY <1>1 DEF Object, Coherent, Follows, Persists, Taken, Spent, Reclaimed
<1>4. QED
  BY <1>1, <1>2, <1>3 DEF Delete, Appends

LEMMA BindAppends ==
  ASSUME TypeOK, AllCoherent, NEW c \in Call, NEW s \in Sandbox,
         NEW view \in Views, Bind(c, s, view)
  PROVE  \E o \in Object : Appends(s, o) /\ o.claim = c
<1>1. view[s] \in Cached(s) /\ log[s][view[s]].owner = NoCall
  BY DEF Bind, Tried, Candidates, Views, Listed
<1>2. /\ Created(s) /\ log[s][view[s]] = Latest(s) /\ ~Latest(s).gone
      /\ Latest(s) \in Object /\ Coherent(Latest(s))
  BY <1>1, LockedIsLatest DEF Bind
<1>3. Claimable(Latest(s))
  BY <1>2 DEF Bind, Tried
<1>4. Bound(Latest(s), c) \in Object /\ Bound(Latest(s), c).claim = c
  BY <1>2 DEF Object, Bound, OptCall
<1>5. Coherent(Bound(Latest(s), c))
  BY <1>1, <1>2, <1>3, NoCallAssumption DEF Object, Bound, Coherent, Claimable
<1>6. Follows(Latest(s), Bound(Latest(s), c))
  BY <1>1, <1>2, <1>3, NoCallAssumption
     DEF Object, Bound, Coherent, Claimable, Follows, Persists, Taken, Spent, Reclaimed
<1>7. QED
  BY <1>2, <1>4, <1>5, <1>6 DEF Bind, Appends

LEMMA ReleaseAppends ==
  ASSUME TypeOK, AllCoherent, NEW c \in Call, NEW s \in Sandbox, Release(c, s)
  PROVE  \E o \in Object : Appends(s, o)
<1>1. PICK v \in Cached(s) :
        /\ OptimisticLock(s, v) /\ log[s][v].owner # NoCall
        /\ log[s][v].phase \notin Reclaimed
        /\ Write(s, Unclaimed(Latest(s)))
  BY DEF Release
<1>2. /\ Created(s) /\ log[s][v] = Latest(s)
      /\ Latest(s) \in Object /\ Coherent(Latest(s))
  BY <1>1, LockedIsLatest
<1>3. Unclaimed(Latest(s)) \in Object
  BY <1>2 DEF Object, Unclaimed, OptCall
<1>4. Coherent(Unclaimed(Latest(s))) /\ Follows(Latest(s), Unclaimed(Latest(s)))
  BY <1>1, <1>2 DEF Object, Unclaimed, Coherent, Follows, Persists, Taken, Spent
<1>5. QED
  BY <1>1, <1>2, <1>3, <1>4 DEF Appends

LEMMA EnsureFinalizersAppends ==
  ASSUME TypeOK, AllCoherent, NEW s \in Sandbox, EnsureFinalizers(s)
  PROVE  \E o \in Object : Appends(s, o)
<1> DEFINE o == [Latest(s) EXCEPT !.finalizers = TRUE]
<1>1. PICK v \in Cached(s) :
        /\ OptimisticLock(s, v) /\ ~log[s][v].finalizers
        /\ Write(s, [log[s][v] EXCEPT !.finalizers = TRUE])
  BY DEF EnsureFinalizers
<1>2. /\ Created(s) /\ log[s][v] = Latest(s)
      /\ ~Latest(s).gone /\ ~Latest(s).finalizers
      /\ Latest(s) \in Object /\ Coherent(Latest(s))
  BY <1>1, LockedIsLatest
<1>3. o \in Object /\ Coherent(o) /\ Follows(Latest(s), o)
  BY <1>2 DEF Object, Coherent, Follows, Persists, Taken, Spent, Reclaimed
<1>4. QED
  BY <1>1, <1>2, <1>3 DEF Appends

LEMMA DecisionsAreTyped ==
  ASSUME NEW o \in Object, NEW d \in Decisions(o)
  PROVE  d.next \in Phase /\ d.reason \in RecycleReason
  BY DEF Decisions, DecideProvisioning,
     DecideStock, DecideClaimed, Decision, Phase, RecycleReason, Object

LEMMA AppliedFollows ==
  ASSUME NEW o \in Object, Coherent(o), ~o.deleting, ~o.gone, o.finalizers,
         NEW d \in Decisions(o)
  PROVE  Coherent(Applied(o, d)) /\ Follows(o, Applied(o, d)) /\ Applied(o, d) \in Object
<1>1. Applied(o, d) \in Object
  BY DecisionsAreTyped DEF Applied, BindClaimStatus, Object, OptCall
<1>2. Coherent(Applied(o, d))
  BY DEF Applied, BindClaimStatus, Object, Coherent, Decisions, DecideProvisioning,
     DecideStock, DecideClaimed, Decision
<1>3. Follows(o, Applied(o, d))
  BY DEF Applied, BindClaimStatus, Object, Coherent, Decisions, DecideProvisioning,
     DecideStock, DecideClaimed, Decision, Follows, Persists, Taken,
         Spent, Reclaimed
<1>4. QED
  BY <1>1, <1>2, <1>3

LEMMA ReconcilePhaseAppends ==
  ASSUME TypeOK, AllCoherent, NEW s \in Sandbox, ReconcilePhase(s)
  PROVE  \E o \in Object : Appends(s, o)
<1>1. PICK v \in Cached(s) :
        /\ ~log[s][v].deleting /\ log[s][v].finalizers
        /\ \E d \in Decisions(log[s][v]) :
             OptimisticLock(s, v) /\ Write(s, Applied(log[s][v], d))
  BY DEF ReconcilePhase
<1>2. /\ Created(s) /\ log[s][v] = Latest(s) /\ ~Latest(s).gone
      /\ Latest(s) \in Object /\ Coherent(Latest(s))
  BY <1>1, LockedIsLatest
<1>3. QED
  BY <1>1, <1>2, AppliedFollows DEF Appends

LEMMA FinalizeAppends ==
  ASSUME TypeOK, AllCoherent, NEW s \in Sandbox, Finalize(s)
  PROVE  \E o \in Object : Appends(s, o)
<1> DEFINE o == [Latest(s) EXCEPT !.finalizers = FALSE, !.gone = TRUE]
<1>1. PICK v \in Cached(s) :
        /\ OptimisticLock(s, v)
        /\ Write(s, [log[s][v] EXCEPT !.finalizers = FALSE, !.gone = TRUE])
  BY DEF Finalize
<1>2. /\ Created(s) /\ log[s][v] = Latest(s)
      /\ Latest(s) \in Object /\ Coherent(Latest(s))
  BY <1>1, LockedIsLatest
<1>3. o \in Object /\ Coherent(o) /\ Follows(Latest(s), o)
  BY <1>2 DEF Object, Coherent, Follows, Persists, Taken, Spent, Reclaimed
<1>4. QED
  BY <1>1, <1>2, <1>3 DEF Appends

LEMMA MarkDrainingAppends ==
  ASSUME TypeOK, AllCoherent, NEW s \in Sandbox, MarkDraining(s)
  PROVE  \E o \in Object : Appends(s, o)
<1> DEFINE o == [Latest(s) EXCEPT !.draining = TRUE]
<1>1. Created(s) /\ Latest(s) \in Object /\ Coherent(Latest(s))
  BY LatestIsCoherent DEF MarkDraining, Live
<1>2. o \in Object /\ Coherent(o) /\ Follows(Latest(s), o)
  BY <1>1 DEF Object, Coherent, Follows, Persists, Taken, Spent, Reclaimed
<1>3. QED
  BY <1>1, <1>2 DEF MarkDraining, Appends
-----------------------------------------------------------------------------
LEMMA NextAppends ==
  ASSUME TypeOK, AllCoherent, Next
  PROVE  UNCHANGED log \/ \E s \in Sandbox, o \in Object : Appends(s, o)
<1>1. ASSUME NEW c \in Call, Claim(c)
      PROVE  UNCHANGED log \/ \E s \in Sandbox, o \in Object : Appends(s, o)
  <2>1. CASE \E s \in Sandbox, view \in Views : Bind(c, s, view)
    BY <2>1, BindAppends
  <2>2. CASE UNCHANGED log
    BY <2>2
  <2>3. QED
    BY <1>1, <2>1, <2>2 DEF Claim, Exhausted, Contended, BindFailed
<1>2. ASSUME NEW c \in Call, CreateCold(c)
      PROVE  UNCHANGED log \/ \E s \in Sandbox, o \in Object : Appends(s, o)
  BY <1>2, CreateAppends DEF CreateCold, OptCall
<1>3. ASSUME NEW s \in Sandbox, CreateStock(s)
      PROVE  \E o \in Object : Appends(s, o)
  BY <1>3, CreateAppends DEF CreateStock, OptCall
<1>4. ASSUME NEW s \in Sandbox, DeleteReclaimed(s) \/ DeleteDraining(s)
      PROVE  \E o \in Object : Appends(s, o)
  BY <1>4, DeleteAppends DEF DeleteReclaimed, DeleteDraining
<1>5. ASSUME NEW c \in Call, LoseCall(c)
      PROVE  UNCHANGED log
  BY <1>5 DEF LoseCall
<1>6. QED
  BY <1>1, <1>2, <1>3, <1>4, <1>5, ReleaseAppends, EnsureFinalizersAppends,
     ReconcilePhaseAppends, FinalizeAppends, MarkDrainingAppends DEF Next, Reconcile

LEMMA FinishIsTyped ==
  ASSUME TypeOK, NEW c \in Call, NEW a \in Answer,
         NEW s \in Sandbox \cup {NoSandbox}, Finish(c, a, s)
  PROVE  call' \in [Call -> CallState]
  BY DEF TypeOK, Finish, Idle, CallState, Step, Answer

LEMMA CallIsTyped ==
  ASSUME TypeOK, Next
  PROVE  call' \in [Call -> CallState]
<1>1. ASSUME NEW c \in Call, Claim(c)
      PROVE  call' \in [Call -> CallState]
  <2>1. CASE \E a \in Answer, s \in Sandbox \cup {NoSandbox} : Finish(c, a, s)
    BY <2>1, FinishIsTyped
  <2>2. CASE \E view \in Views : Exhausted(c, view)
    <3>1. PICK view \in Views :
            call' = [call EXCEPT ![c].step = "cold", ![c].tried = Tried(view)]
      BY <2>2 DEF Exhausted
    <3>2. Tried(view) \in SUBSET Sandbox
      BY DEF Tried, Candidates
    <3>3. QED
      BY <3>1, <3>2 DEF TypeOK, CallState, Step
  <2>3. "idempotent" \in Answer /\ "warm" \in Answer /\ "contended" \in Answer /\ "error" \in Answer
    BY DEF Answer
  <2>4. QED
    BY <1>1, <2>1, <2>2, <2>3 DEF Claim, Bind, Contended, BindFailed
<1>2. ASSUME NEW c \in Call, CreateCold(c) \/ LoseCall(c)
      PROVE  call' \in [Call -> CallState]
  <2>1. "cold" \in Answer /\ "refused" \in Answer /\ "lost" \in Answer
    BY DEF Answer
  <2>2. \E a \in Answer, s \in Sandbox \cup {NoSandbox} : Finish(c, a, s)
    BY <1>2, <2>1 DEF CreateCold, LoseCall
  <2>3. QED
    BY <2>2, FinishIsTyped
<1>3. QED
  BY <1>1, <1>2 DEF Next, Release, Reconcile, EnsureFinalizers, ReconcilePhase,
     DeleteReclaimed, Finalize, CreateStock, MarkDraining, DeleteDraining, TypeOK

(* One more version keeps the invariant, whoever wrote it. *)
LEMMA AppendKeepsInv ==
  ASSUME LogInv, NEW s \in Sandbox, NEW o \in Object, Appends(s, o),
         call' \in [Call -> CallState]
  PROVE  LogInv'
<1> USE DEF LogInv
<1>1. /\ log' \in [Sandbox -> Seq(Object)]
      /\ Len(log'[s]) = Len(log[s]) + 1 /\ log'[s][Len(log[s]) + 1] = o
      /\ \A v \in 1 .. Len(log[s]) : log'[s][v] = log[s][v]
      /\ \A t \in Sandbox \ {s} : log'[t] = log[t]
  BY DEF TypeOK, Appends, Write
<1>2. log[s] \in Seq(Object) /\ Len(log[s]) \in Nat
  BY DEF TypeOK
<1>3. AllCoherent'
  <2>1. ASSUME NEW t \in Sandbox, NEW v \in 1 .. Len(log'[t])
        PROVE  Coherent(log'[t][v])
    <3>1. CASE t # s
      BY <1>1, <2>1, <3>1 DEF AllCoherent
    <3>2. CASE t = s /\ v = Len(log[s]) + 1
      BY <1>1, <3>2 DEF Appends
    <3>3. CASE t = s /\ v \in 1 .. Len(log[s])
      BY <1>1, <3>3 DEF AllCoherent
    <3>4. QED
      BY <1>1, <1>2, <2>1, <3>1, <3>2, <3>3
  <2>2. QED
    BY <2>1 DEF AllCoherent
<1>4. ASSUME NEW i \in 1 .. Len(log[s])
      PROVE  Persists(log[s][i], o)
  <2>1. Created(s) /\ i <= Len(log[s]) /\ Len(log[s]) \in 1 .. Len(log[s])
    BY <1>2 DEF Created
  <2>2. Persists(log[s][i], Latest(s)) /\ Persists(Latest(s), o)
    BY <2>1 DEF AllPersist, Appends, Follows, Latest
  <2>3. QED
    BY <2>2 DEF Persists
<1>5. ASSUME NEW t \in Sandbox, NEW i \in 1 .. Len(log'[t]), NEW j \in 1 .. Len(log'[t]), i <= j
      PROVE  Persists(log'[t][i], log'[t][j])
  <2>1. CASE t # s
    BY <1>1, <1>5, <2>1 DEF AllPersist
  <2>2. CASE t = s /\ j \in 1 .. Len(log[s])
    <3>1. i \in 1 .. Len(log[s])
      BY <1>1, <1>2, <1>5, <2>2
    <3>2. QED
      BY <1>1, <1>5, <2>2, <3>1 DEF AllPersist
  <2>3. CASE t = s /\ i \in 1 .. Len(log[s]) /\ j = Len(log[s]) + 1
    BY <1>1, <1>4, <2>3
  <2>4. CASE t = s /\ i = Len(log[s]) + 1 /\ j = Len(log[s]) + 1
    BY <1>1, <2>4 DEF Persists
  <2>5. QED
    BY <1>1, <1>2, <1>5, <2>1, <2>2, <2>3, <2>4
<1>6. AllPersist'
  BY <1>5 DEF AllPersist
<1>7. ASSUME NEW t \in Sandbox, NEW i \in 1 .. Len(log'[t]), NEW j \in 1 .. Len(log'[t]),
             i < j, log'[t][i].phase = "Ready"
      PROVE  Taken(log'[t][j])
  <2>1. CASE t # s
    BY <1>1, <1>7, <2>1 DEF AllTaken
  <2>2. CASE t = s /\ j \in 1 .. Len(log[s])
    <3>1. i \in 1 .. Len(log[s])
      BY <1>1, <1>2, <1>7, <2>2
    <3>2. QED
      BY <1>1, <1>7, <2>2, <3>1 DEF AllTaken
  <2>3. CASE t = s /\ j = Len(log[s]) + 1 /\ i = Len(log[s])
    BY <1>1, <1>2, <1>7, <2>3 DEF Appends, Follows, Created, Latest
  <2>4. CASE t = s /\ j = Len(log[s]) + 1 /\ i \in 1 .. Len(log[s]) - 1
    <3>1. /\ Len(log[s]) \in 1 .. Len(log[s]) /\ i \in 1 .. Len(log[s])
          /\ i < Len(log[s]) /\ Created(s)
      BY <1>2, <2>4 DEF Created
    <3>2. Taken(Latest(s))
      BY <1>1, <1>7, <2>4, <3>1 DEF AllTaken, Latest
    <3>3. QED
      BY <1>1, <2>4, <3>1, <3>2 DEF Appends, Follows, Persists
  <2>5. QED
    BY <1>1, <1>2, <1>7, <2>1, <2>2, <2>3, <2>4
<1>8. AllTaken'
  BY <1>7 DEF AllTaken
<1>9. QED
  BY <1>1, <1>3, <1>6, <1>8 DEF TypeOK

LEMMA InitLogInv ==
  ASSUME Init
  PROVE  LogInv
<1>1. TypeOK
  BY DEF Init, TypeOK, CallState, Idle, Step, Answer
<1>2. AllCoherent /\ AllPersist /\ AllTaken
  BY DEF Init, AllCoherent, AllPersist, AllTaken
<1>3. QED
  BY <1>1, <1>2 DEF LogInv

LEMMA NextLogInv ==
  ASSUME LogInv, [Next]_vars
  PROVE  LogInv'
<1>1. CASE UNCHANGED vars
  BY <1>1 DEF LogInv, TypeOK, AllCoherent, AllPersist, AllTaken, vars
<1>2. CASE Next
  <2>1. call' \in [Call -> CallState]
    BY <1>2, CallIsTyped DEF LogInv
  <2>2. CASE UNCHANGED log
    BY <2>1, <2>2 DEF LogInv, TypeOK, AllCoherent, AllPersist, AllTaken
  <2>3. CASE \E s \in Sandbox, o \in Object : Appends(s, o)
    BY <2>1, <2>3, AppendKeepsInv
  <2>4. QED
    BY <1>2, <2>2, <2>3, NextAppends DEF LogInv
<1>3. QED
  BY <1>1, <1>2

(* LogInv is the inductive invariant behind everything below. *)
THEOREM LogInvariant == Spec => []LogInv
BY InitLogInv, NextLogInv, PTL DEF Spec

(* The variables have their types in every reachable state. *)
THEOREM TypeCorrect == Spec => []TypeOK
<1>1. LogInv => TypeOK
  BY DEF LogInv
<1>2. QED
  BY <1>1, LogInvariant, PTL

-----------------------------------------------------------------------------
(* No two calls ever hold one sandbox, whatever the caches showed them. *)
THEOREM OneSession == Spec => []OneSessionPerSandbox
<1>1. ASSUME LogInv PROVE OneSessionPerSandbox
  <2>1. SUFFICES ASSUME NEW s \in Sandbox,
                        NEW i \in 1 .. Len(log[s]), NEW j \in 1 .. Len(log[s]),
                        log[s][i].claim # NoCall, log[s][j].claim # NoCall
                 PROVE  log[s][i].claim = log[s][j].claim
    BY DEF OneSessionPerSandbox
  <2>2. log[s][i].claim = log[s][i].owner /\ log[s][j].claim = log[s][j].owner
    BY <1>1, <2>1 DEF LogInv, AllCoherent, Coherent
  <2>3. i <= j \/ j <= i
    BY <1>1, <2>1 DEF LogInv, TypeOK
  <2>4. log[s][i].owner = log[s][j].owner
    BY <1>1, <2>1, <2>2, <2>3 DEF LogInv, AllPersist, Persists
  <2>5. QED
    BY <2>2, <2>4
<1>2. QED
  BY <1>1, LogInvariant, PTL

(* A running session always has its contract, and it is never rewritten. *)
THEOREM Contract == Spec => []SessionHasContract
<1>1. ASSUME LogInv PROVE SessionHasContract
  <2>1. SUFFICES ASSUME NEW s \in Sandbox, NEW v \in 1 .. Len(log[s])
                 PROVE  /\ log[s][v].phase = "Running" => log[s][v].claimRef # NoCall
                        /\ log[s][v].claimRef # NoCall =>
                             /\ log[s][v].claimRef = log[s][v].owner
                             /\ Latest(s).claimRef = log[s][v].claimRef
    BY DEF SessionHasContract
  <2>2. Coherent(log[s][v])
    BY <1>1, <2>1 DEF LogInv, AllCoherent
  <2>3. Len(log[s]) \in 1 .. Len(log[s]) /\ v <= Len(log[s])
    BY <1>1, <2>1 DEF LogInv, TypeOK
  <2>4. Persists(log[s][v], Latest(s))
    BY <1>1, <2>1, <2>3 DEF LogInv, AllPersist, Latest
  <2>5. QED
    BY <2>2, <2>4 DEF Coherent, Persists
<1>2. QED
  BY <1>1, LogInvariant, PTL

(* What one step may do to the last version of an object. *)
LEMMA StepFollows ==
  ASSUME LogInv, [Next]_vars, NEW s \in Sandbox, Created(s)
  PROVE  Latest(s)' = Latest(s) \/ Follows(Latest(s), Latest(s)')
<1>1. CASE UNCHANGED log
  BY <1>1 DEF Latest
<1>2. CASE \E t \in Sandbox, o \in Object : Appends(t, o)
  <2>1. PICK t \in Sandbox, o \in Object : Appends(t, o)
    BY <1>2
  <2>2. CASE t # s
    BY <2>1, <2>2 DEF LogInv, TypeOK, Appends, Write, Latest
  <2>3. CASE t = s
    <3>1. log'[s] = Append(log[s], o)
      BY <2>1, <2>3 DEF LogInv, TypeOK, Appends, Write
    <3>2. Latest(s)' = o
      BY <3>1 DEF LogInv, TypeOK, Latest
    <3>3. QED
      BY <2>1, <2>3, <3>2 DEF Appends
  <2>4. QED
    BY <2>2, <2>3
<1>3. QED
  BY <1>1, <1>2, NextAppends DEF LogInv, vars

(* Stock is never rotated or failed under a claim. *)
THEOREM StockReclaim == Spec => StockReclaimSparesSessions
<1>1. ASSUME LogInv, [Next]_vars, NEW s \in Sandbox, Created(s),
             Latest(s).phase = "Ready", Latest(s)'.phase \in Reclaimed
      PROVE  Latest(s).claim = NoCall
  BY <1>1, StepFollows DEF Follows, Reclaimed
<1>2. ASSUME LogInv, [Next]_vars
      PROVE  [\A s \in Sandbox :
                Created(s) /\ Latest(s).phase = "Ready" /\ Latest(s)'.phase \in Reclaimed
                  => Latest(s).claim = NoCall]_vars
  BY <1>1, <1>2
<1>3. QED
  BY <1>2, LogInvariant, PTL DEF Spec, StockReclaimSparesSessions

(* A claim lands on ready stock that serves nobody. *)
THEOREM ClaimsStock == Spec => ClaimOnlyStock
<1>1. ASSUME LogInv, [Next]_vars, NEW s \in Sandbox, Created(s),
             Latest(s).claim = NoCall, Latest(s)'.claim # NoCall
      PROVE  Latest(s).phase = "Ready" /\ Latest(s).owner = NoCall /\ ~Latest(s).deleting
  BY <1>1, StepFollows DEF Follows
<1>2. ASSUME LogInv, [Next]_vars
      PROVE  [\A s \in Sandbox :
                Created(s) /\ Latest(s).claim = NoCall /\ Latest(s)'.claim # NoCall
                  => /\ Latest(s).phase = "Ready" /\ Latest(s).owner = NoCall
                     /\ ~Latest(s).deleting]_vars
  BY <1>1, <1>2
<1>3. QED
  BY <1>2, LogInvariant, PTL DEF Spec, ClaimOnlyStock

-----------------------------------------------------------------------------
(***************************************************************************)
(* The answers of the gateway. They rest on LogInv and on the labels: who  *)
(* is named by the labels of a sandbox did hold it.                        *)
(***************************************************************************)
OwnersHeld ==
  \A s \in Sandbox : \A v \in 1 .. Len(log[s]) :
    log[s][v].owner # NoCall => HeldBy(s, log[s][v].owner)

(* What AnswerIsOwned says of one call, and that it was answered a sandbox. *)
OwnedAnswer(c) ==
  /\ call[c].answer \in {"warm", "cold", "idempotent"} => call[c].got \in Sandbox
  /\ \A s \in Sandbox : s = call[c].got =>
       /\ call[c].answer \in {"warm", "cold"} => HeldBy(s, c)
       /\ call[c].answer = "idempotent" =>
            \E d \in Call : /\ HeldBy(s, d)
                           /\ TenantOf[d] = TenantOf[c] /\ KeyOf[d] = KeyOf[c]

(* A conflict was with a version that took the sandbox out of reach. *)
TakenTried(c) ==
  call[c].step = "cold" => \A s \in call[c].tried : Created(s) /\ Taken(Latest(s))

AnswerInv ==
  LogInv /\ OwnersHeld /\ \A c \in Call : OwnedAnswer(c) /\ TakenTried(c)

LEMMA HeldByGrows ==
  ASSUME LogInv, [Next]_vars, NEW s \in Sandbox, NEW c, HeldBy(s, c)
  PROVE  HeldBy(s, c)'
<1>1. CASE UNCHANGED log
  BY <1>1 DEF HeldBy
<1>2. ASSUME NEW t \in Sandbox, NEW o \in Object, Appends(t, o)
      PROVE  HeldBy(s, c)'
  <2>1. /\ log \in [Sandbox -> Seq(Object)]
        /\ log' = [log EXCEPT ![t] = Append(@, o)]
    BY <1>2 DEF LogInv, TypeOK, Appends, Write
  <2>2. PICK v \in 1 .. Len(log[s]) : log[s][v].claim = c
    BY DEF HeldBy
  <2>3. v \in 1 .. Len(log'[s]) /\ log'[s][v] = log[s][v]
    BY <2>1, <2>2
  <2>4. QED
    BY <2>2, <2>3 DEF HeldBy
<1>3. QED
  BY <1>1, <1>2, NextAppends DEF LogInv, vars

LEMMA TakenStays ==
  ASSUME LogInv, [Next]_vars, NEW s \in Sandbox, Created(s), Taken(Latest(s))
  PROVE  Created(s)' /\ Taken(Latest(s))'
<1>1. Created(s)'
  <2>1. CASE UNCHANGED log
    BY <2>1 DEF Created
  <2>2. CASE \E t \in Sandbox, o \in Object : Appends(t, o)
    BY <2>2 DEF LogInv, TypeOK, Appends, Write, Created
  <2>3. QED
    BY <2>1, <2>2, NextAppends DEF LogInv, vars
<1>2. Taken(Latest(s)')
  BY StepFollows DEF Follows, Persists
<1>3. QED
  BY <1>1, <1>2 DEF Taken

LEMMA OwnersHeldStep ==
  ASSUME LogInv, OwnersHeld, [Next]_vars
  PROVE  OwnersHeld'
<1>1. SUFFICES ASSUME NEW s \in Sandbox, NEW v \in 1 .. Len(log'[s]),
                      NEW c, c # NoCall, log'[s][v].owner = c
               PROVE  HeldBy(s, c)'
  BY DEF OwnersHeld, HeldBy
<1>2. CASE v \in 1 .. Len(log[s]) /\ log'[s][v] = log[s][v]
  BY <1>1, <1>2, HeldByGrows DEF OwnersHeld
<1>3. ASSUME NEW o \in Object, Appends(s, o), v = Len(log[s]) + 1
      PROVE  HeldBy(s, c)'
  <2>1. log'[s][v] = o
    BY <1>3 DEF LogInv, TypeOK, Appends, Write
  <2>2. CASE o.claim # NoCall
    BY <1>1, <1>3, <2>1, <2>2 DEF Appends, Coherent, HeldBy
  <2>3. CASE o.claim = NoCall
    <3>1. Created(s) /\ Follows(Latest(s), o)
      BY <1>1, <1>3, <2>1, <2>3 DEF Appends, Fresh
    <3>2. Latest(s).owner = o.owner /\ o.owner # NoCall
      BY <1>1, <2>1, <2>3, <3>1 DEF Follows, Persists
    <3>3. HeldBy(s, c)
      BY <1>1, <2>1, <3>1, <3>2, LatestIsObject DEF LogInv, OwnersHeld, Latest
    <3>4. QED
      BY <2>1, <3>3, HeldByGrows
  <2>4. QED
    BY <2>2, <2>3
<1>4. \/ v \in 1 .. Len(log[s]) /\ log'[s][v] = log[s][v]
      \/ \E o \in Object : Appends(s, o) /\ v = Len(log[s]) + 1
  <2>1. CASE UNCHANGED log
    BY <1>1, <2>1
  <2>2. ASSUME NEW t \in Sandbox, NEW o \in Object, Appends(t, o)
        PROVE  \/ v \in 1 .. Len(log[s]) /\ log'[s][v] = log[s][v]
               \/ Appends(s, o) /\ v = Len(log[s]) + 1
    <3>1. /\ log \in [Sandbox -> Seq(Object)]
          /\ log' = [log EXCEPT ![t] = Append(@, o)]
      BY <2>2 DEF LogInv, TypeOK, Appends, Write
    <3>2. QED
      BY <1>1, <2>2, <3>1
  <2>3. QED
    BY <2>1, <2>2, NextAppends DEF LogInv, vars
<1>5. QED
  BY <1>2, <1>3, <1>4

(* A call that did not move keeps what it was answered and what it tried. *)
LEMMA OwnedAnswerStays ==
  ASSUME AnswerInv, [Next]_vars, NEW c \in Call,
         call'[c].answer = call[c].answer, call'[c].got = call[c].got
  PROVE  OwnedAnswer(c)'
BY HeldByGrows DEF AnswerInv, OwnedAnswer

LEMMA TakenTriedStays ==
  ASSUME AnswerInv, [Next]_vars, NEW c \in Call,
         call'[c].step = call[c].step, call'[c].tried = call[c].tried
  PROVE  TakenTried(c)'
<1>1. SUFFICES ASSUME call[c].step = "cold", NEW s \in call[c].tried
               PROVE  Created(s)' /\ Taken(Latest(s))'
  BY DEF TakenTried
<1>2. s \in Sandbox
  BY DEF AnswerInv, LogInv, TypeOK, CallState
<1>3. QED
  BY <1>1, <1>2, TakenStays DEF AnswerInv, TakenTried

(* A call is finished: what must hold of its answer, and of all others. *)
LEMMA FinishKeepsAnswers ==
  ASSUME AnswerInv, [Next]_vars, NEW c \in Call, NEW a, NEW s \in Sandbox \cup {NoSandbox},
         Finish(c, a, s),
         a \in {"warm", "cold"} => s \in Sandbox /\ HeldBy(s, c)',
         a = "idempotent" => /\ s \in Sandbox
                             /\ \E d \in Call :
                                  /\ HeldBy(s, d)'
                                  /\ TenantOf[d] = TenantOf[c] /\ KeyOf[d] = KeyOf[c]
  PROVE  (\A e \in Call : OwnedAnswer(e) /\ TakenTried(e))'
<1>1. /\ call'[c].step = "done" /\ call'[c].answer = a /\ call'[c].got = s
      /\ \A e \in Call \ {c} : call'[e] = call[e]
  BY DEF AnswerInv, LogInv, TypeOK, Finish, Idle
<1>2. \A e \in Call \ {c} : OwnedAnswer(e)' /\ TakenTried(e)'
  BY <1>1, OwnedAnswerStays, TakenTriedStays
<1>3. OwnedAnswer(c)' /\ TakenTried(c)'
  BY <1>1 DEF OwnedAnswer, TakenTried
<1>4. QED
  BY <1>2, <1>3

LEMMA IdempotentKeepsAnswers ==
  ASSUME AnswerInv, [Next]_vars, NEW c \in Call, NEW s \in Sandbox,
         FindByRequestID(c, s), Finish(c, "idempotent", s)
  PROVE  (\A e \in Call : OwnedAnswer(e) /\ TakenTried(e))'
<1>1. PICK v \in Cached(s) : Matches(log[s][v], c)
  BY DEF FindByRequestID
<1>2. PICK d \in Call : /\ log[s][v].owner = d
                       /\ TenantOf[d] = TenantOf[c] /\ KeyOf[d] = KeyOf[c]
  BY <1>1, CachedIsObject DEF AnswerInv, LogInv, Matches, Object, OptCall
<1>3. HeldBy(s, d)
  BY <1>1, <1>2, CachedIsObject, NoCallAssumption DEF AnswerInv, LogInv, OwnersHeld
<1>4. HeldBy(s, d)'
  BY <1>3, HeldByGrows DEF AnswerInv
<1>5. QED
  BY <1>2, <1>4, FinishKeepsAnswers

(* The version just written is held by c. *)
LEMMA AppendedIsHeld ==
  ASSUME LogInv, NEW s \in Sandbox, NEW o \in Object, NEW c, Write(s, o), o.claim = c
  PROVE  HeldBy(s, c)'
<1>1. log \in [Sandbox -> Seq(Object)] /\ log' = [log EXCEPT ![s] = Append(@, o)]
  BY DEF LogInv, TypeOK, Write
<1>2. Len(log[s]) + 1 \in 1 .. Len(log'[s]) /\ log'[s][Len(log[s]) + 1] = o
  BY <1>1
<1>3. QED
  BY <1>2 DEF HeldBy

LEMMA BindKeepsAnswers ==
  ASSUME AnswerInv, [Next]_vars, NEW c \in Call, NEW s \in Sandbox, NEW view \in Views,
         Bind(c, s, view)
  PROVE  (\A e \in Call : OwnedAnswer(e) /\ TakenTried(e))'
<1>1. HeldBy(s, c)'
  BY BindAppends, AppendedIsHeld DEF AnswerInv, LogInv, Appends
<1>2. QED
  BY <1>1, FinishKeepsAnswers DEF Bind

LEMMA ExhaustedKeepsAnswers ==
  ASSUME AnswerInv, [Next]_vars, NEW c \in Call, NEW view \in Views, Exhausted(c, view)
  PROVE  (\A e \in Call : OwnedAnswer(e) /\ TakenTried(e))'
<1>1. /\ call'[c].step = "cold" /\ call'[c].tried = Tried(view)
      /\ call'[c].answer = call[c].answer /\ call'[c].got = call[c].got
      /\ \A e \in Call \ {c} : call'[e] = call[e]
      /\ UNCHANGED log
  BY DEF AnswerInv, LogInv, TypeOK, CallState, Exhausted
<1>2. ASSUME NEW s \in Tried(view)
      PROVE  Created(s) /\ Taken(Latest(s))
  <2>1. /\ s \in Sandbox /\ view[s] \in Cached(s)
        /\ Claimable(log[s][view[s]]) /\ ~OptimisticLock(s, view[s])
    BY <1>2 DEF Exhausted, Tried, Conflicts, Candidates, Views, Listed
  <2>2. /\ Created(s) /\ view[s] \in 1 .. Len(log[s])
        /\ Len(log[s]) \in 1 .. Len(log[s]) /\ view[s] < Len(log[s])
    BY <2>1, CachedIsObject, LatestIsObject DEF AnswerInv, LogInv, OptimisticLock
  <2>3. QED
    BY <2>1, <2>2 DEF AnswerInv, LogInv, AllTaken, Claimable, Latest
<1>3. TakenTried(c)'
  BY <1>1, <1>2 DEF TakenTried, Created, Latest
<1>4. QED
  BY <1>1, <1>3, OwnedAnswerStays, TakenTriedStays

LEMMA CreateColdKeepsAnswers ==
  ASSUME AnswerInv, [Next]_vars, NEW c \in Call, CreateCold(c)
  PROVE  (\A e \in Call : OwnedAnswer(e) /\ TakenTried(e))'
<1>1. CASE \E s \in Sandbox : Create(s, c) /\ Finish(c, "cold", s)
  <2>1. PICK s \in Sandbox : Create(s, c) /\ Finish(c, "cold", s)
    BY <1>1
  <2>2. NewObject(c) \in Object /\ NewObject(c).claim = c
    BY DEF NewObject, Object, OptCall, Phase, RecycleReason
  <2>3. HeldBy(s, c)'
    BY <2>1, <2>2, AppendedIsHeld DEF AnswerInv, Create
  <2>4. QED
    BY <2>1, <2>3, FinishKeepsAnswers
<1>2. CASE Finish(c, "refused", NoSandbox)
  BY <1>2, FinishKeepsAnswers
<1>3. QED
  BY <1>1, <1>2 DEF CreateCold

LEMMA NextAnswerInv ==
  ASSUME AnswerInv, [Next]_vars
  PROVE  AnswerInv'
<1>1. CASE UNCHANGED call
  BY <1>1, OwnedAnswerStays, TakenTriedStays, NextLogInv, OwnersHeldStep DEF AnswerInv
<1>2. ASSUME NEW c \in Call, Claim(c)
      PROVE  (\A e \in Call : OwnedAnswer(e) /\ TakenTried(e))'
  <2>1. ASSUME NEW view \in Views, Contended(c, view) \/ BindFailed(c, view)
        PROVE  (\A e \in Call : OwnedAnswer(e) /\ TakenTried(e))'
    BY <2>1, FinishKeepsAnswers DEF Contended, BindFailed
  <2>2. QED
    BY <1>2, <2>1, IdempotentKeepsAnswers, BindKeepsAnswers, ExhaustedKeepsAnswers DEF Claim
<1>3. ASSUME NEW c \in Call, LoseCall(c)
      PROVE  (\A e \in Call : OwnedAnswer(e) /\ TakenTried(e))'
  BY <1>3, FinishKeepsAnswers DEF LoseCall
<1>4. UNCHANGED call \/ \E c \in Call : Claim(c) \/ CreateCold(c) \/ LoseCall(c)
  BY DEF Next, Release, Reconcile, EnsureFinalizers, ReconcilePhase, DeleteReclaimed,
     Finalize, CreateStock, MarkDraining, DeleteDraining, vars
<1>5. LogInv' /\ OwnersHeld'
  BY NextLogInv, OwnersHeldStep DEF AnswerInv
<1>6. QED
  BY <1>1, <1>2, <1>3, <1>4, <1>5, CreateColdKeepsAnswers DEF AnswerInv

LEMMA AnswerInvariant == Spec => []AnswerInv
<1>1. ASSUME Init PROVE AnswerInv
  <2>1. OwnersHeld /\ \A c \in Call : OwnedAnswer(c) /\ TakenTried(c)
    BY <1>1 DEF Init, OwnersHeld, OwnedAnswer, TakenTried, Idle
  <2>2. QED
    BY <1>1, <2>1, InitLogInv DEF AnswerInv
<1>2. QED
  BY <1>1, NextAnswerInv, PTL DEF Spec

(* No tenant is ever handed a sandbox that was not claimed for it. *)
THEOREM AnswersOwned == Spec => []AnswerIsOwned
<1>1. AnswerInv => AnswerIsOwned
  BY DEF AnswerInv, OwnedAnswer, AnswerIsOwned
<1>2. QED
  BY <1>1, AnswerInvariant, PTL

(***************************************************************************)
(* Two calls that are answered with one sandbox are one tenant's, under    *)
(* one key, and one of them at most was given it new: the other one found  *)
(* its labels (FindByRequestID) and is told that it already had it.        *)
(***************************************************************************)
Served(c) == call[c].answer \in {"warm", "cold", "idempotent"}

AnswersDoNotMeet ==
  \A c, d \in Call :
    c # d /\ Served(c) /\ Served(d) /\ call[c].got = call[d].got
      => /\ TenantOf[c] = TenantOf[d] /\ KeyOf[c] = KeyOf[d]
         /\ "idempotent" \in {call[c].answer, call[d].answer}

(* The call h held the sandbox that the answer to call a names. *)
StandsBehind(h, a) ==
  /\ HeldBy(call[a].got, h) /\ TenantOf[h] = TenantOf[a] /\ KeyOf[h] = KeyOf[a]
  /\ call[a].answer # "idempotent" => h = a

LEMMA SomeoneStandsBehind ==
  ASSUME AnswerInv, NEW a \in Call, Served(a)
  PROVE  call[a].got \in Sandbox /\ \E h \in Call : StandsBehind(h, a)
BY DEF AnswerInv, OwnedAnswer, Served, StandsBehind

LEMMA OnlyOneHeld ==
  ASSUME OneSessionPerSandbox, NEW s \in Sandbox, NEW h \in Call, NEW g \in Call,
         HeldBy(s, h), HeldBy(s, g)
  PROVE  h = g
<1>1. PICK v \in 1 .. Len(log[s]) : log[s][v].claim = h
  BY DEF HeldBy
<1>2. PICK w \in 1 .. Len(log[s]) : log[s][w].claim = g
  BY DEF HeldBy
<1>3. QED
  BY <1>1, <1>2, NoCallAssumption DEF OneSessionPerSandbox

(* No two tenants are answered with one sandbox, nor are two calls given *)
(* it as theirs: the claim that stands behind an answer is the only one.  *)
THEOREM TenantsAreSeparate == Spec => []AnswersDoNotMeet
<1>1. ASSUME AnswerInv, OneSessionPerSandbox PROVE AnswersDoNotMeet
  <2> SUFFICES ASSUME NEW c \in Call, NEW d \in Call, c # d, Served(c), Served(d),
                      call[c].got = call[d].got
               PROVE  /\ TenantOf[c] = TenantOf[d] /\ KeyOf[c] = KeyOf[d]
                      /\ "idempotent" \in {call[c].answer, call[d].answer}
    BY DEF AnswersDoNotMeet
  <2>1. PICK h \in Call : StandsBehind(h, c)
    BY <1>1, SomeoneStandsBehind
  <2>2. PICK g \in Call : StandsBehind(g, d)
    BY <1>1, SomeoneStandsBehind
  <2>3. h = g
    BY <1>1, <2>1, <2>2, SomeoneStandsBehind, OnlyOneHeld DEF StandsBehind
  <2>4. QED
    BY <2>1, <2>2, <2>3 DEF StandsBehind
<1>2. QED
  BY <1>1, AnswerInvariant, OneSession, PTL

(* A conflict never hides available stock from the call that met it. *)
THEOREM ConflictsTaken == Spec => []ConflictMeansTaken
<1>1. AnswerInv => ConflictMeansTaken
  BY DEF AnswerInv, TakenTried, ConflictMeansTaken, Available, Claimable, Live, Taken,
     Reclaimed
<1>2. QED
  BY <1>1, AnswerInvariant, PTL

-----------------------------------------------------------------------------
(* Refinement: what each version means to the ledger. *)
LEMMA LedgerStep ==
  ASSUME LogInv, NEW s \in Sandbox, NEW o \in Object, Appends(s, o)
  PROVE  [Ledger!Next]_(Ledger!vars)
<1> DEFINE state  == [t \in Sandbox |-> LedgerState(t)]
           holder == [t \in Sandbox |-> LedgerHolder(t)]
<1>1. /\ log'[s] # <<>> /\ Latest(s)' = o
      /\ \A t \in Sandbox \ {s} : log'[t] = log[t]
  <2>1. log \in [Sandbox -> Seq(Object)] /\ log' = [log EXCEPT ![s] = Append(@, o)]
    BY DEF LogInv, TypeOK, Appends, Write
  <2>2. log'[s] = Append(log[s], o) /\ log[s] \in Seq(Object)
    BY <2>1
  <2>3. QED
    BY <2>1, <2>2 DEF Latest
<1>2. \A t \in Sandbox \ {s} :
        LedgerState(t)' = LedgerState(t) /\ LedgerHolder(t)' = LedgerHolder(t)
  BY <1>1 DEF LedgerState, LedgerHolder, Created, Latest
<1>3. /\ state' = [state EXCEPT ![s] = LedgerState(s)']
      /\ holder' = [holder EXCEPT ![s] = LedgerHolder(s)']
  BY <1>2
<1>4. /\ LedgerHolder(s)' = o.owner
      /\ LedgerState(s)' = IF Spent(o) THEN "spent"
                            ELSE IF o.claim = NoCall THEN "stock" ELSE "held"
  BY <1>1 DEF LedgerState, LedgerHolder, Created
<1>5. Coherent(o) /\ o.owner \in OptCall
  BY DEF Appends, Object
<1>6. CASE ~Created(s)
  <2>1. LedgerState(s) = "absent" /\ LedgerHolder(s) = NoCall /\ Fresh(o)
    BY <1>6 DEF LedgerState, LedgerHolder, Appends
  <2>2. ~Spent(o)
    BY <2>1 DEF Fresh, Spent, Reclaimed
  <2>3. CASE o.claim = NoCall
    <3>1. Ledger!Stock(s)
      BY <1>3, <1>4, <2>1, <2>2, <2>3 DEF Ledger!Stock, Ledger!Move, Fresh
    <3>2. QED
      BY <3>1 DEF Ledger!Next
  <2>4. CASE o.claim # NoCall
    <3>1. Ledger!Open(s, o.owner) /\ o.owner \in Call
      BY <1>3, <1>4, <1>5, <2>1, <2>2, <2>4
         DEF Ledger!Open, Ledger!Move, Ledger!Give, Fresh, OptCall
    <3>2. QED
      BY <3>1 DEF Ledger!Next
  <2>5. QED
    BY <2>3, <2>4
<1>7. CASE Created(s)
  <2>1. /\ Follows(Latest(s), o) /\ Persists(Latest(s), o) /\ Coherent(Latest(s))
        /\ LedgerHolder(s) = Latest(s).owner
        /\ LedgerState(s) = IF Spent(Latest(s)) THEN "spent"
                            ELSE IF Latest(s).claim = NoCall THEN "stock" ELSE "held"
    BY <1>7, LatestIsCoherent DEF LogInv, Appends, Follows, LedgerState, LedgerHolder
  <2>2. CASE \/ Spent(Latest(s))
             \/ (Latest(s).claim = NoCall <=> o.claim = NoCall) /\ ~Spent(o)
    <3>1. LedgerState(s)' = LedgerState(s)
      BY <1>4, <2>1, <2>2 DEF Persists, Follows
    <3>2. LedgerHolder(s)' = LedgerHolder(s)
      BY <1>4, <1>5, <2>1, <2>2 DEF Persists, Follows, Coherent, Spent
    <3>3. QED
      BY <1>3, <3>1, <3>2 DEF Ledger!vars
  <2>3. CASE ~Spent(Latest(s)) /\ Latest(s).claim # NoCall /\ Spent(o)
    <3>1. LedgerHolder(s)' = LedgerHolder(s)
      BY <1>4, <2>1, <2>3 DEF Persists, Coherent
    <3>2. Ledger!End(s)
      BY <1>3, <1>4, <2>1, <2>3, <3>1 DEF Ledger!End, Ledger!Move
    <3>3. QED
      BY <3>2 DEF Ledger!Next
  <2>4. CASE ~Spent(Latest(s)) /\ Latest(s).claim = NoCall /\ Spent(o)
    <3>1. LedgerHolder(s)' = LedgerHolder(s)
      BY <1>4, <2>1, <2>4 DEF Follows, Persists, Taken, Spent
    <3>2. Ledger!Retire(s)
      BY <1>3, <1>4, <2>1, <2>4, <3>1 DEF Ledger!Retire, Ledger!Move
    <3>3. QED
      BY <3>2 DEF Ledger!Next
  <2>5. CASE ~Spent(Latest(s)) /\ Latest(s).claim = NoCall /\ o.claim # NoCall /\ ~Spent(o)
    <3>1. Ledger!Grant(s, o.owner) /\ o.owner \in Call
      BY <1>3, <1>4, <1>5, <2>1, <2>5
         DEF Ledger!Grant, Ledger!Move, Ledger!Give, Coherent, OptCall
    <3>2. QED
      BY <3>1 DEF Ledger!Next
  <2>6. CASE ~Spent(Latest(s)) /\ Latest(s).claim # NoCall /\ o.claim = NoCall /\ ~Spent(o)
    BY <2>1, <2>6 DEF Persists, Coherent, Spent
  <2>7. QED
    BY <2>2, <2>3, <2>4, <2>5, <2>6
<1>8. QED
  BY <1>6, <1>7

(* Everything the system does to its objects is a step of the ledger. *)
THEOREM RefinesLedger == Spec => LedgerSpec
<1>1. Init => Ledger!Init
  BY DEF Init, Ledger!Init, LedgerState, LedgerHolder, Created
<1>2. ASSUME LogInv, [Next]_vars
      PROVE  [Ledger!Next]_(Ledger!vars)
  <2>1. CASE UNCHANGED log
    BY <2>1 DEF Ledger!vars, LedgerState, LedgerHolder, Created, Latest
  <2>2. CASE \E s \in Sandbox, o \in Object : Appends(s, o)
    BY <1>2, <2>2, LedgerStep
  <2>3. QED
    BY <1>2, <2>1, <2>2, NextAppends DEF LogInv, vars
<1>3. QED
  BY <1>1, <1>2, LogInvariant, PTL DEF Spec, LedgerSpec, Ledger!Spec
=============================================================================
