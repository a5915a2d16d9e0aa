------------------------------ MODULE Admission ------------------------------
(***************************************************************************)
(* Admission of create calls by one gateway replica: the rate limiter      *)
(* (RateLimiter.Allow), then the quota (QuotaChecker.Check), then the      *)
(* claim or the cold start. A call reads the clock before it has the lock  *)
(* of the limiter, and the quota counts a cache that lags.                 *)
(*                                                                         *)
(* One unit of time is a second. Tokens come in parts, Token of which make *)
(* one token, because the code counts them in fractions. Times are ages.   *)
(***************************************************************************)
EXTENDS Integers, FiniteSets, Functions

CONSTANTS
  Tenant, Call,
  Quotas,     \* of each tenant: max, and rate and burst in parts
  Token,
  MaxBuckets, \* maxBuckets
  Idle,       \* idle, after which a bucket may go
  Stall,      \* between reading the clock and getting the lock at most
  Lag         \* between admission and the cache showing the sandbox at most

VARIABLES
  buckets, \* the buckets of the limiter: tokens, and age of last
  calls,   \* create calls and the sandboxes they got
  told     \* until when a refused tenant was told to wait, if none got through

vars == <<buckets, calls, told>>

Nobody  == "nobody"  \* no tenant
Nothing == -1        \* told nothing

Smaller(a, b) == IF a < b THEN a ELSE b
Larger(a, b)  == IF a > b THEN a ELSE b
CeilDiv(a, b) == (a + b - 1) \div b

Quota == [max : Int, rate : Int, burst : Int]

WithDefaults(q) ==
  LET rate  == IF q.rate > 0 THEN q.rate ELSE 10 * Token
      burst == IF q.burst > 0 THEN q.burst ELSE 30 * Token
  IN  [q EXCEPT !.rate = rate, !.burst = Larger(burst, rate)]

Rate(t)  == WithDefaults(Quotas[t]).rate
Burst(t) == WithDefaults(Quotas[t]).burst
Max(t)   == Quotas[t].max

(* A bucket that may be evicted is full, or eviction would fill it: the    *)
(* burst is earned in less than Idle. And a burst is one call at least.    *)
ASSUME AdmissionAssumption ==
  /\ IsFiniteSet(Call) /\ Nobody \notin Tenant /\ Quotas \in [Tenant -> Quota]
  /\ Token \in Nat \ {0} /\ MaxBuckets \in Nat \ {0}
  /\ Idle \in Nat /\ Stall \in Nat /\ Lag \in Nat /\ Stall =< Idle
  /\ \A t \in Tenant : Token =< Burst(t) /\ Burst(t) =< Rate(t) * (Idle - Stall)

(* No difference is made between ages beyond it. *)
Old == Idle + Stall + 1

Older(a) == IF a < Old THEN a + 1 ELSE Old

(* asked: the clock is read; admitted: by the limiter; passed: by the      *)
(* quota; made: holds a sandbox; shown: and the cache shows it; ended: the *)
(* cache still does. unchecked: passed although the count failed.          *)
Stage == {"none", "asked", "admitted", "passed", "made", "shown", "ended"}

Fresh(at, t) == [at |-> at, tenant |-> t, age |-> 0, unchecked |-> FALSE]

NoCall == Fresh("none", Nobody)

Init ==
  /\ buckets = [t \in {} |-> 0]
  /\ calls = [c \in Call |-> NoCall]
  /\ told = [t \in Tenant |-> Nothing]

-----------------------------------------------------------------------------
(***************************************************************************)
(* The limiter. ago is how long ago the call read the clock.               *)
(***************************************************************************)
Stale(b, ago) == b.age - ago > Idle

(* Mutant: every bucket goes, however lately it was used. *)
EvictedAll(ago) == Restrict(buckets, {})

Evicted(ago) ==
  Restrict(buckets, {t \in DOMAIN buckets : ~Stale(buckets[t], ago)})

(* Mutant: one too many. *)
FullLate(table) == Cardinality(DOMAIN table) > MaxBuckets

Full(table) == Cardinality(DOMAIN table) >= MaxBuckets

(* The table as the call finds it: stale buckets go when there is no room. *)
Table(t, ago) ==
  IF t \notin DOMAIN buckets /\ Full(buckets) THEN Evicted(ago) ELSE buckets

NoRoom(t, ago) == t \notin DOMAIN buckets /\ Full(Table(t, ago))

(* A clock that is behind the bucket's neither fills nor moves it. *)
Refilled(t, b, ago) ==
  IF b.age > ago
    THEN [tokens |-> Smaller(Burst(t), b.tokens + Rate(t) * (b.age - ago)),
          age    |-> ago]
    ELSE b

Bucket(t, ago) ==
  IF t \in DOMAIN buckets THEN Refilled(t, buckets[t], ago)
                          ELSE [tokens |-> Burst(t), age |-> ago]

Put(t, ago, b) ==
  [u \in DOMAIN Table(t, ago) \cup {t} |->
     IF u = t THEN b ELSE Table(t, ago)[u]]

(* Mutant: rounded down, without the second on top. *)
WaitTooShort(t, b) == (Token - b.tokens) \div Rate(t)

(* What the header says, in seconds from now: the answer is rounded up.    *)
Wait(t, b) == CeilDiv(Token - b.tokens, Rate(t)) + 1

-----------------------------------------------------------------------------
Step(c, from, to) == /\ calls[c].at = from
                     /\ calls' = [calls EXCEPT ![c] = to]

Ask(c, t) ==
  /\ Step(c, "none", Fresh("asked", t))
  /\ UNCHANGED <<buckets, told>>

Admit(c) ==
  LET t   == calls[c].tenant
      ago == calls[c].age
      b   == Bucket(t, ago)
  IN  /\ Step(c, "asked", [calls[c] EXCEPT !.at = "admitted", !.age = 0])
      /\ ~NoRoom(t, ago) /\ b.tokens >= Token
      /\ buckets' = Put(t, ago, [b EXCEPT !.tokens = @ - Token])
      /\ told' = [told EXCEPT ![t] = Nothing]

Refuse(c) ==
  LET t   == calls[c].tenant
      ago == calls[c].age
      b   == Bucket(t, ago)
  IN  /\ Step(c, "asked", NoCall)
      /\ ~NoRoom(t, ago) /\ b.tokens < Token
      /\ buckets' = Put(t, ago, b)
      /\ told' = [told EXCEPT ![t] = Wait(t, b)]

(* No room for another bucket: refused as well. *)
TurnAway(c) ==
  LET t   == calls[c].tenant
      ago == calls[c].age
  IN  /\ Step(c, "asked", NoCall) /\ NoRoom(t, ago)
      /\ buckets' = Table(t, ago)
      /\ UNCHANGED told

-----------------------------------------------------------------------------
(***************************************************************************)
(* The quota counts what the cache shows of the tenant.                    *)
(***************************************************************************)
Counted(t) == {c \in Call : calls[c].tenant = t /\ calls[c].at \in {"shown", "ended"}}

(* Mutant: the last one is counted too late. *)
WithinQuotaLate(t) == Max(t) =< 0 \/ Cardinality(Counted(t)) =< Max(t)

WithinQuota(t) == Max(t) =< 0 \/ Cardinality(Counted(t)) < Max(t)

Pass(c) ==
  /\ Step(c, "admitted", [calls[c] EXCEPT !.at = "passed"])
  /\ WithinQuota(calls[c].tenant)
  /\ UNCHANGED <<buckets, told>>

Exceed(c) ==
  /\ Step(c, "admitted", NoCall) /\ ~WithinQuota(calls[c].tenant)
  /\ UNCHANGED <<buckets, told>>

(* The list fails: availability before accuracy. *)
PassUnchecked(c) ==
  /\ Step(c, "admitted", [calls[c] EXCEPT !.at = "passed", !.unchecked = TRUE])
  /\ Max(calls[c].tenant) > 0
  /\ UNCHANGED <<buckets, told>>

(* ClaimWarm, else CreateCold. Either may fail, or find what an earlier    *)
(* call with the same key has got.                                         *)
Make(c) ==
  /\ Step(c, "passed", [calls[c] EXCEPT !.at = "made"])
  /\ UNCHANGED <<buckets, told>>

Fail(c) == Step(c, "passed", NoCall) /\ UNCHANGED <<buckets, told>>

-----------------------------------------------------------------------------
(***************************************************************************)
(* The watch shows sandboxes, sandboxes end, time passes.                  *)
(***************************************************************************)
Show(c) ==
  /\ Step(c, "made", [calls[c] EXCEPT !.at = "shown", !.age = 0])
  /\ UNCHANGED <<buckets, told>>

EndUnseen(c) == Step(c, "made", NoCall) /\ UNCHANGED <<buckets, told>>

EndShown(c) ==
  /\ Step(c, "shown", [calls[c] EXCEPT !.at = "ended"])
  /\ UNCHANGED <<buckets, told>>

Forget(c) == Step(c, "ended", NoCall) /\ UNCHANGED <<buckets, told>>

(* Neither a stalled call nor a lagging cache keeps on for longer. *)
Bound(s) == CASE s = "asked" -> Stall
              [] s \in {"admitted", "passed", "made"} -> Lag
              [] OTHER -> 0

Aging == {"asked", "admitted", "passed", "made"}

Tick ==
  /\ \A c \in Call : calls[c].at \in Aging => calls[c].age < Bound(calls[c].at)
  /\ calls' = [c \in Call |-> IF calls[c].at \in Aging
                                THEN [calls[c] EXCEPT !.age = @ + 1] ELSE calls[c]]
  /\ buckets' = [t \in DOMAIN buckets |-> [buckets[t] EXCEPT !.age = Older(@)]]
  /\ told' = [t \in Tenant |-> IF told[t] > 0 THEN told[t] - 1 ELSE told[t]]

Next == \/ \E c \in Call :
             \/ \E t \in Tenant : Ask(c, t)
             \/ Admit(c) \/ Refuse(c) \/ TurnAway(c) \/ Pass(c) \/ Exceed(c)
             \/ PassUnchecked(c) \/ Make(c) \/ Fail(c)
             \/ Show(c) \/ EndUnseen(c) \/ EndShown(c) \/ Forget(c)
        \/ Tick

Spec == Init /\ [][Next]_vars

-----------------------------------------------------------------------------
(***************************************************************************)
(* The promise of the limiter: what a tenant has left is what it would     *)
(* have if time filled its bucket continuously.                            *)
(***************************************************************************)
MaxCredit == [t \in Tenant |-> Burst(t) + Rate(t) * Stall]

Credit == [t \in Tenant |->
             IF t \in DOMAIN buckets
               THEN Smaller(MaxCredit[t],
                            buckets[t].tokens + Rate(t) * buckets[t].age)
               ELSE MaxCredit[t]]

Admitted == [t \in Tenant |-> {c \in Call : /\ calls[c].tenant = t
                                            /\ calls[c].at \notin {"none", "asked"}}]

Ideal == INSTANCE TokenBucket
           WITH Price <- Token, Growth <- [t \in Tenant |-> Rate(t)],
                Capacity <- MaxCredit, credit <- Credit, admitted <- Admitted

-----------------------------------------------------------------------------
TypeOK ==
  /\ DOMAIN buckets \subseteq Tenant /\ Cardinality(DOMAIN buckets) =< MaxBuckets
  /\ buckets \in [DOMAIN buckets -> [tokens : Nat, age : 0 .. Old]]
  /\ calls \in [Call -> [at : Stage, tenant : Tenant \cup {Nobody}, age : Nat,
                         unchecked : BOOLEAN]]
  /\ told \in [Tenant -> Nat \cup {Nothing}]

(* Allow: however late calls get the lock, and whichever buckets are       *)
(* evicted, no tenant gets more than a bucket with room for the burst and  *)
(* for what is earned while a call stalls would give it.                   *)
SpendsOnlyCredit == Ideal!Spec

(* Check: by how much calls that pass together exceed the quota: by those  *)
(* the limiter may admit while the cache lags, and those not counted.      *)
Live(t) == {c \in Call : calls[c].tenant = t /\ calls[c].at \in {"made", "shown"}}

OvershootIsBounded ==
  \A t \in Tenant : Max(t) > 0 =>
    Cardinality({c \in Live(t) : ~calls[c].unchecked})
      =< Max(t) - 1 + (MaxCredit[t] + Rate(t) * Lag) \div Token

(* A tenant that waits as it was told is not refused by its bucket again,  *)
(* unless another call of it took the token meanwhile.                     *)
WaitIsEnough ==
  \A t \in DOMAIN buckets : told[t] = 0 => Bucket(t, 0).tokens >= Token
=============================================================================
