--------------------------- MODULE AdmissionProof ---------------------------
(* What is proved of Admission.                                            *)
EXTENDS Admission, FiniteSetTheorems, TLAPS

-----------------------------------------------------------------------------
(***************************************************************************)
(* Arithmetic: rates times ages.                                           *)
(***************************************************************************)
LEMMA Products ==
  ASSUME NEW r \in Nat, NEW a \in Nat, NEW b \in Nat
  PROVE  /\ r * a \in Nat /\ r * (a + b) = r * a + r * b
         /\ r * 1 = r /\ r * 0 = 0
         /\ a =< b => r * a =< r * b
<1>1. r * a \in Nat /\ r * 1 = r /\ r * 0 = 0
  OBVIOUS
<1>2. \A x, y \in Nat : r * (x + y) = r * x + r * y /\ r * x \in Nat /\ r * y \in Nat
  OBVIOUS
<1>3. ASSUME a =< b PROVE r * a =< r * b
  <2> DEFINE d == b - a
  <2>1. d \in Nat /\ b = a + d
    BY <1>3
  <2> HIDE DEF d
  <2>2. r * b = r * a + r * d /\ r * d \in Nat /\ r * a \in Nat
    BY <1>2, <2>1
  <2> QED BY <2>2
<1> QED BY <1>1, <1>2, <1>3

LEMMA Ceilings ==
  ASSUME NEW d \in Nat, NEW r \in Nat \ {0}
  PROVE  CeilDiv(d, r) \in Nat /\ r * CeilDiv(d, r) >= d
<1> DEFINE n == d + r - 1
           q == n \div r
<1>1. n \in Nat
  OBVIOUS
<1> HIDE DEF n
<1>2. q \in Nat /\ n = r * q + (n % r) /\ (n % r) \in 0 .. r - 1
  BY <1>1
<1> HIDE DEF q
<1>3. r * q >= d
  <2>1. r * q \in Nat /\ (n % r) =< r - 1
    BY <1>2
  <2> QED BY <1>2, <2>1 DEF n
<1> QED BY <1>2, <1>3 DEF CeilDiv, q, n

LEMMA Quotients ==
  ASSUME NEW a \in Nat, NEW k \in Nat \ {0}, NEW n \in Nat, k * n =< a
  PROVE  n =< a \div k
<1> DEFINE q == a \div k
<1>1. q \in Nat /\ a = k * q + (a % k) /\ (a % k) \in 0 .. k - 1
  OBVIOUS
<1> HIDE DEF q
<1>2. SUFFICES ASSUME n > q PROVE FALSE
  BY <1>1 DEF q
<1>3. k * (q + 1) =< k * n /\ k * (q + 1) = k * q + k
  BY <1>1, <1>2, Products
<1>4. k * q \in Nat /\ k * n \in Nat /\ (a % k) \in Nat /\ (a % k) < k
  BY <1>1, Products
<1> QED BY <1>1, <1>3, <1>4

LEMMA Constants ==
  /\ IsFiniteSet(Call) /\ Token \in Nat \ {0} /\ MaxBuckets \in Nat \ {0} /\ Old \in Nat
  /\ Idle \in Nat /\ Stall \in Nat /\ Lag \in Nat /\ Stall =< Idle
  /\ Nobody \notin Tenant
  /\ \A t \in Tenant : /\ Rate(t) \in Nat \ {0} /\ Burst(t) \in Nat /\ Max(t) \in Int
                       /\ Token =< Burst(t)
                       /\ Rate(t) * Stall \in Nat /\ Rate(t) * Lag \in Nat
                       /\ MaxCredit[t] = Burst(t) + Rate(t) * Stall
                       /\ MaxCredit[t] \in Nat
<1>1. /\ IsFiniteSet(Call) /\ Token \in Nat \ {0} /\ MaxBuckets \in Nat \ {0} /\ Old \in Nat
      /\ Idle \in Nat /\ Stall \in Nat /\ Lag \in Nat /\ Stall =< Idle
      /\ Nobody \notin Tenant
  BY AdmissionAssumption DEF Old
<1>2. ASSUME NEW t \in Tenant
      PROVE  /\ Rate(t) \in Nat \ {0} /\ Burst(t) \in Nat /\ Max(t) \in Int
             /\ Token =< Burst(t)
  <2>1. Quotas[t] \in Quota /\ Token =< Burst(t)
    BY AdmissionAssumption
  <2> DEFINE q == Quotas[t]
             r == IF q.rate > 0 THEN q.rate ELSE 10 * Token
             b == IF q.burst > 0 THEN q.burst ELSE 30 * Token
  <2>2. q.rate \in Int /\ q.burst \in Int /\ q.max \in Int
    BY <2>1 DEF Quota
  <2>3. r \in Nat \ {0} /\ b \in Nat \ {0}
    BY <1>1, <2>2
  <2>4. WithDefaults(q) = [q EXCEPT !.rate = r, !.burst = Larger(b, r)]
    BY DEF WithDefaults
  <2> HIDE DEF r, b
  <2>5. Larger(b, r) \in Nat
    BY <2>3 DEF Larger
  <2>6. Rate(t) = r /\ Burst(t) = Larger(b, r)
    BY <2>1, <2>4 DEF Rate, Burst, Quota
  <2> QED BY <2>1, <2>2, <2>3, <2>5, <2>6 DEF Max
<1>3. ASSUME NEW t \in Tenant
      PROVE  /\ Rate(t) * Stall \in Nat /\ Rate(t) * Lag \in Nat
             /\ MaxCredit[t] = Burst(t) + Rate(t) * Stall
             /\ MaxCredit[t] \in Nat
  <2>1. Rate(t) \in Nat /\ Burst(t) \in Nat
    BY <1>2
  <2>2. Rate(t) * Stall \in Nat /\ Rate(t) * Lag \in Nat
    BY <1>1, <2>1, Products
  <2>3. MaxCredit[t] = Burst(t) + Rate(t) * Stall
    BY DEF MaxCredit
  <2> QED BY <2>1, <2>2, <2>3
<1> QED BY <1>1, <1>2, <1>3

(* A bucket that is as old as that is full, and so is the ideal one.       *)
LEMMA OldIsFull ==
  ASSUME NEW t \in Tenant, NEW a \in Nat, a >= Idle
  PROVE  Rate(t) * a >= MaxCredit[t]
<1> DEFINE r == Rate(t)
           m == MaxCredit[t]
           n == Burst(t)
<1>1. r \in Nat /\ m = n + r * Stall /\ Stall \in Nat /\ Idle \in Nat /\ Stall =< Idle
      /\ n \in Nat /\ m \in Nat
  BY Constants
<1>2. n =< r * (Idle - Stall)
  BY AdmissionAssumption
<1> HIDE DEF r, m, n
<1> DEFINE d == Idle - Stall
<1>3. d \in Nat /\ d + Stall = Idle /\ n =< r * d
  BY <1>1, <1>2
<1> HIDE DEF d
<1>4. r * Idle = r * d + r * Stall
  BY <1>1, <1>3, Products
<1>5. r * Idle =< r * a /\ r * Idle \in Nat /\ r * a \in Nat
  BY <1>1, Products
<1>6. r * d \in Nat /\ r * Stall \in Nat
  BY <1>1, <1>3, Products
<1> QED BY <1>1, <1>3, <1>4, <1>5, <1>6 DEF m, r

-----------------------------------------------------------------------------
(***************************************************************************)
(* The inductive invariant.                                                *)
(***************************************************************************)
BucketRec == [tokens : Nat, age : 0 .. Old]
CallRec   == [at : Stage, tenant : Tenant \cup {Nobody}, age : Nat, unchecked : BOOLEAN]

BucketsOK ==
  /\ DOMAIN buckets \subseteq Tenant /\ IsFiniteSet(DOMAIN buckets)
  /\ Cardinality(DOMAIN buckets) =< MaxBuckets
  /\ buckets \in [DOMAIN buckets -> BucketRec]
  /\ \A t \in DOMAIN buckets : buckets[t].tokens =< Burst(t)

(* Calls that are paid for and that the cache cannot show yet. *)
Unseen == {"admitted", "passed", "made"}

Good(r) == /\ r.at # "none" => r.tenant \in Tenant
           /\ r.at = "asked" => r.age =< Stall
           /\ r.at \in Unseen => r.age =< Lag

CallsOK == calls \in [Call -> CallRec] /\ \A c \in Call : Good(calls[c])

(* At the end of the wait a refused tenant can pay. *)
ToldOK ==
  /\ told \in [Tenant -> Nat \cup {Nothing}]
  /\ \A t \in DOMAIN buckets : told[t] # Nothing =>
       buckets[t].tokens + Rate(t) * (buckets[t].age + told[t]) >= Token

(* What was spent in the last k ticks, and what is left of the credit. *)
Paid(t, k) == {c \in Call : /\ calls[c].tenant = t /\ calls[c].at \in Unseen
                            /\ calls[c].age =< k}

RateOK == \A t \in Tenant : \A k \in 0 .. Lag :
            Token * Cardinality(Paid(t, k)) + Credit[t] =< MaxCredit[t] + Rate(t) * k

Checked(t) == {c \in Call : /\ calls[c].tenant = t /\ ~calls[c].unchecked
                            /\ calls[c].at \in {"passed", "made", "shown"}}

Overshoot(t) == (MaxCredit[t] + Rate(t) * Lag) \div Token

OverOK == \A t \in Tenant : Max(t) > 0 =>
            Cardinality(Checked(t)) =< Max(t) - 1 + Overshoot(t)

IInv == BucketsOK /\ CallsOK /\ ToldOK /\ RateOK /\ OverOK

-----------------------------------------------------------------------------
(***************************************************************************)
(* The limiter: what a call does to the buckets and to the credit.         *)
(***************************************************************************)
Value(t, b) == b.tokens + Rate(t) * b.age

LEMMA CreditType ==
  ASSUME BucketsOK
  PROVE  /\ Credit \in [Tenant -> Nat]
         /\ \A t \in Tenant :
              /\ Credit[t] =< MaxCredit[t]
              /\ t \in DOMAIN buckets => /\ Value(t, buckets[t]) \in Nat
                                         /\ Credit[t] = Smaller(MaxCredit[t], Value(t, buckets[t]))
              /\ t \notin DOMAIN buckets => Credit[t] = MaxCredit[t]
<1> SUFFICES ASSUME NEW t \in Tenant
             PROVE  /\ Credit[t] \in Nat /\ Credit[t] =< MaxCredit[t]
                    /\ t \in DOMAIN buckets => /\ Value(t, buckets[t]) \in Nat
                                               /\ Credit[t] = Smaller(MaxCredit[t], Value(t, buckets[t]))
                    /\ t \notin DOMAIN buckets => Credit[t] = MaxCredit[t]
  BY DEF Credit
<1>1. MaxCredit[t] \in Nat /\ Rate(t) \in Nat
  BY Constants
<1>2. CASE t \in DOMAIN buckets
  <2>1. buckets[t].tokens \in Nat /\ buckets[t].age \in Nat
    BY <1>2, Constants DEF BucketsOK, BucketRec
  <2>2. Value(t, buckets[t]) \in Nat
    <3>1. Rate(t) * buckets[t].age \in Nat
      BY <1>1, <2>1, Products
    <3> QED BY <2>1, <3>1 DEF Value
  <2>3. Credit[t] = Smaller(MaxCredit[t], Value(t, buckets[t]))
    BY <1>2 DEF Credit, Value
  <2> QED BY <1>1, <1>2, <2>2, <2>3 DEF Smaller
<1>3. CASE t \notin DOMAIN buckets
  BY <1>1, <1>3 DEF Credit
<1> QED BY <1>2, <1>3

CreditOK == Credit \in [Tenant -> Nat]

LEMMA CreditIsNat == BucketsOK => CreditOK
BY CreditType DEF CreditOK

LEMMA NextCredit == BucketsOK' => CreditOK'
BY CreditIsNat, PTL

(* A bucket of age a is worth no more than the capacity if a =< Stall.     *)
LEMMA YoungValue ==
  ASSUME NEW t \in Tenant, NEW b \in BucketRec, b.tokens =< Burst(t), b.age =< Stall
  PROVE  Value(t, b) \in Nat /\ Value(t, b) =< MaxCredit[t]
<1>1. /\ b.tokens \in Nat /\ b.age \in Nat /\ Rate(t) \in Nat /\ Burst(t) \in Nat
      /\ Stall \in Nat /\ MaxCredit[t] = Burst(t) + Rate(t) * Stall
  BY Constants DEF BucketRec
<1>2. Rate(t) * b.age \in Nat /\ Rate(t) * Stall \in Nat /\ Rate(t) * b.age =< Rate(t) * Stall
  BY <1>1, Products
<1> QED BY <1>1, <1>2 DEF Value

(* Filling a bucket creates nothing. *)
LEMMA BucketType ==
  ASSUME BucketsOK, NEW t \in Tenant, NEW ago \in 0 .. Stall
  PROVE  LET b == Bucket(t, ago)
         IN  /\ b \in BucketRec /\ b.tokens =< Burst(t) /\ b.age =< Stall
             /\ Value(t, b) \in Nat /\ Value(t, b) =< Credit[t]
<1> DEFINE b == Bucket(t, ago)
           r == Rate(t)
<1>1. /\ r \in Nat /\ Burst(t) \in Nat /\ ago \in Nat /\ ago =< Stall
      /\ Stall \in Nat /\ Old \in Nat /\ Stall =< Old
  BY Constants DEF Old
<1>2. CASE t \notin DOMAIN buckets
  <2>1. b = [tokens |-> Burst(t), age |-> ago]
    BY <1>2 DEF Bucket
  <2>2. b \in BucketRec /\ b.tokens =< Burst(t) /\ b.age =< Stall
    BY <1>1, <2>1 DEF BucketRec
  <2> QED BY <1>2, <2>2, YoungValue, CreditType
<1>3. CASE t \in DOMAIN buckets
  <2> DEFINE o == buckets[t]
  <2>1. /\ o \in BucketRec /\ o.tokens =< Burst(t) /\ o.tokens \in Nat /\ o.age \in Nat
        /\ o.age =< Old
    BY <1>1, <1>3 DEF BucketsOK, BucketRec
  <2>2. b = Refilled(t, o, ago)
    BY <1>3 DEF Bucket
  <2>3. Value(t, o) \in Nat /\ Credit[t] = Smaller(MaxCredit[t], Value(t, o))
        /\ MaxCredit[t] \in Nat
    BY <1>3, CreditType, Constants
  <2> HIDE DEF o
  <2>4. SUFFICES /\ b \in BucketRec /\ b.tokens =< Burst(t) /\ b.age =< Stall
                 /\ Value(t, b) =< Value(t, o)
    <3>1. Value(t, b) \in Nat /\ Value(t, b) =< MaxCredit[t]
      BY <2>4, YoungValue
    <3> QED BY <2>3, <2>4, <3>1 DEF Smaller
  <2>5. CASE o.age =< ago
    <3>1. b = o
      BY <1>1, <2>1, <2>2, <2>5 DEF Refilled
    <3> QED BY <1>1, <2>1, <2>3, <2>5, <3>1
  <2>6. CASE o.age > ago
    <3> DEFINE d == o.age - ago
               k == Smaller(Burst(t), o.tokens + r * d)
    <3>1. d \in Nat /\ d + ago = o.age
      BY <1>1, <2>1, <2>6
    <3>2. b = [tokens |-> k, age |-> ago]
      BY <2>2, <2>6 DEF Refilled
    <3> HIDE DEF d
    <3>3. r * d \in Nat /\ r * ago \in Nat /\ r * o.age = r * d + r * ago
      BY <1>1, <3>1, Products
    <3>4. k \in Nat /\ k =< Burst(t) /\ k =< o.tokens + r * d
      BY <1>1, <2>1, <3>3 DEF Smaller
    <3> HIDE DEF k
    <3>5. b \in BucketRec /\ b.tokens = k /\ b.age = ago
      BY <1>1, <3>2, <3>4 DEF BucketRec
    <3>6. Value(t, b) = k + r * ago /\ Value(t, o) = o.tokens + r * o.age
      BY <3>5 DEF Value
    <3>7. Value(t, b) =< Value(t, o)
      BY <2>1, <3>3, <3>4, <3>6
    <3> QED BY <1>1, <3>4, <3>5, <3>7
  <2> QED BY <1>1, <2>1, <2>5, <2>6
<1> QED BY <1>2, <1>3

(* Only buckets that are full are evicted. *)
LEMMA TableType ==
  ASSUME BucketsOK, NEW t \in Tenant, NEW ago \in 0 .. Stall
  PROVE  LET T == Table(t, ago)
         IN  /\ DOMAIN T \subseteq DOMAIN buckets /\ T \in [DOMAIN T -> BucketRec]
             /\ \A u \in DOMAIN T : T[u] = buckets[u]
             /\ IsFiniteSet(DOMAIN T) /\ Cardinality(DOMAIN T) =< MaxBuckets
             /\ t \in DOMAIN buckets => t \in DOMAIN T
             /\ \A u \in DOMAIN buckets \ DOMAIN T : Credit[u] = MaxCredit[u]
<1> DEFINE T == Table(t, ago)
           kept == {u \in DOMAIN buckets : ~Stale(buckets[u], ago)}
<1>1. CASE T = buckets
  BY <1>1 DEF BucketsOK
<1>2. CASE T = Evicted(ago) /\ t \notin DOMAIN buckets
  <2>1. T = [u \in kept |-> buckets[u]]
    BY <1>2 DEF Evicted, Restrict
  <2>2. DOMAIN T = kept /\ kept \subseteq DOMAIN buckets /\ T \in [kept -> BucketRec]
        /\ \A u \in kept : T[u] = buckets[u]
    BY <2>1 DEF BucketsOK
  <2>3. IsFiniteSet(kept) /\ Cardinality(kept) =< MaxBuckets
    <3>1. IsFiniteSet(kept) /\ Cardinality(kept) =< Cardinality(DOMAIN buckets)
      BY <2>2, FS_Subset DEF BucketsOK
    <3>2. Cardinality(kept) \in Nat /\ Cardinality(DOMAIN buckets) \in Nat
      BY <3>1, FS_CardinalityType DEF BucketsOK
    <3> QED BY <3>1, <3>2, Constants DEF BucketsOK
  <2>4. ASSUME NEW u \in DOMAIN buckets \ kept
        PROVE  Credit[u] = MaxCredit[u]
    <3>1. u \in Tenant /\ buckets[u].age - ago > Idle
      BY DEF BucketsOK, Stale
    <3>2. buckets[u].age \in Nat /\ buckets[u].tokens \in Nat /\ ago \in Nat /\ Idle \in Nat
      BY Constants DEF BucketsOK, BucketRec
    <3>3. Rate(u) * buckets[u].age >= MaxCredit[u]
      BY <3>1, <3>2, OldIsFull
    <3>4. Rate(u) * buckets[u].age \in Nat /\ MaxCredit[u] \in Nat
      BY <3>1, <3>2, Products, Constants
    <3>5. Credit[u] = Smaller(MaxCredit[u], Value(u, buckets[u]))
      BY <3>1, CreditType
    <3> QED BY <3>2, <3>3, <3>4, <3>5 DEF Value, Smaller
  <2> HIDE DEF kept, T
  <2> QED BY <1>2, <2>2, <2>3, <2>4 DEF T
<1> QED BY <1>1, <1>2 DEF Table

(* The table with the bucket of the call put back, x parts taken from it.  *)
LEMMA PutKeeps ==
  ASSUME BucketsOK, NEW t \in Tenant, NEW ago \in 0 .. Stall, ~NoRoom(t, ago),
         NEW b \in BucketRec, b.tokens =< Burst(t), b.age =< Stall,
         NEW x \in Nat, Value(t, b) + x =< Credit[t], buckets' = Put(t, ago, b)
  PROVE  /\ BucketsOK' /\ t \in DOMAIN buckets' /\ buckets'[t] = b
         /\ \A u \in DOMAIN buckets' \ {t} :
              u \in DOMAIN buckets /\ buckets'[u] = buckets[u]
         /\ Credit' = [Credit EXCEPT ![t] = Value(t, b)]
<1> DEFINE T == Table(t, ago)
           D == DOMAIN T \cup {t}
<1>1. /\ DOMAIN T \subseteq DOMAIN buckets /\ T \in [DOMAIN T -> BucketRec]
      /\ \A u \in DOMAIN T : T[u] = buckets[u]
      /\ IsFiniteSet(DOMAIN T) /\ Cardinality(DOMAIN T) =< MaxBuckets
      /\ t \in DOMAIN buckets => t \in DOMAIN T
      /\ \A u \in DOMAIN buckets \ DOMAIN T : Credit[u] = MaxCredit[u]
  BY TableType
<1>2. t \in DOMAIN T \/ Cardinality(DOMAIN T) < MaxBuckets
  <2>1. Cardinality(DOMAIN T) \in Nat
    BY <1>1, FS_CardinalityType
  <2> QED BY <1>1, <2>1, Constants DEF NoRoom, Full
<1>3. buckets' = [u \in D |-> IF u = t THEN b ELSE T[u]]
  BY DEF Put
<1> HIDE DEF T
<1>4. /\ DOMAIN buckets' = D /\ buckets'[t] = b /\ t \in D
      /\ \A u \in D \ {t} : u \in DOMAIN buckets /\ buckets'[u] = buckets[u]
      /\ buckets' \in [D -> BucketRec]
  BY <1>1, <1>3
<1>5. IsFiniteSet(D) /\ Cardinality(D) =< MaxBuckets
  <2>1. IsFiniteSet(D) /\ (t \notin DOMAIN T => Cardinality(D) = Cardinality(DOMAIN T) + 1)
    BY <1>1, FS_AddElement
  <2>2. t \in DOMAIN T => D = DOMAIN T
    OBVIOUS
  <2>3. Cardinality(DOMAIN T) \in Nat
    BY <1>1, FS_CardinalityType
  <2> QED BY <1>1, <1>2, <2>1, <2>2, <2>3, Constants
<1>6. BucketsOK'
  <2>1. D \subseteq Tenant
    BY <1>1 DEF BucketsOK
  <2>2. \A u \in D : buckets'[u].tokens =< Burst(u)
    BY <1>4 DEF BucketsOK
  <2> QED BY <1>4, <1>5, <2>1, <2>2 DEF BucketsOK
<1>7. Credit' = [Credit EXCEPT ![t] = Value(t, b)]
  <2>1. Credit'[t] = Value(t, b)
    <3>1. Credit'[t] = Smaller(MaxCredit[t], Value(t, b))
      BY <1>4 DEF Credit, Value
    <3>2. Value(t, b) \in Nat /\ Value(t, b) =< MaxCredit[t] /\ MaxCredit[t] \in Nat
      BY YoungValue, Constants
    <3> QED BY <3>1, <3>2 DEF Smaller
  <2>2. ASSUME NEW u \in Tenant \ {t} PROVE Credit'[u] = Credit[u]
    <3>1. CASE u \in D
      BY <1>4, <2>2, <3>1 DEF Credit
    <3>2. CASE u \notin D /\ u \in DOMAIN buckets
      BY <1>1, <1>4, <2>2, <3>2 DEF Credit
    <3>3. CASE u \notin D /\ u \notin DOMAIN buckets
      BY <1>4, <2>2, <3>3 DEF Credit
    <3> QED BY <3>1, <3>2, <3>3
  <2>3. Credit' = [u \in Tenant |-> Credit'[u]] /\ Credit = [u \in Tenant |-> Credit[u]]
    BY DEF Credit
  <2> QED BY <2>1, <2>2, <2>3
<1> QED BY <1>4, <1>6, <1>7

LEMMA TurnAwayKeeps ==
  ASSUME BucketsOK, NEW t \in Tenant, NEW ago \in 0 .. Stall,
         buckets' = Table(t, ago)
  PROVE  /\ BucketsOK' /\ Credit' = Credit
         /\ \A u \in DOMAIN buckets' : u \in DOMAIN buckets /\ buckets'[u] = buckets[u]
<1> DEFINE T == Table(t, ago)
<1>1. /\ DOMAIN T \subseteq DOMAIN buckets /\ T \in [DOMAIN T -> BucketRec]
      /\ \A u \in DOMAIN T : T[u] = buckets[u]
      /\ IsFiniteSet(DOMAIN T) /\ Cardinality(DOMAIN T) =< MaxBuckets
      /\ \A u \in DOMAIN buckets \ DOMAIN T : Credit[u] = MaxCredit[u]
  BY TableType
<1>2. buckets' = T
  OBVIOUS
<1> HIDE DEF T
<1>3. BucketsOK'
  BY <1>1, <1>2 DEF BucketsOK
<1>4. ASSUME NEW u \in Tenant PROVE Credit'[u] = Credit[u]
  <2>1. CASE u \in DOMAIN T
    BY <1>1, <1>2, <2>1 DEF Credit
  <2>2. CASE u \notin DOMAIN T /\ u \in DOMAIN buckets
    BY <1>1, <1>2, <2>2 DEF Credit
  <2>3. CASE u \notin DOMAIN T /\ u \notin DOMAIN buckets
    BY <1>2, <2>3 DEF Credit
  <2> QED BY <2>1, <2>2, <2>3
<1>5. Credit' = [u \in Tenant |-> Credit'[u]] /\ Credit = [u \in Tenant |-> Credit[u]]
  BY DEF Credit
<1> QED BY <1>1, <1>2, <1>3, <1>4, <1>5

(* Time fills every bucket at its rate. *)
LEMMA TickCredit ==
  ASSUME BucketsOK,
         buckets' = [t \in DOMAIN buckets |-> [buckets[t] EXCEPT !.age = Older(@)]]
  PROVE  /\ BucketsOK'
         /\ \A t \in DOMAIN buckets :
              /\ t \in DOMAIN buckets' /\ buckets'[t].tokens = buckets[t].tokens
              /\ buckets'[t].age = Older(buckets[t].age)
         /\ DOMAIN buckets' = DOMAIN buckets
         /\ \A t \in Tenant : Credit'[t] = Smaller(MaxCredit[t], Credit[t] + Rate(t))
<1>1. \A t \in DOMAIN buckets :
        /\ buckets[t] \in BucketRec /\ t \in Tenant
        /\ buckets[t].age \in 0 .. Old /\ buckets[t].tokens \in Nat
  BY DEF BucketsOK, BucketRec
<1>2. \A a \in 0 .. Old : Older(a) \in 0 .. Old
  BY Constants DEF Older
<1>3. /\ DOMAIN buckets' = DOMAIN buckets
      /\ \A t \in DOMAIN buckets : buckets'[t] = [buckets[t] EXCEPT !.age = Older(buckets[t].age)]
  OBVIOUS
<1>4. ASSUME NEW t \in DOMAIN buckets
      PROVE  /\ buckets'[t] \in BucketRec /\ buckets'[t].tokens = buckets[t].tokens
             /\ buckets'[t].age = Older(buckets[t].age)
  BY <1>1, <1>2, <1>3 DEF BucketRec
<1>5. BucketsOK'
  <2>1. buckets' \in [DOMAIN buckets -> BucketRec]
    BY <1>4
  <2> QED BY <1>3, <1>4, <2>1 DEF BucketsOK
<1>6. ASSUME NEW t \in Tenant
      PROVE  Credit'[t] = Smaller(MaxCredit[t], Credit[t] + Rate(t))
  <2> DEFINE r == Rate(t)
             m == MaxCredit[t]
             b == buckets[t]
  <2>1. r \in Nat /\ m \in Nat /\ Idle \in Nat /\ Stall \in Nat
    BY Constants
  <2>2. CASE t \notin DOMAIN buckets
    <3>1. Credit[t] = m /\ Credit'[t] = m
      BY <1>3, <2>2 DEF Credit
    <3> QED BY <2>1, <3>1 DEF Smaller
  <2>3. CASE t \in DOMAIN buckets
    <3>1. /\ Credit[t] = Smaller(m, b.tokens + r * b.age)
          /\ Credit'[t] = Smaller(m, b.tokens + r * Older(b.age))
          /\ b.tokens \in Nat /\ b.age \in 0 .. Old
      BY <1>1, <1>3, <1>4, <2>3 DEF Credit
    <3> HIDE DEF b
    <3>2. CASE b.age < Old
      <4>1. Older(b.age) = b.age + 1 /\ b.age \in Nat
        BY <3>1, <3>2 DEF Older
      <4>2. r * (b.age + 1) = r * b.age + r /\ r * b.age \in Nat
        <5>1. 1 \in Nat /\ r \in Nat /\ b.age \in Nat
          BY <2>1, <4>1
        <5>2. r * (b.age + 1) = r * b.age + r * 1 /\ r * b.age \in Nat /\ r * 1 = r
          BY <5>1, Products
        <5> QED BY <5>2
      <4> QED BY <2>1, <3>1, <4>1, <4>2 DEF Smaller
    <3>3. CASE b.age = Old
      <4>1. Older(b.age) = Old /\ Old \in Nat /\ Old >= Idle
        BY <2>1, <3>3, Constants DEF Older, Old
      <4>2. r * Old >= m /\ r * Old \in Nat
        BY <2>1, <4>1, OldIsFull, Products
      <4>3. Credit[t] = m /\ Credit'[t] = m
        BY <2>1, <3>1, <3>3, <4>1, <4>2 DEF Smaller
      <4> QED BY <2>1, <4>3 DEF Smaller
    <3> QED BY <3>1, <3>2, <3>3, Constants
  <2> QED BY <2>2, <2>3
<1> QED BY <1>3, <1>4, <1>5, <1>6

-----------------------------------------------------------------------------
(***************************************************************************)
(* Calls that are paid for, and calls that have passed the quota.          *)
(***************************************************************************)
LEMMA PaidIsFinite ==
  ASSUME NEW t, NEW k
  PROVE  /\ IsFiniteSet(Paid(t, k)) /\ Cardinality(Paid(t, k)) \in Nat
         /\ IsFiniteSet(Checked(t)) /\ Cardinality(Checked(t)) \in Nat
         /\ IsFiniteSet(Counted(t)) /\ Cardinality(Counted(t)) \in Nat
<1>1. Paid(t, k) \subseteq Call /\ Checked(t) \subseteq Call /\ Counted(t) \subseteq Call
  BY DEF Paid, Checked, Counted
<1>2. IsFiniteSet(Paid(t, k)) /\ IsFiniteSet(Checked(t)) /\ IsFiniteSet(Counted(t))
  BY <1>1, Constants, FS_Subset
<1> QED BY <1>2, FS_CardinalityType

LEMMA OvershootType ==
  ASSUME NEW t \in Tenant
  PROVE  Overshoot(t) \in Nat
<1>1. MaxCredit[t] + Rate(t) * Lag \in Nat /\ Token \in Nat \ {0}
  BY Constants
<1> DEFINE a == MaxCredit[t] + Rate(t) * Lag
<1> HIDE DEF a
<1>2. a \div Token \in Nat
  BY <1>1 DEF a
<1> QED BY <1>2 DEF Overshoot, a

(* Fewer calls, and no more credit. *)
LEMMA LessPaid ==
  ASSUME IInv, Credit' \in [Tenant -> Nat],
         \A t \in Tenant : /\ Credit'[t] =< Credit[t]
                           /\ \A k \in 0 .. Lag : Paid(t, k)' \subseteq Paid(t, k)
  PROVE  RateOK'
<1> SUFFICES ASSUME NEW t \in Tenant, NEW k \in 0 .. Lag
             PROVE  Token * Cardinality(Paid(t, k)') + Credit'[t]
                      =< MaxCredit[t] + Rate(t) * k
  BY DEF RateOK, MaxCredit
<1> DEFINE n == Cardinality(Paid(t, k))
           m == Cardinality(Paid(t, k)')
<1>1. n \in Nat /\ IsFiniteSet(Paid(t, k))
  BY PaidIsFinite
<1>2. m \in Nat /\ m =< n
  <2>1. IsFiniteSet(Paid(t, k)') /\ m =< n
    BY <1>1, FS_Subset
  <2> QED BY <2>1, FS_CardinalityType
<1>3. Credit[t] \in Nat /\ Credit'[t] \in Nat /\ Credit'[t] =< Credit[t]
  BY CreditType DEF IInv
<1>4. Token * n + Credit[t] =< MaxCredit[t] + Rate(t) * k
  BY DEF IInv, RateOK
<1>5. MaxCredit[t] + Rate(t) * k \in Nat
  BY Constants, Products
<1> HIDE DEF n, m
<1>6. Token * m =< Token * n /\ Token * m \in Nat /\ Token * n \in Nat
  BY <1>1, <1>2, Constants, Products
<1> QED BY <1>3, <1>4, <1>5, <1>6 DEF m

LEMMA LessChecked ==
  ASSUME IInv, \A t \in Tenant : Checked(t)' \subseteq Checked(t)
  PROVE  OverOK'
<1> SUFFICES ASSUME NEW t \in Tenant, Max(t) > 0
             PROVE  Cardinality(Checked(t)') =< Max(t) - 1 + Overshoot(t)
  BY DEF OverOK, Overshoot, MaxCredit
<1>1. IsFiniteSet(Checked(t)) /\ Cardinality(Checked(t)) \in Nat
  BY PaidIsFinite
<1>2. IsFiniteSet(Checked(t)') /\ Cardinality(Checked(t)') =< Cardinality(Checked(t))
  BY <1>1, FS_Subset
<1>3. Cardinality(Checked(t)') \in Nat
  BY <1>2, FS_CardinalityType
<1>4. Cardinality(Checked(t)) =< Max(t) - 1 + Overshoot(t)
  BY DEF IInv, OverOK
<1> QED BY <1>1, <1>2, <1>3, <1>4, OvershootType, Constants

(* A call takes a step: what it becomes, r, fits, and only its own entry   *)
(* changes.                                                                *)
LEMMA CallStep ==
  ASSUME CallsOK, NEW c \in Call, NEW r \in CallRec, Good(r), NEW from \in Stage,
         Step(c, from, r)
  PROVE  /\ CallsOK' /\ calls[c].at = from /\ calls[c] \in CallRec /\ Good(calls[c])
         /\ calls'[c] = r /\ \A d \in Call \ {c} : calls'[d] = calls[d]
BY DEF CallsOK, Step

(* The steps that neither spend nor pass the quota. *)
Quiet(c, r) ==
  /\ r.at \in Unseen => /\ calls[c].at \in Unseen
                        /\ r.tenant = calls[c].tenant /\ r.age = calls[c].age
  /\ (r.at \in {"passed", "made", "shown"} /\ ~r.unchecked) =>
       /\ calls[c].at \in {"passed", "made", "shown"} /\ ~calls[c].unchecked
       /\ r.tenant = calls[c].tenant

LEMMA QuietStep ==
  ASSUME IInv, NEW c \in Call, NEW r \in CallRec, Good(r), NEW from \in Stage,
         Step(c, from, r), Quiet(c, r), BucketsOK', ToldOK',
         \A t \in Tenant : Credit'[t] =< Credit[t]
  PROVE  IInv'
<1>1. /\ CallsOK' /\ calls'[c] = r
      /\ \A d \in Call \ {c} : calls'[d] = calls[d]
  BY CallStep DEF IInv
<1>2. \A t \in Tenant : \A k \in 0 .. Lag : Paid(t, k)' \subseteq Paid(t, k)
  BY <1>1 DEF Paid, Quiet
<1>3. \A t \in Tenant : Checked(t)' \subseteq Checked(t)
  BY <1>1 DEF Checked, Quiet
<1>4. Credit' \in [Tenant -> Nat]
  BY NextCredit DEF CreditOK
<1> QED BY <1>1, <1>2, <1>3, <1>4, LessPaid, LessChecked DEF IInv

LEMMA ToldKept ==
  ASSUME ToldOK, UNCHANGED told,
         \A u \in DOMAIN buckets' : u \in DOMAIN buckets /\ buckets'[u] = buckets[u]
  PROVE  ToldOK'
BY DEF ToldOK

LEMMA SameBuckets ==
  ASSUME IInv, UNCHANGED <<buckets, told>>
  PROVE  /\ BucketsOK' /\ ToldOK' /\ Credit' = Credit
         /\ \A t \in Tenant : Credit'[t] =< Credit[t]
<1>1. Credit' = Credit
  BY DEF Credit
<1>2. \A t \in Tenant : Credit[t] \in Nat
  BY CreditType DEF IInv
<1> QED BY <1>1, <1>2, ToldKept DEF IInv, BucketsOK

LEMMA NoCallIsGood == NoCall \in CallRec /\ Good(NoCall) /\ NoCall.at = "none"
BY DEF NoCall, Fresh, CallRec, Good, Stage, Unseen

(* The steps of calls that leave the limiter alone, but for Pass. *)
LEMMA CallsKeep ==
  ASSUME IInv, NEW c \in Call,
         \/ \E t \in Tenant : Ask(c, t)
         \/ Exceed(c) \/ PassUnchecked(c) \/ Make(c) \/ Fail(c)
         \/ Show(c) \/ EndUnseen(c) \/ EndShown(c) \/ Forget(c)
  PROVE  IInv'
<1>1. UNCHANGED <<buckets, told>>
  BY DEF Ask, Exceed, PassUnchecked, Make, Fail, Show, EndUnseen, EndShown, Forget
<1>2. BucketsOK' /\ ToldOK' /\ \A t \in Tenant : Credit'[t] =< Credit[t]
  BY <1>1, SameBuckets
<1>3. /\ calls[c] \in CallRec /\ Good(calls[c]) /\ calls[c].at \in Stage
      /\ calls[c].age \in Nat
  BY DEF IInv, CallsOK, CallRec
<1>4. ASSUME NEW t \in Tenant, Ask(c, t) PROVE IInv'
  <2> DEFINE r == Fresh("asked", t)
  <2>1. r = [at |-> "asked", tenant |-> t, age |-> 0, unchecked |-> FALSE]
    BY DEF Fresh
  <2>2. 0 \in Nat /\ 0 =< Stall
    BY Constants
  <2>3. Step(c, "none", r) /\ "none" \in Stage
    BY <1>4 DEF Ask, Stage
  <2> HIDE DEF r
  <2>4. r \in CallRec /\ Good(r) /\ Quiet(c, r)
    BY <2>1, <2>2 DEF CallRec, Good, Stage, Quiet, Unseen
  <2> QED BY <1>2, <2>3, <2>4, QuietStep
<1>5. ASSUME NEW from \in Stage, Step(c, from, NoCall) PROVE IInv'
  <2>1. Quiet(c, NoCall)
    BY NoCallIsGood DEF Quiet, Unseen
  <2> QED BY <1>2, <1>5, <2>1, NoCallIsGood, QuietStep
<1>6. CASE PassUnchecked(c)
  <2> DEFINE r == [calls[c] EXCEPT !.at = "passed", !.unchecked = TRUE]
  <2>1. Step(c, "admitted", r) /\ "admitted" \in Stage /\ calls[c].at = "admitted"
    BY <1>6 DEF PassUnchecked, Stage, Step
  <2>2. r \in CallRec /\ Good(r) /\ Quiet(c, r)
    BY <1>3, <2>1 DEF CallRec, Good, Stage, Quiet, Unseen
  <2> HIDE DEF r
  <2> QED BY <1>2, <2>1, <2>2, QuietStep
<1>7. CASE Make(c)
  <2> DEFINE r == [calls[c] EXCEPT !.at = "made"]
  <2>1. Step(c, "passed", r) /\ "passed" \in Stage /\ calls[c].at = "passed"
    BY <1>7 DEF Make, Stage, Step
  <2>2. r \in CallRec /\ Good(r) /\ Quiet(c, r)
    BY <1>3, <2>1 DEF CallRec, Good, Stage, Quiet, Unseen
  <2> HIDE DEF r
  <2> QED BY <1>2, <2>1, <2>2, QuietStep
<1>8. CASE Show(c)
  <2> DEFINE r == [calls[c] EXCEPT !.at = "shown", !.age = 0]
  <2>1. Step(c, "made", r) /\ "made" \in Stage /\ calls[c].at = "made"
    BY <1>8 DEF Show, Stage, Step
  <2>2. r \in CallRec /\ Good(r) /\ Quiet(c, r)
    BY <1>3, <2>1 DEF CallRec, Good, Stage, Quiet, Unseen
  <2> HIDE DEF r
  <2> QED BY <1>2, <2>1, <2>2, QuietStep
<1>9. CASE EndShown(c)
  <2> DEFINE r == [calls[c] EXCEPT !.at = "ended"]
  <2>1. Step(c, "shown", r) /\ "shown" \in Stage /\ calls[c].at = "shown"
    BY <1>9 DEF EndShown, Stage, Step
  <2>2. r \in CallRec /\ Good(r) /\ Quiet(c, r)
    BY <1>3, <2>1 DEF CallRec, Good, Stage, Quiet, Unseen
  <2> HIDE DEF r
  <2> QED BY <1>2, <2>1, <2>2, QuietStep
<1>10. CASE Exceed(c) \/ Fail(c) \/ EndUnseen(c) \/ Forget(c)
  <2>1. {"admitted", "passed", "made", "ended"} \subseteq Stage
    BY DEF Stage
  <2> QED BY <1>5, <1>10, <2>1 DEF Exceed, Fail, EndUnseen, Forget
<1> QED BY <1>4, <1>6, <1>7, <1>8, <1>9, <1>10

(* A call at the limiter. *)
LEMMA Asked ==
  ASSUME CallsOK, NEW c \in Call, calls[c].at = "asked"
  PROVE  calls[c].tenant \in Tenant /\ calls[c].age \in 0 .. Stall
BY Constants DEF CallsOK, CallRec, Good

LEMMA TurnAwayStep ==
  ASSUME IInv, NEW c \in Call, TurnAway(c)
  PROVE  IInv' /\ Credit' = Credit
<1> DEFINE t   == calls[c].tenant
           ago == calls[c].age
<1>1. Step(c, "asked", NoCall) /\ buckets' = Table(t, ago) /\ UNCHANGED told
  BY DEF TurnAway
<1>2. t \in Tenant /\ ago \in 0 .. Stall
  BY <1>1, Asked DEF IInv, Step
<1> HIDE DEF t, ago
<1>3. /\ BucketsOK' /\ Credit' = Credit
      /\ \A u \in DOMAIN buckets' : u \in DOMAIN buckets /\ buckets'[u] = buckets[u]
  BY <1>1, <1>2, TurnAwayKeeps DEF IInv
<1>4. ToldOK'
  BY <1>1, <1>3, ToldKept DEF IInv
<1>5. \A u \in Tenant : Credit'[u] =< Credit[u]
  BY <1>3, CreditType DEF IInv
<1>6. "asked" \in Stage /\ Quiet(c, NoCall)
  BY NoCallIsGood DEF Stage, Quiet, Unseen
<1> QED BY <1>1, <1>3, <1>4, <1>5, <1>6, NoCallIsGood, QuietStep

LEMMA RefuseStep ==
  ASSUME IInv, NEW c \in Call, Refuse(c)
  PROVE  /\ IInv' /\ calls[c].tenant \in Tenant
         /\ \E n \in Nat : /\ n =< Credit[calls[c].tenant]
                           /\ Credit' = [Credit EXCEPT ![calls[c].tenant] = n]
<1> DEFINE t   == calls[c].tenant
           ago == calls[c].age
           b   == Bucket(t, ago)
           w   == Wait(t, b)
<1>1. /\ Step(c, "asked", NoCall) /\ ~NoRoom(t, ago) /\ b.tokens < Token
      /\ buckets' = Put(t, ago, b) /\ told' = [told EXCEPT ![t] = w]
  BY DEF Refuse
<1>2. t \in Tenant /\ ago \in 0 .. Stall
  BY <1>1, Asked DEF IInv, Step
<1> HIDE DEF t, ago
<1>3. /\ b \in BucketRec /\ b.tokens =< Burst(t) /\ b.age =< Stall
      /\ Value(t, b) \in Nat /\ Value(t, b) =< Credit[t]
  BY <1>2, BucketType DEF IInv
<1> HIDE DEF b
<1>4. 0 \in Nat /\ Value(t, b) + 0 =< Credit[t]
  BY <1>3
<1>5. /\ BucketsOK' /\ t \in DOMAIN buckets' /\ buckets'[t] = b
      /\ \A u \in DOMAIN buckets' \ {t} :
           u \in DOMAIN buckets /\ buckets'[u] = buckets[u]
      /\ Credit' = [Credit EXCEPT ![t] = Value(t, b)]
  BY <1>1, <1>2, <1>3, <1>4, PutKeeps DEF IInv
<1>6. w \in Nat /\ b.tokens + Rate(t) * (b.age + w) >= Token
  <2> DEFINE d == Token - b.tokens
             q == CeilDiv(d, Rate(t))
  <2>1. /\ d \in Nat /\ b.tokens \in Nat /\ b.age \in Nat /\ Rate(t) \in Nat \ {0}
        /\ Token \in Nat
    BY <1>1, <1>2, <1>3, Constants DEF BucketRec
  <2>2. w = q + 1
    BY DEF w, Wait
  <2> HIDE DEF d
  <2>3. q \in Nat /\ Rate(t) * q >= d
    BY <2>1, Ceilings
  <2> HIDE DEF q
  <2>4. /\ b.age + w \in Nat /\ q =< b.age + w /\ w \in Nat
    BY <2>1, <2>2, <2>3
  <2> HIDE DEF w
  <2>5. Rate(t) * q =< Rate(t) * (b.age + w) /\ Rate(t) * q \in Nat
        /\ Rate(t) * (b.age + w) \in Nat
    BY <2>1, <2>3, <2>4, Products
  <2> QED BY <2>1, <2>3, <2>4, <2>5 DEF d
<1> HIDE DEF w
<1>7. ToldOK'
  <2>1. told' \in [Tenant -> Nat \cup {Nothing}] /\ told'[t] = w
        /\ \A u \in Tenant \ {t} : told'[u] = told[u]
    BY <1>1, <1>2, <1>6 DEF IInv, ToldOK
  <2>2. \A u \in DOMAIN buckets' : u \in Tenant
    BY <1>5 DEF BucketsOK
  <2> QED BY <1>5, <1>6, <2>1, <2>2 DEF IInv, ToldOK
<1>8. \A u \in Tenant : Credit'[u] =< Credit[u]
  BY <1>2, <1>3, <1>5, CreditType DEF IInv
<1>9. "asked" \in Stage /\ Quiet(c, NoCall)
  BY NoCallIsGood DEF Stage, Quiet, Unseen
<1>10. IInv'
  BY <1>1, <1>5, <1>7, <1>8, <1>9, NoCallIsGood, QuietStep
<1> QED BY <1>2, <1>3, <1>5, <1>10 DEF t

(* What is spent is taken from the credit. *)
LEMMA AdmitStep ==
  ASSUME IInv, NEW c \in Call, Admit(c)
  PROVE  /\ IInv' /\ calls[c].tenant \in Tenant
         /\ \E n \in Nat : /\ n + Token =< Credit[calls[c].tenant]
                           /\ Credit' = [Credit EXCEPT ![calls[c].tenant] = n]
<1> DEFINE t   == calls[c].tenant
           ago == calls[c].age
           o   == Bucket(t, ago)
           b   == [o EXCEPT !.tokens = @ - Token]
           r   == [calls[c] EXCEPT !.at = "admitted", !.age = 0]
<1>1. /\ Step(c, "asked", r) /\ ~NoRoom(t, ago) /\ o.tokens >= Token
      /\ buckets' = Put(t, ago, b) /\ told' = [told EXCEPT ![t] = Nothing]
  BY DEF Admit
<1>2. t \in Tenant /\ ago \in 0 .. Stall
  BY <1>1, Asked DEF IInv, Step
<1>3. r \in CallRec /\ Good(r) /\ "asked" \in Stage /\ r.at = "admitted"
      /\ r.age = 0 /\ r.tenant = t
  <2>1. 0 \in Nat /\ 0 =< Lag /\ calls[c] \in CallRec
    BY Constants DEF IInv, CallsOK
  <2> QED BY <1>2, <2>1 DEF CallRec, Good, Stage, Unseen
<1> HIDE DEF t, ago, r
<1>4. /\ o \in BucketRec /\ o.tokens =< Burst(t) /\ o.age =< Stall
      /\ Value(t, o) \in Nat /\ Value(t, o) =< Credit[t]
  BY <1>2, BucketType DEF IInv
<1> HIDE DEF o
<1>5. /\ b \in BucketRec /\ b.tokens =< Burst(t) /\ b.age =< Stall
      /\ Value(t, b) \in Nat /\ Value(t, b) + Token =< Credit[t]
  <2>1. /\ o.tokens \in Nat /\ o.age \in 0 .. Old /\ Token \in Nat /\ Burst(t) \in Nat
        /\ Rate(t) \in Nat /\ o.age \in Nat /\ Old \in Nat
    BY <1>2, <1>4, Constants DEF BucketRec
  <2>2. b = [tokens |-> o.tokens - Token, age |-> o.age]
    BY <1>4 DEF BucketRec
  <2> HIDE DEF b
  <2>3. o.tokens - Token \in Nat /\ o.tokens - Token =< Burst(t)
    BY <1>1, <1>4, <2>1
  <2>4. Value(t, b) = o.tokens - Token + Rate(t) * o.age
        /\ Value(t, o) = o.tokens + Rate(t) * o.age
    BY <2>2 DEF Value
  <2>5. Rate(t) * o.age \in Nat
    BY <2>1, Products
  <2>6. Credit[t] \in Nat
    BY <1>2, CreditType DEF IInv
  <2> QED BY <1>4, <2>1, <2>2, <2>3, <2>4, <2>5, <2>6 DEF BucketRec
<1> HIDE DEF b
<1>6. /\ BucketsOK' /\ t \in DOMAIN buckets' /\ buckets'[t] = b
      /\ \A u \in DOMAIN buckets' \ {t} :
           u \in DOMAIN buckets /\ buckets'[u] = buckets[u]
      /\ Credit' = [Credit EXCEPT ![t] = Value(t, b)]
  <2>1. Token \in Nat
    BY Constants
  <2> QED BY <1>1, <1>2, <1>5, <2>1, PutKeeps DEF IInv
<1>7. /\ CallsOK' /\ calls[c].at = "asked" /\ calls'[c] = r
      /\ \A d \in Call \ {c} : calls'[d] = calls[d]
  BY <1>1, <1>3, CallStep DEF IInv
<1>8. ToldOK'
  <2>1. told' \in [Tenant -> Nat \cup {Nothing}] /\ told'[t] = Nothing
        /\ \A u \in Tenant \ {t} : told'[u] = told[u]
    BY <1>1, <1>2 DEF IInv, ToldOK
  <2>2. \A u \in DOMAIN buckets' : u \in Tenant
    BY <1>6 DEF BucketsOK
  <2> QED BY <1>6, <2>1, <2>2 DEF IInv, ToldOK
<1>9. OverOK'
  <2>1. \A u \in Tenant : Checked(u)' \subseteq Checked(u)
    BY <1>3, <1>7 DEF Checked
  <2> QED BY <2>1, LessChecked
<1>10. RateOK'
  <2> SUFFICES ASSUME NEW u \in Tenant, NEW k \in 0 .. Lag
               PROVE  Token * Cardinality(Paid(u, k)') + Credit'[u]
                        =< MaxCredit[u] + Rate(u) * k
    BY DEF RateOK, MaxCredit
  <2> DEFINE n == Cardinality(Paid(u, k))
             m == Cardinality(Paid(u, k)')
             full == MaxCredit[u] + Rate(u) * k
  <2>1. /\ IsFiniteSet(Paid(u, k)) /\ n \in Nat
        /\ Token * n + Credit[u] =< full
    BY PaidIsFinite DEF IInv, RateOK
  <2>2. Credit[u] \in Nat /\ Token \in Nat /\ full \in Nat
    <3>1. Credit[u] \in Nat
      BY CreditType DEF IInv
    <3> QED BY <3>1, Constants, Products
  <2>3. CASE u = t
    <3>1. Paid(u, k)' = Paid(u, k) \cup {c}
      BY <1>2, <1>3, <1>7, <2>3, Constants DEF Paid, Unseen
    <3>2. c \notin Paid(u, k)
      BY <1>7 DEF Paid, Unseen
    <3>3. m = n + 1
      BY <2>1, <3>1, <3>2, FS_AddElement
    <3>4. Credit'[u] = Value(t, b)
      BY <1>2, <1>6, <2>3, CreditType DEF IInv
    <3>5. Credit'[u] \in Nat /\ Credit'[u] + Token =< Credit[u]
      BY <1>5, <2>3, <3>4
    <3> HIDE DEF n, m, full
    <3>6. Token * (n + 1) = Token * n + Token /\ Token * n \in Nat
      <4>1. 1 \in Nat
        OBVIOUS
      <4>2. Token * (n + 1) = Token * n + Token * 1 /\ Token * n \in Nat
        BY <2>1, <2>2, <4>1, Products
      <4> QED BY <2>2, <4>2
    <3>7. Token * m + Credit'[u] =< full
      BY <2>1, <2>2, <3>3, <3>5, <3>6
    <3> QED BY <3>7 DEF m, full
  <2>4. CASE u # t
    <3>1. Paid(u, k)' = Paid(u, k)
      BY <1>3, <1>7, <2>4 DEF Paid, Unseen
    <3>2. Credit'[u] = Credit[u]
      BY <1>6, <2>4, CreditType DEF IInv
    <3> QED BY <2>1, <3>1, <3>2
  <2> QED BY <2>3, <2>4
<1>11. IInv'
  BY <1>6, <1>7, <1>8, <1>9, <1>10 DEF IInv
<1> QED BY <1>2, <1>5, <1>6, <1>11 DEF t

(* The quota counts fewer than the maximum; what it does not see is paid   *)
(* for and younger than the lag.                                           *)
LEMMA PassStep ==
  ASSUME IInv, NEW c \in Call, Pass(c)
  PROVE  IInv'
<1> DEFINE t == calls[c].tenant
           r == [calls[c] EXCEPT !.at = "passed"]
<1>1. /\ Step(c, "admitted", r) /\ WithinQuota(t) /\ UNCHANGED <<buckets, told>>
      /\ "admitted" \in Stage
  BY DEF Pass, Stage
<1>2. BucketsOK' /\ ToldOK' /\ \A u \in Tenant : Credit'[u] =< Credit[u]
  BY <1>1, SameBuckets
<1>3. /\ calls[c] \in CallRec /\ Good(calls[c]) /\ calls[c].at = "admitted"
  BY <1>1 DEF IInv, CallsOK, Step
<1>4. /\ r \in CallRec /\ Good(r) /\ r.at = "passed" /\ r.tenant = t
      /\ r.age = calls[c].age /\ r.unchecked = calls[c].unchecked /\ t \in Tenant
      /\ calls[c].age =< Lag
  BY <1>3 DEF CallRec, Good, Stage, Unseen
<1> HIDE DEF t, r
<1>5. /\ CallsOK' /\ calls'[c] = r /\ \A d \in Call \ {c} : calls'[d] = calls[d]
  BY <1>1, <1>4, CallStep DEF IInv
<1>6. RateOK'
  <2>1. \A u \in Tenant : \A k \in 0 .. Lag : Paid(u, k)' \subseteq Paid(u, k)
    BY <1>3, <1>4, <1>5 DEF Paid, Unseen, t
  <2>2. Credit' \in [Tenant -> Nat]
    BY <1>2, NextCredit DEF CreditOK
  <2> QED BY <1>2, <2>1, <2>2, LessPaid
<1>7. ASSUME NEW u \in Tenant, Max(u) > 0
      PROVE  Cardinality(Checked(u)') =< Max(u) - 1 + Overshoot(u)
  <2>1. CASE u # t
    <3>1. Checked(u)' \subseteq Checked(u)
      BY <1>4, <1>5, <2>1 DEF Checked
    <3>2. /\ IsFiniteSet(Checked(u)) /\ Cardinality(Checked(u)) \in Nat
          /\ Cardinality(Checked(u)) =< Max(u) - 1 + Overshoot(u)
      BY <1>7, PaidIsFinite DEF IInv, OverOK
    <3>3. IsFiniteSet(Checked(u)') /\ Cardinality(Checked(u)') =< Cardinality(Checked(u))
      BY <3>1, <3>2, FS_Subset
    <3>4. Cardinality(Checked(u)') \in Nat
      BY <3>3, FS_CardinalityType
    <3> QED BY <3>2, <3>3, <3>4, OvershootType, Constants
  <2>2. CASE u = t
    <3> DEFINE S == Counted(u)
               P == Paid(u, Lag)
               n == Cardinality(P)
    <3>1. \A d \in Call : /\ calls[d] \in CallRec
                          /\ calls[d].at \in Unseen => calls[d].age =< Lag
      BY DEF IInv, CallsOK, Good
    <3>2. Checked(u)' \subseteq S \cup P
      BY <1>3, <1>4, <1>5, <2>2, <3>1 DEF Checked, Counted, Paid, Unseen, t
    <3>3. IsFiniteSet(S) /\ IsFiniteSet(P) /\ n \in Nat /\ Cardinality(S) \in Nat
      BY PaidIsFinite
    <3>4. Token * n + Credit[u] =< MaxCredit[u] + Rate(u) * Lag
      <4>1. Lag \in 0 .. Lag
        BY Constants
      <4> QED BY <1>4, <4>1 DEF IInv, RateOK
    <3>5. Cardinality(S) < Max(u)
      BY <1>1, <1>7, <2>2, <1>4, Constants DEF WithinQuota
    <3>6. /\ IsFiniteSet(S \cup P) /\ Cardinality(S \cup P) \in Nat
          /\ Cardinality(S \cup P) =< Cardinality(S) + n
      <4>1. /\ IsFiniteSet(S \cup P) /\ IsFiniteSet(S \cap P)
            /\ Cardinality(S \cup P) = Cardinality(S) + n - Cardinality(S \cap P)
        BY <3>3, FS_Union, FS_Intersection
      <4>2. Cardinality(S \cup P) \in Nat /\ Cardinality(S \cap P) \in Nat
        BY <4>1, FS_CardinalityType
      <4> QED BY <3>3, <4>1, <4>2
    <3>7. IsFiniteSet(Checked(u)') /\ Cardinality(Checked(u)') =< Cardinality(S \cup P)
      BY <3>2, <3>6, FS_Subset
    <3>8. Cardinality(Checked(u)') \in Nat
      BY <3>7, FS_CardinalityType
    <3> HIDE DEF n, S, P
    <3>9. n =< Overshoot(u)
      <4> DEFINE a == MaxCredit[u] + Rate(u) * Lag
      <4>1. a \in Nat /\ Token \in Nat \ {0} /\ Credit[u] \in Nat
        BY <1>4, Constants, CreditType DEF IInv
      <4> HIDE DEF a
      <4>2. Token * n \in Nat /\ Token * n =< a
        BY <3>3, <3>4, <4>1, Products DEF a
      <4>3. n =< a \div Token
        BY <3>3, <4>1, <4>2, Quotients
      <4> QED BY <4>3 DEF Overshoot, a
    <3>10. Overshoot(u) \in Nat /\ Max(u) \in Int
      BY <1>4, OvershootType, Constants
    <3>11. Cardinality(Checked(u)') =< Max(u) - 1 + Overshoot(u)
      BY <3>3, <3>5, <3>6, <3>7, <3>8, <3>9, <3>10
    <3> QED BY <3>11
  <2> QED BY <2>1, <2>2
<1>8. OverOK'
  BY <1>7 DEF OverOK, Overshoot, MaxCredit
<1> QED BY <1>2, <1>5, <1>6, <1>8 DEF IInv

LEMMA TickStep ==
  ASSUME IInv, Tick
  PROVE  IInv'
<1>1. /\ \A c \in Call : calls[c].at \in Aging => calls[c].age < Bound(calls[c].at)
      /\ calls' = [c \in Call |-> IF calls[c].at \in Aging
                                    THEN [calls[c] EXCEPT !.age = @ + 1] ELSE calls[c]]
      /\ buckets' = [t \in DOMAIN buckets |-> [buckets[t] EXCEPT !.age = Older(@)]]
      /\ told' = [t \in Tenant |-> IF told[t] > 0 THEN told[t] - 1 ELSE told[t]]
  BY DEF Tick
<1>2. /\ BucketsOK' /\ DOMAIN buckets' = DOMAIN buckets
      /\ \A t \in DOMAIN buckets : /\ buckets'[t].tokens = buckets[t].tokens
                                   /\ buckets'[t].age = Older(buckets[t].age)
      /\ \A t \in Tenant : Credit'[t] = Smaller(MaxCredit[t], Credit[t] + Rate(t))
  BY <1>1, TickCredit DEF IInv
<1>3. ASSUME NEW c \in Call
      PROVE  /\ calls'[c] \in CallRec /\ Good(calls'[c]) /\ calls'[c].at = calls[c].at
             /\ calls'[c].tenant = calls[c].tenant
             /\ calls'[c].unchecked = calls[c].unchecked
             /\ calls[c].age \in Nat
             /\ calls[c].at \in Unseen => calls'[c].age = calls[c].age + 1
  <2> DEFINE r == calls[c]
  <2>1. r \in CallRec /\ Good(r) /\ (r.at \in Aging => r.age < Bound(r.at))
        /\ Stall \in Nat /\ Lag \in Nat
    BY <1>1, Constants DEF IInv, CallsOK
  <2>2. calls'[c] = IF r.at \in Aging THEN [r EXCEPT !.age = @ + 1] ELSE r
    BY <1>1
  <2> HIDE DEF r
  <2>3. CASE r.at \in Aging
    <3>1. /\ r.age \in Nat /\ r.age + 1 \in Nat
          /\ r.at = "asked" => r.age + 1 =< Stall
          /\ r.at \in Unseen => r.age + 1 =< Lag
      BY <2>1, <2>3 DEF CallRec, Bound, Aging, Unseen
    <3>2. calls'[c] = [r EXCEPT !.age = r.age + 1]
      BY <2>2, <2>3
    <3> QED BY <2>1, <3>1, <3>2 DEF CallRec, Good, Unseen, r
  <2>4. CASE r.at \notin Aging
    BY <2>1, <2>2, <2>4 DEF CallRec, Unseen, Aging, r
  <2> QED BY <2>3, <2>4
<1>4. CallsOK'
  <2>1. calls' \in [Call -> CallRec]
    BY <1>1, <1>3
  <2> QED BY <1>3, <2>1 DEF CallsOK
<1>5. ToldOK'
  <2>1. told' \in [Tenant -> Nat \cup {Nothing}]
    BY <1>1 DEF IInv, ToldOK, Nothing
  <2>2. ASSUME NEW t \in DOMAIN buckets', told'[t] # Nothing
        PROVE  buckets'[t].tokens + Rate(t) * (buckets'[t].age + told'[t]) >= Token
    <3> DEFINE x == buckets[t].tokens
               a == buckets[t].age
               w == told[t]
               v == told'[t]
               r == Rate(t)
    <3>1. /\ t \in Tenant /\ t \in DOMAIN buckets /\ x \in Nat /\ a \in 0 .. Old
          /\ Old \in Nat /\ a \in Nat
      BY <1>2, Constants DEF IInv, BucketsOK, BucketRec
    <3>2. w \in Nat /\ v = IF w > 0 THEN w - 1 ELSE w
      BY <1>1, <2>2, <3>1 DEF IInv, ToldOK, Nothing
    <3>3. x + r * (a + w) >= Token
      BY <3>1, <3>2 DEF IInv, ToldOK, Nothing
    <3>4. buckets'[t].tokens = x /\ buckets'[t].age = Older(a)
      BY <1>2, <3>1
    <3>5. /\ r \in Nat /\ Token \in Nat /\ MaxCredit[t] \in Nat /\ Burst(t) \in Nat
          /\ MaxCredit[t] >= Token
      <4>1. /\ r \in Nat /\ Token \in Nat /\ MaxCredit[t] \in Nat /\ Burst(t) \in Nat
            /\ MaxCredit[t] = Burst(t) + r * Stall /\ r * Stall \in Nat
            /\ Token =< Burst(t)
        BY <3>1, Constants
      <4> QED BY <4>1
    <3>6. v \in Nat /\ Older(a) \in Nat
      BY <3>1, <3>2 DEF Older
    <3> HIDE DEF x, a, w, v, r
    <3>7. CASE a < Old
      <4>1. a + w \in Nat /\ Older(a) + v \in Nat /\ a + w =< Older(a) + v
        BY <3>1, <3>2, <3>6, <3>7 DEF Older
      <4>2. r * (a + w) =< r * (Older(a) + v) /\ r * (a + w) \in Nat
            /\ r * (Older(a) + v) \in Nat
        BY <3>5, <4>1, Products
      <4>3. x + r * (Older(a) + v) >= Token
        BY <3>1, <3>3, <3>5, <4>2
      <4> QED BY <3>4, <4>3 DEF v, r
    <3>8. CASE a = Old
      <4>1. Older(a) = Old /\ Older(a) + v \in Nat /\ Older(a) + v >= Idle
        BY <3>1, <3>6, <3>8, Constants DEF Older, Old
      <4>2. r * (Older(a) + v) >= MaxCredit[t]
        BY <3>1, <4>1, OldIsFull DEF r
      <4>3. r * (Older(a) + v) \in Nat
        BY <3>5, <4>1, Products
      <4>4. x + r * (Older(a) + v) >= Token
        BY <3>1, <3>5, <4>2, <4>3
      <4> QED BY <3>4, <4>4 DEF v, r
    <3> QED BY <3>1, <3>7, <3>8
  <2> QED BY <2>1, <2>2 DEF ToldOK
<1>6. RateOK'
  <2> SUFFICES ASSUME NEW t \in Tenant, NEW k \in 0 .. Lag
               PROVE  Token * Cardinality(Paid(t, k)') + Credit'[t]
                        =< MaxCredit[t] + Rate(t) * k
    BY DEF RateOK, MaxCredit
  <2> DEFINE m == Cardinality(Paid(t, k)')
             r == Rate(t)
             full == MaxCredit[t]
  <2>1. /\ Token \in Nat /\ r \in Nat /\ full \in Nat /\ Lag \in Nat /\ k \in Nat
        /\ Credit[t] \in Nat
    BY Constants, CreditType DEF IInv
  <2>2. /\ Credit'[t] \in Nat /\ Credit'[t] =< full /\ Credit'[t] =< Credit[t] + r
    BY <1>2, <2>1 DEF Smaller
  <2>3. CASE k = 0
    <3>1. Paid(t, k)' = {}
      BY <1>3, <2>3 DEF Paid
    <3>2. m = 0
      BY <3>1, FS_EmptySet
    <3> QED BY <2>1, <2>2, <2>3, <3>2
  <2>4. CASE k # 0
    <3> DEFINE j == k - 1
               n == Cardinality(Paid(t, j))
    <3>1. j \in 0 .. Lag /\ j \in Nat /\ k = j + 1
      BY <2>1, <2>4
    <3>2. Paid(t, k)' = Paid(t, j)
      BY <1>3, <3>1 DEF Paid
    <3>3. n \in Nat /\ Token * n + Credit[t] =< full + r * j /\ m = n
      BY <3>1, <3>2, PaidIsFinite DEF IInv, RateOK
    <3>4. r * k = r * j + r /\ r * j \in Nat
      <4>1. 1 \in Nat
        OBVIOUS
      <4>2. r * (j + 1) = r * j + r * 1 /\ r * j \in Nat
        BY <2>1, <3>1, <4>1, Products
      <4> QED BY <2>1, <3>1, <4>2
    <3>5. Token * n \in Nat
      BY <2>1, <3>3, Products
    <3> HIDE DEF n, m, r, full, j
    <3>6. Token * m + Credit'[t] =< full + r * k
      BY <2>1, <2>2, <3>3, <3>4, <3>5
    <3> QED BY <3>6 DEF m, full, r
  <2> QED BY <2>3, <2>4
<1>7. OverOK'
  <2>1. \A t \in Tenant : Checked(t)' \subseteq Checked(t)
    BY <1>3 DEF Checked
  <2> QED BY <2>1, LessChecked
<1> QED BY <1>2, <1>4, <1>5, <1>6, <1>7 DEF IInv

-----------------------------------------------------------------------------
LEMMA InitOK == Init => IInv
<1> SUFFICES ASSUME Init PROVE IInv
  OBVIOUS
<1>1. DOMAIN buckets = {} /\ buckets \in [{} -> BucketRec]
  BY DEF Init
<1>2. IsFiniteSet({}) /\ Cardinality({}) = 0
  BY FS_EmptySet
<1>3. BucketsOK
  BY <1>1, <1>2, Constants DEF BucketsOK
<1>4. \A c \in Call : calls[c] = NoCall
  BY DEF Init
<1>5. CallsOK
  <2>1. calls \in [Call -> CallRec]
    BY NoCallIsGood DEF Init
  <2> QED BY <1>4, <2>1, NoCallIsGood DEF CallsOK
<1>6. ToldOK
  BY <1>1 DEF Init, ToldOK
<1>7. \A t : Checked(t) = {} /\ \A k : Paid(t, k) = {}
  BY <1>4, NoCallIsGood DEF Checked, Paid, Unseen
<1>8. RateOK
  <2> SUFFICES ASSUME NEW t \in Tenant, NEW k \in 0 .. Lag
               PROVE  Token * Cardinality(Paid(t, k)) + Credit[t]
                        =< MaxCredit[t] + Rate(t) * k
    BY DEF RateOK
  <2>1. Cardinality(Paid(t, k)) = 0 /\ Credit[t] = MaxCredit[t]
    BY <1>1, <1>2, <1>3, <1>7, CreditType
  <2>2. Token \in Nat /\ MaxCredit[t] \in Nat /\ Rate(t) * k \in Nat
    BY Constants, Products
  <2> QED BY <2>1, <2>2
<1>9. OverOK
  <2> SUFFICES ASSUME NEW t \in Tenant, Max(t) > 0
               PROVE  Cardinality(Checked(t)) =< Max(t) - 1 + Overshoot(t)
    BY DEF OverOK
  <2>1. Cardinality(Checked(t)) = 0
    BY <1>2, <1>7
  <2>2. Overshoot(t) \in Nat /\ Max(t) \in Int
    BY OvershootType, Constants
  <2> QED BY <2>1, <2>2
<1> QED BY <1>3, <1>5, <1>6, <1>8, <1>9 DEF IInv

LEMMA StepKeeps == IInv /\ [Next]_vars => IInv'
<1> SUFFICES ASSUME IInv, [Next]_vars PROVE IInv'
  OBVIOUS
<1>1. ASSUME NEW c \in Call, Admit(c) PROVE IInv'
  BY <1>1, AdmitStep
<1>2. ASSUME NEW c \in Call, Refuse(c) PROVE IInv'
  BY <1>2, RefuseStep
<1>3. ASSUME NEW c \in Call, TurnAway(c) PROVE IInv'
  BY <1>3, TurnAwayStep
<1>4. ASSUME NEW c \in Call, Pass(c) PROVE IInv'
  BY <1>4, PassStep
<1>5. ASSUME NEW c \in Call,
             \/ \E t \in Tenant : Ask(c, t)
             \/ Exceed(c) \/ PassUnchecked(c) \/ Make(c) \/ Fail(c)
             \/ Show(c) \/ EndUnseen(c) \/ EndShown(c) \/ Forget(c)
      PROVE  IInv'
  BY <1>5, CallsKeep
<1>6. CASE Tick
  BY <1>6, TickStep
<1>7. CASE UNCHANGED vars
  BY <1>7 DEF vars, IInv, BucketsOK, CallsOK, ToldOK, RateOK, OverOK, Credit, MaxCredit,
              Paid, Checked, Overshoot
<1> QED BY <1>1, <1>2, <1>3, <1>4, <1>5, <1>6, <1>7 DEF Next

LEMMA Inductive == Spec => []IInv
BY InitOK, StepKeeps, PTL DEF Spec

-----------------------------------------------------------------------------
(* The table of the limiter never holds more than its bound, and no bucket *)
(* goes below zero, whatever calls find in it and however late they come.  *)
THEOREM TypeCorrect == Spec => []TypeOK
<1>1. IInv => TypeOK
  BY DEF IInv, BucketsOK, CallsOK, ToldOK, BucketRec, CallRec, TypeOK
<1> QED BY <1>1, Inductive, PTL

(* A tenant that waits as long as it was told is not refused by its bucket *)
(* unless another of its calls got through meanwhile (errRateLimited).     *)
THEOREM WaitingPays == Spec => []WaitIsEnough
<1>1. IInv => WaitIsEnough
  <2> SUFFICES ASSUME IInv, NEW t \in DOMAIN buckets, told[t] = 0
               PROVE  Bucket(t, 0).tokens >= Token
    BY DEF WaitIsEnough
  <2> DEFINE b == buckets[t]
             d == b.tokens + Rate(t) * b.age
  <2>1. /\ t \in Tenant /\ b.tokens \in Nat /\ b.age \in Nat /\ Rate(t) \in Nat
        /\ Token \in Nat /\ Burst(t) \in Nat /\ Token =< Burst(t)
    BY Constants DEF IInv, BucketsOK, BucketRec
  <2>2. b.tokens + Rate(t) * (b.age + 0) >= Token
    BY <2>1 DEF IInv, ToldOK, Nothing
  <2>3. Rate(t) * b.age \in Nat /\ d \in Nat /\ d >= Token /\ Rate(t) * 0 = 0
    <3> HIDE DEF b
    <3>1. Rate(t) * b.age \in Nat /\ Rate(t) * 0 = 0
      BY <2>1, Products
    <3>2. b.age + 0 = b.age
      BY <2>1
    <3> QED BY <2>1, <2>2, <3>1, <3>2
  <2>4. Bucket(t, 0) = Refilled(t, b, 0)
    BY DEF Bucket
  <2> HIDE DEF b
  <2>5. CASE b.age > 0
    <3>1. b.age - 0 = b.age
      BY <2>1
    <3>2. Bucket(t, 0).tokens = Smaller(Burst(t), d)
      BY <2>4, <2>5, <3>1 DEF Refilled
    <3> QED BY <2>1, <2>3, <3>2 DEF Smaller
  <2>6. CASE ~(b.age > 0)
    <3>1. b.age = 0 /\ Bucket(t, 0) = b
      BY <2>1, <2>4, <2>6 DEF Refilled
    <3> QED BY <2>1, <2>3, <3>1
  <2> QED BY <2>5, <2>6
<1> QED BY <1>1, Inductive, PTL

(* Calls that pass the quota together exceed it by no more than what the   *)
(* limiter admits while the cache does not show them (QuotaChecker.Check). *)
THEOREM OvershootIsPaid == Spec => []OvershootIsBounded
<1>1. IInv => OvershootIsBounded
  <2> SUFFICES ASSUME IInv, NEW t \in Tenant, Max(t) > 0
               PROVE  Cardinality({c \in Live(t) : ~calls[c].unchecked})
                        =< Max(t) - 1 + Overshoot(t)
    BY DEF OvershootIsBounded, Overshoot
  <2> DEFINE L == {c \in Live(t) : ~calls[c].unchecked}
  <2>1. L \subseteq Checked(t)
    BY DEF Live, Checked
  <2>2. /\ IsFiniteSet(Checked(t)) /\ Cardinality(Checked(t)) \in Nat
        /\ Cardinality(Checked(t)) =< Max(t) - 1 + Overshoot(t)
    BY PaidIsFinite DEF IInv, OverOK
  <2>3. IsFiniteSet(L) /\ Cardinality(L) =< Cardinality(Checked(t))
    BY <2>1, <2>2, FS_Subset
  <2>4. Cardinality(L) \in Nat
    BY <2>3, FS_CardinalityType
  <2> QED BY <2>2, <2>3, <2>4, OvershootType, Constants
<1> QED BY <1>1, Inductive, PTL

-----------------------------------------------------------------------------
(***************************************************************************)
(* Refinement: every step is one of the ideal bucket or changes nothing    *)
(* that it has.                                                            *)
(***************************************************************************)
AdmittedOf(t) == {c \in Call : calls[c].tenant = t /\ calls[c].at \notin {"none", "asked"}}

LEMMA AdmittedOfAll ==
  /\ Admitted = [t \in Tenant |-> AdmittedOf(t)]
  /\ Admitted' = [t \in Tenant |-> AdmittedOf(t)']
BY DEF Admitted, AdmittedOf

(* A call that changes alone and neither pays nor ends. *)
LEMMA StaysAdmitted ==
  ASSUME IInv, NEW c \in Call, NEW from \in Stage, NEW r \in CallRec, Step(c, from, r),
         \/ from \in {"none", "asked"} /\ r.at \in {"none", "asked"}
         \/ /\ from \notin {"none", "asked"} /\ r.at \notin {"none", "asked"}
            /\ r.tenant = calls[c].tenant
  PROVE  Admitted' = Admitted
<1>1. /\ calls[c].at = from /\ calls'[c] = r
      /\ \A d \in Call \ {c} : calls'[d] = calls[d]
  BY DEF IInv, CallsOK, Step
<1>2. \A t \in Tenant : AdmittedOf(t)' = AdmittedOf(t)
  BY <1>1 DEF AdmittedOf
<1> QED BY <1>2, AdmittedOfAll

LEMMA EndsAdmitted ==
  ASSUME IInv, NEW c \in Call, NEW from \in Stage \ {"none", "asked"},
         Step(c, from, NoCall), UNCHANGED buckets
  PROVE  \E t \in Tenant : Ideal!End(t, c)
<1> DEFINE t == calls[c].tenant
<1>1. /\ calls[c].at = from /\ calls'[c] = NoCall /\ t \in Tenant
      /\ \A d \in Call \ {c} : calls'[d] = calls[d]
  BY DEF IInv, CallsOK, Step, Good
<1> HIDE DEF t
<1>2. \A u \in Tenant : AdmittedOf(u)' = IF u = t THEN AdmittedOf(u) \ {c} ELSE AdmittedOf(u)
  BY <1>1, NoCallIsGood DEF AdmittedOf, t
<1>3. Admitted' = [Admitted EXCEPT ![t] = @ \ {c}]
  BY <1>1, <1>2, AdmittedOfAll
<1>4. Credit' = Credit
  BY DEF Credit
<1> QED BY <1>1, <1>3, <1>4 DEF Ideal!End

LEMMA RefinesInit == Init => Ideal!Init
<1> SUFFICES ASSUME Init PROVE Ideal!Init
  OBVIOUS
<1>1. Credit = MaxCredit
  BY DEF Init, Credit, MaxCredit
<1>2. \A t \in Tenant : AdmittedOf(t) = {}
  BY NoCallIsGood DEF Init, AdmittedOf
<1> QED BY <1>1, <1>2, AdmittedOfAll DEF Ideal!Init

LEMMA AdmitRefines ==
  ASSUME IInv, NEW c \in Call, Admit(c)
  PROVE  \E t \in Tenant : Ideal!Admit(t, c)
<1> DEFINE t == calls[c].tenant
           r == [calls[c] EXCEPT !.at = "admitted", !.age = 0]
<1>1. PICK n \in Nat : n + Token =< Credit[t] /\ Credit' = [Credit EXCEPT ![t] = n]
  BY AdmitStep
<1>2. t \in Tenant
  BY AdmitStep
<1>3. Step(c, "asked", r)
  BY DEF Admit
<1>4. r.at = "admitted" /\ r.tenant = t
  BY DEF IInv, CallsOK, CallRec
<1>5. /\ calls[c].at = "asked" /\ calls'[c] = r
      /\ \A d \in Call \ {c} : calls'[d] = calls[d]
  BY <1>3 DEF IInv, CallsOK, Step
<1> HIDE DEF r
<1>6. /\ c \notin AdmittedOf(t)
      /\ \A u \in Tenant : AdmittedOf(u)' = IF u = t THEN AdmittedOf(u) \cup {c}
                                                    ELSE AdmittedOf(u)
  BY <1>4, <1>5 DEF AdmittedOf
<1> HIDE DEF t
<1>7. Admitted' = [Admitted EXCEPT ![t] = @ \cup {c}] /\ c \notin Admitted[t]
  BY <1>2, <1>6, AdmittedOfAll
<1>8. n \in 0 .. Credit[t]
  <2>1. Credit[t] \in Nat /\ Token \in Nat
    BY <1>2, CreditType, Constants DEF IInv
  <2> QED BY <1>1, <2>1
<1> QED BY <1>1, <1>2, <1>7, <1>8 DEF Ideal!Admit

LEMMA RefinesStep == IInv /\ [Next]_vars => [Ideal!Next]_<<Credit, Admitted>>
<1> SUFFICES ASSUME IInv, [Next]_vars PROVE [Ideal!Next]_<<Credit, Admitted>>
  OBVIOUS
<1> USE DEF Ideal!Next
<1>1. ASSUME NEW c \in Call, Admit(c) PROVE Ideal!Next
  BY <1>1, AdmitRefines
<1>2. ASSUME NEW c \in Call, Refuse(c) PROVE Ideal!Next
  <2> DEFINE t == calls[c].tenant
  <2>1. PICK n \in Nat : n =< Credit[t] /\ Credit' = [Credit EXCEPT ![t] = n]
    BY <1>2, RefuseStep
  <2>2. t \in Tenant
    BY <1>2, RefuseStep
  <2>3. Admitted' = Admitted
    <3>1. Step(c, "asked", NoCall) /\ "asked" \in Stage
      BY <1>2 DEF Refuse, Stage
    <3> QED BY <3>1, StaysAdmitted, NoCallIsGood
  <2>4. n \in 0 .. Credit[t]
    <3>1. Credit[t] \in Nat
      BY <2>2, CreditType DEF IInv
    <3> QED BY <2>1, <3>1
  <2> HIDE DEF t
  <2> QED BY <2>1, <2>2, <2>3, <2>4 DEF Ideal!Forfeit
<1>3. ASSUME NEW c \in Call, TurnAway(c) PROVE UNCHANGED <<Credit, Admitted>>
  <2>1. Step(c, "asked", NoCall) /\ "asked" \in Stage /\ Credit' = Credit
    BY <1>3, TurnAwayStep DEF TurnAway, Stage
  <2> QED BY <2>1, StaysAdmitted, NoCallIsGood
<1>4. ASSUME NEW c \in Call, NEW t \in Tenant, Ask(c, t)
      PROVE  UNCHANGED <<Credit, Admitted>>
  <2> DEFINE r == Fresh("asked", t)
  <2>1. Step(c, "none", r) /\ "none" \in Stage /\ UNCHANGED buckets
    BY <1>4 DEF Ask, Stage
  <2>2. r \in CallRec /\ r.at = "asked"
    BY DEF Fresh, CallRec, Stage
  <2> HIDE DEF r
  <2>3. Admitted' = Admitted
    BY <2>1, <2>2, StaysAdmitted
  <2> QED BY <2>1, <2>3 DEF Credit
<1>5. ASSUME NEW c \in Call, NEW from \in Stage, NEW to \in Stage, NEW r \in CallRec,
             from \notin {"none", "asked"}, to \notin {"none", "asked"},
             r.at = to, r.tenant = calls[c].tenant, Step(c, from, r), UNCHANGED buckets
      PROVE  UNCHANGED <<Credit, Admitted>>
  BY <1>5, StaysAdmitted DEF Credit
<1>6. ASSUME NEW c \in Call,
             Pass(c) \/ PassUnchecked(c) \/ Make(c) \/ Show(c) \/ EndShown(c)
      PROVE  UNCHANGED <<Credit, Admitted>>
  <2>1. calls[c] \in CallRec /\ 0 \in Nat
    BY DEF IInv, CallsOK
  <2>3. {"admitted", "passed", "made", "shown", "ended"} \subseteq Stage
    BY DEF Stage
  <2>4. CASE Pass(c)
    <3> DEFINE r == [calls[c] EXCEPT !.at = "passed"]
    <3>1. Step(c, "admitted", r) /\ UNCHANGED buckets
      BY <2>4 DEF Pass
    <3>2. r \in CallRec /\ r.at = "passed" /\ r.tenant = calls[c].tenant
      BY <2>1, <2>3 DEF CallRec
    <3> HIDE DEF r
    <3> QED BY <1>5, <2>3, <3>1, <3>2
  <2>5. CASE PassUnchecked(c)
    <3> DEFINE r == [calls[c] EXCEPT !.at = "passed", !.unchecked = TRUE]
    <3>1. r \in CallRec /\ r.at = "passed" /\ r.tenant = calls[c].tenant
      BY <2>1, <2>3 DEF CallRec
    <3>2. Step(c, "admitted", r) /\ UNCHANGED buckets
      BY <2>5 DEF PassUnchecked
    <3> HIDE DEF r
    <3> QED BY <1>5, <2>3, <3>1, <3>2
  <2>6. CASE Make(c)
    <3> DEFINE r == [calls[c] EXCEPT !.at = "made"]
    <3>1. Step(c, "passed", r) /\ UNCHANGED buckets
      BY <2>6 DEF Make
    <3>2. r \in CallRec /\ r.at = "made" /\ r.tenant = calls[c].tenant
      BY <2>1, <2>3 DEF CallRec
    <3> HIDE DEF r
    <3> QED BY <1>5, <2>3, <3>1, <3>2
  <2>7. CASE Show(c)
    <3> DEFINE r == [calls[c] EXCEPT !.at = "shown", !.age = 0]
    <3>1. r \in CallRec /\ r.at = "shown" /\ r.tenant = calls[c].tenant
      BY <2>1, <2>3 DEF CallRec
    <3>2. Step(c, "made", r) /\ UNCHANGED buckets
      BY <2>7 DEF Show
    <3> HIDE DEF r
    <3> QED BY <1>5, <2>3, <3>1, <3>2
  <2>8. CASE EndShown(c)
    <3> DEFINE r == [calls[c] EXCEPT !.at = "ended"]
    <3>1. Step(c, "shown", r) /\ UNCHANGED buckets
      BY <2>8 DEF EndShown
    <3>2. r \in CallRec /\ r.at = "ended" /\ r.tenant = calls[c].tenant
      BY <2>1, <2>3 DEF CallRec
    <3> HIDE DEF r
    <3> QED BY <1>5, <2>3, <3>1, <3>2
  <2> QED BY <1>6, <2>4, <2>5, <2>6, <2>7, <2>8
<1>7. ASSUME NEW c \in Call, Exceed(c) \/ Fail(c) \/ EndUnseen(c) \/ Forget(c)
      PROVE  Ideal!Next
  <2>1. {"admitted", "passed", "made", "ended"} \subseteq Stage \ {"none", "asked"}
    BY DEF Stage
  <2> QED BY <1>7, <2>1, EndsAdmitted DEF Exceed, Fail, EndUnseen, Forget
<1>8. ASSUME Tick PROVE Ideal!Next
  <2>1. \A t \in Tenant : Credit'[t] = Smaller(MaxCredit[t], Credit[t] + Rate(t))
    BY <1>8, TickCredit DEF IInv, Tick
  <2>2. \A t \in Tenant : /\ Credit[t] \in Nat /\ MaxCredit[t] \in Nat /\ Rate(t) \in Nat
    BY CreditType, Constants DEF IInv
  <2>3. \A t \in Tenant : Credit'[t] = Ideal!Capped(t, Credit[t] + Rate(t))
    BY <2>1, <2>2 DEF Smaller, Ideal!Capped
  <2>4. Credit' = [t \in Tenant |-> Credit'[t]]
    BY DEF Credit
  <2>5. Credit' = [t \in Tenant |-> Ideal!Capped(t, Credit[t] + [u \in Tenant |-> Rate(u)][t])]
    BY <2>3, <2>4
  <2>6. \A t \in Tenant : AdmittedOf(t)' = AdmittedOf(t)
    <3>1. \A c \in Call : /\ calls'[c].at = calls[c].at
                          /\ calls'[c].tenant = calls[c].tenant
      BY <1>8 DEF Tick, IInv, CallsOK, CallRec
    <3> QED BY <3>1 DEF AdmittedOf
  <2>7. Admitted' = Admitted
    BY <2>6, AdmittedOfAll
  <2> QED BY <2>5, <2>7 DEF Ideal!Tick
<1>9. CASE UNCHANGED vars
  BY <1>9 DEF vars, Credit, Admitted
<1> QED BY <1>1, <1>2, <1>3, <1>4, <1>6, <1>7, <1>8, <1>9 DEF Next

(* However late calls get the lock and whichever buckets are evicted, the  *)
(* limiter gives no tenant more than the ideal bucket does (Allow).        *)
THEOREM LimiterRefinesBucket == Spec => SpendsOnlyCredit
<1>1. Spec => Ideal!Init
  BY RefinesInit, PTL DEF Spec
<1>2. Spec => [][Ideal!Next]_<<Credit, Admitted>>
  BY Inductive, RefinesStep, PTL DEF Spec
<1> QED BY <1>1, <1>2, PTL DEF SpendsOnlyCredit, Ideal!Spec

-----------------------------------------------------------------------------
(***************************************************************************)
(* A meter beside the limiter: it starts in any state of a replica, counts *)
(* the calls that are admitted for each tenant, and the seconds.           *)
(***************************************************************************)
VARIABLES spent, elapsed

Admits(t) == \E c \in Call : Admit(c) /\ calls[c].tenant = t

MeteredNext ==
  /\ Next
  /\ spent' = [t \in Tenant |-> spent[t] + IF Admits(t) THEN 1 ELSE 0]
  /\ elapsed' = elapsed + IF Tick THEN 1 ELSE 0

Metered ==
  /\ spent = [t \in Tenant |-> 0] /\ elapsed = 0
  /\ [][MeteredNext]_<<vars, spent, elapsed>>

(* A burst, what is earned meanwhile, and what calls that read the clock   *)
(* early may take ahead of time: never more, however the table is evicted  *)
(* and in whatever order calls get the lock.                               *)
WithinWindow ==
  \A t \in Tenant :
    Token * spent[t] =< Burst(t) + Rate(t) * Stall + Rate(t) * elapsed

MeterInv ==
  /\ spent \in [Tenant -> Nat] /\ elapsed \in Nat
  /\ \A t \in Tenant :
       Token * spent[t] + Credit[t] =< MaxCredit[t] + Rate(t) * elapsed

(* What a step does to the credit of one tenant. *)
LEMMA CreditStep ==
  ASSUME IInv, [Next]_vars, NEW t \in Tenant
  PROVE  /\ Credit[t] \in Nat /\ Credit'[t] \in Nat
         /\ Admits(t) => Credit'[t] + Token =< Credit[t]
         /\ Credit'[t] =< Credit[t] \/ (Tick /\ Credit'[t] =< Credit[t] + Rate(t))
<1>1. /\ Credit \in [Tenant -> Nat] /\ Credit[t] \in Nat /\ Credit'[t] \in Nat
      /\ Rate(t) \in Nat /\ MaxCredit[t] \in Nat /\ Token \in Nat
  BY StepKeeps, CreditIsNat, NextCredit, Constants DEF IInv, CreditOK
<1>2. ASSUME NEW c \in Call, Admit(c)
      PROVE  /\ Credit'[t] =< Credit[t]
             /\ calls[c].tenant = t => Credit'[t] + Token =< Credit[t]
  <2>1. PICK n \in Nat : /\ n + Token =< Credit[calls[c].tenant]
                         /\ Credit' = [Credit EXCEPT ![calls[c].tenant] = n]
    BY <1>2, AdmitStep
  <2> QED BY <1>1, <2>1
<1>3. ASSUME NEW c \in Call, Refuse(c) PROVE Credit'[t] =< Credit[t]
  <2>1. PICK n \in Nat : /\ n =< Credit[calls[c].tenant]
                         /\ Credit' = [Credit EXCEPT ![calls[c].tenant] = n]
    BY <1>3, RefuseStep
  <2> QED BY <1>1, <2>1
<1>4. ASSUME NEW c \in Call, TurnAway(c) PROVE Credit'[t] =< Credit[t]
  BY <1>1, <1>4, TurnAwayStep
<1>5. ASSUME UNCHANGED buckets PROVE Credit'[t] =< Credit[t]
  <2>1. Credit' = Credit
    BY <1>5 DEF Credit
  <2> QED BY <1>1, <2>1
<1>6. ASSUME NEW c \in Call,
             \/ \E u \in Tenant : Ask(c, u)
             \/ Pass(c) \/ Exceed(c) \/ PassUnchecked(c) \/ Make(c) \/ Fail(c)
             \/ Show(c) \/ EndUnseen(c) \/ EndShown(c) \/ Forget(c)
      PROVE  Credit'[t] =< Credit[t]
  BY <1>5, <1>6
     DEF Ask, Pass, Exceed, PassUnchecked, Make, Fail, Show, EndUnseen, EndShown, Forget
<1>7. CASE Tick
  <2>1. Credit'[t] = Smaller(MaxCredit[t], Credit[t] + Rate(t))
    BY <1>7, TickCredit DEF IInv, Tick
  <2> QED BY <1>1, <1>2, <1>7, <2>1 DEF Smaller, Admits
<1>8. CASE UNCHANGED vars
  BY <1>1, <1>2, <1>5, <1>8 DEF vars, Admits
<1> QED BY <1>1, <1>2, <1>3, <1>4, <1>6, <1>7, <1>8 DEF Next, Admits

LEMMA MeterStep ==
  ASSUME IInv, MeterInv, [MeteredNext]_<<vars, spent, elapsed>>
  PROVE  IInv' /\ MeterInv'
<1>1. [Next]_vars
  BY DEF MeteredNext
<1>2. IInv'
  BY <1>1, StepKeeps
<1>3. CASE MeteredNext
  <2>1. spent' \in [Tenant -> Nat] /\ elapsed' \in Nat
    BY <1>3 DEF MeteredNext, MeterInv
  <2>2. ASSUME NEW t \in Tenant
        PROVE  Token * spent'[t] + Credit'[t] =< MaxCredit'[t] + Rate(t) * elapsed'
    <3> DEFINE a == IF Admits(t) THEN 1 ELSE 0
               e == IF Tick THEN 1 ELSE 0
    <3>1. /\ Token \in Nat /\ Rate(t) \in Nat /\ MaxCredit[t] \in Nat
          /\ MaxCredit'[t] = MaxCredit[t]
      BY Constants DEF MaxCredit
    <3>2. /\ spent[t] \in Nat /\ elapsed \in Nat
          /\ spent'[t] = spent[t] + a /\ elapsed' = elapsed + e
          /\ Token * spent[t] + Credit[t] =< MaxCredit[t] + Rate(t) * elapsed
      BY <1>3 DEF MeteredNext, MeterInv
    <3>3. a \in {0, 1} /\ e \in {0, 1}
      OBVIOUS
    <3>4. /\ Token * (spent[t] + a) = Token * spent[t] + Token * a
          /\ Rate(t) * (elapsed + e) = Rate(t) * elapsed + Rate(t) * e
          /\ Token * spent[t] \in Nat /\ Rate(t) * elapsed \in Nat
          /\ Token * 1 = Token /\ Token * 0 = 0
          /\ Rate(t) * 1 = Rate(t) /\ Rate(t) * 0 = 0
      <4>1. a \in Nat /\ e \in Nat
        BY <3>3
      <4> HIDE DEF a, e
      <4>2. /\ Token * (spent[t] + a) = Token * spent[t] + Token * a
            /\ Token * spent[t] \in Nat /\ Token * 1 = Token /\ Token * 0 = 0
        BY <3>1, <3>2, <4>1, Products
      <4>3. /\ Rate(t) * (elapsed + e) = Rate(t) * elapsed + Rate(t) * e
            /\ Rate(t) * elapsed \in Nat /\ Rate(t) * 1 = Rate(t) /\ Rate(t) * 0 = 0
        BY <3>1, <3>2, <4>1, Products
      <4> QED BY <4>2, <4>3
    <3>5. /\ Credit[t] \in Nat /\ Credit'[t] \in Nat
          /\ Credit'[t] + Token * a =< Credit[t] + Rate(t) * e
      <4>1. /\ Credit[t] \in Nat /\ Credit'[t] \in Nat
            /\ a = 1 => Credit'[t] + Token =< Credit[t]
            /\ Credit'[t] =< Credit[t] \/ (e = 1 /\ Credit'[t] =< Credit[t] + Rate(t))
        BY <1>1, CreditStep
      <4> HIDE DEF a, e
      <4>2. Token * a = IF a = 1 THEN Token ELSE 0
        BY <3>3, <3>4
      <4>3. Rate(t) * e = IF e = 1 THEN Rate(t) ELSE 0
        BY <3>3, <3>4
      <4> DEFINE p == Token * a
                 q == Rate(t) * e
      <4> HIDE DEF p, q
      <4>4. Credit'[t] + p =< Credit[t] + q
        BY <3>1, <4>1, <4>2, <4>3 DEF p, q
      <4> QED BY <4>1, <4>4 DEF p, q
    <3> HIDE DEF a, e
    <3>6. Token * a \in Nat /\ Rate(t) * e \in Nat
      <4>1. a \in Nat /\ e \in Nat /\ Token \in Nat /\ Rate(t) \in Nat
        BY <3>1, <3>3
      <4>2. Token * a \in Nat
        BY <4>1, Products
      <4>3. Rate(t) * e \in Nat
        BY <4>1, Products
      <4> QED BY <4>2, <4>3
    <3> DEFINE x == Token * spent[t]
               y == Rate(t) * elapsed
    <3>7. x \in Nat /\ y \in Nat /\ x + Credit[t] =< MaxCredit[t] + y
      BY <3>2, <3>4
    <3>8. Token * spent'[t] = x + Token * a /\ Rate(t) * elapsed' = y + Rate(t) * e
      BY <3>2, <3>4
    <3> HIDE DEF x, y
    <3> QED BY <3>1, <3>5, <3>6, <3>7, <3>8
  <2> QED BY <1>2, <2>1, <2>2 DEF MeterInv
<1>4. CASE UNCHANGED <<vars, spent, elapsed>>
  <2>1. Credit' = Credit /\ MaxCredit' = MaxCredit
    BY <1>4 DEF vars, Credit, MaxCredit
  <2>2. spent' = spent /\ elapsed' = elapsed
    BY <1>4
  <2>3. MeterInv'
    BY <2>1, <2>2, Zenon DEF MeterInv
  <2> QED BY <1>2, <2>3
<1> QED BY <1>2, <1>3, <1>4

(* In any n seconds of its life a replica admits no more calls of a tenant *)
(* than (burst + rate * (Stall + n)) / Token (RateLimiter.Allow).          *)
THEOREM WindowIsBounded == Spec => [](Metered => []WithinWindow)
<1>1. IInv /\ spent = [t \in Tenant |-> 0] /\ elapsed = 0 => MeterInv
  <2> SUFFICES ASSUME IInv, spent = [t \in Tenant |-> 0], elapsed = 0 PROVE MeterInv
    OBVIOUS
  <2>1. ASSUME NEW t \in Tenant
        PROVE  Token * spent[t] + Credit[t] =< MaxCredit[t] + Rate(t) * elapsed
    <3>1. /\ Credit[t] \in Nat /\ MaxCredit[t] \in Nat /\ Credit[t] =< MaxCredit[t]
      BY CreditType, Constants DEF IInv, CreditOK
    <3>2. Token * spent[t] = 0 /\ Rate(t) * elapsed = 0
      <4>1. Token \in Nat /\ Rate(t) \in Nat /\ spent[t] = 0
        BY Constants
      <4> QED BY <4>1, Products
    <3> QED BY <3>1, <3>2
  <2> QED BY <2>1 DEF MeterInv
<1>2. IInv /\ MeterInv => WithinWindow
  <2> SUFFICES ASSUME IInv, MeterInv, NEW t \in Tenant
               PROVE  Token * spent[t] =< Burst(t) + Rate(t) * Stall + Rate(t) * elapsed
    BY DEF WithinWindow
  <2> DEFINE x == Token * spent[t]
             y == Rate(t) * elapsed
             m == MaxCredit[t]
  <2>1. m = Burst(t) + Rate(t) * Stall /\ m \in Nat
    BY Constants
  <2>2. x \in Nat /\ y \in Nat /\ Credit[t] \in Nat /\ x + Credit[t] =< m + y
    BY CreditType, Constants, Products DEF MeterInv, IInv
  <2> HIDE DEF x, y, m
  <2>3. x =< m + y
    BY <2>1, <2>2
  <2> QED BY <2>1, <2>3 DEF x, y
<1>3. IInv /\ Metered => []WithinWindow
  BY <1>1, <1>2, MeterStep, PTL DEF Metered
<1> QED BY <1>3, Inductive, PTL
=============================================================================
