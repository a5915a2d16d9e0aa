------------------------- MODULE PoolControllerProof -------------------------
(* What is proved of PoolController and of the decision it follows.        *)
EXTENDS PoolController, FiniteSetTheorems, SequenceTheorems, TLAPS

-----------------------------------------------------------------------------
(***************************************************************************)
(* The decision, for every specification and every observation.            *)
(***************************************************************************)

(* The limits on a step are positive, whatever the specification says.     *)
LEMMA LimitsArePositive ==
  ASSUME NEW sc \in ScalingSpec, NEW o \in Observed
  PROVE  /\ MaxProvision(sc) \in Nat \ {0} /\ MaxReclaim(sc) \in Nat \ {0}
         /\ LimitUp(sc, o) \in 1 .. MaxProvision(sc)
<1>1. MaxProvision(sc) \in Nat \ {0} /\ MaxReclaim(sc) \in Nat \ {0}
  BY DEF ScalingSpec, MaxProvision, MaxReclaim, Effective
<1>2. ASSUME NEW n \in Nat \ {0}, NEW p \in Int
      PROVE  ThrottleScaleUp(n, p) \in 1 .. n
  <2>1. CASE p \in 1 .. 999
    <3> DEFINE q == CeilDiv(n * p, 1000)
    <3>1. q \in Int
      BY <2>1 DEF CeilDiv
    <3>2. ThrottleScaleUp(n, p) = Clamp(q, 1, n)
      BY <2>1 DEF ThrottleScaleUp
    <3> HIDE DEF q
    <3> QED BY <3>1, <3>2 DEF Clamp
  <2>2. CASE p \notin 1 .. 999
    BY <2>2 DEF ThrottleScaleUp
  <2> QED BY <2>1, <2>2
<1>3. Effective(sc.throttle, 500) \in Int
  BY DEF ScalingSpec, Effective
<1>4. LimitUp(sc, o) = IF o.protect
          THEN ThrottleScaleUp(MaxProvision(sc), Effective(sc.throttle, 500))
          ELSE MaxProvision(sc)
  BY DEF LimitUp
<1> DEFINE n == MaxProvision(sc)
           p == Effective(sc.throttle, 500)
<1>5. ThrottleScaleUp(n, p) \in 1 .. n
  BY <1>1, <1>2, <1>3
<1>6. n \in 1 .. n
  BY <1>1
<1>7. LimitUp(sc, o) \in 1 .. n
  BY <1>4, <1>5, <1>6
<1> QED BY <1>1, <1>7

LEMMA DemandIsInt ==
  ASSUME NEW sc \in ScalingSpec, NEW o \in Observed
  PROVE  Demand(sc, o) \in Int
<1> DEFINE a == Clamp(sc.alpha, 50, 1000)
           i == o.claimRate * Effective(sc.replenish, 90)
<1>1. a \in Int /\ Effective(sc.replenish, 90) \in Int
  BY DEF ScalingSpec, Clamp, Effective
<1>2. \A x, y \in Int : x * y \in Int
  OBVIOUS
<1>3. o.claimRate \in Int /\ o.demand \in Int
  BY DEF Observed
<1>4. i \in Int
  BY <1>1, <1>2, <1>3
<1>5. Demand(sc, o) = a * i + (1000 - a) * o.demand
  BY DEF Demand
<1> HIDE DEF a, i
<1>6. 1000 - a \in Int
  BY <1>1
<1>7. a * i \in Int /\ (1000 - a) * o.demand \in Int
  BY <1>1, <1>2, <1>3, <1>4, <1>6
<1> QED BY <1>5, <1>7

(* The target is a number, and no more than maxWarm if that is set.        *)
LEMMA TargetIsCapped ==
  ASSUME NEW sc \in ScalingSpec, NEW o \in Observed
  PROVE  /\ Target(sc, o) \in Int
         /\ sc.maxWarm > 0 => Target(sc, o) =< sc.maxWarm
<1> DEFINE w == Wanted(sc, o)
<1>1. w \in Int
  <2>3. Demand(sc, o) \in Int
    BY DemandIsInt
  <2>4. Feedback(sc, o) \in Int
    BY DEF Feedback, Clamp, ScalingSpec, Observed
  <2>5. \A a, b \in Int : a * b \in Int
    OBVIOUS
  <2>6. Demand(sc, o) * Feedback(sc, o) \in Int
    BY <2>3, <2>4, <2>5
  <2>7. sc.minWarm * Million \in Int /\ WarmBuffer(sc) * Million \in Int
    BY DEF ScalingSpec, Million, WarmBuffer, Effective
  <2> QED BY <2>6, <2>7 DEF Wanted, Larger
<1>2. sc.maxWarm \in Nat
  BY DEF ScalingSpec
<1>3. CASE CappedByMaxWarm(sc, o)
  BY <1>2, <1>3 DEF Target
<1>4. CASE ~CappedByMaxWarm(sc, o)
  <2>1. Target(sc, o) = (2 * w + 1000000) \div 2000000
    BY <1>4 DEF Target, Rounded, Million
  <2>2. sc.maxWarm > 0 => w =< sc.maxWarm * 1000000
    BY <1>1, <1>2, <1>4 DEF CappedByMaxWarm, Million
  <2> HIDE DEF w
  <2> QED BY <1>1, <1>2, <2>1, <2>2
<1> QED BY <1>3, <1>4

(* DecideScaling keeps to the rate limits; a step up does not pass the     *)
(* target, nor the target maxWarm; a step down leaves minWarm; and there   *)
(* is no step while the pool drains, is paused or is frozen.               *)
THEOREM ScalingIsSafe ==
  ASSUME NEW sc \in ScalingSpec, NEW o \in Observed
  PROVE  LET d == DecideScaling(sc, o)
         IN  /\ d.delta \in -MaxReclaim(sc) .. LimitUp(sc, o) /\ d.demand \in Int
             /\ d.delta > 0 => /\ o.warm + o.inflight + d.delta =< Target(sc, o)
                               /\ sc.maxWarm > 0 => Target(sc, o) =< sc.maxWarm
             /\ d.delta < 0 => o.warm + d.delta >= sc.minWarm
             /\ d.delta # 0 => ~sc.drain /\ ~sc.paused /\ ~Frozen(o)
<1> DEFINE gap == Gap(sc, o)
           rec == MaxReclaim(sc)
           lim == LimitUp(sc, o)
<1>1. rec \in Nat \ {0} /\ lim \in Nat \ {0}
  BY LimitsArePositive
<1>2. /\ o.warm \in Nat /\ o.inflight \in Nat /\ sc.minWarm \in Nat
      /\ o.headroom \in Int /\ o.demand \in Int
  BY DEF ScalingSpec, Observed
<1>3. gap \in Int /\ gap = Target(sc, o) - (o.warm + o.inflight)
  BY <1>2, TargetIsCapped DEF Gap
<1>4. Demand(sc, o) \in Int
  BY DemandIsInt
<1>5. Rounded(Demand(sc, o), 1000) \in Int
  BY <1>4 DEF Rounded
<1> HIDE DEF gap, rec, lim
<1>6. Suppression(sc, o, gap) = "None" => ~Frozen(o)
  BY DEF Suppression
<1> DEFINE step == Limited(sc, o, gap)
<1>7. /\ step \in -rec .. lim
      /\ step > 0 => step =< gap
  BY <1>1, <1>2, <1>3 DEF Limited, NodeRoom, Clamp, Smaller, rec, lim
<1>8. Delta(sc, o, gap) = IF step < 0 /\ o.warm + step < sc.minWarm
                            THEN -Larger(0, o.warm - sc.minWarm) ELSE step
  BY DEF Delta, BelowFloor
<1> HIDE DEF step
<1> DEFINE dl == Delta(sc, o, gap)
<1>9. /\ dl \in -rec .. lim
      /\ dl > 0 => dl =< gap
      /\ dl < 0 => o.warm + dl >= sc.minWarm
  BY <1>1, <1>2, <1>7, <1>8 DEF Larger
<1> HIDE DEF dl
<1>10. CASE sc.drain \/ sc.paused
  <2>1. /\ DecideScaling(sc, o).delta = 0
        /\ DecideScaling(sc, o).demand = o.demand
    BY <1>10 DEF DecideScaling, Hold
  <2> QED BY <2>1, <1>1, <1>2 DEF rec, lim
<1>11. CASE ~sc.drain /\ ~sc.paused
  <2>1. /\ DecideScaling(sc, o).delta = IF Suppression(sc, o, gap) = "None"
                                          THEN dl ELSE 0
        /\ DecideScaling(sc, o).demand = Rounded(Demand(sc, o), 1000)
    BY <1>3, <1>11 DEF DecideScaling, gap, dl
  <2> QED BY <2>1, <1>1, <1>2, <1>3, <1>5, <1>6, <1>9, <1>11, TargetIsCapped
          DEF rec, lim
<1> QED BY <1>10, <1>11

(* The target covers minWarm and the buffer, unless maxWarm is less.       *)
THEOREM TargetCoversFloor ==
  ASSUME NEW sc \in ScalingSpec, NEW o \in Observed
  PROVE  \/ Target(sc, o) >= sc.minWarm + WarmBuffer(sc)
         \/ sc.maxWarm > 0 /\ Target(sc, o) = sc.maxWarm
<1> DEFINE m == sc.minWarm
           b == WarmBuffer(sc)
           x == Demand(sc, o) * Feedback(sc, o)
<1>1. m \in Nat /\ b \in Nat
  BY DEF ScalingSpec, WarmBuffer, Effective
<1>2. x \in Int
  <2>1. Demand(sc, o) \in Int
    BY DemandIsInt
  <2>2. Feedback(sc, o) \in Int
    BY DEF Feedback, Clamp, ScalingSpec, Observed
  <2>3. \A i, j \in Int : i * j \in Int
    OBVIOUS
  <2> QED BY <2>1, <2>2, <2>3
<1>3. Wanted(sc, o) = Larger(m * 1000000, x) + b * 1000000
  BY DEF Wanted, Million
<1>4. CASE CappedByMaxWarm(sc, o)
  BY <1>4 DEF CappedByMaxWarm, Target
<1>5. CASE ~CappedByMaxWarm(sc, o)
  <2> DEFINE w == Wanted(sc, o)
  <2>1. Target(sc, o) = (2 * w + 1000000) \div 2000000
    BY <1>5 DEF Target, Rounded, Million
  <2> HIDE DEF m, b, x
  <2>2. w \in Int /\ w >= (m + b) * 1000000
    BY <1>1, <1>2, <1>3 DEF Larger
  <2> HIDE DEF w
  <2>3. (2 * w + 1000000) \div 2000000 >= m + b
    BY <1>1, <2>2
  <2> QED BY <2>1, <2>3 DEF m, b
<1> QED BY <1>4, <1>5

(* What a step of the decision leaves to do. *)
AfterStep(o, n) == IF n > 0 THEN [o EXCEPT !.inflight = @ + n]
                            ELSE [o EXCEPT !.warm = @ + n]

(* Through all clamps a step goes towards the target and not past it, so   *)
(* that each round that acts leaves a smaller gap than it found.           *)
THEOREM StepsApproachTarget ==
  ASSUME NEW sc \in ScalingSpec, NEW o \in Observed
  PROVE  LET n    == DecideScaling(sc, o).delta
             rest == Gap(sc, AfterStep(o, n))
         IN  /\ AfterStep(o, n) \in Observed
             /\ rest = Gap(sc, o) - n
             /\ n > 0 => rest >= 0
             /\ n < 0 => rest =< 0
             /\ n # 0 => Abs(rest) < Abs(Gap(sc, o))
<1> DEFINE gap == Gap(sc, o)
           n   == DecideScaling(sc, o).delta
           rec == MaxReclaim(sc)
           lim == LimitUp(sc, o)
           o2  == AfterStep(o, n)
<1>1. rec \in Nat \ {0} /\ lim \in Nat \ {0}
  BY LimitsArePositive
<1>2. /\ o.warm \in Nat /\ o.inflight \in Nat /\ sc.minWarm \in Nat
      /\ o.headroom \in Int
  BY DEF ScalingSpec, Observed
<1>3. gap \in Int /\ gap = Target(sc, o) - (o.warm + o.inflight)
  BY <1>2, TargetIsCapped DEF Gap
<1>4. /\ n \in Int
      /\ n > 0 => n =< gap
      /\ n < 0 => gap =< n /\ o.warm + n >= 0
  <2> DEFINE step == Limited(sc, o, gap)
             dl   == Delta(sc, o, gap)
  <2> HIDE DEF gap, rec, lim
  <2>1. /\ step \in Int
        /\ step > 0 => step =< gap
        /\ step < 0 => gap =< step
    BY <1>1, <1>2, <1>3 DEF Limited, NodeRoom, Clamp, Smaller, rec, lim
  <2>2. dl = IF step < 0 /\ o.warm + step < sc.minWarm
               THEN -Larger(0, o.warm - sc.minWarm) ELSE step
    BY DEF Delta, BelowFloor
  <2> HIDE DEF step
  <2>3. /\ dl \in Int
        /\ dl > 0 => dl =< gap
        /\ dl < 0 => gap =< dl /\ o.warm + dl >= 0
    BY <1>2, <1>3, <2>1, <2>2 DEF Larger
  <2> HIDE DEF dl
  <2>4. n = 0 \/ n = dl
    <3>1. CASE sc.drain \/ sc.paused
      BY <3>1 DEF DecideScaling, Hold
    <3>2. CASE ~sc.drain /\ ~sc.paused
      BY <1>3, <3>2 DEF DecideScaling, gap, dl
    <3> QED BY <3>1, <3>2
  <2> QED BY <2>3, <2>4
<1> HIDE DEF n
<1>5. /\ o2 \in Observed /\ o2.warm + o2.inflight = o.warm + o.inflight + n
      /\ o2.demand = o.demand /\ o2.claimRate = o.claimRate
      /\ o2.hitRatio = o.hitRatio
  <2>1. CASE n > 0
    <3>1. o2 = [o EXCEPT !.inflight = o.inflight + n] /\ o.inflight + n \in Nat
      BY <1>2, <1>4, <2>1 DEF AfterStep
    <3> HIDE DEF o2
    <3> QED BY <1>2, <1>4, <3>1 DEF Observed
  <2>2. CASE ~(n > 0)
    <3>1. o2 = [o EXCEPT !.warm = o.warm + n] /\ o.warm + n \in Nat
      BY <1>2, <1>4, <2>2 DEF AfterStep
    <3> HIDE DEF o2
    <3> QED BY <1>2, <1>4, <3>1 DEF Observed
  <2> QED BY <2>1, <2>2
<1> HIDE DEF o2
<1>6. Target(sc, o2) = Target(sc, o)
  BY <1>5 DEF Target, CappedByMaxWarm, Wanted, Demand, Feedback
<1>7. Gap(sc, o2) = gap - n
  <2>1. Target(sc, o) \in Int
    BY TargetIsCapped
  <2> HIDE DEF gap
  <2>2. o2.warm \in Nat /\ o2.inflight \in Nat
    BY <1>5 DEF Observed
  <2>3. Gap(sc, o2) = Target(sc, o) - (o2.warm + o2.inflight)
    BY <1>6 DEF Gap
  <2> QED BY <1>2, <1>3, <1>4, <1>5, <2>1, <2>2, <2>3
<1> HIDE DEF gap
<1> DEFINE rest == Gap(sc, o2)
<1>8. rest \in Int /\ rest = gap - n
  BY <1>3, <1>4, <1>7
<1> HIDE DEF rest
<1>9. /\ n > 0 => rest >= 0
      /\ n < 0 => rest =< 0
      /\ n # 0 => Abs(rest) < Abs(gap)
  BY <1>3, <1>4, <1>8 DEF Abs
<1> QED BY <1>5, <1>8, <1>9 DEF n, o2, gap, rest

(* Nothing but the named causes holds a step back: throttle, rate limits   *)
(* and room make it smaller, and never nothing.                            *)
THEOREM HoldsHaveACause ==
  ASSUME NEW sc \in ScalingSpec, NEW o \in Observed,
         DecideScaling(sc, o).delta = 0
  PROVE  \/ sc.drain \/ sc.paused
         \/ Gap(sc, o) = 0
         \/ Suppression(sc, o, Gap(sc, o)) # "None"
         \/ Gap(sc, o) < 0 /\ o.warm =< sc.minWarm
<1> DEFINE gap == Gap(sc, o)
           rec == MaxReclaim(sc)
           lim == LimitUp(sc, o)
           step == Limited(sc, o, gap)
<1> SUFFICES ASSUME ~sc.drain, ~sc.paused, Suppression(sc, o, gap) = "None",
                    gap # 0, gap > 0 \/ o.warm > sc.minWarm
             PROVE  FALSE
  <2>1. gap \in Int
    BY TargetIsCapped DEF Gap, Observed
  <2>2. sc.minWarm \in Nat /\ o.warm \in Nat
    BY DEF ScalingSpec, Observed
  <2> HIDE DEF gap
  <2> QED BY <2>1, <2>2 DEF gap
<1>1. rec \in Nat \ {0} /\ lim \in Nat \ {0}
  BY LimitsArePositive
<1>2. /\ o.warm \in Nat /\ o.inflight \in Nat /\ sc.minWarm \in Nat
      /\ o.headroom \in Int
  BY DEF ScalingSpec, Observed
<1>3. gap \in Int
  BY <1>2, TargetIsCapped DEF Gap
<1>4. Delta(sc, o, gap) = 0
  BY <1>3 DEF DecideScaling, gap
<1> HIDE DEF gap, rec, lim
<1>5. gap > 0 => o.headroom # 0
  BY DEF Suppression
<1>6. /\ gap > 0 => step > 0
      /\ gap < 0 => step < 0
  BY <1>1, <1>2, <1>3, <1>5 DEF Limited, NodeRoom, Clamp, Smaller, rec, lim
<1>7. step \in Int
  BY <1>1, <1>2, <1>3 DEF Limited, NodeRoom, Clamp, Smaller, rec, lim
<1>8. Delta(sc, o, gap) = IF step < 0 /\ o.warm + step < sc.minWarm
                            THEN -Larger(0, o.warm - sc.minWarm) ELSE step
  BY DEF Delta, BelowFloor
<1> HIDE DEF step
<1> QED BY <1>2, <1>3, <1>4, <1>6, <1>7, <1>8 DEF Larger
-----------------------------------------------------------------------------
(***************************************************************************)
(* The history of steps: it is in the order of time, so forgetting what is *)
(* too old cuts off its front, and that loses turns and adds none.         *)
(***************************************************************************)
Ordered(h) == \A i, j \in 1 .. Len(h) : i =< j => h[i].age >= h[j].age

LEMMA TurnsAreFinite ==
  ASSUME NEW h \in Seq(Event)
  PROVE  IsFiniteSet(Turns(h)) /\ Cardinality(Turns(h)) \in Nat
<1>1. Len(h) \in Nat
  BY LenProperties
<1>2. IsFiniteSet(1 .. Len(h) - 1)
  BY <1>1, FS_Interval
<1>3. Turns(h) \in SUBSET (1 .. Len(h) - 1)
  BY DEF Turns
<1> QED BY <1>2, <1>3, FS_Subset, FS_CardinalityType

LEMMA RecentProperties ==
  ASSUME NEW h \in Seq(Event), Ordered(h), NEW age \in Int
  PROVE  LET r == Recent(h, age)
         IN  /\ r \in Seq(Event) /\ Ordered(r)
             /\ \A i \in 1 .. Len(r) : r[i].age < age
             /\ Cardinality(Turns(r)) =< Cardinality(Turns(h))
             /\ (\A i \in 1 .. Len(h) : h[i].age < age) => r = h
<1> DEFINE n   == Len(h)
           old == {i \in 1 .. n : h[i].age >= age}
           k   == Cardinality(old)
           r   == Recent(h, age)
<1>1. n \in Nat /\ \A i \in 1 .. n : h[i] \in Event
  BY LenProperties, ElementOfSeq
<1>2. IsFiniteSet(1 .. n) /\ Cardinality(1 .. n) = n
  <2> HIDE DEF n
  <2>1. n \in Nat /\ 1 \in Int /\ n \in Int
    BY <1>1
  <2>2. /\ IsFiniteSet(1 .. n)
        /\ Cardinality(1 .. n) = IF 1 > n THEN 0 ELSE n - 1 + 1
    BY <2>1, FS_Interval, Zenon
  <2> QED BY <2>1, <2>2
<1>3. old \in SUBSET (1 .. n)
  OBVIOUS
<1>4. k \in 0 .. n /\ IsFiniteSet(old)
  BY <1>1, <1>2, <1>3, FS_Subset, FS_CardinalityType
<1>5. r = SubSeq(h, k + 1, n)
  BY DEF Recent
<1>6. \A i \in 1 .. n : h[i].age \in Int
  BY <1>1, PoolAssumption DEF Event, Age
<1>7. \A i, j \in 1 .. n : i =< j => h[i].age >= h[j].age
  BY DEF Ordered
<1>8. ASSUME NEW i \in 1 .. n, h[i].age >= age  PROVE  i =< k
  <2>1. 1 .. i \in SUBSET old
    BY <1>1, <1>6, <1>7, <1>8
  <2>2. IsFiniteSet(1 .. i) /\ Cardinality(1 .. i) = i
    BY FS_Interval
  <2>3. Cardinality(1 .. i) =< k
    BY <1>4, <2>1, FS_Subset
  <2> QED BY <2>2, <2>3
<1>9. (\A i \in 1 .. n : h[i].age < age) => k = 0
  <2>1. (\A i \in 1 .. n : h[i].age < age) => old = {}
    BY <1>6
  <2> QED BY <2>1, FS_EmptySet
<1> HIDE DEF old, k, r
<1>10. \A i \in k + 1 .. n : h[i] \in Event
  BY <1>1, <1>4
<1>11. /\ r \in Seq(Event)
       /\ Len(r) = n - k
       /\ \A i \in 1 .. n - k : r[i] = h[k + i]
  <2>1. /\ r \in Seq(Event)
        /\ Len(r) = IF k + 1 =< n THEN n - (k + 1) + 1 ELSE 0
        /\ \A i \in 1 .. n - (k + 1) + 1 : r[i] = h[(k + 1) + i - 1]
    BY <1>1, <1>4, <1>5, <1>10, SubSeqProperties
  <2>2. n - (k + 1) + 1 = n - k /\ \A i \in 1 .. n - k : (k + 1) + i - 1 = k + i
    BY <1>1, <1>4
  <2>3. Len(r) = n - k
    BY <1>1, <1>4, <2>1
  <2>4. \A i \in 1 .. n - k : r[i] = h[k + i]
    BY <2>1, <2>2
  <2> QED BY <2>1, <2>3, <2>4
<1>12. Ordered(r)
  BY <1>1, <1>4, <1>7, <1>11 DEF Ordered
<1>13. \A i \in 1 .. Len(r) : r[i].age < age
  BY <1>1, <1>4, <1>6, <1>8, <1>11
<1>14. Cardinality(Turns(r)) =< Cardinality(Turns(h))
  <2> DEFINE f == [i \in Turns(r) |-> i + k]
  <2>1. \A i \in Turns(r) : i \in Int /\ i + k \in Turns(h)
    <3> SUFFICES ASSUME NEW i \in 1 .. n - k - 1, r[i].up # r[i + 1].up
                 PROVE  i + k \in 1 .. n - 1 /\ h[i + k].up # h[i + k + 1].up
      BY <1>11 DEF Turns
    <3>1. i \in 1 .. n - k /\ i + 1 \in 1 .. n - k
      BY <1>1, <1>4
    <3>2. r[i] = h[k + i] /\ r[i + 1] = h[k + (i + 1)]
      BY <1>11, <3>1
    <3>3. k + i = i + k /\ k + (i + 1) = i + k + 1 /\ i + k \in 1 .. n - 1
      BY <1>1, <1>4
    <3> QED BY <3>2, <3>3
  <2>2. f \in Injection(Turns(r), Turns(h))
    <3>1. f \in [Turns(r) -> Turns(h)]
      BY <2>1
    <3>2. \A a, b \in Turns(r) : f[a] = f[b] => a = b
      BY <1>4, <2>1
    <3> QED BY <3>1, <3>2 DEF Injection, IsInjective
  <2> QED BY <2>2, TurnsAreFinite, FS_Injection
<1>15. (\A i \in 1 .. n : h[i].age < age) => r = h
  <2> SUFFICES ASSUME k = 0  PROVE  r = h
    BY <1>9
  <2> QED BY <1>1, <1>11, SeqEqual
<1> QED BY <1>11, <1>12, <1>13, <1>14, <1>15 DEF r

LEMMA AppendProperty ==
  ASSUME NEW h \in Seq(Event), Ordered(h), NEW b \in BOOLEAN
  PROVE  LET g == Append(h, [age |-> 0, up |-> b])
         IN  /\ g \in Seq(Event) /\ Ordered(g)
             /\ Cardinality(Turns(g)) =< Cardinality(Turns(h)) + 1
<1> DEFINE e == [age |-> 0, up |-> b]
           g == Append(h, e)
           n == Len(h)
<1>1. e \in Event
  BY PoolAssumption DEF Event, Age
<1>2. n \in Nat /\ \A i \in 1 .. n : h[i].age \in Nat
  <2>1. n \in Nat /\ \A i \in 1 .. n : h[i] \in Event
    BY LenProperties, ElementOfSeq
  <2> QED BY <2>1, PoolAssumption DEF Event, Age
<1>3. /\ g \in Seq(Event) /\ Len(g) = n + 1
      /\ \A i \in 1 .. n : g[i] = h[i]
      /\ g[n + 1] = e
  BY <1>1, AppendProperties
<1>4. Ordered(g)
  BY <1>2, <1>3 DEF Ordered
<1>5. Turns(g) \in SUBSET (Turns(h) \cup {n})
  BY <1>2, <1>3 DEF Turns
<1>6. /\ IsFiniteSet(Turns(h) \cup {n})
      /\ Cardinality(Turns(h) \cup {n}) =< Cardinality(Turns(h)) + 1
  <2>1. IsFiniteSet(Turns(h)) /\ Cardinality(Turns(h)) \in Nat
    BY TurnsAreFinite
  <2>2. /\ IsFiniteSet(Turns(h) \cup {n})
        /\ Cardinality(Turns(h) \cup {n}) = IF n \in Turns(h) THEN Cardinality(Turns(h))
                                            ELSE Cardinality(Turns(h)) + 1
    BY <2>1, FS_AddElement
  <2> QED BY <2>1, <2>2
<1>7. Cardinality(Turns(g)) =< Cardinality(Turns(h) \cup {n})
  BY <1>5, <1>6, FS_Subset
<1>8. Cardinality(Turns(h) \cup {n}) \in Nat /\ Cardinality(Turns(g)) \in Nat
      /\ Cardinality(Turns(h)) \in Nat
  BY <1>3, <1>6, FS_CardinalityType, TurnsAreFinite
<1> QED BY <1>3, <1>4, <1>6, <1>7, <1>8

LEMMA OlderProperty ==
  ASSUME NEW h \in Seq(Event), Ordered(h)
  PROVE  LET g == [i \in 1 .. Len(h) |-> [h[i] EXCEPT !.age = Older(@)]]
         IN  /\ g \in Seq(Event) /\ Ordered(g) /\ Turns(g) = Turns(h)
<1> DEFINE n == Len(h)
           g == [i \in 1 .. n |-> [h[i] EXCEPT !.age = Older(@)]]
<1>1. n \in Nat /\ \A i \in 1 .. n : h[i] \in Event
  BY LenProperties, ElementOfSeq
<1>2. MaxAge \in Nat
  BY PoolAssumption
<1>3. \A a \in Age : Older(a) \in Age /\ Older(a) = Smaller(a + 1, MaxAge)
  BY <1>2 DEF Older, Age, Smaller, Never
<1>4. \A i \in 1 .. n : /\ g[i] \in Event
                        /\ g[i].age = Smaller(h[i].age + 1, MaxAge)
                        /\ g[i].up = h[i].up
  BY <1>1, <1>3 DEF Event
<1>5. g \in [1 .. n -> Event]
  BY <1>4
<1>6. g \in Seq(Event) /\ Len(g) = n
  BY <1>1, <1>5, SeqDef
<1> HIDE DEF g
<1>7. \A i \in 1 .. n : h[i].age \in Nat
  BY <1>1, <1>2 DEF Event, Age
<1>8. Ordered(g)
  <2> SUFFICES ASSUME NEW i \in 1 .. n, NEW j \in 1 .. n, i =< j
               PROVE  g[i].age >= g[j].age
    BY <1>6 DEF Ordered
  <2>1. h[i].age >= h[j].age
    BY DEF Ordered
  <2> QED BY <1>2, <1>4, <1>7, <2>1 DEF Smaller
<1>9. Turns(g) = Turns(h)
  BY <1>1, <1>4, <1>6 DEF Turns
<1> QED BY <1>6, <1>8, <1>9 DEF g
-----------------------------------------------------------------------------
(***************************************************************************)
(* The inductive invariant.                                                *)
(***************************************************************************)
HoldTime == Effective(Protection.hold, 120)

(* Only what is marked can be marked and still show as warm. *)
StockOK == stock \in [Kind -> Nat] /\ hidden \in 0 .. stock["Draining"]

(* A cached pool that does not lag is the pool. *)
CacheOK == ~lag => shown = pool

(* What a round that will be recorded makes of the protection it read.     *)
ProtectOK ==
  (round.at # "idle" /\ round.current) =>
    /\ round.pool.protect.trips = pool.protect.trips
         + IF round.pool.protect.active /\ ~pool.protect.active THEN 1 ELSE 0
    /\ round.cause # "None" =>
         /\ Protection.enabled /\ round.pool.protect.active
         /\ round.pool.protect.until = HoldTime
    /\ (/\ round.cause = "None" /\ Protection.enabled
        /\ pool.protect.active /\ pool.protect.until > 0)
         => round.pool.protect = pool.protect

(* What is left of the hold and the time since the trigger make the hold.  *)
HoldOK ==
  seen.trigger # Never =>
    /\ Protection.enabled
    /\ seen.trigger < HoldTime => /\ pool.protect.active
                                  /\ pool.protect.until + seen.trigger >= HoldTime

HistoryOK ==
  /\ Ordered(history) /\ \A i \in 1 .. Len(history) : history[i].age < Window + 1
  /\ Cardinality(Turns(history)) =< maxReversalsInWindow

(* A round that still acts knows how much stock there may be to give up.   *)
StepOK ==
  /\ round.at \in {"counted", "decided"} =>
       stock["Warm"] + seen.lost >= round.warm
  /\ round.at = "decided" =>
       /\ round.delta < 0 => round.warm + round.delta >= round.pool.minWarm
       /\ round.delta # 0 => Cardinality(Turns(history)) < maxReversalsInWindow

IInv == TypeOK /\ CacheOK /\ ProtectOK /\ HoldOK /\ HistoryOK /\ StepOK

LEMMA ConstantTypes ==
  /\ Inactive \in Protect /\ FirstMinWarm \in Nat /\ HoldTime \in Nat \ {0}
  /\ HoldTime =< MaxAge
  /\ \A m \in Nat : Fresh(m) \in Pool
  /\ Idle \in Round /\ Idle.at = "idle" /\ 0 \in Age
BY PoolAssumption DEF Inactive, Protect, Fresh, Pool, Idle, Round, Cause, Age, Never,
   HoldTime, Effective, ProtectSpec

(* Stock moved from one kind to another. *)
LEMMA MovedType ==
  ASSUME stock \in [Kind -> Nat], NEW a \in Kind, NEW b \in Kind \ {a},
         NEW n \in Nat, n =< stock[a]
  PROVE  /\ Moved(a, b, n) \in [Kind -> Nat]
         /\ \A k \in Kind : Moved(a, b, n)[k] = IF k = a THEN stock[a] - n
                                  ELSE IF k = b THEN stock[b] + n ELSE stock[k]
BY DEF Moved

LEMMA EvaluateType ==
  ASSUME NEW o \in [inflight : Nat, failed : Nat, slow : BOOLEAN],
         NEW prev \in Protect
  PROVE  /\ Trigger(Protection, o) \in Cause
         /\ Evaluate(Protection, o, prev) \in Protect
         /\ LET new == Evaluate(Protection, o, prev)
            IN  /\ new.trips = prev.trips + IF new.active /\ ~prev.active
                                              THEN 1 ELSE 0
                /\ Trigger(Protection, o) # "None" =>
                     Protection.enabled /\ new.active /\ new.until = HoldTime
                /\ (/\ Trigger(Protection, o) = "None" /\ Protection.enabled
                    /\ prev.active /\ prev.until > 0) => new = prev
<1>1. /\ Trigger(Protection, o) \in Cause
      /\ Trigger(Protection, o) # "None" => Protection.enabled
  BY DEF Trigger, Cause
<1> DEFINE t == Trigger(Protection, o)
<1> HIDE DEF t
<1>2. Evaluate(Protection, o, prev) =
        IF t # "None" THEN [active |-> TRUE, until |-> HoldTime,
                            trips  |-> IF prev.active THEN prev.trips
                                                      ELSE prev.trips + 1]
        ELSE IF Protection.enabled /\ prev.active /\ prev.until > 0 THEN prev
        ELSE [prev EXCEPT !.active = FALSE, !.until = 0]
  BY DEF Evaluate, HoldTime, t
<1> DEFINE new == Evaluate(Protection, o, prev)
<1> HIDE DEF new
<1>3. /\ prev.active \in BOOLEAN /\ prev.until \in Nat /\ prev.trips \in Nat
      /\ HoldTime \in Nat
  BY ConstantTypes DEF Protect
<1>4. CASE t # "None"
  <2>1. new = [active |-> TRUE, until |-> HoldTime,
               trips  |-> IF prev.active THEN prev.trips ELSE prev.trips + 1]
    BY <1>2, <1>4 DEF new
  <2>2. new \in Protect
    BY <1>3, <2>1 DEF Protect
  <2> QED BY <1>1, <1>3, <1>4, <2>1, <2>2 DEF t, new
<1>5. CASE t = "None" /\ Protection.enabled /\ prev.active /\ prev.until > 0
  <2>1. new = prev
    BY <1>2, <1>5 DEF new
  <2> QED BY <1>1, <1>3, <1>5, <2>1 DEF t, new
<1>6. CASE t = "None" /\ ~(Protection.enabled /\ prev.active /\ prev.until > 0)
  <2>1. new = [prev EXCEPT !.active = FALSE, !.until = 0]
    BY <1>2, <1>6 DEF new
  <2>2. new \in Protect /\ ~new.active /\ new.trips = prev.trips
    BY <1>3, <2>1 DEF Protect
  <2> QED BY <1>1, <1>3, <1>6, <2>2 DEF t, new
<1> QED BY <1>4, <1>5, <1>6

(* What the round decides on, and its decision. *)
LEMMA DecisionType ==
  ASSUME TypeOK, HistoryOK, round.at # "idle", NEW d \in Decisions
  PROVE  /\ d.delta \in Int /\ d.demand \in Int
         /\ d.delta < 0 => round.warm + d.delta >= round.pool.minWarm
         /\ d.delta # 0 => /\ ~round.pool.drain
                                  /\ Cardinality(Turns(history)) < maxReversalsInWindow
<1>1. history \in Seq(Event) /\ Window + 1 \in Int /\ Age \subseteq Nat
  BY PoolAssumption DEF TypeOK, Age
<1>2. Reversals = Cardinality(Turns(history)) /\ Reversals \in Nat
  <2>1. Recent(history, Window + 1) = history
    BY <1>1, RecentProperties DEF HistoryOK
  <2> QED BY <1>1, <2>1, TurnsAreFinite DEF Reversals
<1> DEFINE r  == Reversals
           sc == SpecOf(round.pool)
           o  == Observation
<1> HIDE DEF r
<1>3. round.pool \in Pool /\ round.warm \in Nat /\ round.inflight \in Nat
  BY DEF TypeOK, Round
<1>4. sc \in ScalingSpec /\ sc.minWarm = round.pool.minWarm /\ sc.drain = round.pool.drain
  BY <1>3, PoolAssumption DEF SpecOf, ScalingSpec, Pool
<1>5. o = [warm |-> round.warm, inflight |-> round.inflight,
           demand |-> round.pool.demand, claimRate |-> 0, hitRatio |-> Unknown,
           sinceScale |-> round.pool.sinceScale, lastDelta |-> round.pool.lastDelta,
           reversals |-> r, headroom |-> Unknown,
           protect |-> round.pool.protect.active]
  BY DEF Observation, r
<1>6. o \in Observed /\ o.warm = round.warm /\ o.reversals = r
  <2>1. /\ round.pool.demand \in Int /\ round.pool.lastDelta \in Int
        /\ round.pool.sinceScale \in Age \cup {Never}
        /\ round.pool.protect.active \in BOOLEAN
    BY <1>3 DEF Pool, Protect
  <2>2. round.pool.sinceScale \in Int /\ Unknown \in Int /\ r \in Nat
    <3>1. Never \in Int /\ Unknown \in Int
      BY DEF Never, Unknown
    <3>2. Age \subseteq Int
      BY <1>1
    <3>3. round.pool.sinceScale \in Int
      BY <2>1, <3>1, <3>2
    <3>4. r \in Nat
      BY <1>2 DEF r
    <3> QED BY <3>1, <3>3, <3>4
  <2> HIDE DEF o
  <2> QED BY <1>3, <1>5, <2>1, <2>2 DEF Observed
<1> HIDE DEF sc, o
<1>7. d = DecideScaling(sc, o)
  BY DEF Decisions, sc, o
<1>8. MaxReclaim(sc) \in Nat /\ LimitUp(sc, o) \in Nat
  BY <1>4, <1>6, LimitsArePositive
<1>9. /\ d.delta \in -MaxReclaim(sc) .. LimitUp(sc, o)
      /\ d.demand \in Int
      /\ d.delta < 0 => o.warm + d.delta >= sc.minWarm
      /\ d.delta # 0 => ~sc.drain /\ ~Frozen(o)
  BY <1>4, <1>6, <1>7, ScalingIsSafe
<1> QED BY <1>2, <1>4, <1>6, <1>8, <1>9 DEF Frozen, r, maxReversalsInWindow
-----------------------------------------------------------------------------
(***************************************************************************)
(* Every step of a round keeps the invariant.                              *)
(***************************************************************************)
LEMMA Types ==
  ASSUME TypeOK
  PROVE  /\ StockOK /\ stock \in [Kind -> Nat] /\ hidden \in Nat
         /\ hidden =< stock["Draining"]
         /\ lag \in BOOLEAN /\ trouble \in Scenario
         /\ pool \in Pool /\ shown \in Pool /\ round \in Round
         /\ history \in Seq(Event) /\ seen \in Seen
         /\ seen.lost \in Nat /\ seen.trigger \in Age \cup {Never}
         /\ \A k \in Kind : stock[k] \in Nat
         /\ round.warm \in Nat /\ round.inflight \in Nat
         /\ round.delta \in Int /\ round.pool \in Pool
         /\ round.pool.minWarm \in Nat /\ round.current \in BOOLEAN
         /\ round.pool.drain \in BOOLEAN /\ pool.protect \in Protect
<1>1. StockOK /\ stock \in [Kind -> Nat] /\ hidden \in Nat /\ hidden =< stock["Draining"]
  BY DEF TypeOK, StockOK
<1>2. /\ lag \in BOOLEAN /\ trouble \in Scenario
      /\ pool \in Pool /\ shown \in Pool /\ round \in Round
      /\ history \in Seq(Event) /\ seen \in Seen
  BY DEF TypeOK
<1> QED BY <1>1, <1>2 DEF Round, Seen, Pool

(* The part of the invariant that does not speak of the round. *)
LEMMA IdleKeeps ==
  ASSUME round' = Idle
  PROVE  ProtectOK' /\ StepOK'
BY DEF ProtectOK, StepOK, Idle

LEMMA DeletionsType ==
  ASSUME TypeOK
  PROVE  /\ MaxReclaim(Scaling) \in Nat \ {0}
         /\ \A n \in Deletions : n \in Nat /\ n =< stock["Draining"] - hidden
<1>1. MaxReclaim(Scaling) \in Nat \ {0}
  BY PoolAssumption DEF MaxReclaim, Effective, ScalingSpec
<1>2. /\ stock["Draining"] \in Nat /\ stock["Deleting"] \in Nat
      /\ hidden \in Nat /\ hidden =< stock["Draining"]
  BY Types DEF Kind
<1> DEFINE calls == Smaller(MaxReclaim(Scaling), CountDraining)
<1>3. calls \in Nat
  BY <1>1, <1>2 DEF Smaller, CountDraining
<1>4. Deletions = Larger(0, calls - stock["Deleting"])
                    .. Smaller(calls, stock["Draining"] - hidden)
  BY DEF Deletions
<1> HIDE DEF calls
<1> QED BY <1>1, <1>2, <1>3, <1>4 DEF Larger, Smaller

LEMMA DisturbType ==
  ASSUME TypeOK, NEW k, Disturb(k)
  PROVE  trouble' \in Scenario
<1>1. trouble \in Scenario /\ trouble.left \in Nat /\ trouble.left > 0
  BY DEF TypeOK, Scenario, Disturb
<1> QED BY <1>1 DEF Disturb, Scenario

LEMMA StartRoundKeeps ==
  ASSUME IInv, StartRound
  PROVE  IInv'
<1> USE DEF IInv
<1> DEFINE o == [inflight |-> CountInflight, failed |-> stock["Failed"],
                 slow |-> FALSE]
           new == Evaluate(Protection, o, shown.protect)
<1>1. /\ CountWarm \in Nat /\ CountInflight \in Nat /\ CountDraining \in Nat
      /\ CountWarm = stock["Warm"] + hidden
      /\ o \in [inflight : Nat, failed : Nat, slow : BOOLEAN]
  <2>1. \A k \in Kind : stock[k] \in Nat
    BY Types
  <2>2. /\ stock["Warm"] \in Nat /\ stock["Inflight"] \in Nat
        /\ stock["Cold"] \in Nat /\ stock["Draining"] \in Nat
        /\ stock["Deleting"] \in Nat /\ stock["Failed"] \in Nat
        /\ hidden \in Nat /\ hidden =< stock["Draining"]
    BY <2>1, Types DEF Kind
  <2>3. CountInflight \in Nat /\ CountDraining \in Nat
    BY <2>2 DEF CountInflight, CountDraining
  <2>4. CountWarm = stock["Warm"] + hidden
    BY DEF CountWarm
  <2> QED BY <2>2, <2>3, <2>4
<1>2. shown \in Pool /\ shown.protect \in Protect /\ shown.minWarm \in Nat
  BY Types DEF Pool
<1>3. /\ Trigger(Protection, o) \in Cause /\ new \in Protect
      /\ new.trips = shown.protect.trips
           + IF new.active /\ ~shown.protect.active THEN 1 ELSE 0
      /\ Trigger(Protection, o) # "None" =>
           Protection.enabled /\ new.active /\ new.until = HoldTime
      /\ (/\ Trigger(Protection, o) = "None" /\ Protection.enabled
          /\ shown.protect.active /\ shown.protect.until > 0) => new = shown.protect
  BY <1>1, <1>2, EvaluateType
<1>4. /\ round' = [at |-> "counted", current |-> ~lag, delta |-> 0,
                   warm |-> CountWarm, inflight |-> CountInflight,
                   draining |-> CountDraining, cause |-> Trigger(Protection, o),
                   pool |-> [shown EXCEPT !.protect = new]]
      /\ seen' = [seen EXCEPT !.lost = hidden]
      /\ UNCHANGED trouble \/ Disturb("watch")
      /\ UNCHANGED <<stock, hidden, pool, shown, lag, history>>
  BY DEF StartRound
<1> DEFINE t == Trigger(Protection, o)
           p == [shown EXCEPT !.protect = new]
<1> HIDE DEF o, new, t
<1>5. p \in Pool /\ p.protect = new
  BY <1>2, <1>3 DEF Pool
<1> HIDE DEF p
<1>6. /\ round'.at = "counted" /\ round'.current = ~lag /\ round'.cause = t
      /\ round'.pool = p /\ round'.warm = CountWarm
  BY <1>4 DEF p, t
<1>7. round' \in Round
  BY <1>1, <1>3, <1>4, <1>5, Types DEF Round, p, t
<1>8. /\ seen' \in Seen /\ seen'.lost = hidden /\ seen'.trigger = seen.trigger
      /\ trouble' \in Scenario
  <2>1. seen \in Seen /\ hidden \in Nat
    BY Types
  <2>2. /\ seen' \in Seen /\ seen'.lost = hidden /\ seen'.trigger = seen.trigger
    BY <1>4, <2>1 DEF Seen
  <2>3. trouble' \in Scenario
    BY <1>4, Types, DisturbType
  <2> QED BY <2>2, <2>3
<1>9. TypeOK'
  BY <1>4, <1>7, <1>8 DEF TypeOK
<1>10. ProtectOK'
  BY <1>3, <1>4, <1>5, <1>6 DEF ProtectOK, CacheOK, t
<1>11. StepOK'
  BY <1>1, <1>4, <1>6, <1>8, Types DEF StepOK
<1> QED BY <1>4, <1>8, <1>9, <1>10, <1>11 DEF CacheOK, HoldOK, HistoryOK

(* A step of a round that only changes its stage, its step and the rest of *)
(* its copy of the pool, and the stock without lowering what was warm.     *)
RoundKept == /\ round'.current = round.current /\ round'.cause = round.cause
             /\ round'.warm = round.warm
             /\ round'.pool.protect = round.pool.protect
             /\ round'.pool.minWarm = round.pool.minWarm

LEMMA RoundKeptKeeps ==
  ASSUME IInv, RoundKept, round.at # "idle",
         UNCHANGED <<pool, shown, lag, seen>>
  PROVE  CacheOK' /\ ProtectOK' /\ HoldOK'
BY DEF IInv, RoundKept, CacheOK, ProtectOK, HoldOK

(* What a round deletes it has seen marked. *)
LEMMA DeletedKeeps ==
  ASSUME TypeOK, NEW n \in Nat, n =< stock["Draining"] - hidden,
         stock' = Moved("Draining", "Deleting", n), UNCHANGED hidden
  PROVE  StockOK' /\ stock'["Warm"] = stock["Warm"]
<1>1. /\ "Warm" \in Kind /\ "Draining" \in Kind
      /\ "Deleting" \in Kind \ {"Draining"}
  BY DEF Kind
<1>2. /\ stock \in [Kind -> Nat] /\ stock["Draining"] \in Nat
      /\ hidden \in Nat /\ hidden =< stock["Draining"]
  BY <1>1, Types
<1>3. n =< stock["Draining"]
  BY <1>2
<1>4. /\ stock' \in [Kind -> Nat] /\ stock'["Warm"] = stock["Warm"]
      /\ stock'["Draining"] = stock["Draining"] - n
  BY <1>1, <1>2, <1>3, MovedType
<1> QED BY <1>2, <1>4 DEF StockOK

LEMMA CleanUpKeeps ==
  ASSUME IInv, CleanUp
  PROVE  IInv'
<1> USE DEF IInv
<1>0. PICK d \in Decisions :
       round' = [round EXCEPT !.at = "decided", !.delta = d.delta,
                              !.pool.demand = d.demand]
  BY DEF CleanUp
<1> DEFINE dl == d.delta
           dm == d.demand
<1>1. /\ round.at = "counted"
      /\ round' = [round EXCEPT !.at = "decided", !.delta = dl,
                                !.pool.demand = dm]
      /\ UNCHANGED <<hidden, pool, shown, lag, history, trouble, seen>>
  BY <1>0 DEF CleanUp
<1>2. /\ dl \in Int /\ dm \in Int
      /\ dl < 0 => round.warm + dl >= round.pool.minWarm
      /\ dl # 0 => Cardinality(Turns(history)) < maxReversalsInWindow
  BY <1>1, DecisionType
<1> HIDE DEF dl, dm
<1>3. StockOK' /\ stock'["Warm"] = stock["Warm"]
  <2>1. ASSUME NEW n \in Deletions, stock' = Moved("Draining", "Deleting", n)
        PROVE  StockOK' /\ stock'["Warm"] = stock["Warm"]
    BY <1>1, <2>1, DeletionsType, DeletedKeeps
  <2> QED BY <1>1, <2>1, Types DEF CleanUp, StockOK
<1>4. round \in Round /\ round.pool \in Pool
  BY Types
<1> DEFINE p == [round.pool EXCEPT !.demand = dm]
<1>5. p \in Pool /\ p.protect = round.pool.protect /\ p.minWarm = round.pool.minWarm
  BY <1>2, <1>4 DEF Pool
<1>6. round' = [round EXCEPT !.at = "decided", !.delta = dl, !.pool = p]
  BY <1>1
<1> HIDE DEF p
<1>7. /\ round' \in Round /\ round'.at = "decided" /\ round'.delta = dl
      /\ round'.pool = p /\ RoundKept
  BY <1>2, <1>4, <1>5, <1>6 DEF Round, RoundKept
<1>8. TypeOK'
  BY <1>1, <1>3, <1>7 DEF TypeOK, StockOK
<1>9. StepOK'
  BY <1>1, <1>2, <1>3, <1>5, <1>7, Types DEF StepOK, RoundKept
<1> QED BY <1>1, <1>7, <1>8, <1>9, RoundKeptKeeps DEF HistoryOK

(* The steps that abort a round, whatever they did to the stock. *)
LEMMA AbortKeeps ==
  ASSUME IInv, AbortRound, StockOK', trouble' \in Scenario,
         UNCHANGED <<pool, shown, lag, history>>
  PROVE  IInv'
<1> USE DEF IInv
<1>1. round' = Idle /\ seen' \in Seen /\ seen'.trigger = seen.trigger
  BY Types DEF AbortRound, Seen
<1>2. TypeOK'
  BY <1>1, ConstantTypes, Types DEF TypeOK, StockOK
<1> QED BY <1>1, <1>2, IdleKeeps DEF CacheOK, HoldOK, HistoryOK

(* As many are marked as asked for at most, fewer when some were before.   *)
LEMMA MarkType ==
  ASSUME TypeOK, NEW n \in Nat, MarkDraining(n)
  PROVE  StockOK' /\ stock'["Warm"] + n >= stock["Warm"]
<1>1. /\ stock["Warm"] \in Nat /\ stock["Draining"] \in Nat
      /\ hidden \in Nat /\ hidden =< stock["Draining"]
  BY Types DEF Kind
<1>2. PICK m \in Marks(n) : Mark(m)
  BY DEF MarkDraining
<1>3. m \in Nat /\ m =< n /\ m =< stock["Warm"]
  <2> DEFINE calls == Smaller(n, Candidates)
  <2>1. calls \in Nat /\ calls =< n
    BY <1>1 DEF Candidates, Smaller
  <2>2. m \in Larger(0, calls - hidden) .. Smaller(calls, stock["Warm"])
    BY <1>2 DEF Marks
  <2> HIDE DEF calls
  <2> QED BY <1>1, <2>1, <2>2 DEF Larger, Smaller
<1>4. /\ stock' \in [Kind -> Nat] /\ stock'["Warm"] = stock["Warm"] - m
      /\ stock'["Draining"] = stock["Draining"] + m /\ hidden' = hidden + m
  <2>1. "Warm" \in Kind /\ "Draining" \in Kind \ {"Warm"}
    BY DEF Kind
  <2> QED BY <1>2, <1>3, <2>1, MovedType, Types DEF Mark
<1> QED BY <1>1, <1>3, <1>4 DEF StockOK

LEMMA CleanUpFailsKeeps ==
  ASSUME IInv, CleanUpFails
  PROVE  IInv'
<1> USE DEF IInv
<1>1. PICK n \in 0 .. Smaller(MaxReclaim(Scaling), stock["Draining"] - hidden) :
             stock' = Moved("Draining", "Deleting", n)
  BY DEF CleanUpFails
<1>2. /\ stock["Draining"] \in Nat /\ hidden \in Nat /\ UNCHANGED hidden
  BY Types DEF Kind, CleanUpFails
<1>3. n \in Nat /\ n =< stock["Draining"] - hidden
  BY <1>2, DeletionsType DEF Smaller
<1>4. StockOK'
  BY <1>1, <1>2, <1>3, DeletedKeeps
<1>5. trouble' \in Scenario
  BY DisturbType DEF CleanUpFails
<1> QED BY <1>4, <1>5, AbortKeeps DEF CleanUpFails

LEMMA CreatedKeeps ==
  ASSUME TypeOK, NEW k \in {"New", "NewCold"}, NEW n \in Nat,
         stock' = [stock EXCEPT ![k] = @ + n], UNCHANGED hidden
  PROVE  StockOK' /\ stock'["Warm"] = stock["Warm"]
<1>1. /\ StockOK /\ k \in Kind /\ k # "Warm" /\ k # "Draining"
      /\ "Warm" \in Kind /\ "Draining" \in Kind
  BY Types DEF Kind
<1>2. stock \in [Kind -> Nat] /\ stock[k] + n \in Nat
  BY <1>1, Types
<1> QED BY <1>1, <1>2 DEF StockOK

LEMMA CreateFailsKeeps ==
  ASSUME IInv, CreateFails
  PROVE  IInv'
<1> USE DEF IInv
<1>1. PICK n \in 0 .. round.delta - 1 :
             /\ stock' = [stock EXCEPT !["New"] = @ + n]
             /\ UNCHANGED trouble \/ Disturb("call")
  BY DEF CreateFails
<1>2. n \in Nat
  BY Types
<1>3. StockOK'
  BY <1>1, <1>2, CreatedKeeps DEF CreateFails
<1>4. trouble' \in Scenario
  BY <1>1, DisturbType, Types
<1> QED BY <1>3, <1>4, AbortKeeps DEF CreateFails

LEMMA MarkFailsKeeps ==
  ASSUME IInv, MarkFails
  PROVE  IInv'
<1> USE DEF IInv
<1>1. PICK n \in Nat : MarkDraining(n)
  <2> DEFINE asked == IF round.pool.drain THEN round.warm ELSE -round.delta
  <2>1. PICK n \in 0 .. Smaller(asked, Candidates) - 1 : MarkDraining(n)
    BY DEF MarkFails
  <2>2. n \in Nat
    BY <2>1
  <2> QED BY <2>1, <2>2
<1>2. StockOK'
  BY <1>1, MarkType
<1>3. trouble' \in Scenario
  BY DisturbType DEF MarkFails
<1> QED BY <1>2, <1>3, AbortKeeps DEF MarkFails

LEMMA RoundFailsKeeps ==
  ASSUME IInv, RoundFails \/ UpdateConflicts
  PROVE  IInv'
<1>1. trouble' \in Scenario
  BY DisturbType, Types DEF RoundFails, UpdateConflicts, IInv
<1>2. StockOK'
  BY Types DEF RoundFails, UpdateConflicts, IInv, StockOK
<1> QED BY <1>1, <1>2, AbortKeeps DEF RoundFails, UpdateConflicts

LEMMA CrashKeeps ==
  ASSUME IInv, Crash
  PROVE  IInv'
<1> USE DEF IInv
<1>1. /\ round' = Idle /\ seen' \in Seen /\ seen'.trigger = seen.trigger
      /\ history' = <<>> /\ shown' = pool /\ lag' = FALSE
      /\ hidden' = 0 /\ UNCHANGED <<stock, pool>> /\ trouble' \in Scenario
  BY Types, DisturbType DEF Crash, AbortRound, Seen
<1>2. history' \in Seq(Event) /\ Len(history') = 0
  BY <1>1, EmptySeq
<1>3. TypeOK'
  <2>1. stock'["Draining"] \in Nat /\ stock' \in [Kind -> Nat]
    BY <1>1, Types DEF Kind
  <2>2. hidden' \in 0 .. stock'["Draining"]
    BY <1>1, <2>1
  <2> QED BY <1>1, <1>2, <2>1, <2>2, ConstantTypes, Types DEF TypeOK
<1>4. HistoryOK'
  <2>1. Turns(history') = {}
    BY <1>2 DEF Turns
  <2>2. Cardinality(Turns(history')) = 0
    BY <2>1, FS_EmptySet
  <2>3. Ordered(history') /\ \A i \in 1 .. Len(history') : history'[i].age < Window + 1
    BY <1>2 DEF Ordered
  <2> QED BY <2>2, <2>3 DEF HistoryOK, maxReversalsInWindow
<1> QED BY <1>1, <1>3, <1>4, IdleKeeps DEF CacheOK, HoldOK

(* What a round has done to the stock does not matter once it has acted.   *)
LEMMA ActedKeeps ==
  ASSUME IInv, round.at = "decided", round' \in Round, round'.at = "acted",
         RoundKept, StockOK', trouble' \in Scenario,
         history' \in Seq(Event), HistoryOK', UNCHANGED <<pool, shown, lag, seen>>
  PROVE  IInv'
<1> USE DEF IInv
<1>1. TypeOK'
  BY Types DEF TypeOK, StockOK
<1>2. StepOK'
  BY DEF StepOK
<1> QED BY <1>1, <1>2, RoundKeptKeeps

LEMMA HistoryKept ==
  ASSUME IInv, UNCHANGED history
  PROVE  HistoryOK' /\ history' \in Seq(Event)
BY Types DEF IInv, HistoryOK

LEMMA DrainKeeps ==
  ASSUME IInv, Drain
  PROVE  IInv'
<1> USE DEF IInv
<1> DEFINE b == round.warm = 0 /\ round.draining = 0
           p == [round.pool EXCEPT !.drained = b]
<1>1. /\ round.at = "decided" /\ MarkDraining(round.warm)
      /\ round' = [round EXCEPT !.at = "acted", !.pool = p]
      /\ UNCHANGED <<pool, shown, lag, history, trouble, seen>>
  BY DEF Drain
<1>2. b \in BOOLEAN
  OBVIOUS
<1> HIDE DEF b
<1>3. p \in Pool /\ p.protect = round.pool.protect /\ p.minWarm = round.pool.minWarm
  BY <1>2, Types DEF Pool
<1> HIDE DEF p
<1>4. round' \in Round /\ round'.at = "acted" /\ RoundKept
  BY <1>1, <1>3, Types DEF Round, RoundKept
<1>5. StockOK'
  BY <1>1, MarkType, Types
<1>6. trouble' \in Scenario
  BY <1>1, Types
<1> QED BY <1>1, <1>4, <1>5, <1>6, HistoryKept, ActedKeeps

LEMMA PauseScalingKeeps ==
  ASSUME IInv, PauseScaling
  PROVE  IInv'
<1> USE DEF IInv
<1> DEFINE p == [round.pool EXCEPT !.demand = 0]
<1>1. /\ round.at = "decided"
      /\ round' = [round EXCEPT !.at = "acted", !.delta = 0, !.pool = p]
      /\ UNCHANGED <<stock, hidden, pool, shown, lag, history, seen>>
  BY DEF PauseScaling
<1>2. p \in Pool /\ p.protect = round.pool.protect /\ p.minWarm = round.pool.minWarm
  <2>1. round.pool \in Pool /\ 0 \in Int
    BY Types
  <2> QED BY <2>1 DEF Pool
<1> HIDE DEF p
<1>3. round' \in Round /\ round'.at = "acted" /\ RoundKept
  <2>1. round \in Round /\ 0 \in Int
    BY Types
  <2> QED BY <1>1, <1>2, <2>1 DEF Round, RoundKept
<1>4. trouble' \in Scenario /\ StockOK'
  BY <1>1, DisturbType, Types DEF PauseScaling, StockOK
<1> QED BY <1>1, <1>3, <1>4, HistoryKept, ActedKeeps

(* A recorded step adds a turn at most, and there was room for one.        *)
LEMMA RecordedKeeps ==
  ASSUME IInv, round.at = "decided", round.delta # 0, NEW b \in BOOLEAN,
         history' = Recorded(b)
  PROVE  HistoryOK' /\ history' \in Seq(Event)
<1> USE DEF IInv
<1> DEFINE g == Append(history, [age |-> 0, up |-> b])
           r == Recent(g, Window)
<1>1. history \in Seq(Event) /\ Ordered(history) /\ Window \in Nat
  BY Types, PoolAssumption DEF HistoryOK
<1>2. /\ g \in Seq(Event) /\ Ordered(g)
      /\ Cardinality(Turns(g)) =< Cardinality(Turns(history)) + 1
  BY <1>1, AppendProperty
<1>3. Cardinality(Turns(history)) < maxReversalsInWindow
  BY DEF StepOK
<1>4. Cardinality(Turns(history)) \in Nat /\ Cardinality(Turns(g)) \in Nat
  BY <1>1, <1>2, TurnsAreFinite
<1> HIDE DEF g
<1>5. /\ r \in Seq(Event) /\ Ordered(r)
      /\ \A i \in 1 .. Len(r) : r[i].age < Window
      /\ Cardinality(Turns(r)) =< Cardinality(Turns(g))
  BY <1>1, <1>2, RecentProperties
<1>6. Cardinality(Turns(r)) \in Nat
  BY <1>5, TurnsAreFinite
<1>7. \A i \in 1 .. Len(r) : r[i].age < Window + 1
  <2>1. \A i \in 1 .. Len(r) : r[i] \in Event
    BY <1>5, ElementOfSeq
  <2>2. \A i \in 1 .. Len(r) : r[i].age \in Int
    BY <2>1, PoolAssumption DEF Event, Age
  <2> QED BY <1>1, <1>5, <2>2
<1>8. Cardinality(Turns(r)) =< maxReversalsInWindow
  BY <1>2, <1>3, <1>4, <1>5, <1>6 DEF maxReversalsInWindow
<1>9. history' = r
  BY DEF Recorded, g
<1> HIDE DEF r
<1> QED BY <1>5, <1>7, <1>8, <1>9 DEF HistoryOK

LEMMA ScaleUpKeeps ==
  ASSUME IInv, ScaleUp
  PROVE  IInv'
<1> USE DEF IInv
<1>1. /\ round.at = "decided" /\ round.delta > 0 /\ history' = Recorded(TRUE)
      /\ stock' = [stock EXCEPT !["New"] = @ + round.delta]
      /\ round' = [round EXCEPT !.at = "acted"]
      /\ UNCHANGED <<hidden, pool, shown, lag, trouble, seen>>
  BY DEF ScaleUp
<1>2. round' \in Round /\ round'.at = "acted" /\ RoundKept
  BY <1>1, Types DEF Round, RoundKept
<1>3. trouble' \in Scenario /\ StockOK' /\ round.delta # 0
  <2>1. trouble \in Scenario /\ round.delta \in Int
    BY Types
  <2>2. round.delta \in Nat /\ round.delta # 0 /\ trouble' \in Scenario
    BY <1>1, <2>1
  <2> QED BY <1>1, <2>2, CreatedKeeps
<1> QED BY <1>1, <1>2, <1>3, RecordedKeeps, ActedKeeps

LEMMA ScaleDownKeeps ==
  ASSUME IInv, ScaleDown
  PROVE  IInv'
<1> USE DEF IInv
<1>1. /\ round.at = "decided" /\ round.delta < 0
      /\ history' = Recorded(FALSE) \/ UNCHANGED history
      /\ MarkDraining(-round.delta)
      /\ round' = [round EXCEPT !.at = "acted"]
      /\ UNCHANGED <<pool, shown, lag, trouble, seen>>
  BY DEF ScaleDown
<1>2. round' \in Round /\ round'.at = "acted" /\ RoundKept
  BY <1>1, Types DEF Round, RoundKept
<1>3. -round.delta \in Nat /\ trouble' \in Scenario /\ round.delta # 0
  BY <1>1, Types
<1>4. StockOK'
  BY <1>1, <1>3, MarkType
<1> QED BY <1>1, <1>2, <1>3, <1>4, RecordedKeeps, HistoryKept, ActedKeeps

LEMMA ScaleHoldKeeps ==
  ASSUME IInv, ScaleHold
  PROVE  IInv'
<1> USE DEF IInv
<1>1. /\ round.at = "decided" /\ round' = [round EXCEPT !.at = "acted"]
      /\ UNCHANGED <<stock, hidden, pool, shown, lag, history, trouble, seen>>
  BY DEF ScaleHold
<1>2. round' \in Round /\ round'.at = "acted" /\ RoundKept
  BY <1>1, Types DEF Round, RoundKept
<1>3. trouble' \in Scenario /\ StockOK'
  BY <1>1, Types DEF StockOK
<1> QED BY <1>1, <1>2, <1>3, HistoryKept, ActedKeeps

LEMMA WrittenType ==
  ASSUME TypeOK
  PROVE  /\ Written \in Pool /\ Written.protect = round.pool.protect
<1>1. round.pool \in Pool /\ round.delta \in Int /\ Sign(round.delta) \in Int
      /\ 0 \in Age
  BY Types, ConstantTypes DEF Sign
<1> QED BY <1>1 DEF Written, Pool

LEMMA FinishRoundKeeps ==
  ASSUME IInv, FinishRound
  PROVE  IInv'
<1> USE DEF IInv
<1>1. /\ round.at = "acted" /\ round.current
      /\ pool' = Written /\ lag' = (lag \/ Written # pool)
      /\ seen' = [lost |-> 0, trigger |-> IF round.cause = "None" THEN seen.trigger
                                                                 ELSE 0]
      /\ round' = Idle /\ UNCHANGED <<stock, hidden, shown, history, trouble>>
  BY DEF FinishRound
<1>2. pool' \in Pool /\ pool'.protect = round.pool.protect
  BY <1>1, WrittenType
<1>3. seen' \in Seen /\ seen'.trigger = IF round.cause = "None" THEN seen.trigger
                                                               ELSE 0
  BY <1>1, Types, ConstantTypes DEF Seen
<1>4. TypeOK'
  BY <1>1, <1>2, <1>3, ConstantTypes, Types DEF TypeOK
<1>5. CacheOK'
  BY <1>1, Types DEF CacheOK
<1>6. HoldOK'
  <2> DEFINE pr == pool'.protect
  <2>1. HoldTime \in Nat \ {0} /\ Never # 0
    BY ConstantTypes DEF Never
  <2>2. CASE round.cause # "None"
    <3>1. Protection.enabled /\ pr.active /\ pr.until = HoldTime /\ seen'.trigger = 0
      BY <1>1, <1>2, <1>3, <2>2 DEF ProtectOK
    <3> QED BY <2>1, <3>1 DEF HoldOK
  <2>3. CASE round.cause = "None"
    <3>1. seen'.trigger = seen.trigger
      BY <1>3, <2>3
    <3>2. CASE seen.trigger # Never /\ seen.trigger < HoldTime
      <4>1. /\ Protection.enabled /\ pool.protect.active
            /\ pool.protect.until + seen.trigger >= HoldTime
        BY <3>2 DEF HoldOK
      <4>2. seen.trigger \in Int /\ pool.protect.until \in Nat
        BY <3>2, Types, PoolAssumption DEF Age, Protect
      <4>3. pool.protect.until > 0
        BY <2>1, <3>2, <4>1, <4>2
      <4>4. round.pool.protect = pool.protect
        BY <1>1, <2>3, <4>1, <4>3 DEF ProtectOK
      <4> QED BY <1>2, <3>1, <4>1, <4>4 DEF HoldOK
    <3> QED BY <3>1, <3>2 DEF HoldOK
  <2> QED BY <2>2, <2>3
<1> QED BY <1>1, <1>4, <1>5, <1>6, IdleKeeps, HistoryKept

-----------------------------------------------------------------------------
(***************************************************************************)
(* Neither do sandboxes, operators, the watch and time break it.           *)
(***************************************************************************)
LEMMA StockKeeps ==
  ASSUME IInv, StockOK', trouble' \in Scenario, seen' \in Seen,
         seen'.trigger = seen.trigger,
         round.at # "idle" =>
           stock'["Warm"] + seen'.lost >= stock["Warm"] + seen.lost,
         UNCHANGED <<pool, shown, lag, round, history>>
  PROVE  IInv'
<1> USE DEF IInv
<1>1. TypeOK'
  BY Types DEF TypeOK, StockOK
<1>2. StepOK'
  <2>1. /\ stock["Warm"] \in Nat /\ seen.lost \in Nat /\ round.warm \in Nat
        /\ stock'["Warm"] \in Nat /\ seen'.lost \in Nat
    BY Types DEF Kind, Seen, StockOK
  <2> QED BY <2>1 DEF StepOK
<1> QED BY <1>1, <1>2, HistoryKept DEF CacheOK, ProtectOK, HoldOK

(* What was warm and moved is counted as lost while a round is on.         *)
LEMMA LostIsCounted ==
  ASSUME IInv, NEW from \in Kind,
         seen' = [seen EXCEPT !.lost = IF from = "Warm" /\ round.at # "idle"
                                         THEN @ + 1 ELSE @]
  PROVE  /\ seen' \in Seen /\ seen'.trigger = seen.trigger
         /\ round.at # "idle" =>
              seen'.lost = IF from = "Warm" THEN seen.lost + 1 ELSE seen.lost
<1>1. seen \in Seen
  BY Types DEF IInv
<1> QED BY <1>1 DEF Seen

LEMMA MoveKeeps ==
  ASSUME IInv, NEW a \in Kind, NEW b \in Kind \ {a}, Move(a, b),
         a = "Draining" => stock["Draining"] > hidden, trouble' \in Scenario
  PROVE  IInv'
<1>1. /\ stock \in [Kind -> Nat] /\ "Warm" \in Kind /\ "Draining" \in Kind
      /\ stock["Warm"] \in Nat /\ stock["Draining"] \in Nat /\ seen.lost \in Nat
      /\ hidden \in Nat /\ hidden =< stock["Draining"]
  BY Types DEF IInv, Kind, Seen
<1>2. /\ stock[a] > 0 /\ stock' = Moved(a, b, 1)
      /\ UNCHANGED <<hidden, pool, shown, lag, round, history>>
  BY DEF Move
<1>3. 1 \in Nat /\ 1 =< stock[a]
  BY <1>1, <1>2
<1>4. /\ stock' \in [Kind -> Nat]
      /\ stock'["Warm"] = IF "Warm" = a THEN stock[a] - 1
                          ELSE IF "Warm" = b THEN stock[b] + 1 ELSE stock["Warm"]
      /\ stock'["Draining"] = IF "Draining" = a THEN stock[a] - 1
                              ELSE IF "Draining" = b THEN stock[b] + 1
                              ELSE stock["Draining"]
  BY <1>1, <1>2, <1>3, MovedType
<1>5. /\ seen' \in Seen /\ seen'.trigger = seen.trigger
      /\ round.at # "idle" =>
           seen'.lost = IF a = "Warm" THEN seen.lost + 1 ELSE seen.lost
  BY LostIsCounted DEF Move
<1>6. round.at # "idle" =>
        stock'["Warm"] + seen'.lost >= stock["Warm"] + seen.lost
  BY <1>1, <1>4, <1>5
<1>7. StockOK'
  BY <1>1, <1>2, <1>4 DEF StockOK
<1> QED BY <1>2, <1>5, <1>6, <1>7, StockKeeps

LEMMA SandboxesKeep ==
  ASSUME IInv, Sandboxes
  PROVE  IInv'
<1> USE DEF IInv
<1>1. /\ StockOK /\ stock \in [Kind -> Nat] /\ "Warm" \in Kind
      /\ "Draining" \in Kind /\ \A k \in Kind : stock[k] \in Nat
  BY Types DEF Kind
<1>2. seen \in Seen /\ seen.lost \in Nat /\ trouble \in Scenario
  BY Types DEF Seen
<1>3. CASE Progress \/ ReleaseEarly
  BY <1>2, <1>3, MoveKeeps DEF Progress, ReleaseEarly, Advances, EarlyReleases, Kind
<1>4. CASE Fails \/ Claim
  <2>1. trouble' \in Scenario
    BY <1>4, DisturbType DEF Fails, Claim
  <2> QED BY <1>4, <2>1, MoveKeeps DEF Fails, Claim, Failures, Kind
<1>5. CASE Reclaim
  <2>1. trouble' \in Scenario
    BY <1>5, DisturbType DEF Reclaim
  <2>2. CASE stock["Draining"] > hidden /\ Move("Draining", "Deleting")
    BY <2>1, <2>2, MoveKeeps DEF Kind
  <2>3. ASSUME stock["Warm"] > 0, stock' = [stock EXCEPT !["Warm"] = @ - 1],
               seen' = [seen EXCEPT !.lost = IF round.at = "idle" THEN @ ELSE @ + 1],
               UNCHANGED <<hidden, pool, shown, lag, round, history>>
        PROVE  IInv'
    <3>1. /\ seen' \in Seen /\ seen'.trigger = seen.trigger
          /\ round.at # "idle" => seen'.lost = seen.lost + 1
      BY <1>2, <2>3 DEF Seen
    <3>2. StockOK' /\ stock'["Warm"] = stock["Warm"] - 1
      BY <1>1, <2>3 DEF StockOK
    <3> QED BY <1>1, <1>2, <2>1, <2>3, <3>1, <3>2, StockKeeps
  <2> QED BY <1>5, <2>2, <2>3 DEF Reclaim
<1>6. CASE CreateCold
  <2>1. trouble' \in Scenario
    BY <1>6, DisturbType DEF CreateCold
  <2>2. StockOK' /\ stock'["Warm"] = stock["Warm"]
    BY <1>6, CreatedKeeps DEF CreateCold
  <2> QED BY <1>1, <1>2, <1>6, <2>1, <2>2, StockKeeps DEF CreateCold
<1>7. ASSUME NEW k \in {"Session", "Failed", "Deleting"}, Gone(k)
      PROVE  IInv'
  <2>1. StockOK' /\ stock'["Warm"] = stock["Warm"]
    BY <1>1, <1>7 DEF Gone, Kind, StockOK
  <2> QED BY <1>1, <1>2, <1>7, <2>1, StockKeeps DEF Gone
<1> QED BY <1>3, <1>4, <1>5, <1>6, <1>7 DEF Sandboxes, Ends

LEMMA WriteKeeps ==
  ASSUME IInv, NEW p \in Pool, p.protect = pool.protect, Write(p),
         trouble' \in Scenario
  PROVE  IInv'
<1> USE DEF IInv
<1>1. /\ pool' = p /\ lag' = TRUE /\ round' = [round EXCEPT !.current = FALSE]
      /\ UNCHANGED <<stock, hidden, shown, history, seen>>
  BY DEF Write
<1>2. /\ round' \in Round /\ round'.current = FALSE
      /\ round'.at = round.at /\ round'.warm = round.warm
      /\ round'.delta = round.delta /\ round'.pool = round.pool
  BY <1>1, Types DEF Round
<1>3. TypeOK'
  BY <1>1, <1>2, Types DEF TypeOK
<1>4. StepOK'
  BY <1>1, <1>2 DEF StepOK
<1>5. ProtectOK' /\ CacheOK'
  BY <1>1, <1>2 DEF ProtectOK, CacheOK
<1> QED BY <1>1, <1>3, <1>4, <1>5, HistoryKept DEF HoldOK

LEMMA OperatorKeeps ==
  ASSUME IInv, EditPool \/ DrainPool
  PROVE  IInv'
<1> USE DEF IInv
<1>1. trouble' \in Scenario
  BY DisturbType DEF EditPool, DrainPool
<1>2. ASSUME NEW m \in MinWarms, Write([pool EXCEPT !.minWarm = m])
      PROVE  IInv'
  <2>1. m \in Nat
    BY PoolAssumption
  <2>2. /\ [pool EXCEPT !.minWarm = m] \in Pool
        /\ [pool EXCEPT !.minWarm = m].protect = pool.protect
    BY <2>1, Types DEF Pool
  <2> QED BY <1>1, <1>2, <2>2, WriteKeeps
<1>3. ASSUME NEW d \in BOOLEAN, Write([pool EXCEPT !.drain = d])
      PROVE  IInv'
  <2>1. /\ [pool EXCEPT !.drain = d] \in Pool
        /\ [pool EXCEPT !.drain = d].protect = pool.protect
    BY Types DEF Pool
  <2> QED BY <1>1, <1>3, <2>1, WriteKeeps
<1> QED BY <1>2, <1>3 DEF EditPool, DrainPool

LEMMA DeliverKeeps ==
  ASSUME IInv, Deliver
  PROVE  IInv'
<1> USE DEF IInv
<1>1. /\ shown' = pool /\ lag' = FALSE
      /\ UNCHANGED <<stock, hidden, pool, round, history, trouble, seen>>
  BY DEF Deliver
<1>2. TypeOK'
  BY <1>1, Types DEF TypeOK
<1> QED BY <1>1, <1>2, HistoryKept DEF CacheOK, ProtectOK, HoldOK, StepOK

LEMMA ShowMarksKeeps ==
  ASSUME IInv, ShowMarks
  PROVE  IInv'
<1> USE DEF IInv
<1>1. UNCHANGED <<stock, pool, shown, lag, round, history, trouble, seen>>
  BY DEF ShowMarks
<1>2. StockOK'
  <2>1. stock["Draining"] \in Nat /\ hidden \in Nat /\ hidden =< stock["Draining"]
    BY Types DEF Kind
  <2>2. hidden' \in 0 .. stock["Draining"]
    BY <2>1 DEF ShowMarks
  <2> QED BY <1>1, <2>2, Types DEF StockOK
<1>3. TypeOK'
  BY <1>1, <1>2, Types DEF TypeOK, StockOK
<1> QED BY <1>1, <1>3, HistoryKept DEF CacheOK, ProtectOK, HoldOK, StepOK

LEMMA OlderType ==
  /\ \A a \in Age \cup {Never} : Older(a) \in Age \cup {Never}
  /\ \A a \in Age : Older(a) \in Age /\ (Older(a) = a + 1 \/ Older(a) = MaxAge)
  /\ Older(Never) = Never
  /\ \A p \in Pool : /\ OlderPool(p) \in Pool
                     /\ OlderPool(p).protect.active = p.protect.active
                     /\ OlderPool(p).protect.trips = p.protect.trips
                     /\ OlderPool(p).protect.until = Larger(0, p.protect.until - 1)
<1>1. /\ \A a \in Age \cup {Never} : Older(a) \in Age \cup {Never}
      /\ \A a \in Age : Older(a) \in Age /\ (Older(a) = a + 1 \/ Older(a) = MaxAge)
      /\ Older(Never) = Never
  BY PoolAssumption DEF Older, Age, Never, Smaller
<1>2. ASSUME NEW p \in Pool
      PROVE  /\ OlderPool(p) \in Pool
             /\ OlderPool(p).protect.active = p.protect.active
             /\ OlderPool(p).protect.trips = p.protect.trips
             /\ OlderPool(p).protect.until = Larger(0, p.protect.until - 1)
  <2> DEFINE u == Larger(0, p.protect.until - 1)
             s == Older(p.sinceScale)
             q == [p.protect EXCEPT !.until = u]
  <2>1. p.protect \in Protect /\ p.sinceScale \in Age \cup {Never}
    BY DEF Pool
  <2>2. u \in Nat /\ s \in Age \cup {Never}
    BY <1>1, <2>1 DEF Protect, Larger
  <2>3. OlderPool(p) = [p EXCEPT !.sinceScale = s, !.protect = q]
    BY DEF OlderPool, Pool
  <2> HIDE DEF u, s
  <2>4. /\ q \in Protect /\ q.active = p.protect.active
        /\ q.trips = p.protect.trips /\ q.until = u
    BY <2>1, <2>2 DEF Protect
  <2> HIDE DEF q
  <2>5. OlderPool(p) \in Pool /\ OlderPool(p).protect = q
    BY <2>2, <2>3, <2>4 DEF Pool
  <2> QED BY <2>4, <2>5 DEF u
<1> QED BY <1>1, <1>2

LEMMA TickKeeps ==
  ASSUME IInv, Tick
  PROVE  IInv'
<1> USE DEF IInv
<1> DEFINE g == [i \in 1 .. Len(history) |->
                   [history[i] EXCEPT !.age = Older(@)]]
<1>1. /\ round.at = "idle" /\ ~lag
      /\ pool' = OlderPool(pool) /\ shown' = OlderPool(shown)
      /\ history' = Recent(g, Window + 1)
      /\ seen' = [seen EXCEPT !.trigger = Older(@)]
      /\ UNCHANGED <<stock, hidden, lag, round, trouble>>
  BY DEF Tick
<1>2. g \in Seq(Event) /\ Ordered(g) /\ Turns(g) = Turns(history)
  BY Types, OlderProperty DEF HistoryOK
<1> HIDE DEF g
<1>3. /\ history' \in Seq(Event) /\ Ordered(history')
      /\ \A i \in 1 .. Len(history') : history'[i].age < Window + 1
      /\ Cardinality(Turns(history')) =< Cardinality(Turns(history))
  <2>1. Window + 1 \in Int
    BY PoolAssumption
  <2> DEFINE r == Recent(g, Window + 1)
  <2>2. /\ r \in Seq(Event) /\ Ordered(r)
        /\ \A i \in 1 .. Len(r) : r[i].age < Window + 1
        /\ Cardinality(Turns(r)) =< Cardinality(Turns(g))
    BY <1>2, <2>1, RecentProperties
  <2> HIDE DEF r
  <2>3. history' = r
    BY <1>1 DEF r
  <2> QED BY <1>2, <2>2, <2>3
<1>4. HistoryOK'
  <2>1. Cardinality(Turns(history')) \in Nat /\ Cardinality(Turns(history)) \in Nat
    BY <1>3, Types, TurnsAreFinite
  <2> QED BY <1>3, <2>1 DEF HistoryOK, maxReversalsInWindow
<1>5. /\ pool' \in Pool /\ shown' \in Pool
      /\ pool'.protect.active = pool.protect.active
      /\ pool'.protect.until = Larger(0, pool.protect.until - 1)
  BY <1>1, Types, OlderType
<1>6. seen' \in Seen /\ seen'.trigger = Older(seen.trigger)
  <2>1. seen \in Seen /\ Older(seen.trigger) \in Age \cup {Never}
    BY Types, OlderType
  <2> QED BY <1>1, <2>1 DEF Seen
<1>7. TypeOK'
  BY <1>1, <1>3, <1>5, <1>6, Types DEF TypeOK
<1>8. HoldOK'
  <2> SUFFICES ASSUME seen'.trigger # Never
               PROVE  /\ Protection.enabled
                      /\ seen'.trigger < HoldTime =>
                           /\ pool'.protect.active
                           /\ pool'.protect.until + seen'.trigger >= HoldTime
    BY DEF HoldOK
  <2>1. seen.trigger # Never /\ seen.trigger \in Age
    BY <1>6, OlderType, Types
  <2>2. Protection.enabled
    BY <2>1 DEF HoldOK
  <2>3. ASSUME seen'.trigger < HoldTime
        PROVE  /\ pool'.protect.active
               /\ pool'.protect.until + seen'.trigger >= HoldTime
    <3>1. /\ HoldTime \in Nat /\ HoldTime =< MaxAge /\ seen.trigger \in Nat
          /\ pool.protect.until \in Nat /\ MaxAge \in Nat
      BY <2>1, ConstantTypes, PoolAssumption, Types DEF Protect, Age
    <3>2. seen'.trigger = seen.trigger + 1
      BY <1>6, <2>1, <2>3, <3>1, OlderType
    <3>3. pool.protect.active /\ pool.protect.until + seen.trigger >= HoldTime
      BY <2>1, <2>3, <3>1, <3>2 DEF HoldOK
    <3> QED BY <1>5, <3>1, <3>2, <3>3 DEF Larger
  <2> QED BY <2>2, <2>3
<1>9. ProtectOK' /\ StepOK' /\ CacheOK'
  BY <1>1 DEF ProtectOK, StepOK, CacheOK
<1> QED BY <1>4, <1>7, <1>8, <1>9

-----------------------------------------------------------------------------
(***************************************************************************)
(* The invariant, and what follows from it.                                *)
(***************************************************************************)
LEMMA InitOK == Init => IInv
<1> SUFFICES ASSUME Init PROVE IInv
  OBVIOUS
<1>1. /\ stock = [k \in Kind |-> 0] /\ hidden = 0
      /\ pool = Fresh(FirstMinWarm) /\ shown = pool /\ lag = FALSE
      /\ round = Idle /\ history = <<>> /\ trouble \in Scenarios
      /\ seen = [lost |-> 0, trigger |-> Never]
  BY DEF Init
<1>2. history \in Seq(Event) /\ Len(history) = 0
  BY <1>1, EmptySeq
<1>3. pool \in Pool /\ round \in Round /\ trouble \in Scenario /\ seen \in Seen
  BY <1>1, ConstantTypes, PoolAssumption DEF Seen
<1>4. TypeOK
  <2>1. stock \in [Kind -> Nat] /\ stock["Draining"] = 0
    BY <1>1 DEF Kind
  <2>2. hidden = 0 /\ lag \in BOOLEAN /\ shown = pool
    BY <1>1
  <2>3. hidden \in 0 .. stock["Draining"]
    BY <2>1, <2>2
  <2>4. shown \in Pool
    BY <1>3, <2>2
  <2> QED BY <1>2, <1>3, <2>1, <2>2, <2>3, <2>4 DEF TypeOK
<1>5. HistoryOK
  <2>1. Cardinality(Turns(history)) = 0
    <3>1. Turns(history) = {}
      BY <1>2 DEF Turns
    <3> QED BY <3>1, FS_EmptySet
  <2> QED BY <1>2, <2>1 DEF HistoryOK, Ordered, maxReversalsInWindow
<1>6. CacheOK /\ ProtectOK /\ HoldOK /\ StepOK
  BY <1>1, ConstantTypes DEF CacheOK, ProtectOK, HoldOK, StepOK
<1> QED BY <1>4, <1>5, <1>6 DEF IInv

LEMMA StepKeeps == IInv /\ [Next]_vars => IInv'
<1> SUFFICES ASSUME IInv, [Next]_vars PROVE IInv'
  OBVIOUS
<1>1. CASE Controller
  BY <1>1, StartRoundKeeps, CleanUpKeeps, CleanUpFailsKeeps, DrainKeeps,
     PauseScalingKeeps, ScaleUpKeeps, ScaleDownKeeps, ScaleHoldKeeps,
     CreateFailsKeeps, MarkFailsKeeps, FinishRoundKeeps, RoundFailsKeeps, CrashKeeps
     DEF Controller
<1>2. CASE Sandboxes
  BY <1>2, SandboxesKeep
<1>3. CASE EditPool \/ DrainPool
  BY <1>3, OperatorKeeps
<1>4. CASE Deliver \/ ShowMarks
  BY <1>4, DeliverKeeps, ShowMarksKeeps
<1>5. CASE Tick
  BY <1>5, TickKeeps
<1>6. CASE UNCHANGED vars
  BY <1>6, Types DEF vars, IInv, TypeOK, CacheOK, ProtectOK, HoldOK, HistoryOK, StepOK
<1> QED BY <1>1, <1>2, <1>3, <1>4, <1>5, <1>6 DEF Next

LEMMA Inductive == Spec => []IInv
<1> QED BY InitOK, StepKeeps, PTL DEF Spec

(* Counts stay natural numbers and the round keeps its shape, whatever     *)
(* happens to the stock between the count and the step.                    *)
THEOREM TypeCorrect == Spec => []TypeOK
<1>1. IInv => TypeOK
  BY DEF IInv
<1> QED BY <1>1, Inductive, PTL

(* Protection, once a recorded round saw provisions fail, lasts the hold,  *)
(* although EvaluateProtectMode works on a status read from a cache that   *)
(* lags, and whatever is written in between.                               *)
THEOREM ProtectionHolds == Spec => []HoldIsKept
<1>1. IInv => HoldIsKept
  BY DEF IInv, HoldOK, HoldIsKept, HoldTime
<1> QED BY <1>1, Inductive, PTL

(* The oscillation freeze: the history a controller remembers never turns  *)
(* more often than maxReversalsInWindow, for every window and every ages.  *)
THEOREM OscillationIsBounded == Spec => []TurnsAreBounded
<1>1. IInv => TurnsAreBounded
  <2> SUFFICES ASSUME IInv PROVE TurnsAreBounded
    OBVIOUS
  <2>1. history \in Seq(Event) /\ Window + 1 \in Int
    BY Types, PoolAssumption DEF IInv
  <2>2. Recent(history, Window + 1) = history
    BY <2>1, RecentProperties DEF IInv, HistoryOK
  <2> QED BY <2>2 DEF TurnsAreBounded, Reversals, IInv, HistoryOK
<1> QED BY <1>1, Inductive, PTL

(* A round that gives up stock leaves minWarm of it warm, but for the marks *)
(* its count did not see yet, and for what others took since: countStock   *)
(* and drainCandidates list a cache, and markDraining acts on an old count. *)
THEOREM ShrinkIsSafe == Spec => ShrinkKeepsMinWarm
<1>1. IInv /\ [Next]_vars =>
        [ScaleDown => stock'["Warm"] + seen.lost >= round.pool.minWarm]_vars
  <2> SUFFICES ASSUME IInv, ScaleDown
               PROVE  stock'["Warm"] + seen.lost >= round.pool.minWarm
    OBVIOUS
  <2> USE DEF IInv
  <2>1. /\ round.at = "decided" /\ round.delta < 0 /\ MarkDraining(-round.delta)
    BY DEF ScaleDown
  <2>2. -round.delta \in Nat /\ round.delta \in Int /\ stock["Warm"] \in Nat
        /\ seen.lost \in Nat /\ round.warm \in Nat /\ round.pool.minWarm \in Nat
    <3>1. round.delta \in Int /\ seen.lost \in Nat /\ round.warm \in Nat
          /\ round.pool.minWarm \in Nat
      BY Types
    <3>2. stock["Warm"] \in Nat
      BY Types DEF Kind
    <3>3. -round.delta \in Nat
      BY <2>1, <3>1
    <3> QED BY <3>1, <3>2, <3>3
  <2>3. StockOK' /\ stock'["Warm"] + (-round.delta) >= stock["Warm"]
    BY <2>1, <2>2, MarkType
  <2>4. /\ stock["Warm"] + seen.lost >= round.warm
        /\ round.warm + round.delta >= round.pool.minWarm
    BY <2>1 DEF StepOK
  <2>5. stock'["Warm"] \in Nat
    BY <2>3 DEF Kind, StockOK
  <2> QED BY <2>2, <2>3, <2>4, <2>5
<1> QED BY <1>1, Inductive, PTL DEF Spec, ShrinkKeepsMinWarm

(* trips, which applyProtectMode reads from a cached status and writes     *)
(* back, counts every entry into protection once.                          *)
THEOREM TripsAreCounted == Spec => TripsCountEntries
<1> DEFINE Counted == pool'.protect.trips = pool.protect.trips
             + IF pool'.protect.active /\ ~pool.protect.active THEN 1 ELSE 0
<1>1. IInv /\ [Next]_vars => [Counted]_vars
  <2> SUFFICES ASSUME IInv, Next PROVE Counted
    OBVIOUS
  <2> USE DEF IInv
  <2>1. pool \in Pool /\ pool.protect \in Protect /\ pool.protect.trips \in Nat
    BY Types DEF Protect
  <2>2. CASE pool'.protect.active = pool.protect.active
             /\ pool'.protect.trips = pool.protect.trips
    BY <2>1, <2>2
  <2>3. CASE FinishRound
    BY <2>3, WrittenType DEF FinishRound, ProtectOK
  <2>4. CASE Tick
    BY <2>1, <2>2, <2>4, OlderType DEF Tick
  <2>5. CASE EditPool \/ DrainPool
    <3>1. pool'.protect = pool.protect
      BY <2>1, <2>5 DEF EditPool, DrainPool, Write, Pool
    <3> QED BY <2>2, <3>1
  <2>6. CASE UNCHANGED pool
    BY <2>2, <2>6
  <2>7. CASE Sandboxes
    BY <2>6, <2>7 DEF Sandboxes, Progress, ReleaseEarly, Fails, Claim, Reclaim,
       CreateCold, Ends, Gone, Move
  <2>8. CASE Controller \/ Deliver \/ ShowMarks
    BY <2>3, <2>6, <2>8 DEF Controller, StartRound, CleanUp, CleanUpFails, Drain,
       PauseScaling, ScaleUp, ScaleDown, ScaleHold, CreateFails, MarkFails,
       UpdateConflicts, RoundFails, Crash, Deliver, ShowMarks
  <2> QED BY <2>4, <2>5, <2>7, <2>8 DEF Next
<1> QED BY <1>1, Inductive, PTL DEF Spec, TripsCountEntries
=============================================================================
