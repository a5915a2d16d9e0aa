----------------------- MODULE IsolationResolverProof -----------------------
(* What is proved of IsolationResolver.                                    *)
EXTENDS IsolationResolver, TLAPS

(* Configurations in force, and the levels a call with one of them tries.  *)
LEMMA ConfigsAreValid ==
  ASSUME NEW k \in Configs
  PROVE  Valid(k)
BY ResolverAssumption DEF Configs

LEMMA Candidates ==
  ASSUME NEW k \in Configs, NEW l \in DOMAIN k, NEW i \in Chain(k, l)
  PROVE  /\ l \in Level /\ At(k, l, i) \in DOMAIN k /\ At(k, l, i) \in Level /\ i \in Nat
         /\ k[At(k, l, i)].class \in Class \cup {NoClass}
         /\ k[At(k, l, i)].class = NoClass => At(k, l, i) \in Plain
         /\ At(k, l, i) # l => Policy = "FallbackToRunc"
<1>1. Valid(k)
  BY ConfigsAreValid
<1>2. At(k, l, i) \in DOMAIN k /\ i \in Nat
  BY DEF Chain, Place, At
<1>3. At(k, l, i) # l => Policy = "FallbackToRunc"
  BY DEF Chain, At
<1>4. /\ k[At(k, l, i)] \in LevelSpec /\ DOMAIN k \subseteq Level
      /\ k[At(k, l, i)].class = NoClass => At(k, l, i) \in Plain
  BY <1>1, <1>2 DEF Valid
<1>5. k[At(k, l, i)].class \in Class \cup {NoClass}
  BY <1>4 DEF LevelSpec
<1> QED BY <1>2, <1>3, <1>4, <1>5

LEMMA FirstPlace ==
  ASSUME NEW k \in Configs, NEW l \in DOMAIN k
  PROVE  /\ 0 \in Chain(k, l) /\ Before(k, l, 0) = {} /\ l \in Level
         /\ \A i \in Chain(k, l) : i \in Nat
<1>1. Valid(k)
  BY ConfigsAreValid
<1>2. k[l].fallbacks \in Seq(Level) /\ l \in Level
  BY <1>1 DEF Valid, LevelSpec
<1>3. Len(k[l].fallbacks) \in Nat
  BY <1>2
<1>4. 0 \in Place(k, l) /\ \A i \in Place(k, l) : i \in Nat
  BY <1>3 DEF Place
<1> QED BY <1>2, <1>4 DEF Chain, Before

-----------------------------------------------------------------------------
(* An answer says when it is weaker than what was asked for.               *)
Honest(av) ==
  /\ av.available
  /\ av.level # av.want \/ (av.class = NoClass /\ av.want \notin Plain)
  => av.degraded /\ av.reason = "FallbackApplied" /\ Policy = "FallbackToRunc"

Fit(av) == av \in Availability /\ Honest(av)

LEMMA LandsFit ==
  ASSUME NEW k \in Configs, NEW l \in DOMAIN k, NEW i \in Chain(k, l)
  PROVE  Fit(Lands(k, l, At(k, l, i))) /\ Lands(k, l, At(k, l, i)).want = l
<1> DEFINE cand == At(k, l, i)
           class == k[cand].class
           av == Lands(k, l, cand)
<1>1. /\ l \in Level /\ cand \in Level /\ class \in Class \cup {NoClass}
      /\ class = NoClass => cand \in Plain
      /\ cand # l => Policy = "FallbackToRunc"
  BY Candidates
<1> DEFINE degraded == cand # l
           reason == IF degraded THEN "FallbackApplied"
                     ELSE IF class = NoClass THEN "DefaultRuntime" ELSE "OK"
<1>2. av = Answer(l, cand, class, TRUE, degraded, reason)
  BY DEF Lands
<1> HIDE DEF cand, class, av
<1>3. CASE cand # l
  <2>1. degraded = TRUE /\ reason = "FallbackApplied"
    <3>1. degraded = TRUE
      BY <1>3
    <3> HIDE DEF degraded
    <3>2. reason = "FallbackApplied"
      BY <3>1
    <3> QED BY <3>1, <3>2
  <2>2. av = Answer(l, cand, class, TRUE, TRUE, "FallbackApplied")
    BY <1>2, <2>1
  <2>3. av \in Availability /\ av.want = l
    BY <1>1, <2>2 DEF Availability, Answer
  <2>4. Honest(av)
    BY <1>1, <1>3, <2>2 DEF Honest, Answer
  <2> QED BY <2>3, <2>4 DEF Fit, av, cand
<1>4. CASE cand = l
  <2>1. degraded = FALSE /\ reason \in {"DefaultRuntime", "OK"}
    BY <1>4
  <2> HIDE DEF reason
  <2>2. av = Answer(l, l, class, TRUE, FALSE, reason)
    BY <1>2, <1>4, <2>1
  <2>3. av \in Availability /\ av.want = l
    BY <1>1, <2>1, <2>2 DEF Availability, Answer
  <2>4. Honest(av)
    BY <1>1, <1>4, <2>2 DEF Honest, Answer
  <2> QED BY <2>3, <2>4 DEF Fit, av, cand
<1> QED BY <1>3, <1>4

LEMMA RefusalsFit ==
  ASSUME NEW l \in Level
  PROVE  /\ Fit(Unknown(l)) /\ Unknown(l).want = l
         /\ \A k : Fit(Unavailable(k, l)) /\ Unavailable(k, l).want = l
BY DEF Fit, Honest, Availability, Unknown, Unavailable, Answer

-----------------------------------------------------------------------------
(***************************************************************************)
(* The inductive invariant: how old what a call or the cache knows may be. *)
(***************************************************************************)
HistoryOK ==
  /\ lastUsed \in [Configs -> Nat] /\ lastUsed[cfg] = 0
  /\ lastThere \in [Class -> Nat] /\ lastGone \in [Class -> Nat]
  /\ \A r \in Class : IF r \in installed THEN lastThere[r] = 0 ELSE lastGone[r] = 0

WorldOK ==
  /\ file \in Files /\ unread \in BOOLEAN /\ installed \subseteq Class
  /\ cfg \in Configs /\ changes \in 0 .. MaxChanges

CacheOK ==
  /\ DOMAIN cache \subseteq Level /\ cache \in [DOMAIN cache -> Availability]
  /\ cacheAge \in 0 .. Expired
  /\ \A l \in DOMAIN cache, av \in Availability : cache[l] = av =>
       /\ Fit(av) /\ av.want = l
       /\ \A n \in 0 .. TTL : cacheAge = n => Known(av, n + Stall)

CallRec == [at : {"idle", "probing", "resolved", "answered"},
            want : Level \cup {""}, cfg : Configs, next : Nat,
            age : 0 .. Stall, av : Availability \cup {NoAnswer}]

GoneBefore(r) ==
  \A j \in Before(r.cfg, r.want, r.next) : WasGone(r.cfg[At(r.cfg, r.want, j)].class, r.age)

Good(r) ==
  /\ r.at = "probing" =>
       /\ r.want \in Level /\ lastUsed[r.cfg] =< r.age
       /\ r.want \in DOMAIN r.cfg => r.next \in Chain(r.cfg, r.want) /\ GoneBefore(r)
  /\ r.at = "resolved" => Fit(r.av) /\ Known(r.av, r.age)
  /\ r.at = "answered" => Fit(r.av) /\ Known(r.av, TTL + Stall)

CallsOK ==
  /\ calls \in [Caller -> CallRec]
  /\ \A c \in Caller, r \in CallRec : calls[c] = r => Good(r)

IInv == HistoryOK /\ WorldOK /\ CacheOK /\ CallsOK

LEMMA Constants ==
  /\ TTL \in Nat /\ Stall \in Nat /\ MaxChanges \in Nat /\ Expired \in Nat /\ Far \in Nat
  /\ TTL + Stall \in Nat /\ Expired = TTL + 1 /\ Builtin \in Configs /\ NoClass \notin Class
BY ResolverAssumption DEF Expired, Far, Configs

(* History that is d older at most still explains what is d older.         *)
Aged(d) ==
  /\ \A k \in Configs : lastUsed'[k] \in Nat /\ lastUsed'[k] =< lastUsed[k] + d
  /\ \A r \in Class : /\ lastThere'[r] \in Nat /\ lastThere'[r] =< lastThere[r] + d
                      /\ lastGone'[r] \in Nat /\ lastGone'[r] =< lastGone[r] + d

LEMMA ClassesAge ==
  ASSUME HistoryOK, NEW d \in Nat, Aged(d), NEW m \in Nat, NEW n \in Nat, m + d =< n,
         NEW class \in Class \cup {NoClass}
  PROVE  /\ WasThere(class, m) => WasThere(class, n)'
         /\ WasGone(class, m) => WasGone(class, n)'
<1>1. CASE class = NoClass
  BY <1>1 DEF WasThere, WasGone
<1>2. CASE class \in Class
  <2>1. /\ lastThere[class] \in Nat /\ lastGone[class] \in Nat
        /\ lastThere'[class] \in Nat /\ lastThere'[class] =< lastThere[class] + d
        /\ lastGone'[class] \in Nat /\ lastGone'[class] =< lastGone[class] + d
    BY <1>2 DEF HistoryOK, Aged
  <2>2. lastThere[class] =< m => lastThere'[class] =< n
    BY <2>1
  <2>3. lastGone[class] =< m => lastGone'[class] =< n
    BY <2>1
  <2> QED BY <1>2, <2>2, <2>3 DEF WasThere, WasGone
<1> QED BY <1>1, <1>2

LEMMA KnowledgeAges ==
  ASSUME HistoryOK, NEW d \in Nat, Aged(d), NEW m \in Nat, NEW n \in Nat, m + d =< n,
         NEW av, Known(av, m)
  PROVE  Known(av, n)'
<1>1. PICK k \in Configs : lastUsed[k] =< m /\ Explains(k, av, m)
  BY DEF Known
<1>2. lastUsed'[k] =< n
  <2>1. lastUsed[k] \in Nat /\ lastUsed'[k] \in Nat /\ lastUsed'[k] =< lastUsed[k] + d
    BY DEF HistoryOK, Aged
  <2> QED BY <1>1, <2>1
<1> DEFINE l == av.want
<1>3. ASSUME l \in DOMAIN k, NEW i \in Chain(k, l)
      PROVE  /\ WasThere(k[At(k, l, i)].class, m) => WasThere(k[At(k, l, i)].class, n)'
             /\ WasGone(k[At(k, l, i)].class, m) => WasGone(k[At(k, l, i)].class, n)'
  BY <1>3, Candidates, ClassesAge
<1>4. Explains(k, av, n)'
  <2>1. CASE l \notin DOMAIN k /\ av = Unknown(l)
    BY <2>1 DEF Explains
  <2>2. CASE /\ l \in DOMAIN k /\ av = Unavailable(k, l)
             /\ \A i \in Chain(k, l) : WasGone(k[At(k, l, i)].class, m)
    <3>1. \A i \in Chain(k, l) : WasGone(k[At(k, l, i)].class, n)'
      BY <1>3, <2>2
    <3> QED BY <2>2, <3>1 DEF Explains
  <2>3. CASE /\ l \in DOMAIN k
             /\ \E i \in Chain(k, l) :
                  /\ av = Lands(k, l, At(k, l, i)) /\ WasThere(k[At(k, l, i)].class, m)
                  /\ \A j \in Before(k, l, i) : WasGone(k[At(k, l, j)].class, m)
    <3>1. PICK i \in Chain(k, l) :
            /\ av = Lands(k, l, At(k, l, i)) /\ WasThere(k[At(k, l, i)].class, m)
            /\ \A j \in Before(k, l, i) : WasGone(k[At(k, l, j)].class, m)
      BY <2>3
    <3>2. \A j \in Before(k, l, i) : j \in Chain(k, l)
      BY DEF Before
    <3>3. WasThere(k[At(k, l, i)].class, n)'
          /\ \A j \in Before(k, l, i) : WasGone(k[At(k, l, j)].class, n)'
      BY <1>3, <2>3, <3>1, <3>2
    <3> QED BY <2>3, <3>1, <3>3 DEF Explains
  <2> QED BY <1>1, <2>1, <2>2, <2>3 DEF Explains
<1> QED BY <1>2, <1>4 DEF Known

-----------------------------------------------------------------------------
(* Without time passing nothing gets older.                                *)
LEMMA StillKnown ==
  ASSUME HistoryOK, Aged(0), NEW n \in Nat, NEW av, Known(av, n)
  PROVE  Known(av, n)'
<1>1. 0 \in Nat /\ n + 0 =< n
  OBVIOUS
<1> QED BY <1>1, KnowledgeAges

LEMMA SameHistory ==
  ASSUME HistoryOK, UNCHANGED history
  PROVE  Aged(0)
<1>1. /\ lastUsed' = lastUsed /\ lastThere' = lastThere /\ lastGone' = lastGone
      /\ \A k \in Configs : lastUsed[k] \in Nat
      /\ \A r \in Class : lastThere[r] \in Nat /\ lastGone[r] \in Nat
  BY DEF history, HistoryOK
<1> QED BY <1>1 DEF Aged

(* What was known within m is known within more. *)
LEMMA MoreTimeKnows ==
  ASSUME HistoryOK, NEW m \in Nat, NEW n \in Nat, m =< n, NEW av, Known(av, m)
  PROVE  Known(av, n)
<1>1. PICK k \in Configs : lastUsed[k] =< m /\ Explains(k, av, m)
  BY DEF Known
<1> DEFINE l == av.want
<1>2. lastUsed[k] =< n
  BY <1>1 DEF HistoryOK
<1>3. ASSUME l \in DOMAIN k, NEW i \in Chain(k, l)
      PROVE  k[At(k, l, i)].class \in Class \cup {NoClass}
  BY <1>3, Candidates
<1>4. ASSUME l \in DOMAIN k, NEW i \in Chain(k, l)
      PROVE  /\ WasThere(k[At(k, l, i)].class, m) => WasThere(k[At(k, l, i)].class, n)
             /\ WasGone(k[At(k, l, i)].class, m) => WasGone(k[At(k, l, i)].class, n)
  <2> DEFINE class == k[At(k, l, i)].class
  <2>1. class \in Class \cup {NoClass}
    BY <1>3, <1>4
  <2> HIDE DEF class
  <2>2. /\ WasThere(class, m) => WasThere(class, n)
        /\ WasGone(class, m) => WasGone(class, n)
    BY <2>1 DEF HistoryOK, WasThere, WasGone
  <2> QED BY <2>2 DEF class
<1>5. \A i : \A j \in Before(k, l, i) : j \in Chain(k, l)
  BY DEF Before
<1> HIDE DEF l
<1>6. Explains(k, av, n)
  BY <1>1, <1>4, <1>5 DEF Explains, l
<1> QED BY <1>2, <1>6 DEF Known

LEMMA GoodStays ==
  ASSUME HistoryOK, Aged(0), NEW r \in CallRec, Good(r)
  PROVE  Good(r)'
<1>1. r.age \in Nat /\ TTL + Stall \in Nat /\ r.cfg \in Configs
  <2>1. r.age \in 0 .. Stall /\ r.cfg \in Configs
    BY DEF CallRec
  <2> QED BY <2>1, Constants
<1>2. r.at = "resolved" => Known(r.av, r.age)'
  BY <1>1, StillKnown DEF Good
<1>3. r.at = "answered" => Known(r.av, TTL + Stall)'
  BY <1>1, StillKnown DEF Good
<1>4. ASSUME r.at = "probing"
      PROVE  /\ lastUsed'[r.cfg] =< r.age
             /\ r.want \in DOMAIN r.cfg => GoneBefore(r)'
  <2>1. lastUsed'[r.cfg] =< r.age
    <3>1. lastUsed[r.cfg] \in Nat /\ lastUsed'[r.cfg] \in Nat
          /\ lastUsed'[r.cfg] =< lastUsed[r.cfg] + 0 /\ lastUsed[r.cfg] =< r.age
      BY <1>1, <1>4 DEF HistoryOK, Aged, Good
    <3> QED BY <1>1, <3>1
  <2>2. ASSUME r.want \in DOMAIN r.cfg, NEW j \in Before(r.cfg, r.want, r.next)
        PROVE  WasGone(r.cfg[At(r.cfg, r.want, j)].class, r.age)'
    <3>1. WasGone(r.cfg[At(r.cfg, r.want, j)].class, r.age)
      BY <1>4, <2>2 DEF Good, GoneBefore
    <3>2. r.cfg[At(r.cfg, r.want, j)].class \in Class \cup {NoClass}
      BY <1>1, <2>2, Candidates DEF Before
    <3>3. 0 \in Nat /\ r.age + 0 =< r.age
      BY <1>1
    <3> QED BY <1>1, <3>1, <3>2, <3>3, ClassesAge
  <2> QED BY <2>1, <2>2 DEF GoneBefore
<1> QED BY <1>2, <1>3, <1>4 DEF Good

LEMMA CacheStays ==
  ASSUME HistoryOK, Aged(0), CacheOK, UNCHANGED <<cache, cacheAge>>
  PROVE  CacheOK'
<1>1. ASSUME NEW l \in DOMAIN cache, NEW av \in Availability, cache[l] = av
      PROVE  /\ Fit(av) /\ av.want = l
             /\ \A n \in 0 .. TTL : cacheAge = n => Known(av, n + Stall)'
  <2>1. Fit(av) /\ av.want = l
    BY <1>1 DEF CacheOK
  <2>2. ASSUME NEW n \in 0 .. TTL, cacheAge = n PROVE Known(av, n + Stall)'
    <3>1. n + Stall \in Nat
      BY Constants
    <3>2. Known(av, n + Stall)
      BY <1>1, <2>2 DEF CacheOK
    <3> QED BY <3>1, <3>2, StillKnown
  <2> QED BY <2>1, <2>2
<1> QED BY <1>1 DEF CacheOK

(* A call takes a step: what it becomes, r, fits, and only its own entry   *)
(* changes.                                                                *)
LEMMA CallStep ==
  ASSUME IInv, NEW c \in Caller, NEW r \in CallRec, Good(r)', NEW from,
         Step(c, from, r), UNCHANGED world
  PROVE  CallsOK' /\ HistoryOK' /\ WorldOK'
<1>1. /\ calls'[c] = r /\ \A d \in Caller \ {c} : calls'[d] = calls[d]
      /\ calls' \in [Caller -> CallRec]
  BY DEF IInv, CallsOK, Step
<1>2. UNCHANGED <<file, unread, installed, cfg, changes>> /\ UNCHANGED history
  BY DEF world
<1>3. HistoryOK' /\ WorldOK'
  BY <1>2 DEF IInv, HistoryOK, WorldOK, history
<1>4. ASSUME NEW d \in Caller, NEW o \in CallRec, calls'[d] = o PROVE Good(o)'
  <2>1. CASE d = c
    BY <1>1, <1>4, <2>1
  <2>2. CASE d # c
    <3>1. Good(o)
      BY <1>1, <1>4, <2>2 DEF IInv, CallsOK
    <3>2. Aged(0)
      BY <1>2, SameHistory DEF IInv
    <3> QED BY <3>1, <3>2, GoodStays DEF IInv
  <2> QED BY <2>1, <2>2
<1> QED BY <1>1, <1>3, <1>4 DEF CallsOK

LEMMA QuietCall ==
  ASSUME IInv, NEW c \in Caller, NEW r \in CallRec, Good(r), NEW from,
         Step(c, from, r), UNCHANGED others
  PROVE  IInv'
<1>1. UNCHANGED world /\ UNCHANGED <<cache, cacheAge>> /\ UNCHANGED history
  BY DEF others, world
<1>2. Aged(0)
  BY <1>1, SameHistory DEF IInv
<1>3. Good(r)'
  BY <1>2, GoodStays DEF IInv
<1>4. CacheOK'
  BY <1>1, <1>2, CacheStays DEF IInv
<1>5. CallsOK' /\ HistoryOK' /\ WorldOK'
  BY <1>1, <1>3, CallStep
<1> QED BY <1>4, <1>5 DEF IInv

LEMMA CallForms ==
  /\ Idle \in CallRec /\ Idle.at = "idle"
  /\ \A l \in Level, k \in Configs :
       LET r == CallAt("probing", l, k, 0, NoAnswer)
       IN  /\ r \in CallRec /\ r.at = "probing" /\ r.want = l /\ r.cfg = k
           /\ r.next = 0 /\ r.age = 0
  /\ \A av \in Availability, n \in 0 .. Stall :
       LET r == CallAt("resolved", "", Builtin, n, av)
       IN  r \in CallRec /\ r.at = "resolved" /\ r.age = n /\ r.av = av
  /\ \A av \in Availability :
       Answered(av) \in CallRec /\ Answered(av).at = "answered" /\ Answered(av).av = av
<1>1. 0 \in Nat /\ 0 \in 0 .. Stall /\ Builtin \in Configs
  BY Constants
<1> QED BY <1>1 DEF Idle, Answered, CallAt, CallRec

LEMMA AskedStep ==
  ASSUME IInv, NEW c \in Caller, NEW l \in Level, AskCached(c, l) \/ Ask(c, l)
  PROVE  IInv'
<1>1. CASE AskCached(c, l)
  <2> DEFINE av == cache[l]
             n == cacheAge + Stall
  <2>1. /\ l \in DOMAIN cache /\ cacheAge =< TTL /\ av \in Availability
        /\ Step(c, "idle", Answered(av)) /\ UNCHANGED others
    BY <1>1 DEF AskCached, Cached, IInv, CacheOK
  <2>2. /\ cacheAge \in 0 .. TTL /\ n \in Nat /\ n =< TTL + Stall
    BY <2>1, Constants DEF IInv, CacheOK
  <2>3. Fit(av) /\ Known(av, n)
    BY <2>1, <2>2 DEF IInv, CacheOK
  <2> HIDE DEF av, n
  <2>4. Known(av, TTL + Stall)
    BY <2>2, <2>3, Constants, MoreTimeKnows DEF IInv
  <2>5. Answered(av) \in CallRec /\ Good(Answered(av))
    BY <2>1, <2>3, <2>4, CallForms DEF Good
  <2> QED BY <2>1, <2>5, QuietCall
<1>2. CASE Ask(c, l)
  <2> DEFINE r == CallAt("probing", l, cfg, 0, NoAnswer)
  <2>1. Step(c, "idle", r) /\ UNCHANGED others /\ cfg \in Configs
    BY <1>2 DEF Ask, IInv, WorldOK
  <2>2. /\ r \in CallRec /\ r.at = "probing" /\ r.want = l /\ r.cfg = cfg
        /\ r.next = 0 /\ r.age = 0
    <3>1. \A k \in Configs :
            LET x == CallAt("probing", l, k, 0, NoAnswer)
            IN  /\ x \in CallRec /\ x.at = "probing" /\ x.want = l /\ x.cfg = k
                /\ x.next = 0 /\ x.age = 0
      BY CallForms
    <3> QED BY <2>1, <3>1
  <2> HIDE DEF r
  <2>3. lastUsed[r.cfg] =< r.age
    BY <2>2 DEF IInv, HistoryOK
  <2>4. l \in DOMAIN cfg => 0 \in Chain(cfg, l) /\ Before(cfg, l, 0) = {}
    BY <2>1, FirstPlace
  <2>5. Good(r)
    BY <2>2, <2>3, <2>4 DEF Good, GoneBefore
  <2> QED BY <2>1, <2>2, <2>5, QuietCall
<1> QED BY <1>1, <1>2

(* What is found while probing is known as of the age of the call.         *)
LEMMA FoundStep ==
  ASSUME IInv, NEW c \in Caller, NEW av, Found(c, av), UNCHANGED others,
         Fit(av), Known(av, calls[c].age)
  PROVE  IInv'
<1> DEFINE r == CallAt("resolved", "", Builtin, calls[c].age, av)
<1>1. Step(c, "probing", r)
  BY DEF Found
<1>2. calls[c].age \in 0 .. Stall /\ av \in Availability
  BY DEF IInv, CallsOK, CallRec, Fit
<1>3. r \in CallRec /\ r.at = "resolved" /\ r.age = calls[c].age /\ r.av = av
  BY <1>2, CallForms
<1> HIDE DEF r
<1>4. Good(r)
  BY <1>3 DEF Good
<1> QED BY <1>1, <1>3, <1>4, QuietCall

LEMMA Probing ==
  ASSUME IInv, NEW c \in Caller, calls[c].at = "probing"
  PROVE  LET r == calls[c]
         IN  /\ r \in CallRec /\ r.cfg \in Configs /\ r.want \in Level
             /\ r.age \in Nat /\ lastUsed[r.cfg] =< r.age
             /\ r.want \in DOMAIN r.cfg =>
                  r.next \in Chain(r.cfg, r.want) /\ r.next \in Nat /\ GoneBefore(r)
<1> DEFINE r == calls[c]
<1>1. r \in CallRec
  BY DEF IInv, CallsOK
<1>2. Good(r)
  BY <1>1 DEF IInv, CallsOK
<1>3. r.age \in 0 .. Stall /\ r.cfg \in Configs /\ r.next \in Nat
  BY <1>1 DEF CallRec
<1> QED BY <1>1, <1>2, <1>3, Constants DEF Good

LEMMA NowIsKnown ==
  ASSUME HistoryOK, NEW class \in Class \cup {NoClass}, NEW n \in Nat
  PROVE  /\ Exists(class) => WasThere(class, n)
         /\ ~Exists(class) => WasGone(class, n)
BY DEF HistoryOK, Exists, WasThere, WasGone

LEMMA ProbeSteps ==
  ASSUME IInv, NEW c \in Caller,
         ProbeNothing(c) \/ ProbeFinds(c) \/ ProbeMisses(c) \/ GiveUp(c)
  PROVE  IInv'
<1> DEFINE q == calls[c]
           k == q.cfg
           l == q.want
           n == q.age
           i == q.next
<1>1. q.at = "probing" /\ UNCHANGED others
  BY DEF ProbeNothing, ProbeFinds, ProbeMisses, GiveUp, Found, Step
<1>2. /\ q \in CallRec /\ k \in Configs /\ l \in Level /\ n \in Nat /\ lastUsed[k] =< n
      /\ l \in DOMAIN k => i \in Chain(k, l) /\ i \in Nat /\ GoneBefore(q)
  BY <1>1, Probing
<1>3. CASE ProbeNothing(c)
  <2>1. l \notin DOMAIN k /\ Found(c, Unknown(l))
    BY <1>3 DEF ProbeNothing, Configured
  <2>2. Fit(Unknown(l)) /\ Unknown(l).want = l
    BY <1>2, RefusalsFit
  <2>3. Known(Unknown(l), n)
    BY <1>2, <2>1, <2>2 DEF Known, Explains
  <2> QED BY <1>1, <2>1, <2>2, <2>3, FoundStep
<1> DEFINE cand == At(k, l, i)
           class == k[cand].class
<1>4. CASE ProbeFinds(c)
  <2>1. l \in DOMAIN k /\ Exists(class) /\ Found(c, Lands(k, l, cand))
    BY <1>4 DEF ProbeFinds, Configured, ClassTried, Candidate
  <2>2. class \in Class \cup {NoClass}
    BY <1>2, <2>1, Candidates
  <2>3. WasThere(class, n)
    BY <1>2, <2>1, <2>2, NowIsKnown DEF IInv
  <2>4. Fit(Lands(k, l, cand)) /\ Lands(k, l, cand).want = l
    BY <1>2, <2>1, LandsFit
  <2>5. \A j \in Before(k, l, i) : WasGone(k[At(k, l, j)].class, n)
    BY <1>2, <2>1 DEF GoneBefore
  <2>6. Known(Lands(k, l, cand), n)
    BY <1>2, <2>1, <2>3, <2>4, <2>5 DEF Known, Explains
  <2> QED BY <1>1, <2>1, <2>4, <2>6, FoundStep
<1>5. ASSUME ProbeMisses(c) \/ GiveUp(c)
      PROVE  /\ l \in DOMAIN k
             /\ \A j \in Chain(k, l) : j =< i => WasGone(k[At(k, l, j)].class, n)
             /\ Rest(c) = {j \in Chain(k, l) : j > i}
             /\ \A j \in Chain(k, l) : j \in Nat
  <2>1. l \in DOMAIN k /\ ~Exists(class)
    BY <1>5 DEF ProbeMisses, GiveUp, Configured, ClassTried, Candidate
  <2>2. class \in Class \cup {NoClass} /\ \A j \in Chain(k, l) : j \in Nat
    BY <1>2, <2>1, Candidates
  <2>3. WasGone(class, n)
    BY <1>2, <2>1, <2>2, NowIsKnown DEF IInv
  <2>4. \A j \in Before(k, l, i) : WasGone(k[At(k, l, j)].class, n)
    BY <1>2, <2>1 DEF GoneBefore
  <2>5. ASSUME NEW j \in Chain(k, l), j =< i
        PROVE  WasGone(k[At(k, l, j)].class, n)
    <3>1. CASE j = i
      BY <2>3, <3>1
    <3>2. CASE j # i
      <4>1. j < i
        BY <1>2, <2>1, <2>2, <2>5, <3>2
      <4> QED BY <2>4, <4>1 DEF Before
    <3> QED BY <3>1, <3>2
  <2>6. Rest(c) = {j \in Chain(k, l) : j > i}
    BY DEF Rest, TheChain
  <2> QED BY <2>1, <2>2, <2>5, <2>6
<1>6. CASE ProbeMisses(c)
  <2>1. PICK m \in Rest(c) : /\ \A j \in Rest(c) : m =< j
                            /\ Step(c, "probing", [q EXCEPT !.next = m])
    BY <1>6 DEF ProbeMisses
  <2> DEFINE r == [q EXCEPT !.next = m]
  <2>2. m \in Chain(k, l) /\ m \in Nat /\ m > i /\ l \in DOMAIN k
    BY <1>5, <1>6
  <2>3. /\ r \in CallRec /\ r.at = "probing" /\ r.cfg = k /\ r.want = l
        /\ r.age = n /\ r.next = m
    BY <1>1, <1>2, <2>2 DEF CallRec
  <2> HIDE DEF r
  <2>4. ASSUME NEW j \in Before(k, l, m) PROVE WasGone(k[At(k, l, j)].class, n)
    <3>1. j \in Chain(k, l) /\ j < m /\ j \in Nat
      BY <1>5, <1>6 DEF Before
    <3>2. j \notin Rest(c)
      BY <2>1, <2>2, <3>1
    <3>3. j =< i
      BY <1>2, <1>5, <1>6, <3>1, <3>2
    <3> QED BY <1>5, <1>6, <3>1, <3>3
  <2>5. Good(r)
    BY <1>2, <2>2, <2>3, <2>4 DEF Good, GoneBefore
  <2> QED BY <1>1, <2>1, <2>3, <2>5, QuietCall DEF r
<1>7. CASE GiveUp(c)
  <2>1. Rest(c) = {} /\ Found(c, Unavailable(k, l))
    BY <1>7 DEF GiveUp
  <2>2. Fit(Unavailable(k, l)) /\ Unavailable(k, l).want = l
    BY <1>2, RefusalsFit
  <2>3. \A j \in Chain(k, l) : j =< i
    BY <1>2, <1>5, <1>7, <2>1
  <2>4. Known(Unavailable(k, l), n)
    BY <1>2, <1>5, <1>7, <2>2, <2>3 DEF Known, Explains
  <2> QED BY <1>1, <2>1, <2>2, <2>4, FoundStep
<1> QED BY <1>3, <1>4, <1>6, <1>7

LEMMA ResetStep ==
  ASSUME IInv, NEW c \in Caller, ProbeFails(c) \/ Return(c)
  PROVE  IInv'
<1>1. Step(c, calls[c].at, Idle) /\ UNCHANGED others
  BY DEF ProbeFails, Return, Step
<1>2. Idle \in CallRec /\ Good(Idle)
  BY CallForms DEF Good
<1> QED BY <1>1, <1>2, QuietCall

(* What is stored was found within the time a call may stall; what is kept *)
(* is in the cache since the cache is as old as it is.                     *)
LEMMA StoreStep ==
  ASSUME IInv, NEW c \in Caller, Store(c)
  PROVE  IInv'
<1> DEFINE kept == IF cacheAge =< TTL THEN DOMAIN cache ELSE {}
<1>1. PICK av \in Availability, n \in 0 .. Stall :
        calls[c].av = av /\ Fit(av) /\ Known(av, n)
  <2>1. calls[c] \in CallRec /\ calls[c].at = "resolved"
    BY DEF Store, IInv, CallsOK, Step
  <2>2. Good(calls[c])
    BY <2>1 DEF IInv, CallsOK
  <2>3. calls[c].age \in 0 .. Stall /\ Fit(calls[c].av) /\ Known(calls[c].av, calls[c].age)
        /\ calls[c].av \in Availability
    BY <2>1, <2>2 DEF Good, CallRec, Fit
  <2> QED BY <2>3
<1>2. /\ Step(c, "resolved", Answered(av)) /\ UNCHANGED world
      /\ cache' = [l \in kept \cup {av.want} |-> IF l = av.want THEN av ELSE cache[l]]
      /\ cacheAge' = IF cacheAge =< TTL THEN cacheAge ELSE 0
  BY <1>1 DEF Store
<1>3. av.want \in Level
  BY DEF Availability
<1>4. Aged(0)
  BY <1>2, SameHistory DEF IInv, world
<1>5. \A m \in Nat : n =< m => Known(av, m) /\ Known(av, m)'
  <2> SUFFICES ASSUME NEW m \in Nat, n =< m PROVE Known(av, m) /\ Known(av, m)'
    OBVIOUS
  <2>1. n \in Nat
    BY <1>1, Constants
  <2>2. Known(av, m)
    BY <1>1, <2>1, MoreTimeKnows DEF IInv
  <2> QED BY <1>4, <2>2, StillKnown DEF IInv
<1>6. Good(Answered(av))' /\ Answered(av) \in CallRec
  <2>1. TTL + Stall \in Nat /\ n =< TTL + Stall
    BY <1>1, Constants
  <2>2. Known(av, TTL + Stall)
    BY <1>5, <2>1
  <2>3. Answered(av) \in CallRec /\ Answered(av).at = "answered" /\ Answered(av).av = av
    BY <1>3, CallForms
  <2>4. Good(Answered(av))
    BY <1>1, <2>2, <2>3 DEF Good
  <2> DEFINE r == Answered(av)
  <2>5. r \in CallRec /\ Good(r)
    BY <2>3, <2>4
  <2> QED BY <1>4, <2>5, GoodStays DEF IInv
<1>7. CallsOK' /\ HistoryOK' /\ WorldOK'
  BY <1>2, <1>6, CallStep
<1>8. CacheOK'
  <2>1. /\ DOMAIN cache' \subseteq Level /\ cache' \in [DOMAIN cache' -> Availability]
        /\ cacheAge' \in 0 .. Expired
    <3>1. kept \subseteq DOMAIN cache /\ kept \subseteq Level
      BY DEF IInv, CacheOK
    <3>2. \A l \in kept : cache[l] \in Availability
      BY <3>1 DEF IInv, CacheOK
    <3>3. cacheAge' \in 0 .. Expired
      BY <1>2, Constants DEF IInv, CacheOK
    <3> HIDE DEF kept
    <3> QED BY <1>2, <1>3, <3>1, <3>2, <3>3
  <2>2. ASSUME NEW l \in DOMAIN cache', NEW a \in Availability, cache'[l] = a
        PROVE  /\ Fit(a) /\ a.want = l
               /\ \A m \in 0 .. TTL : cacheAge' = m => Known(a, m + Stall)'
    <3>1. CASE l = av.want
      <4>1. a = av
        BY <1>2, <2>2, <3>1
      <4>2. \A m \in 0 .. TTL : m + Stall \in Nat /\ n =< m + Stall
        BY <1>1, Constants
      <4>3. \A m \in 0 .. TTL : Known(av, m + Stall)'
        BY <1>5, <4>2
      <4> QED BY <1>1, <3>1, <4>1, <4>3
    <3>2. CASE l # av.want
      <4>1. l \in kept /\ cache[l] = a
        BY <1>2, <2>2, <3>2
      <4>2. l \in DOMAIN cache /\ cacheAge' = cacheAge
        BY <1>2, <4>1
      <4>3. /\ Fit(a) /\ a.want = l
            /\ \A m \in 0 .. TTL : cacheAge = m => Known(a, m + Stall)
        BY <4>1, <4>2 DEF IInv, CacheOK
      <4>4. \A m \in 0 .. TTL : m + Stall \in Nat
        BY Constants
      <4>5. \A m \in 0 .. TTL : cacheAge' = m => Known(a, m + Stall)'
        BY <1>4, <4>2, <4>3, <4>4, StillKnown DEF IInv
      <4> QED BY <4>3, <4>5
    <3> QED BY <3>1, <3>2
  <2> QED BY <2>1, <2>2 DEF CacheOK
<1> QED BY <1>7, <1>8 DEF IInv

(* Whatever changes around the calls makes nothing older.                  *)
LEMMA CallsStay ==
  ASSUME IInv, Aged(0), UNCHANGED calls
  PROVE  CallsOK'
<1>1. ASSUME NEW d \in Caller, NEW o \in CallRec, calls'[d] = o PROVE Good(o)'
  <2>1. Good(o)
    BY <1>1 DEF IInv, CallsOK
  <2> QED BY <2>1, GoodStays DEF IInv
<1> QED BY <1>1 DEF IInv, CallsOK

LEMMA SetConfigStep ==
  ASSUME IInv, NEW k \in Configs, SetConfig(k), UNCHANGED <<installed, lastThere, lastGone>>
  PROVE  Aged(0) /\ HistoryOK' /\ CacheOK' /\ cfg' \in Configs
<1>1. /\ cfg' = k /\ cache' = [l \in {} |-> NoAnswer] /\ cacheAge' = Expired
      /\ lastUsed' = [lastUsed EXCEPT ![k] = 0]
  BY DEF SetConfig
<1>2. HistoryOK'
  BY <1>1 DEF IInv, HistoryOK
<1>3. Aged(0)
  BY <1>1 DEF IInv, HistoryOK, Aged
<1>4. CacheOK'
  <2>1. DOMAIN cache' = {} /\ cache' \in [{} -> Availability] /\ Expired \in 0 .. Expired
    BY <1>1, Constants
  <2> QED BY <1>1, <2>1 DEF CacheOK
<1> QED BY <1>1, <1>2, <1>3, <1>4

LEMMA WorldSteps ==
  ASSUME IInv, \/ Sync \/ Edit \/ Restart
               \/ \E r \in Class : Install(r) \/ Uninstall(r)
  PROVE  IInv'
<1>1. Change => changes' \in 0 .. MaxChanges
  BY Constants DEF Change, IInv, WorldOK
<1>2. CASE Sync
  <2>1. /\ file \in Configs /\ SetConfig(file) /\ unread' = FALSE
        /\ UNCHANGED <<file, installed, calls, changes, lastThere, lastGone>>
    BY <1>2 DEF Sync, Configs, IInv, WorldOK
  <2>2. Aged(0) /\ HistoryOK' /\ CacheOK' /\ cfg' \in Configs
    BY <2>1, SetConfigStep
  <2>3. WorldOK'
    BY <2>1, <2>2 DEF IInv, WorldOK
  <2> QED BY <2>1, <2>2, <2>3, CallsStay DEF IInv
<1>3. CASE Restart
  <2>1. /\ Builtin \in Configs /\ SetConfig(Builtin) /\ unread' = TRUE /\ Change
        /\ UNCHANGED <<file, installed, lastThere, lastGone>>
        /\ calls' = [c \in Caller |-> Idle]
    BY <1>3, Constants DEF Restart
  <2>2. Aged(0) /\ HistoryOK' /\ CacheOK' /\ cfg' \in Configs
    BY <2>1, SetConfigStep
  <2>3. WorldOK'
    BY <1>1, <2>1, <2>2 DEF IInv, WorldOK
  <2>4. calls' \in [Caller -> CallRec] /\ \A c \in Caller : calls'[c] = Idle
    BY <2>1, CallForms
  <2>5. \A o : o = Idle => Good(o)'
    BY CallForms DEF Good
  <2>6. CallsOK'
    BY <2>4, <2>5 DEF CallsOK
  <2> QED BY <2>2, <2>3, <2>6 DEF IInv
<1>4. CASE Edit
  <2>1. /\ Change /\ file' \in Files /\ unread' = TRUE
        /\ UNCHANGED <<installed, cfg, cache, cacheAge, calls, history>>
    BY <1>4 DEF Edit
  <2>2. Aged(0) /\ HistoryOK'
    BY <2>1, SameHistory DEF IInv, HistoryOK, history
  <2>3. WorldOK'
    BY <1>1, <2>1 DEF IInv, WorldOK
  <2> QED BY <2>1, <2>2, <2>3, CallsStay, CacheStays DEF IInv
<1>5. ASSUME NEW r \in Class, Install(r) PROVE IInv'
  <2>1. /\ Change /\ installed' = installed \cup {r}
        /\ lastThere' = [lastThere EXCEPT ![r] = 0]
        /\ UNCHANGED <<file, unread, cfg, cache, cacheAge, calls, lastUsed, lastGone>>
    BY <1>5 DEF Install
  <2>2. HistoryOK'
    BY <2>1 DEF IInv, HistoryOK
  <2>3. Aged(0)
    BY <2>1 DEF IInv, HistoryOK, Aged
  <2>4. WorldOK'
    BY <1>1, <2>1 DEF IInv, WorldOK
  <2> QED BY <2>1, <2>2, <2>3, <2>4, CallsStay, CacheStays DEF IInv
<1>6. ASSUME NEW r \in Class, Uninstall(r) PROVE IInv'
  <2>1. /\ Change /\ installed' = installed \ {r}
        /\ lastGone' = [lastGone EXCEPT ![r] = 0]
        /\ UNCHANGED <<file, unread, cfg, cache, cacheAge, calls, lastUsed, lastThere>>
    BY <1>6 DEF Uninstall
  <2>2. HistoryOK'
    BY <2>1 DEF IInv, HistoryOK
  <2>3. Aged(0)
    BY <2>1 DEF IInv, HistoryOK, Aged
  <2>4. WorldOK'
    BY <1>1, <2>1 DEF IInv, WorldOK
  <2> QED BY <2>1, <2>2, <2>3, <2>4, CallsStay, CacheStays DEF IInv
<1> QED BY <1>2, <1>3, <1>4, <1>5, <1>6

LEMMA TickAges ==
  ASSUME IInv, Tick
  PROVE  Aged(1) /\ HistoryOK' /\ WorldOK'
<1>1. /\ lastUsed' = [k \in Configs |-> IF k = cfg THEN 0 ELSE Later(lastUsed[k])]
      /\ lastThere' = [r \in Class |-> IF r \in installed THEN 0 ELSE Later(lastThere[r])]
      /\ lastGone' = [r \in Class |-> IF r \in installed THEN Later(lastGone[r]) ELSE 0]
      /\ UNCHANGED <<file, unread, installed, cfg, cache, changes>>
  BY DEF Tick
<1>2. \A a \in Nat : Later(a) \in Nat /\ Later(a) =< a + 1
  BY Constants DEF Later
<1>3. \A k \in Configs : lastUsed[k] \in Nat
  BY DEF IInv, HistoryOK
<1>4. \A r \in Class : lastThere[r] \in Nat /\ lastGone[r] \in Nat
  BY DEF IInv, HistoryOK
<1>5. \A k \in Configs : lastUsed'[k] \in Nat /\ lastUsed'[k] =< lastUsed[k] + 1
  BY <1>1, <1>2, <1>3
<1>6. \A r \in Class : /\ lastThere'[r] \in Nat /\ lastThere'[r] =< lastThere[r] + 1
                       /\ lastGone'[r] \in Nat /\ lastGone'[r] =< lastGone[r] + 1
  BY <1>1, <1>2, <1>4
<1>7. HistoryOK'
  <2>1. cfg' \in Configs /\ lastUsed'[cfg'] = 0
    BY <1>1 DEF IInv, WorldOK
  <2>2. /\ lastUsed' \in [Configs -> Nat]
        /\ lastThere' \in [Class -> Nat] /\ lastGone' \in [Class -> Nat]
    BY <1>1, <1>5, <1>6
  <2> QED BY <1>1, <2>1, <2>2 DEF HistoryOK
<1>8. WorldOK'
  BY <1>1 DEF IInv, WorldOK
<1> QED BY <1>5, <1>6, <1>7, <1>8 DEF Aged

LEMMA TickStep ==
  ASSUME IInv, Tick
  PROVE  IInv'
<1>1. /\ \A c \in Caller : Open(c) => calls[c].age < Stall
      /\ calls' = [c \in Caller |-> IF Open(c) THEN [calls[c] EXCEPT !.age = @ + 1]
                                              ELSE Idle]
      /\ cacheAge' = IF cacheAge < Expired THEN cacheAge + 1 ELSE Expired
      /\ cache' = cache
  BY DEF Tick
<1>2. Aged(1) /\ HistoryOK' /\ WorldOK' /\ 1 \in Nat
  BY TickAges
<1>3. CacheOK'
  <2>1. cacheAge' \in 0 .. Expired
    BY <1>1, Constants DEF IInv, CacheOK
  <2>2. ASSUME NEW l \in DOMAIN cache, NEW a \in Availability, cache[l] = a,
               NEW m \in 0 .. TTL, cacheAge' = m
        PROVE  Known(a, m + Stall)'
    <3> DEFINE j == m - 1
    <3>1. j \in 0 .. TTL /\ cacheAge = j
      BY <1>1, <2>2, Constants DEF IInv, CacheOK
    <3>2. j + Stall \in Nat /\ m + Stall \in Nat /\ (j + Stall) + 1 =< m + Stall
      BY <3>1, Constants
    <3> HIDE DEF j
    <3>3. Known(a, j + Stall)
      BY <2>2, <3>1 DEF IInv, CacheOK
    <3> QED BY <1>2, <3>2, <3>3, KnowledgeAges DEF IInv
  <2> QED BY <1>1, <2>1, <2>2 DEF IInv, CacheOK
<1>4. calls' \in [Caller -> CallRec]
  <2>1. ASSUME NEW c \in Caller, Open(c)
        PROVE  [calls[c] EXCEPT !.age = @ + 1] \in CallRec
    <3>1. calls[c] \in CallRec /\ calls[c].age < Stall /\ calls[c].age \in 0 .. Stall
      BY <1>1, <2>1 DEF IInv, CallsOK, CallRec
    <3>2. calls[c].age + 1 \in 0 .. Stall
      BY <3>1, Constants
    <3> QED BY <3>1, <3>2 DEF CallRec
  <2> QED BY <1>1, <2>1, CallForms
<1>5. ASSUME NEW c \in Caller, NEW o \in CallRec, calls'[c] = o
      PROVE  Good(o)'
  <2>1. CASE ~Open(c)
    BY <1>1, <1>5, <2>1, CallForms DEF Good
  <2>2. CASE Open(c)
    <3>1. PICK q \in CallRec : q = calls[c]
      BY DEF IInv, CallsOK
    <3>2. Good(q) /\ o = [q EXCEPT !.age = @ + 1]
      BY <1>1, <1>5, <2>2, <3>1 DEF IInv, CallsOK
    <3>3. PICK n \in Nat : n = q.age
      <4>1. q.age \in 0 .. Stall
        BY DEF CallRec
      <4> QED BY <4>1, Constants
    <3>4. /\ o.at = q.at /\ o.want = q.want /\ o.cfg = q.cfg /\ o.next = q.next
          /\ o.av = q.av /\ o.age = n + 1 /\ q.cfg \in Configs
      BY <3>2, <3>3 DEF CallRec
    <3>5. n + 1 \in Nat /\ n + 1 =< n + 1
      OBVIOUS
    <3>6. q.at \in {"probing", "resolved"}
      BY <2>2, <3>1 DEF Open
    <3>7. ASSUME q.at = "resolved" PROVE Good(o)'
      <4>1. Fit(q.av) /\ Known(q.av, n)
        BY <3>2, <3>3, <3>7 DEF Good
      <4>2. Known(q.av, n + 1)'
        BY <1>2, <3>5, <4>1, KnowledgeAges DEF IInv
      <4> QED BY <3>4, <3>7, <4>1, <4>2 DEF Good
    <3>8. ASSUME q.at = "probing" PROVE Good(o)'
      <4> DEFINE k == q.cfg
                 l == q.want
      <4>1. /\ l \in Level /\ lastUsed[k] =< n
            /\ l \in DOMAIN k => q.next \in Chain(k, l) /\ GoneBefore(q)
        BY <3>2, <3>3, <3>8 DEF Good
      <4>2. lastUsed'[k] =< n + 1
        <5>1. /\ lastUsed[k] \in Nat /\ lastUsed'[k] \in Nat
              /\ lastUsed'[k] =< lastUsed[k] + 1
          BY <1>2, <3>4 DEF IInv, HistoryOK, Aged
        <5> QED BY <4>1, <5>1
      <4>3. ASSUME l \in DOMAIN k, NEW j \in Before(k, l, q.next)
            PROVE  WasGone(k[At(k, l, j)].class, n + 1)'
        <5>1. WasGone(k[At(k, l, j)].class, n)
          BY <3>3, <4>1, <4>3 DEF GoneBefore
        <5>2. k[At(k, l, j)].class \in Class \cup {NoClass}
          BY <3>4, <4>3, Candidates DEF Before
        <5> QED BY <1>2, <3>5, <5>1, <5>2, ClassesAge DEF IInv
      <4> QED BY <3>4, <3>8, <4>1, <4>2, <4>3 DEF Good, GoneBefore
    <3> QED BY <3>6, <3>7, <3>8
  <2> QED BY <2>1, <2>2
<1> QED BY <1>2, <1>3, <1>4, <1>5 DEF IInv, CallsOK

-----------------------------------------------------------------------------
LEMMA InitOK == Init => IInv
<1> SUFFICES ASSUME Init PROVE IInv
  OBVIOUS
<1>1. HistoryOK
  BY Constants DEF Init, HistoryOK
<1>2. WorldOK
  <2>1. 0 \in 0 .. MaxChanges
    BY Constants
  <2> QED BY <2>1, Constants DEF Init, WorldOK
<1>3. CacheOK
  <2>1. DOMAIN cache = {} /\ cache \in [{} -> Availability] /\ Expired \in 0 .. Expired
    BY Constants DEF Init
  <2> QED BY <2>1 DEF Init, CacheOK
<1>4. CallsOK
  BY CallForms DEF Init, CallsOK, Good
<1> QED BY <1>1, <1>2, <1>3, <1>4 DEF IInv

LEMMA StepKeeps == IInv /\ [Next]_vars => IInv'
<1> SUFFICES ASSUME IInv, [Next]_vars PROVE IInv'
  OBVIOUS
<1>1. ASSUME NEW c \in Caller, NEW l \in Level, AskCached(c, l) \/ Ask(c, l) PROVE IInv'
  BY <1>1, AskedStep
<1>2. ASSUME NEW c \in Caller, Proceed(c) PROVE IInv'
  BY <1>2, ProbeSteps, ResetStep, StoreStep DEF Proceed
<1>3. CASE Sync \/ Edit \/ Restart \/ \E r \in Class : Install(r) \/ Uninstall(r)
  BY <1>3, WorldSteps
<1>4. CASE Tick
  BY <1>4, TickStep
<1>5. CASE UNCHANGED vars
  <2>1. UNCHANGED <<file, unread, installed, cfg, changes, cache, cacheAge, calls>>
        /\ UNCHANGED history
    BY <1>5 DEF vars
  <2>2. Aged(0)
    BY <2>1, SameHistory DEF IInv
  <2>3. HistoryOK' /\ WorldOK'
    BY <2>1 DEF IInv, HistoryOK, WorldOK, history
  <2> QED BY <2>1, <2>2, <2>3, CallsStay, CacheStays DEF IInv
<1> QED BY <1>1, <1>2, <1>3, <1>4, <1>5 DEF Next

LEMMA Inductive == Spec => []IInv
BY InitOK, StepKeeps, PTL DEF Spec

(* The cache holds answers for levels only, under the level asked for, and *)
(* only a configuration that Validate accepts is ever in force.            *)
THEOREM TypeCorrect == Spec => []TypeOK
<1>1. IInv => TypeOK
  BY DEF IInv, HistoryOK, WorldOK, CacheOK, CallsOK, CallRec, TypeOK
<1> QED BY <1>1, Inductive, PTL

(* Whatever changes while calls probe without the lock, an answer tells    *)
(* only what was so within the time to live and the stall (Resolve).       *)
THEOREM AnswersAreTrue == Spec => []AnswersWereTrue
<1>1. IInv => AnswersWereTrue
  <2> SUFFICES ASSUME IInv, NEW c \in Caller, calls[c].at = "answered"
               PROVE  Known(calls[c].av, TTL + Stall)
    BY DEF AnswersWereTrue
  <2>1. calls[c] \in CallRec
    BY DEF IInv, CallsOK
  <2> QED BY <2>1 DEF IInv, CallsOK, Good
<1> QED BY <1>1, Inductive, PTL

(* No weaker isolation than asked for without FallbackToRunc, and none     *)
(* with it that is not said (Validate, candidates, resolve).               *)
THEOREM WeakeningIsSaid == Spec => []NothingIsWeakerUnsaid
<1>1. IInv => NothingIsWeakerUnsaid
  <2> SUFFICES ASSUME IInv, NEW c \in Caller, calls[c].at = "answered"
               PROVE  Honest(calls[c].av)
    BY DEF NothingIsWeakerUnsaid, Honest
  <2>1. calls[c] \in CallRec
    BY DEF IInv, CallsOK
  <2> QED BY <2>1 DEF IInv, CallsOK, Good, Fit
<1> QED BY <1>1, Inductive, PTL
=============================================================================
