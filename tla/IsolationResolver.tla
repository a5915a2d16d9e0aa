-------------------------- MODULE IsolationResolver --------------------------
(***************************************************************************)
(* The isolation resolver: which runtime a requested level gets. Callers   *)
(* (controllers) resolve concurrently; a call looks into the cache under   *)
(* the lock, probes the cluster without it and stores under it again.      *)
(* Meanwhile isolationConfigSync may install another configuration, and    *)
(* runtime classes come and go.                                            *)
(*                                                                         *)
(* One unit of time is a minute. Times are ages, history included.         *)
(***************************************************************************)
EXTENDS Integers, Sequences

CONSTANTS
  Level, Class, Caller,
  Plain,     \* levels that may use the default runtime: Simulated and Runc
  Policy,    \* Options.Policy
  TTL,       \* Options.CacheTTL
  Stall,     \* from copying the configuration to storing at most
  Builtin,   \* DefaultConfig
  Files,     \* what the ConfigMap may say, in order or not
  MaxChanges \* bound on edits, classes installed or removed, and restarts

VARIABLES
  file,      \* the ConfigMap
  unread,    \* its version is not lastRV
  installed, \* runtime classes as the probe's cache shows them
  cfg, cache,
  cacheAge,  \* of cachedAt; Expired if that is zero or too old
  calls,     \* calls of Resolve
  changes,   \* how many there were
  lastUsed, lastThere, lastGone \* history: ages of configurations and classes

history == <<lastUsed, lastThere, lastGone>>
vars == <<file, unread, installed, cfg, cache, cacheAge, calls, changes, history>>

NoClass == "default runtime"

LevelSpec == [class : Class \cup {NoClass}, fallbacks : Seq(Level)]

(* Where a call with level l may look: the level itself and its fallbacks. *)
Place(k, l) == 0 .. Len(k[l].fallbacks)
At(k, l, i) == IF i = 0 THEN l ELSE k[l].fallbacks[i]
Named(k, l) == {At(k, l, i) : i \in Place(k, l) \ {0}}

(* ParseConfig and Validate; what is not a function does not parse. There  *)
(* is no cycle if every set of levels has one that leads to none of them.  *)
Valid(k) ==
  /\ DOMAIN k # {} /\ DOMAIN k \subseteq Level
  /\ \A l \in DOMAIN k : /\ k[l] \in LevelSpec
                         /\ k[l].class = NoClass => l \in Plain
                         /\ Named(k, l) \subseteq DOMAIN k
  /\ \A S \in SUBSET DOMAIN k :
       S # {} => \E l \in S : Named(k, l) \cap S = {}

Configs == {k \in Files : Valid(k)} \cup {Builtin}

ASSUME ResolverAssumption ==
  /\ Valid(Builtin) /\ Files # {} /\ NoClass \notin Class
  /\ TTL \in Nat /\ Stall \in Nat /\ MaxChanges \in Nat
  /\ Policy \in {"FailFast", "PauseScaling", "FallbackToRunc"}

Expired == TTL + 1

(* No difference is made between ages beyond it. *)
Far == TTL + Stall + 1

Later(a) == IF a < Far THEN a + 1 ELSE Far

-----------------------------------------------------------------------------
(***************************************************************************)
(* What resolve finds with one configuration, k.                           *)
(***************************************************************************)
(* candidates, as places: only FallbackToRunc allows other levels, and     *)
(* each of them is tried once.                                             *)
Chain(k, l) ==
  {i \in Place(k, l) :
     \/ i = 0
     \/ /\ Policy = "FallbackToRunc" /\ At(k, l, i) \in DOMAIN k
        /\ \A j \in 0 .. i - 1 : At(k, l, j) # At(k, l, i)}

Answer(want, level, class, available, degraded, reason) ==
  [want |-> want, level |-> level, class |-> class, available |-> available,
   degraded |-> degraded, reason |-> reason]

Unknown(l) == Answer(l, l, NoClass, FALSE, FALSE, "UnknownLevel")

Unavailable(k, l) ==
  Answer(l, l, NoClass, FALSE, FALSE,
         IF Chain(k, l) = {0} THEN "RuntimeClassMissing" ELSE "NoFallbackAvailable")

(* Mutant: that the runtime is the default one hides that it is another.   *)
LandsHidden(k, l, cand) ==
  LET class    == k[cand].class
      degraded == class # NoClass /\ cand # l
  IN  Answer(l, cand, class, TRUE, degraded,
             IF class = NoClass THEN "DefaultRuntime"
             ELSE IF degraded THEN "FallbackApplied" ELSE "OK")

(* That it is degraded comes before that it is the default runtime. *)
Lands(k, l, cand) ==
  LET class    == k[cand].class
      degraded == cand # l
  IN  Answer(l, cand, class, TRUE, degraded,
             IF degraded THEN "FallbackApplied"
             ELSE IF class = NoClass THEN "DefaultRuntime" ELSE "OK")

Exists(class) == class = NoClass \/ class \in installed

-----------------------------------------------------------------------------
(* want, cfg and next are of use while it is probing; av is what it found  *)
(* and then what it returns.                                               *)
NoAnswer == Answer("", "", NoClass, FALSE, FALSE, "")

CallAt(at, want, k, age, av) ==
  [at |-> at, want |-> want, cfg |-> k, next |-> 0, age |-> age, av |-> av]

Idle         == CallAt("idle", "", Builtin, 0, NoAnswer)
Answered(av) == CallAt("answered", "", Builtin, 0, av)

Init ==
  /\ file \in Files /\ unread = TRUE
  /\ installed \in SUBSET Class
  /\ cfg = Builtin /\ cache = [l \in {} |-> NoAnswer] /\ cacheAge = Expired
  /\ calls = [c \in Caller |-> Idle] /\ changes = 0
  /\ lastUsed = [k \in Configs |-> IF k = cfg THEN 0 ELSE Far]
  /\ lastThere = [r \in Class |-> IF r \in installed THEN 0 ELSE Far]
  /\ lastGone = [r \in Class |-> IF r \in installed THEN Far ELSE 0]

Step(c, from, to) == /\ calls[c].at = from
                     /\ calls' = [calls EXCEPT ![c] = to]

world == <<file, unread, installed, cfg, changes, history>>
others == <<world, cache, cacheAge>>

(* Mutant: once there, an entry is served for good. *)
CachedForGood(l) == l \in DOMAIN cache

Cached(l) == cacheAge =< TTL /\ l \in DOMAIN cache

AskCached(c, l) ==
  /\ Cached(l)
  /\ Step(c, "idle", Answered(cache[l]))
  /\ UNCHANGED others

Ask(c, l) ==
  /\ ~Cached(l)
  /\ Step(c, "idle", CallAt("probing", l, cfg, 0, NoAnswer))
  /\ UNCHANGED others

(***************************************************************************)
(* resolve, one candidate at a time, without the lock.                     *)
(***************************************************************************)
Found(c, av) ==
  Step(c, "probing", CallAt("resolved", "", Builtin, calls[c].age, av))

Open(c)       == calls[c].at \in {"probing", "resolved"}
Configured(c) == calls[c].want \in DOMAIN calls[c].cfg
TheChain(c)   == Chain(calls[c].cfg, calls[c].want)
Candidate(c)  == At(calls[c].cfg, calls[c].want, calls[c].next)
Rest(c)       == {i \in TheChain(c) : i > calls[c].next}
ClassTried(c) == calls[c].cfg[Candidate(c)].class

ProbeNothing(c) ==
  /\ Found(c, Unknown(calls[c].want)) /\ ~Configured(c)
  /\ UNCHANGED others

ProbeFinds(c) ==
  /\ calls[c].at = "probing" /\ Configured(c) /\ Exists(ClassTried(c))
  /\ Found(c, Lands(calls[c].cfg, calls[c].want, Candidate(c)))
  /\ UNCHANGED others

ProbeMisses(c) ==
  /\ calls[c].at = "probing" /\ Configured(c) /\ ~Exists(ClassTried(c))
  /\ \E i \in Rest(c) :
       /\ \A j \in Rest(c) : i =< j
       /\ Step(c, "probing", [calls[c] EXCEPT !.next = i])
  /\ UNCHANGED others

GiveUp(c) ==
  /\ calls[c].at = "probing" /\ Configured(c) /\ ~Exists(ClassTried(c))
  /\ Rest(c) = {} /\ Found(c, Unavailable(calls[c].cfg, calls[c].want))
  /\ UNCHANGED others

(* That a probe fails says nothing: the call fails, nothing is stored. *)
ProbeFails(c) ==
  /\ calls[c].at = "probing" /\ Configured(c) /\ ClassTried(c) # NoClass
  /\ Step(c, "probing", Idle)
  /\ UNCHANGED others

(* Mutant: every store starts the time of the whole cache again. *)
StoreRenewing(c) ==
  LET av == calls[c].av
  IN  /\ Step(c, "resolved", Answered(av))
      /\ cache' = [l \in DOMAIN cache \cup {av.want} |->
                     IF l = av.want THEN av ELSE cache[l]]
      /\ cacheAge' = 0
      /\ UNCHANGED world

(* The configuration may be another by now; the answer is stored anyway.   *)
Store(c) ==
  LET av   == calls[c].av
      kept == IF cacheAge =< TTL THEN DOMAIN cache ELSE {}
  IN  /\ Step(c, "resolved", Answered(av))
      /\ cache' = [l \in kept \cup {av.want} |-> IF l = av.want THEN av ELSE cache[l]]
      /\ cacheAge' = IF cacheAge =< TTL THEN cacheAge ELSE 0
      /\ UNCHANGED world

Return(c) == Step(c, "answered", Idle) /\ UNCHANGED others

-----------------------------------------------------------------------------
(* SetConfig: k, and nothing in the cache. *)
SetConfig(k) ==
  /\ cfg' = k
  /\ cache' = [l \in {} |-> NoAnswer] /\ cacheAge' = Expired
  /\ lastUsed' = [lastUsed EXCEPT ![k] = 0]

(* Mutant: a version that is not in order is installed as well. *)
SyncBlindly ==
  /\ unread
  /\ SetConfig(file) /\ unread' = FALSE
  /\ UNCHANGED <<file, installed, calls, changes, lastThere, lastGone>>

(* A new version that is in order. Any other is tried again, in vain. *)
Sync ==
  /\ unread /\ Valid(file)
  /\ SetConfig(file) /\ unread' = FALSE
  /\ UNCHANGED <<file, installed, calls, changes, lastThere, lastGone>>

Change == changes < MaxChanges /\ changes' = changes + 1

Edit == /\ Change /\ file' \in Files /\ unread' = TRUE
        /\ UNCHANGED <<installed, cfg, cache, cacheAge, calls, history>>

Install(r) ==
  /\ Change /\ r \notin installed /\ installed' = installed \cup {r}
  /\ lastThere' = [lastThere EXCEPT ![r] = 0]
  /\ UNCHANGED <<file, unread, cfg, cache, cacheAge, calls, lastUsed, lastGone>>

Uninstall(r) ==
  /\ Change /\ r \in installed /\ installed' = installed \ {r}
  /\ lastGone' = [lastGone EXCEPT ![r] = 0]
  /\ UNCHANGED <<file, unread, cfg, cache, cacheAge, calls, lastUsed, lastThere>>

Restart ==
  /\ Change /\ SetConfig(Builtin) /\ unread' = TRUE
  /\ calls' = [c \in Caller |-> Idle]
  /\ UNCHANGED <<file, installed, lastThere, lastGone>>

(* No call stalls for longer; what is answered is answered by now. *)
Tick ==
  /\ \A c \in Caller : Open(c) => calls[c].age < Stall
  /\ calls' = [c \in Caller |-> IF Open(c) THEN [calls[c] EXCEPT !.age = @ + 1]
                                          ELSE Idle]
  /\ cacheAge' = IF cacheAge < Expired THEN cacheAge + 1 ELSE Expired
  /\ lastUsed' = [k \in Configs |-> IF k = cfg THEN 0 ELSE Later(lastUsed[k])]
  /\ lastThere' = [r \in Class |-> IF r \in installed THEN 0 ELSE Later(lastThere[r])]
  /\ lastGone' = [r \in Class |-> IF r \in installed THEN Later(lastGone[r]) ELSE 0]
  /\ UNCHANGED <<file, unread, installed, cfg, cache, changes>>

Proceed(c) == \/ ProbeNothing(c) \/ ProbeFinds(c) \/ ProbeMisses(c) \/ GiveUp(c)
              \/ ProbeFails(c) \/ Store(c) \/ Return(c)

Next == \/ \E c \in Caller :
             \/ \E l \in Level : AskCached(c, l) \/ Ask(c, l)
             \/ Proceed(c)
        \/ Sync \/ Edit \/ Restart \/ Tick
        \/ \E r \in Class : Install(r) \/ Uninstall(r)

(* Probes come to an end, the ConfigMap is read every minute, time passes. *)
Fairness == /\ \A c \in Caller : WF_vars(Proceed(c))
            /\ WF_vars(Sync) /\ WF_vars(Tick)

Spec == Init /\ [][Next]_vars /\ Fairness

-----------------------------------------------------------------------------
(***************************************************************************)
(* What an answer tells: a configuration k, and for every candidate before *)
(* the one taken that its class was gone, at some time within n.           *)
(***************************************************************************)
WasThere(class, n) == class = NoClass \/ lastThere[class] =< n
WasGone(class, n)  == class # NoClass /\ lastGone[class] =< n

Before(k, l, i) == {j \in Chain(k, l) : j < i}

Explains(k, av, n) ==
  LET l == av.want
  IN  \/ l \notin DOMAIN k /\ av = Unknown(l)
      \/ /\ l \in DOMAIN k /\ av = Unavailable(k, l)
         /\ \A i \in Chain(k, l) : WasGone(k[At(k, l, i)].class, n)
      \/ /\ l \in DOMAIN k
         /\ \E i \in Chain(k, l) :
              /\ av = Lands(k, l, At(k, l, i)) /\ WasThere(k[At(k, l, i)].class, n)
              /\ \A j \in Before(k, l, i) : WasGone(k[At(k, l, j)].class, n)

Known(av, n) == \E k \in Configs : lastUsed[k] =< n /\ Explains(k, av, n)

(* What a call would find now, if nothing changed meanwhile. *)
Now(l) ==
  IF l \notin DOMAIN cfg THEN Unknown(l)
  ELSE LET there == {i \in Chain(cfg, l) : Exists(cfg[At(cfg, l, i)].class)}
       IN  IF there = {} THEN Unavailable(cfg, l)
           ELSE Lands(cfg, l, At(cfg, l, CHOOSE i \in there : \A j \in there : i =< j))

Availability ==
  [want : Level, level : Level, class : Class \cup {NoClass}, available : BOOLEAN,
   degraded : BOOLEAN,
   reason : {"OK", "DefaultRuntime", "FallbackApplied", "RuntimeClassMissing",
             "NoFallbackAvailable", "UnknownLevel"}]

TypeOK ==
  /\ file \in Files /\ unread \in BOOLEAN /\ installed \subseteq Class
  /\ cfg \in Configs /\ changes \in 0 .. MaxChanges
  /\ DOMAIN cache \subseteq Level /\ cache \in [DOMAIN cache -> Availability]
  /\ \A l \in DOMAIN cache : cache[l].want = l
  /\ cacheAge \in 0 .. Expired
  /\ calls \in [Caller -> [at : {"idle", "probing", "resolved", "answered"},
                           want : Level \cup {""}, cfg : Configs, next : Nat,
                           age : 0 .. Stall, av : Availability \cup {NoAnswer}]]

(* Resolve: however old the configuration and the probes of a call are     *)
(* when its result is stored, an answer tells nothing that was not so      *)
(* within the time to live of the cache and the time a call may stall.     *)
AnswersWereTrue ==
  \A c \in Caller : calls[c].at = "answered" => Known(calls[c].av, TTL + Stall)

(* Validate, candidates and resolve together: whoever asked for another    *)
(* level than the plain ones and gets the default runtime, or any runtime  *)
(* of another level, is told so, and only if the policy allows it.         *)
NothingIsWeakerUnsaid ==
  \A c \in Caller :
    LET av == calls[c].av
    IN  /\ calls[c].at = "answered" /\ av.available
        /\ av.level # av.want \/ (av.class = NoClass /\ av.want \notin Plain)
        => /\ av.degraded /\ av.reason = "FallbackApplied"
           /\ Policy = "FallbackToRunc"

(* When nothing changes any more, all answers are in the end what the      *)
(* configuration in force and the cluster say, and that configuration is   *)
(* the ConfigMap's if it is in order.                                      *)
Settled ==
  /\ Valid(file) => cfg = file
  /\ \A c \in Caller : calls[c].at = "answered" => calls[c].av = Now(calls[c].av.want)

AnswersCatchUp == <>[]Settled
=============================================================================
