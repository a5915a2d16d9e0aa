------------------------------ MODULE StockKinds ------------------------------
(***************************************************************************)
(* The kinds of sandboxes that a pool has, by what countStock looks at,    *)
(* and how sandboxes go from one kind to another by themselves or by a     *)
(* call: PoolController counts them, SandboxViews says of a single sandbox *)
(* that it moves in no other way.                                          *)
(***************************************************************************)

(* New and NewCold have no phase yet and are counted nowhere. NewCold and  *)
(* Cold were made for the call that holds them. Taken is stock that was    *)
(* claimed and is still Ready: it is counted nowhere. Draining and         *)
(* Deleting carry the draining label; Deleting waits for its finalizers.   *)
(* Session is counted, but no decision looks at it.                        *)
Kind == {"New", "NewCold", "Inflight", "Cold", "Warm", "Taken", "Session",
         "Draining", "Deleting", "Failed"}

(* What the SandboxController makes of a sandbox in time. *)
Advances == {<<"New", "Inflight">>, <<"NewCold", "Cold">>,
             <<"Inflight", "Warm">>, <<"Cold", "Session">>,
             <<"Taken", "Session">>}

(* A call lets go before its session began: the sandbox is stock again. *)
EarlyReleases == {<<"NewCold", "New">>, <<"Cold", "Inflight">>,
                  <<"Taken", "Warm">>}

(* The Pod or the node is lost, the provision times out, or the sweeper    *)
(* fails what it found. What is marked stays marked.                       *)
Failures == {"New", "NewCold", "Inflight", "Cold", "Warm", "Taken", "Session"}
              \X {"Failed"}

(* The kind of an unmarked sandbox in a phase, held by a call or not; a    *)
(* Terminating one is counted nowhere and never again.                     *)
KindOf(phase, held) ==
  CASE phase = "New"          -> IF held THEN "NewCold" ELSE "New"
    [] phase = "Provisioning" -> IF held THEN "Cold" ELSE "Inflight"
    [] phase = "Ready"        -> IF held THEN "Taken" ELSE "Warm"
    [] phase = "Failed"       -> "Failed"
    [] phase = "Terminating"  -> "None"
    [] OTHER                  -> "Session"
=============================================================================
