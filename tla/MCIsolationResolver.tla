------------------------- MODULE MCIsolationResolver -------------------------
(* An instance of IsolationResolver for TLC: kata-fc falls back to runc,   *)
(* until the ConfigMap takes the fallback away; another version would run  *)
(* kata-fc on the default runtime and is refused.                          *)
EXTENDS IsolationResolver, TLC

CONSTANT fc

Runc == "runc" :> [class |-> NoClass, fallbacks |-> <<>>]

MCBuiltin == Runc @@ "kata-fc" :> [class |-> fc, fallbacks |-> <<"runc">>]

Strict == "kata-fc" :> [class |-> fc, fallbacks |-> <<>>]

Careless == Runc @@ "kata-fc" :> [class |-> NoClass, fallbacks |-> <<>>]

MCFiles == {MCBuiltin, Strict, Careless}
=============================================================================
