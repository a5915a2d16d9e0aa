------------------------- MODULE MCSandboxLifecycle -------------------------
(* Instances of SandboxLifecycle for TLC. One unit of time is a minute:    *)
(* LeaseTTL and DefaultGrace are the defaults (60 s), HibernateAfter is    *)
(* 2 (120 s); IdleTimeout, ProvisionTimeout, MaxStockAge and TTL are the   *)
(* defaults shortened, in the same order.                                  *)
EXTENDS SandboxViews

MCDeadlines  == {Never, 2}
MCNoDeadline == {Never}
=============================================================================
