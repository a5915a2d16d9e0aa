--------------------------- MODULE SandboxObjects ---------------------------
(***************************************************************************)
(* AgentSandbox objects as the API server stores them, and what a reader   *)
(* of an informer cache may see of them.                                   *)
(*                                                                         *)
(* An object is the sequence of its versions: log[s][v] is what sandbox s  *)
(* looked like at resourceVersion v, and <<>> means it was never created.  *)
(* A cached read may return any version so far, or no object at all: a     *)
(* watch lags without bound, and a restarted replica starts from an older  *)
(* list. An optimistic lock compares the version read with the last one.   *)
(*                                                                         *)
(* Running stands for the claimed phases (Running, Idle, Hibernating,      *)
(* Hibernated, Resuming): which of them a session is in makes no           *)
(* difference to who owns the sandbox.                                     *)
(***************************************************************************)
EXTENDS Naturals, Sequences

CONSTANTS
  Sandbox,   \* identities (UIDs) of the objects that may be created
  Call,      \* create calls: POST /v1/sandboxes requests that reach a gateway
  NoCall     \* no claim, no tenant/request-id label

ASSUME NoCallAssumption == NoCall \notin Call

VARIABLE log \* log[s]: the versions of sandbox s, oldest first

Phase == {"New", "Provisioning", "Ready", "Running", "Terminating", "Failed"}

(* Phases in which the object is on its way to deletion. *)
Reclaimed == {"Terminating", "Failed"}

RecycleReason == {"None", "RuntimeError", "NodeLost", "StockRotation",
                  "ClientReleased", "SessionEnded"}

OptCall == Call \cup {NoCall}

(***************************************************************************)
(* spec.claim is the call that holds the sandbox; owner stands for the     *)
(* labels claimed=true, tenant and request-id, which are always written    *)
(* together; claimRef is status.claimRef; gone is set on the version the   *)
(* watch reports as deleted.                                               *)
(***************************************************************************)
Object == [phase      : Phase,
           claim      : OptCall,
           owner      : OptCall,
           claimRef   : OptCall,
           reason     : RecycleReason,
           draining   : BOOLEAN,
           finalizers : BOOLEAN,
           deleting   : BOOLEAN,
           gone       : BOOLEAN]

(* A fresh object: stock when c is NoCall, a cold-path sandbox otherwise. *)
NewObject(c) == [phase |-> "New", claim |-> c, owner |-> c,
                 claimRef |-> NoCall, reason |-> "None", draining |-> FALSE,
                 finalizers |-> FALSE, deleting |-> FALSE, gone |-> FALSE]

-----------------------------------------------------------------------------
Created(s) == log[s] # <<>>
Latest(s)  == log[s][Len(log[s])]
Live(s)    == Created(s) /\ ~Latest(s).gone

(* The versions of s in which a cache may hold it. *)
Cached(s) == {v \in 1 .. Len(log[s]) : ~log[s][v].gone}

(***************************************************************************)
(* The API server accepts a write that carries a resourceVersion only when *)
(* the object still is at that version.                                    *)
(***************************************************************************)
OptimisticLock(s, v) == v = Len(log[s])

Write(s, o) == log' = [log EXCEPT ![s] = Append(@, o)]

Create(s, c) == ~Created(s) /\ Write(s, NewObject(c))

(***************************************************************************)
(* DELETE without preconditions: an object with finalizers only gets a     *)
(* deletionTimestamp; deleting it again changes nothing.                   *)
(***************************************************************************)
Delete(s) ==
  /\ Live(s) /\ ~Latest(s).deleting
  /\ Write(s, [Latest(s) EXCEPT !.deleting = TRUE,
                                !.gone = ~Latest(s).finalizers])
=============================================================================
