---------------------------- MODULE InstanceView ----------------------------
(***************************************************************************)
(* What the token controller and the auth server rely on about an          *)
(* LLMInstance: the part of its spec and status that they read, and the    *)
(* ways in which it may change.  TokenRequest's environment takes these    *)
(* steps; ByocLifecycle implements them.                                   *)
(*                                                                         *)
(* ready is the Ready condition at the current generation together with a  *)
(* published endpoint.                                                     *)
(***************************************************************************)
CONSTANTS Targets,   \* identities of customer clusters
          None       \* no target

VARIABLES exists, deleting, byoc, active, target, ready

view == <<exists, deleting, byoc, active, target, ready>>

Init ==
  /\ exists = TRUE /\ deleting = FALSE /\ byoc \in BOOLEAN
  /\ active = FALSE /\ target = None /\ ready = FALSE

(* A change of the spec is not observed yet.                                *)
SwitchMode ==
  /\ exists
  /\ byoc' = ~byoc /\ ready' = FALSE
  /\ UNCHANGED <<exists, deleting, active, target>>

(* The verified target is recorded before anything is provisioned on it.    *)
ActivateTarget(t) ==
  /\ exists /\ ~deleting /\ byoc /\ target = None
  /\ active' = TRUE /\ target' = t /\ ready' = FALSE
  /\ UNCHANGED <<exists, deleting, byoc>>

(* A target is given up only after its endpoint is withdrawn.               *)
ReleaseTarget ==
  /\ exists /\ ~deleting /\ active /\ ~ready
  /\ active' = FALSE /\ target' = None
  /\ UNCHANGED <<exists, deleting, byoc, ready>>

(* An endpoint is that of the recorded target, or the hosted one.           *)
BecomeReady ==
  /\ exists /\ ~deleting /\ ~ready
  /\ active = byoc /\ (byoc => target # None)
  /\ ready' = TRUE
  /\ UNCHANGED <<exists, deleting, byoc, active, target>>

BecomeUnready ==
  /\ exists /\ ready
  /\ ready' = FALSE
  /\ UNCHANGED <<exists, deleting, byoc, active, target>>

(* From here on the target stays; a deletion too is not observed yet.       *)
Delete ==
  /\ exists /\ ~deleting
  /\ deleting' = TRUE /\ ready' = FALSE
  /\ UNCHANGED <<exists, byoc, active, target>>

(* The last finalizer is gone; one that is not provisioned may have none.   *)
Remove ==
  /\ exists /\ (deleting \/ (~active /\ ~ready))
  /\ exists' = FALSE /\ deleting' = FALSE /\ byoc' = FALSE
  /\ active' = FALSE /\ target' = None /\ ready' = FALSE

Next ==
  \/ SwitchMode \/ ReleaseTarget \/ BecomeReady \/ BecomeUnready \/ Delete \/ Remove
  \/ \E t \in Targets : ActivateTarget(t)

Spec == Init /\ [][Next]_view
=============================================================================
