--------------------------- MODULE GuestAuthority ---------------------------
(***************************************************************************)
(* What the computer service may rely on when it hands the guest's desktop  *)
(* from one lease to the next (input_authority.py, seen from the host).  A  *)
(* revoked lease is not revived, only followed by another one, which waits  *)
(* until the action of its predecessor is over, its keys are known to be up *)
(* and the revocation is confirmed.  An action begins only under the live   *)
(* lease and may outlive it, until the revocation is confirmed.             *)
(***************************************************************************)
CONSTANTS
  Leases,
  NoLease

VARIABLES
  lease,    \* the lease installed last
  live,     \* it has not been revoked
  acting,   \* an action runs in the guest
  pending,  \* a revocation has not been confirmed
  failed    \* an action may have left a key down

vars == <<lease, live, acting, pending, failed>>

Init ==
  /\ lease = NoLease
  /\ live = FALSE
  /\ acting = FALSE
  /\ pending = FALSE
  /\ failed = FALSE

Activate(l) ==
  /\ ~live /\ ~acting /\ ~pending /\ ~failed
  /\ l # lease
  /\ lease' = l
  /\ live' = TRUE
  /\ UNCHANGED <<acting, pending, failed>>

Revoke ==
  /\ lease # NoLease
  /\ live' = FALSE
  /\ pending' = TRUE
  /\ UNCHANGED <<lease, acting, failed>>

\* "quiescent"
Confirm ==
  /\ pending /\ ~acting /\ ~failed
  /\ pending' = FALSE
  /\ UNCHANGED <<lease, live, acting, failed>>

Begin ==
  /\ live /\ ~acting
  /\ acting' = TRUE
  /\ UNCHANGED <<lease, live, pending, failed>>

\* An action goes on or ends; it may fail to release a key.
Work ==
  /\ acting
  /\ acting' \in BOOLEAN
  /\ failed' \in {failed, TRUE}
  /\ UNCHANGED <<lease, live, pending>>

Next ==
  \/ \E l \in Leases : Activate(l)
  \/ Revoke \/ Confirm \/ Begin \/ Work

\* The container is replaced, and the bridge in it starts anew.
Replace == Init'

\* One bridge process, and the containers one after the other.
Spec == Init /\ [][Next]_vars
ContainerSpec == Init /\ [][Next \/ Replace]_vars

=============================================================================
