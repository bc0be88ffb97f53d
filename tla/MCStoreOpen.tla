----------------------------- MODULE MCStoreOpen -----------------------------
(***************************************************************************)
(* Instance of StoreOpen: the owner's policy and another one, on every     *)
(* store that earlier engines may have left.                               *)
(***************************************************************************)
EXTENDS StoreOpen

CONSTANTS Local, Mirrored

MCPolicies == {Local, Mirrored}
MCMirrors == {Mirrored}

=============================================================================
