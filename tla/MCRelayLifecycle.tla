------------------------- MODULE MCRelayLifecycle -------------------------
(* Small instances of RelayLifecycle: Responses requests and image requests. *)
EXTENDS RelayLifecycle
=============================================================================
