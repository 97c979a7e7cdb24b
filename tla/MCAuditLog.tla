--------------------------- MODULE MCAuditLog ---------------------------
(* Two relays of one service and a third task of another process. *)
EXTENDS AuditLog, TLC

CONSTANTS a1, a2, b1, p, q

MCProcOf == a1 :> p @@ a2 :> p @@ b1 :> q
=============================================================================
