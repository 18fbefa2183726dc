--------------------------- MODULE MC_IpcMessages ---------------------------
(* TLC instances of IpcMessages. *)
EXTENDS IpcMessages

MCPriorities == {0, 1, 3}
=============================================================================
