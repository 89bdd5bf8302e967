--------------------------- MODULE MCSyncConnection ---------------------------
(***************************************************************************)
(* Finite instances of SyncConnection: d is the daemon, c another syncing  *)
(* process, e the command line; a and b are the provider's accounts, m one *)
(* that add_account creates.                                               *)
(***************************************************************************)
EXTENDS SyncConnection

CONSTANTS d, c, e, a, b, m, x, y
=============================================================================
