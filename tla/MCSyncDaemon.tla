---------------------------- MODULE MCSyncDaemon ----------------------------
(***************************************************************************)
(* A refresh of two parts, the first of which commits, as the breakdown    *)
(* does; the three others are computed as the second is.  And a cycle of    *)
(* three stages, the last of which cannot fail.                            *)
(***************************************************************************)
EXTENDS SyncDaemon

MCStages == <<"preflight", "sync", "push">>
MCParts == <<"breakdown", "transactions">>
=============================================================================
