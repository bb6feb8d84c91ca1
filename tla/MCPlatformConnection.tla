------------------------ MODULE MCPlatformConnection ------------------------
(* PlatformConnection for TLC: the two builds are told apart by the value  *)
(* the configuration gives SingleThread.                                   *)
EXTENDS PlatformConnection, TLC

=============================================================================
