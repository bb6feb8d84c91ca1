---------------------------- MODULE MCPdmcClient ----------------------------
(* PdmcClient for TLC.                                                     *)
EXTENDS PdmcClient, TLC

=============================================================================
