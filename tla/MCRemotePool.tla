---------------------------- MODULE MCRemotePool ----------------------------
(***************************************************************************)
(* RemotePool for TLC, all of whose parameters are in the configuration.   *)
(***************************************************************************)
EXTENDS RemotePool
=============================================================================
