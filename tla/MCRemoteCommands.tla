--------------------------- MODULE MCRemoteCommands ---------------------------
(***************************************************************************)
(* RemoteCommands with two nodes and three command_ids, so that an accept   *)
(* can be replaced by another one and by the setup page's, and with two     *)
(* remembered commands, so that one is forgotten and delivered again.       *)
(***************************************************************************)
EXTENDS RemoteCommands
=============================================================================
