------------------------ MODULE MCServerThreadManager ------------------------
(***************************************************************************)
(* Small instances of the chat server for TLC.                             *)
(***************************************************************************)
EXTENDS ServerThreadManager
==============================================================================
