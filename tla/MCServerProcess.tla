--------------------------- MODULE MCServerProcess ---------------------------
(***************************************************************************)
(* Small instances of the whole server process for TLC.                    *)
(***************************************************************************)
EXTENDS ServerProcess
==============================================================================
