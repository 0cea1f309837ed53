------------------------------- MODULE MCServer -------------------------------
(***************************************************************************)
(* An instance of Server: two connections, so that a suspend, a resume or  *)
(* a lookup is in progress when another request, or the signal, comes; at  *)
(* most two nodes for doInfo to ask about, so that it goes on after an     *)
(* error.                                                                  *)
(***************************************************************************)
EXTENDS Server

=============================================================================
