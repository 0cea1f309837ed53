------------------------------ MODULE MCZombies ------------------------------
(***************************************************************************)
(* An instance of Zombies: one orphan and two commands, so that the reaper *)
(* has something to do and something to leave alone; two goroutines for    *)
(* one process, the second started by a scan that comes before the first   *)
(* is done.                                                                *)
(***************************************************************************)
EXTENDS Zombies

=============================================================================
