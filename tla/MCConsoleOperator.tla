--------------------------- MODULE MCConsoleOperator ---------------------------
(***************************************************************************)
(* Instances of ConsoleOperator: one BMC and the nodes behind it.  The     *)
(* node of the run is a Hill node and Paradise hardware, so that its class *)
(* is Paradise, or Hill after a failed request to HSM.                     *)
(***************************************************************************)
EXTENDS ConsoleOperator

CONSTANT b1

MCBmc   == {b1}
MCBmcOf == [n \in Node |-> b1]

=============================================================================
