----------------------------- MODULE MCInventory -----------------------------
(***************************************************************************)
(* Instances of Inventory: one BMC, and one or two nodes behind it, of     *)
(* which n1 is Paradise hardware.                                          *)
(***************************************************************************)
EXTENDS Inventory

CONSTANTS n1, b1

MCBmc   == {b1}
MCBmcOf == [n \in Node |-> b1]
MCXd224 == {n1}

=============================================================================
