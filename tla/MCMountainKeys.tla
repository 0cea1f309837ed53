---------------------------- MODULE MCMountainKeys ----------------------------
(***************************************************************************)
(* Instances of MountainKeys: nodes on BMCs of their own, so that scsd can *)
(* serve one node of a batch and not the other.                            *)
(***************************************************************************)
EXTENDS MountainKeys

CONSTANTS n1, b1, b2

MCBmcOf == [n \in Node |-> IF n = n1 THEN b1 ELSE b2]

=============================================================================
