------------------------------ MODULE MCScaling ------------------------------
(***************************************************************************)
(* Instances of Scaling with limits of 2 and 3 nodes per pod, which the    *)
(* counts below reach exactly, exceed, and do not reach; and one with the  *)
(* limits of the code, for the targets that exceed them.                   *)
(***************************************************************************)
EXTENDS Scaling

MCCounts ==
    {[mtn |-> 0, rvr |-> 0], [mtn |-> 4, rvr |-> 1], [mtn |-> 1, rvr |-> 6]}
MCMaxFromEnv == [mtn |-> 3, rvr |-> 3]
MCPinMax == [mtn |-> 3, rvr |-> 3]

\* The least limits that the environment variables allow, the greatest that a
\* PATCH may ask for, and mountain nodes for more pods than the limit.
MCLeastFromEnv == [mtn |-> 5, rvr |-> 5]
MCRealPinMax == [mtn |-> 750, rvr |-> 2000]
MCManyNodes == {[mtn |-> 0, rvr |-> 0], [mtn |-> 25, rvr |-> 1]}

=============================================================================
