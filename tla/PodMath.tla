------------------------------- MODULE PodMath -------------------------------
(***************************************************************************)
(* The arithmetic of updateNodeCounts (nodes.go).  The code divides in     *)
(* float64 and rounds up with math.Ceil, which is exact for the numbers of *)
(* nodes and pods there are.                                               *)
(***************************************************************************)
EXTENDS Integers

\* math.Ceil(a / b)
CeilDiv(a, b) == (a + b - 1) \div b

\* math.Max(max, 1): no division by zero.
AtLeastOne(max) == IF max >= 1 THEN max ELSE 1

\* Pods needed for num nodes of one kind, one of them to spare.
NumReq(num, max) == CeilDiv(num, AtLeastOne(max)) + 1

\* Mutated form: the lesser requirement is chosen.
NumPodsLesser(numMtn, numRvr, maxMtn, maxRvr) ==
    IF NumReq(numRvr, maxRvr) < NumReq(numMtn, maxMtn)
        THEN NumReq(numRvr, maxRvr)
        ELSE NumReq(numMtn, maxMtn)

\* newNumPods
NumPods(numMtn, numRvr, maxMtn, maxRvr) ==
    IF NumReq(numRvr, maxRvr) > NumReq(numMtn, maxMtn)
        THEN NumReq(numRvr, maxRvr)
        ELSE NumReq(numMtn, maxMtn)

\* Mutated form: no slop.
NodesPerPodNoSlop(num, pods) == CeilDiv(num, pods)

\* newMtn and newRvr, with the slop of one.
NodesPerPod(num, pods) == CeilDiv(num, pods) + 1

=============================================================================
