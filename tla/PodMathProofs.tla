---------------------------- MODULE PodMathProofs ----------------------------
(***************************************************************************)
(* What the arithmetic of updateNodeCounts guarantees for all numbers.     *)
(***************************************************************************)
EXTENDS PodMath, TLAPS

\* CeilDiv rounds up: the least k with k * b >= a.
LEMMA CeilDivBounds ==
    ASSUME NEW a \in Nat, NEW b \in Nat \ {0}
    PROVE  /\ CeilDiv(a, b) \in Nat
           /\ CeilDiv(a, b) * b >= a
           /\ (CeilDiv(a, b) - 1) * b < a
<1> DEFINE q == (a + b - 1) \div b
<1>1. q \in Nat
  OBVIOUS
<1>2. b * q <= a + b - 1 /\ a + b - 1 < b * q + b
  BY SMTT(30)
<1> QED
  BY <1>1, <1>2, SMTT(30) DEF CeilDiv

\* The products the proofs below compare.
LEMMA ProductMonotone ==
    ASSUME NEW x \in Int, NEW y \in Int, NEW b \in Nat, x <= y
    PROVE  x * b <= y * b
OBVIOUS

(***************************************************************************)
(* The pods, each taking its target, can take all the nodes, with a place  *)
(* to spare in every pod (the slop of updateNodeCounts).                   *)
(***************************************************************************)
THEOREM CapacityWithSlop ==
    ASSUME NEW num \in Nat, NEW pods \in Nat \ {0}
    PROVE  pods * NodesPerPod(num, pods) >= num + pods
BY CeilDivBounds DEF NodesPerPod

(***************************************************************************)
(* One pod more than the maximum calls for: without it the other pods can  *)
(* still take all the nodes at their maximum.                              *)
(***************************************************************************)
THEOREM OnePodToSpare ==
    ASSUME NEW num \in Nat, NEW max \in Nat \ {0}
    PROVE  /\ NumReq(num, max) \in Nat \ {0}
           /\ (NumReq(num, max) - 1) * max >= num
BY CeilDivBounds DEF NumReq, AtLeastOne

(***************************************************************************)
(* With at least NumReq pods the target of a pod exceeds the maximum by    *)
(* one at most.                                                            *)
(***************************************************************************)
THEOREM TargetNearMaximum ==
    ASSUME NEW num \in Nat, NEW max \in Nat \ {0}, NEW pods \in Nat,
           pods >= NumReq(num, max)
    PROVE  NodesPerPod(num, pods) <= max + 1
<1> DEFINE c == CeilDiv(num, pods)
<1>1. pods \in Nat \ {0}
  BY OnePodToSpare
<1>2. num <= (pods - 1) * max
  <2> DEFINE r == NumReq(num, max) - 1
  <2>1. NumReq(num, max) \in Nat
    BY OnePodToSpare
  <2>2. r \in Int /\ r <= pods - 1
    BY <2>1
  <2>3. r * max >= num
    BY OnePodToSpare, Zenon
  <2> HIDE DEF r
  <2>4. r * max <= (pods - 1) * max
    BY <2>2, ProductMonotone
  <2> QED
    BY <2>2, <2>3, <2>4
<1>3. c \in Nat /\ (c - 1) * pods < num
  BY <1>1, CeilDivBounds
<1>4. SUFFICES ASSUME c > max
               PROVE  FALSE
  BY <1>3 DEF NodesPerPod
<1>5. max * pods <= (c - 1) * pods
  BY <1>3, <1>4, ProductMonotone
<1>6. (pods - 1) * max <= max * pods
  BY <1>1
<1> QED
  BY <1>2, <1>3, <1>5, <1>6

(***************************************************************************)
(* No more than one pod is to spare: with two pods less than updateNode-   *)
(* Counts asks for, the nodes of one kind at least would not fit at their  *)
(* maximum.                                                                *)
(***************************************************************************)
THEOREM OnlyOnePodToSpare ==
    ASSUME NEW numMtn \in Nat, NEW numRvr \in Nat,
           NEW maxMtn \in Nat \ {0}, NEW maxRvr \in Nat \ {0}
    PROVE  LET few == NumPods(numMtn, numRvr, maxMtn, maxRvr) - 2
           IN  few * maxMtn < numMtn \/ few * maxRvr < numRvr
<1> DEFINE few == NumPods(numMtn, numRvr, maxMtn, maxRvr) - 2
<1>1. CASE few = CeilDiv(numMtn, maxMtn) - 1
  BY <1>1, CeilDivBounds
<1>2. CASE few = CeilDiv(numRvr, maxRvr) - 1
  BY <1>2, CeilDivBounds
<1>3. CeilDiv(numMtn, maxMtn) \in Nat /\ CeilDiv(numRvr, maxRvr) \in Nat
  BY CeilDivBounds
<1>4. few = CeilDiv(numMtn, maxMtn) - 1 \/ few = CeilDiv(numRvr, maxRvr) - 1
  BY <1>3 DEF NumPods, NumReq, AtLeastOne
<1> QED
  BY <1>1, <1>2, <1>4

\* More nodes, or a lower limit, never make fewer pods necessary.
LEMMA CeilDivMonotone ==
    ASSUME NEW a \in Nat, NEW c \in Nat, NEW b \in Nat \ {0}, NEW d \in Nat \ {0},
           a <= c, d <= b
    PROVE  CeilDiv(a, b) <= CeilDiv(c, d)
<1> DEFINE p == CeilDiv(a, b)
           q == CeilDiv(c, d)
<1>1. p \in Nat /\ q \in Nat /\ (p - 1) * b < a /\ q * d >= c
  BY CeilDivBounds
<1> HIDE DEF p, q
<1>2. SUFFICES ASSUME q <= p - 1
               PROVE  FALSE
  BY <1>1 DEF p, q
<1>3. q * b <= (p - 1) * b
  BY <1>1, <1>2, ProductMonotone
<1>4. d * q <= b * q
  BY <1>1, ProductMonotone
<1> QED
  BY <1>1, <1>3, <1>4

(***************************************************************************)
(* newNumPods never falls when nodes are added or doSetMaxNodesPerPod      *)
(* lowers a limit: hardware that appears while the limits are being        *)
(* lowered cannot make updateNodeCounts scale down.                        *)
(***************************************************************************)
THEOREM PodsGrowWithNodes ==
    ASSUME NEW m1 \in Nat, NEW r1 \in Nat, NEW mm1 \in Nat, NEW mr1 \in Nat,
           NEW m2 \in Nat, NEW r2 \in Nat, NEW mm2 \in Nat, NEW mr2 \in Nat,
           m1 <= m2, r1 <= r2, mm2 <= mm1, mr2 <= mr1
    PROVE  NumPods(m1, r1, mm1, mr1) <= NumPods(m2, r2, mm2, mr2)
<1>1. ASSUME NEW a \in Nat, NEW c \in Nat, NEW b \in Nat, NEW d \in Nat, a <= c, d <= b
      PROVE  NumReq(a, b) <= NumReq(c, d) /\ NumReq(a, b) \in Nat /\ NumReq(c, d) \in Nat
  <2>1. /\ AtLeastOne(b) \in Nat \ {0} /\ AtLeastOne(d) \in Nat \ {0}
        /\ AtLeastOne(d) <= AtLeastOne(b)
    BY <1>1 DEF AtLeastOne
  <2>2. CeilDiv(a, AtLeastOne(b)) <= CeilDiv(c, AtLeastOne(d))
    BY <1>1, <2>1, CeilDivMonotone
  <2>3. CeilDiv(a, AtLeastOne(b)) \in Nat /\ CeilDiv(c, AtLeastOne(d)) \in Nat
    BY <2>1, CeilDivBounds
  <2> QED
    BY <2>2, <2>3 DEF NumReq
<1>2. NumReq(m1, mm1) <= NumReq(m2, mm2) /\ NumReq(m1, mm1) \in Nat /\ NumReq(m2, mm2) \in Nat
  BY <1>1
<1>3. NumReq(r1, mr1) <= NumReq(r2, mr2) /\ NumReq(r1, mr1) \in Nat /\ NumReq(r2, mr2) \in Nat
  BY <1>1
<1> QED
  BY <1>2, <1>3 DEF NumPods

=============================================================================
