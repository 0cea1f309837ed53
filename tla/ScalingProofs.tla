---------------------------- MODULE ScalingProofs ----------------------------
(***************************************************************************)
(* For all numbers of nodes, limits and replicas: the targets that         *)
(* updateNodeCounts stores fit the nodes and the limits, and the file      *)
(* holds them unless a write was lost.                                     *)
(***************************************************************************)
EXTENDS Scaling, PodMathProofs

\* Targets t let the planned pods take all nodes, within one of the limits.
Fit(t) == \A k \in Kind : /\ newNumPods * t[k] >= totalNodes[k]
                          /\ t[k] <= limit[k] + 1

(***************************************************************************)
(* The inductive invariant.  The plan is good from the time the pods are   *)
(* counted, the targets from the time they are computed; while the file is *)
(* written it holds the lines written so far.                              *)
(***************************************************************************)
Plan ==
    /\ pc = "limits" => totalNodes \in [Kind -> Nat]
    /\ pc \notin {"idle", "limits"}
         => /\ totalNodes \in [Kind -> Nat]
            /\ \A k \in Kind : newNumPods >= NumReq(totalNodes[k], limit[k])
    /\ pc \in {"open", "writeRvr", "writeMtn", "store"} => Fit(newTargets)
    /\ Settled => Fit(numNodesPerPod)

FileLines ==
    /\ FileMatchesTargets
    /\ pc \in {"writeMtn", "store"} /\ ~writeLost
         => targetNodeFile["rvr"] = newTargets["rvr"]
    /\ pc = "store" /\ ~writeLost
         => targetNodeFile["mtn"] = newTargets["mtn"]

IInv == TypeOK /\ Plan /\ FileLines

-----------------------------------------------------------------------------
\* The planned pods are as many as each kind of node requires.
LEMMA NumPodsEnough ==
    ASSUME NEW m \in Nat, NEW r \in Nat, NEW mm \in Nat \ {0}, NEW mr \in Nat \ {0}
    PROVE  /\ NumPods(m, r, mm, mr) \in Nat \ {0}
           /\ NumPods(m, r, mm, mr) >= NumReq(m, mm)
           /\ NumPods(m, r, mm, mr) >= NumReq(r, mr)
<1>1. NumReq(m, mm) \in Nat \ {0} /\ NumReq(r, mr) \in Nat \ {0}
  BY OnePodToSpare
<1> QED
  BY <1>1 DEF NumPods

\* The targets fit, and so do they when the failed replica count is added.
LEMMA TargetsFit ==
    ASSUME NEW num \in Nat, NEW max \in Nat \ {0}, NEW pods \in Nat,
           pods >= NumReq(num, max)
    PROVE  /\ NodesPerPod(num, pods) \in Nat \ {0}
           /\ pods * NodesPerPod(num, pods) >= num
           /\ pods * (NodesPerPod(num, pods) + (-1)) >= num
           /\ NodesPerPod(num, pods) <= max + 1
<1>1. pods \in Nat \ {0}
  BY OnePodToSpare
<1>2. CeilDiv(num, pods) \in Nat
  BY <1>1, CeilDivBounds
<1> DEFINE t == NodesPerPod(num, pods)
<1>3. t \in Nat \ {0}
  BY <1>2 DEF NodesPerPod
<1>4. pods * t >= num + pods
  BY <1>1, CapacityWithSlop
<1>5. t <= max + 1
  BY TargetNearMaximum
<1> HIDE DEF t
<1>6. pods * t >= num /\ pods * (t + (-1)) >= num
  BY <1>1, <1>3, <1>4
<1> QED
  BY <1>3, <1>5, <1>6 DEF t

-----------------------------------------------------------------------------
\* The steps of the specification, in the order the proofs below take them.
LEMMA Steps ==
    ASSUME [Next]_vars
    PROVE  \/ CountNodes
           \/ PlanPods
           \/ AlreadyCorrect \/ GetStatefulSet \/ GetStatefulSetFails
           \/ UpdateStatefulSet \/ Conflict \/ UpdateStatefulSetFails
           \/ NewTargets \/ SameTargets \/ getReplicaCountFails
           \/ OpenFile \/ OpenFileFails
           \/ WriteString("rvr", "writeRvr", "writeMtn") \/ WriteStringFails("writeRvr", "writeMtn")
           \/ WriteString("mtn", "writeMtn", "store") \/ WriteStringFails("writeMtn", "store")
           \/ StoreTargets
           \/ (PatchRvr \/ \E mtn, rvr \in Asks : PatchMtn(mtn, rvr))
           \/ NodesChange
           \/ StatefulSetChanges
           \/ NewProcess
           \/ UNCHANGED vars
BY DEF Next, UpdateStep, UpdateFails, Environment, Restart, Panic

\* Every step keeps every variable in its type.
LEMMA TypeInductive == TypeOK /\ Plan /\ [Next]_vars => TypeOK'
<1> SUFFICES ASSUME TypeOK, Plan, [Next]_vars
             PROVE  TypeOK'
  OBVIOUS
<1> USE ScalingAssumption DEF Kind, k8sVars, fileVars, maxVars, planVars, Unset,
        NoTargets, NoPatch, TypeOK
<1>1. CASE CountNodes
  BY <1>1 DEF CountNodes
<1>2. CASE PlanPods
  <2>1. totalNodes \in [Kind -> Nat] /\ limit' \in [Kind -> Nat \ {0}]
    BY <1>2 DEF PlanPods, Plan
  <2>2. newNumPods' \in Nat
    BY <1>2, <2>1, NumPodsEnough DEF PlanPods
  <2> QED
    BY <1>2, <2>1, <2>2 DEF PlanPods
<1>3. CASE AlreadyCorrect \/ GetStatefulSet \/ GetStatefulSetFails
  BY <1>3 DEF AlreadyCorrect, GetStatefulSet, GetStatefulSetFails, K8sStep
<1>4. CASE UpdateStatefulSet \/ Conflict \/ UpdateStatefulSetFails
  BY <1>4 DEF UpdateStatefulSet, Conflict, UpdateStatefulSetFails, K8sStep
<1>5. CASE NewTargets \/ SameTargets \/ getReplicaCountFails
  <2>1. \A k \in Kind : /\ Targets[k] \in Nat \ {0}
                         /\ newNumPods * Targets[k] >= totalNodes[k]
                         /\ newNumPods * (Targets[k] + (-1)) >= totalNodes[k]
                         /\ Targets[k] <= limit[k] + 1
    BY <1>5, TargetsFit DEF NewTargets, SameTargets, getReplicaCountFails, TargetStep,
                            Targets, TypeOK, Plan
  <2>2. newTargets' \in [Kind -> Nat]
    BY <1>5, <2>1 DEF NewTargets, SameTargets, getReplicaCountFails, TargetStep, Targets
  <2> QED
    BY <1>5, <2>2 DEF NewTargets, SameTargets, getReplicaCountFails, TargetStep
<1>6. CASE OpenFile \/ OpenFileFails
  <2>1. targetNodeFile' \in [Kind -> Nat \cup {NoLine}] /\ newTargets' \in [Kind -> Nat]
    BY <1>6 DEF OpenFile, OpenFileFails, FileStep
  <2>2. numFileErrors' \in 0 .. MaxFileErrors + 1
    BY <1>6 DEF OpenFile, OpenFileFails
  <2>3. pc' \in {"idle", "writeRvr"} /\ writeLost' \in BOOLEAN
    BY <1>6 DEF OpenFile, OpenFileFails, FileStep
  <2>4. UNCHANGED <<k8sVars, maxVars, planVars, nodeCount, numNodesPerPod>>
    BY <1>6 DEF OpenFile, OpenFileFails, FileStep
  <2> QED
    BY <2>1, <2>2, <2>3, <2>4
<1>7. CASE WriteString("rvr", "writeRvr", "writeMtn") \/ WriteStringFails("writeRvr", "writeMtn")
  BY <1>7 DEF WriteString, WriteStringFails, FileStep
<1>8. CASE WriteString("mtn", "writeMtn", "store") \/ WriteStringFails("writeMtn", "store")
  BY <1>8 DEF WriteString, WriteStringFails, FileStep
<1>9. CASE StoreTargets
  BY <1>9 DEF StoreTargets, FileStep
<1>10. CASE PatchRvr \/ \E mtn, rvr \in Asks : PatchMtn(mtn, rvr)
  BY <1>10 DEF PatchRvr, PatchMtn, PatchStep, pinNumNodes
<1>11. CASE NodesChange
  BY <1>11 DEF NodesChange
<1>12. CASE StatefulSetChanges
  BY <1>12 DEF StatefulSetChanges
<1>13. CASE NewProcess
  <2>1. /\ numNodesPerPod' \in [Kind -> Nat \cup {-1}]
        /\ totalNodes' \in [Kind -> Nat \cup {-1}]
        /\ nodeCount' \in [Kind -> Nat] /\ newTargets' \in [Kind -> Nat]
    BY <1>13 DEF NewProcess
  <2>2. numFileErrors' \in 0 .. MaxFileErrors + 1 /\ newNumPods' \in Nat
    BY <1>13 DEF NewProcess
  <2> QED
    BY <1>13, <2>1, <2>2 DEF NewProcess
<1>14. CASE UNCHANGED vars
  BY <1>14 DEF vars
<1> QED
  BY Steps, <1>1, <1>2, <1>3, <1>4, <1>5, <1>6, <1>7, <1>8, <1>9, <1>10,
     <1>11, <1>12, <1>13, <1>14

\* The plan is good for the nodes and limits it was made for.
LEMMA PlanInductive == TypeOK /\ Plan /\ [Next]_vars => Plan'
<1> SUFFICES ASSUME TypeOK, Plan, [Next]_vars
             PROVE  Plan'
  OBVIOUS
<1> USE ScalingAssumption DEF Kind, k8sVars, fileVars, maxVars, planVars, Unset,
        NoTargets, NoPatch, TypeOK, Plan, Fit, Settled
<1>1. CASE CountNodes
  BY <1>1 DEF CountNodes
<1>2. CASE PlanPods
  <2>1. totalNodes \in [Kind -> Nat] /\ limit' \in [Kind -> Nat \ {0}]
    BY <1>2 DEF PlanPods
  <2>2. \A k \in Kind : newNumPods' >= NumReq(totalNodes[k], limit'[k])
    BY <1>2, <2>1, NumPodsEnough DEF PlanPods
  <2> QED
    BY <1>2, <2>1, <2>2 DEF PlanPods
<1>3. CASE AlreadyCorrect \/ GetStatefulSet \/ GetStatefulSetFails
  BY <1>3 DEF AlreadyCorrect, GetStatefulSet, GetStatefulSetFails, K8sStep
<1>4. CASE UpdateStatefulSet \/ Conflict \/ UpdateStatefulSetFails
  BY <1>4 DEF UpdateStatefulSet, Conflict, UpdateStatefulSetFails, K8sStep
<1>5. CASE NewTargets \/ SameTargets \/ getReplicaCountFails
  <2>1. \A k \in Kind : /\ Targets[k] \in Nat \ {0}
                         /\ newNumPods * Targets[k] >= totalNodes[k]
                         /\ newNumPods * (Targets[k] + (-1)) >= totalNodes[k]
                         /\ Targets[k] <= limit[k] + 1
    BY <1>5, TargetsFit DEF NewTargets, SameTargets, getReplicaCountFails, TargetStep, Targets
  <2>2. CASE NewTargets
    BY <2>1, <2>2 DEF NewTargets, TargetStep
  <2>3. CASE SameTargets
    BY <2>1, <2>3 DEF SameTargets, TargetStep, TargetsChanged
  <2>4. CASE getReplicaCountFails
    BY <2>1, <2>4 DEF getReplicaCountFails, TargetStep
  <2> QED
    BY <1>5, <2>2, <2>3, <2>4
<1>6. CASE OpenFile \/ OpenFileFails
  BY <1>6 DEF OpenFile, OpenFileFails, FileStep
<1>7. CASE WriteString("rvr", "writeRvr", "writeMtn") \/ WriteStringFails("writeRvr", "writeMtn")
  BY <1>7 DEF WriteString, WriteStringFails, FileStep
<1>8. CASE WriteString("mtn", "writeMtn", "store") \/ WriteStringFails("writeMtn", "store")
  BY <1>8 DEF WriteString, WriteStringFails, FileStep
<1>9. CASE StoreTargets
  BY <1>9 DEF StoreTargets, FileStep
<1>10. CASE PatchRvr \/ \E mtn, rvr \in Asks : PatchMtn(mtn, rvr)
  BY <1>10 DEF PatchRvr, PatchMtn, PatchStep, pinNumNodes
<1>11. CASE NodesChange
  BY <1>11 DEF NodesChange
<1>12. CASE StatefulSetChanges
  BY <1>12 DEF StatefulSetChanges
<1>13. CASE NewProcess
  BY <1>13 DEF NewProcess
<1>14. CASE UNCHANGED vars
  BY <1>14 DEF vars
<1> QED
  BY Steps, <1>1, <1>2, <1>3, <1>4, <1>5, <1>6, <1>7, <1>8, <1>9, <1>10,
     <1>11, <1>12, <1>13, <1>14

\* The file holds the lines that were written.
LEMMA FileInductive == TypeOK /\ FileLines /\ [Next]_vars => FileLines'
<1> SUFFICES ASSUME TypeOK, FileLines, [Next]_vars
             PROVE  FileLines'
  OBVIOUS
<1> USE ScalingAssumption DEF Kind, k8sVars, fileVars, maxVars, planVars, Unset,
        NoTargets, NoPatch, TypeOK, FileLines,
        FileMatchesTargets, Writing
<1>1. CASE CountNodes
  BY <1>1 DEF CountNodes
<1>2. CASE PlanPods
  BY <1>2 DEF PlanPods
<1>3. CASE AlreadyCorrect \/ GetStatefulSet \/ GetStatefulSetFails
  BY <1>3 DEF AlreadyCorrect, GetStatefulSet, GetStatefulSetFails, K8sStep
<1>4. CASE UpdateStatefulSet \/ Conflict \/ UpdateStatefulSetFails
  BY <1>4 DEF UpdateStatefulSet, Conflict, UpdateStatefulSetFails, K8sStep
<1>5. CASE NewTargets \/ SameTargets \/ getReplicaCountFails
  BY <1>5 DEF NewTargets, SameTargets, getReplicaCountFails, TargetStep, TargetsChanged
<1>6. CASE OpenFile \/ OpenFileFails
  BY <1>6 DEF OpenFile, OpenFileFails, FileStep
<1>7. CASE WriteString("rvr", "writeRvr", "writeMtn") \/ WriteStringFails("writeRvr", "writeMtn")
  BY <1>7 DEF WriteString, WriteStringFails, FileStep
<1>8. CASE WriteString("mtn", "writeMtn", "store") \/ WriteStringFails("writeMtn", "store")
  BY <1>8 DEF WriteString, WriteStringFails, FileStep
<1>9. CASE StoreTargets
  BY <1>9 DEF StoreTargets, FileStep
<1>10. CASE PatchRvr \/ \E mtn, rvr \in Asks : PatchMtn(mtn, rvr)
  BY <1>10 DEF PatchRvr, PatchMtn, PatchStep, pinNumNodes
<1>11. CASE NodesChange
  BY <1>11 DEF NodesChange
<1>12. CASE StatefulSetChanges
  BY <1>12 DEF StatefulSetChanges
<1>13. CASE NewProcess
  BY <1>13 DEF NewProcess
<1>14. CASE UNCHANGED vars
  BY <1>14 DEF vars
<1> QED
  BY Steps, <1>1, <1>2, <1>3, <1>4, <1>5, <1>6, <1>7, <1>8, <1>9, <1>10,
     <1>11, <1>12, <1>13, <1>14

-----------------------------------------------------------------------------
\* The initial states satisfy the inductive invariant.
LEMMA InitIInv == Init => IInv
<1> SUFFICES ASSUME Init
             PROVE  IInv
  OBVIOUS
<1> USE ScalingAssumption DEF Init, Kind, Unset, NoTargets, NoPatch
<1>1. TypeOK
  <2>1. /\ numNodesPerPod \in [Kind -> Nat \cup {-1}]
        /\ totalNodes \in [Kind -> Nat \cup {-1}]
        /\ newTargets \in [Kind -> Nat]
        /\ targetNodeFile \in [Kind -> Nat \cup {NoLine}]
    OBVIOUS
  <2> QED
    BY <2>1 DEF TypeOK
<1>2. Plan
  BY DEF Plan, Settled
<1>3. FileLines
  BY DEF FileLines, FileMatchesTargets, Writing
<1> QED
  BY <1>1, <1>2, <1>3 DEF IInv

\* IInv holds in every reachable state.
THEOREM Invariance == Spec => []IInv
<1>1. IInv /\ [Next]_vars => IInv'
  BY TypeInductive, PlanInductive, FileInductive DEF IInv
<1> QED
  BY InitIInv, <1>1, PTL DEF Spec

(***************************************************************************)
(* Every variable keeps its type; in particular the limits stay positive,  *)
(* whatever doSetMaxNodesPerPod is asked for, and the file errors bounded. *)
(***************************************************************************)
THEOREM TypeCorrect == Spec => []TypeOK
<1>1. IInv => TypeOK
  BY DEF IInv
<1> QED
  BY Invariance, <1>1, PTL

(***************************************************************************)
(* The targets that updateNodeCounts leaves let the pods it asked for take *)
(* every node.                                                             *)
(***************************************************************************)
THEOREM TargetsCover == Spec => []TargetsCoverNodes
<1>1. IInv => TargetsCoverNodes
  BY DEF IInv, Plan, Fit, TargetsCoverNodes
<1> QED
  BY Invariance, <1>1, PTL

(***************************************************************************)
(* The targets exceed the limits the call has read by at most one, though  *)
(* doSetMaxNodesPerPod may have set one limit before the call read it and  *)
(* the other after: how far updateNodeCounts is from the hard maximums     *)
(* that consoleOpMain.go:64-65 speaks of.                                  *)
(***************************************************************************)
THEOREM TargetsNearMax ==
    Spec => [](Settled => \A k \in Kind : numNodesPerPod[k] <= limit[k] + 1)
<1>1. IInv => (Settled => \A k \in Kind : numNodesPerPod[k] <= limit[k] + 1)
  BY DEF IInv, Plan, Fit
<1> QED
  BY Invariance, <1>1, PTL

(***************************************************************************)
(* The target file holds the stored targets unless updateNodesPerPod is    *)
(* writing it or has lost a write.                                         *)
(***************************************************************************)
THEOREM FileMatches == Spec => []FileMatchesTargets
<1>1. IInv => FileMatchesTargets
  BY DEF IInv, FileLines
<1> QED
  BY Invariance, <1>1, PTL

(***************************************************************************)
(* Whenever the operator changes the replicas, one pod less than it asks   *)
(* for can take all the nodes of the pass within the limits it has read.   *)
(***************************************************************************)
THEOREM ScalesToFit == Spec => ScaledToFit
<1>1. ASSUME IInv, [Next]_vars, pc = "update", pc' = "targets", replicas' # replicas
      PROVE  replicas' = newNumPods
  BY <1>1, Steps
  DEF CountNodes, PlanPods, K8sStep, AlreadyCorrect, GetStatefulSet, GetStatefulSetFails,
      UpdateStatefulSet, Conflict, UpdateStatefulSetFails, NewTargets, SameTargets,
      getReplicaCountFails, TargetStep, OpenFile, OpenFileFails, WriteString,
      WriteStringFails, StoreTargets, FileStep, PatchRvr, PatchMtn, PatchStep,
      NodesChange, StatefulSetChanges, NewProcess, vars
<1>2. ASSUME IInv, pc = "update", NEW k \in Kind
      PROVE  (newNumPods - 1) * limit[k] >= totalNodes[k]
  <2> DEFINE r == NumReq(totalNodes[k], limit[k])
  <2>1. /\ totalNodes[k] \in Nat /\ limit[k] \in Nat \ {0} /\ newNumPods \in Nat
        /\ newNumPods >= r
    BY <1>2 DEF IInv, Plan, TypeOK
  <2>2. r \in Nat \ {0} /\ (r - 1) * limit[k] >= totalNodes[k]
    BY <2>1, OnePodToSpare
  <2> HIDE DEF r
  <2>3. (r - 1) * limit[k] <= (newNumPods - 1) * limit[k]
    BY <2>1, <2>2, ProductMonotone
  <2> QED
    BY <2>1, <2>2, <2>3
<1>3. IInv /\ [Next]_vars
        => [pc = "update" /\ pc' = "targets" /\ replicas' # replicas
              => \A k \in Kind : (replicas' - 1) * limit[k] >= totalNodes[k]]_vars
  BY <1>1, <1>2
<1> QED
  BY <1>3, Invariance, PTL DEF Spec, ScaledToFit

=============================================================================
