------------------------------- MODULE Scaling -------------------------------
(***************************************************************************)
(* How many console-node pods there are and how many nodes each may take:  *)
(* updateNodeCounts (nodes.go), which the watch loop calls in every pass,  *)
(* with updateReplicaCount, getReplicaCount and updateNodesPerPod (k8s.go) *)
(* and the handler doSetMaxNodesPerPod (debug.go) that changes the limits  *)
(* under it.  The replica count of the console-node StatefulSet lives in   *)
(* kubernetes and the targets in a file that the pods read; both outlive   *)
(* the process, whose globals do not.                                      *)
(*                                                                         *)
(* The code keeps every number twice, for mountain and for river nodes:    *)
(* here such a pair is a function on Kind.                                 *)
(***************************************************************************)
EXTENDS PodMath

CONSTANTS
    Counts,         \* the numbers of nodes the cache may hold, by kind
    MaxFromEnv,     \* the limits a new process starts with
    PinMin,         \* the least limit doSetMaxNodesPerPod sets (2)
    PinMax,         \* the greatest, by kind (750 and 2000)
    Asks,           \* limits that a PATCH asks for (0 when it names none)
    MaxFileErrors,  \* errors in a row before one panics (3, and one more)
    AdminReplicas,  \* replica counts that an administrator sets
    NoLine          \* a line that the target file lacks

Kind == {"mtn", "rvr"}

ASSUME ScalingAssumption ==
    /\ Counts \subseteq [Kind -> Nat]
    /\ MaxFromEnv \in [Kind -> Nat \ {0}]
    /\ PinMin \in Nat \ {0}
    /\ PinMax \in [Kind -> Nat]
    /\ \A k \in Kind : PinMin <= PinMax[k]
    /\ Asks \subseteq Nat
    /\ MaxFileErrors \in Nat
    /\ AdminReplicas \subseteq Nat
    /\ NoLine \notin Int

VARIABLES
    \* kubernetes and the shared volume
    replicas,            \* Spec.Replicas of the StatefulSet
    targetNodeFile,      \* the lines of the file, by kind
    \* globals of the process
    maxNodesPerPod,
    numNodePods,
    numNodesPerPod,
    totalNodes,
    numFileErrors,
    nodeCount,           \* nodes of each kind in nodeCache
    \* one call of updateNodeCounts
    pc,
    limit,               \* the limits as the call has read them
    newNumPods,
    fresh,               \* the StatefulSet is as the call has read it
    newTargets,          \* newMtn and newRvr
    \* one doSetMaxNodesPerPod request: the river limit it has yet to set
    patch,
    \* history: a write to the present file was lost
    writeLost

k8sVars  == <<replicas, fresh, numNodePods>>
fileVars == <<targetNodeFile, writeLost>>
maxVars  == <<maxNodesPerPod, patch>>
planVars == <<limit, newNumPods, totalNodes>>
vars == <<k8sVars, fileVars, maxVars, planVars, numNodesPerPod, numFileErrors,
          nodeCount, pc, newTargets>>

NoPatch == -1
Unset == [k \in Kind |-> -1]
NoTargets == [k \in Kind |-> 0]

TypeOK ==
    /\ replicas \in Nat
    /\ targetNodeFile \in [Kind -> Nat \cup {NoLine}]
    /\ maxNodesPerPod \in [Kind -> Nat \ {0}]
    /\ numNodePods \in Nat \cup {-1}
    /\ numNodesPerPod \in [Kind -> Nat \cup {-1}]
    /\ totalNodes \in [Kind -> Nat \cup {-1}]
    /\ numFileErrors \in 0 .. MaxFileErrors + 1
    /\ nodeCount \in [Kind -> Nat]
    /\ pc \in {"idle", "limits", "get", "update", "targets", "open",
               "writeRvr", "writeMtn", "store"}
    /\ limit \in [Kind -> Nat \ {0}]
    /\ newNumPods \in Nat
    /\ fresh \in BOOLEAN
    /\ newTargets \in [Kind -> Nat]
    /\ patch \in Asks \cup {NoPatch}
    /\ writeLost \in BOOLEAN

-----------------------------------------------------------------------------
Init ==
    /\ replicas \in AdminReplicas
    /\ targetNodeFile = [k \in Kind |-> NoLine]
    /\ maxNodesPerPod = MaxFromEnv
    /\ numNodePods = -1
    /\ numNodesPerPod = Unset /\ totalNodes = Unset
    /\ numFileErrors = 0
    /\ nodeCount \in Counts
    /\ pc = "idle"
    /\ limit = MaxFromEnv /\ newNumPods = 0
    /\ fresh = FALSE /\ newTargets = NoTargets
    /\ patch = NoPatch
    /\ writeLost = FALSE

(***************************************************************************)
(* updateNodeCounts, up to the call of updateReplicaCount: nothing happens *)
(* when the cache is empty.  The two limits are read one after the other.  *)
(***************************************************************************)
CountNodes ==
    /\ pc = "idle"
    /\ nodeCount["mtn"] + nodeCount["rvr"] # 0
    /\ totalNodes' = nodeCount
    /\ limit' = [limit EXCEPT !["mtn"] = maxNodesPerPod["mtn"]]
    /\ pc' = "limits"
    /\ UNCHANGED <<k8sVars, fileVars, maxVars, newNumPods, numNodesPerPod,
                   numFileErrors, nodeCount, newTargets>>

PlanPods ==
    /\ pc = "limits"
    /\ limit' = [limit EXCEPT !["rvr"] = maxNodesPerPod["rvr"]]
    /\ newNumPods' = NumPods(totalNodes["mtn"], totalNodes["rvr"],
                             limit'["mtn"], limit'["rvr"])
    /\ pc' = "get"
    /\ UNCHANGED <<k8sVars, fileVars, maxVars, totalNodes, numNodesPerPod,
                   numFileErrors, nodeCount, newTargets>>

(***************************************************************************)
(* updateReplicaCount.  An update carries the resource version of the read *)
(* and is refused when the StatefulSet has changed in the meantime.        *)
(***************************************************************************)
K8sStep(from, to) ==
    /\ pc = from
    /\ pc' = to
    /\ UNCHANGED <<fileVars, maxVars, planVars, numNodesPerPod, numFileErrors,
                   nodeCount, newTargets>>

AlreadyCorrect ==
    /\ K8sStep("get", "targets")
    /\ replicas = newNumPods
    /\ numNodePods' = newNumPods
    /\ UNCHANGED <<replicas, fresh>>

GetStatefulSet ==
    /\ K8sStep("get", "update")
    /\ replicas # newNumPods
    /\ fresh' = TRUE
    /\ UNCHANGED <<replicas, numNodePods>>

GetStatefulSetFails ==
    /\ K8sStep("get", "targets")
    /\ UNCHANGED k8sVars

UpdateStatefulSet ==
    /\ K8sStep("update", "targets")
    /\ fresh
    /\ replicas' = newNumPods
    /\ numNodePods' = newNumPods
    /\ fresh' = FALSE

Conflict ==
    /\ K8sStep("update", "targets")
    /\ ~fresh
    /\ fresh' = FALSE
    /\ UNCHANGED <<replicas, numNodePods>>

\* The answer is lost, or the request was.
UpdateStatefulSetFails ==
    /\ K8sStep("update", "targets")
    /\ fresh
    /\ replicas' \in {replicas, newNumPods}
    /\ fresh' = FALSE
    /\ UNCHANGED numNodePods

(***************************************************************************)
(* The targets.  When getReplicaCount succeeds they are written only if    *)
(* they have changed.  When it fails, with a count of -1, that count is    *)
(* added to them and they are written in any case.                         *)
(***************************************************************************)
Targets == [k \in Kind |-> NodesPerPod(totalNodes[k], newNumPods)]

TargetStep(targets, to) ==
    /\ pc = "targets"
    /\ newTargets' = targets
    /\ pc' = to
    /\ UNCHANGED <<k8sVars, fileVars, maxVars, planVars, numNodesPerPod,
                   numFileErrors, nodeCount>>


TargetsChanged == Targets # numNodesPerPod

NewTargets ==
    /\ TargetStep(Targets, "open")
    /\ TargetsChanged

SameTargets ==
    /\ TargetStep(NoTargets, "idle")
    /\ ~TargetsChanged

getReplicaCountFails ==
    TargetStep([k \in Kind |-> Targets[k] + (-1)], "open")

(***************************************************************************)
(* updateNodesPerPod.  The file is truncated when it is opened; the errors *)
(* of the two writes are not looked at.                                    *)
(***************************************************************************)
FileStep(from, to) ==
    /\ pc = from
    /\ pc' = to
    /\ newTargets' = IF to = "idle" THEN NoTargets ELSE newTargets
    /\ UNCHANGED <<k8sVars, maxVars, planVars, nodeCount>>

OpenFile ==
    /\ FileStep("open", "writeRvr")
    /\ targetNodeFile' = [k \in Kind |-> NoLine]
    /\ writeLost' = FALSE
    /\ numFileErrors' = 0
    /\ UNCHANGED numNodesPerPod

\* Mutated form: the errors are counted without end.
OpenFileFailsUnbounded ==
    /\ FileStep("open", "idle")
    /\ numFileErrors' = numFileErrors + 1
    /\ UNCHANGED <<fileVars, numNodesPerPod>>

\* Mutated form: the targets are stored before the file is open.
OpenFileFailsStored ==
    /\ numFileErrors <= MaxFileErrors
    /\ FileStep("open", "idle")
    /\ numFileErrors' = numFileErrors + 1
    /\ numNodesPerPod' = newTargets
    /\ UNCHANGED fileVars

\* The directory cannot be created or the file not opened.
OpenFileFails ==
    /\ numFileErrors <= MaxFileErrors
    /\ FileStep("open", "idle")
    /\ numFileErrors' = numFileErrors + 1
    /\ UNCHANGED <<fileVars, numNodesPerPod>>

WriteString(k, from, to) ==
    /\ FileStep(from, to)
    /\ targetNodeFile' = [targetNodeFile EXCEPT ![k] = newTargets[k]]
    /\ UNCHANGED <<writeLost, numNodesPerPod, numFileErrors>>

WriteStringFails(from, to) ==
    /\ FileStep(from, to)
    /\ writeLost' = TRUE
    /\ UNCHANGED <<targetNodeFile, numNodesPerPod, numFileErrors>>

StoreTargets ==
    /\ FileStep("store", "idle")
    /\ numNodesPerPod' = newTargets
    /\ UNCHANGED <<fileVars, numFileErrors>>

-----------------------------------------------------------------------------
pinNumNodes(ask, k) ==
    IF ask < PinMin THEN PinMin
    ELSE IF ask > PinMax[k] THEN PinMax[k]
    ELSE ask

PatchStep(k, ask, next) ==
    /\ maxNodesPerPod' = [maxNodesPerPod EXCEPT ![k] = pinNumNodes(ask, k)]
    /\ patch' = next
    /\ UNCHANGED <<k8sVars, fileVars, planVars, numNodesPerPod, numFileErrors,
                   nodeCount, pc, newTargets>>

\* doSetMaxNodesPerPod sets one limit and then the other.
PatchMtn(mtn, rvr) ==
    /\ patch = NoPatch
    /\ PatchStep("mtn", mtn, rvr)

PatchRvr ==
    /\ patch # NoPatch
    /\ PatchStep("rvr", patch, NoPatch)

-----------------------------------------------------------------------------
\* The watch loop found other hardware, or doClearData emptied the cache.
NodesChange ==
    /\ nodeCount' \in Counts \ {nodeCount}
    /\ pc = "idle" \/ \A k \in Kind : nodeCount'[k] = 0
    /\ UNCHANGED <<k8sVars, fileVars, maxVars, planVars, numNodesPerPod,
                   numFileErrors, pc, newTargets>>

\* An administrator scales the StatefulSet, or its status changes: either way
\* it has a new resource version.
StatefulSetChanges ==
    /\ replicas' \in AdminReplicas \cup {replicas}
    /\ fresh' = FALSE
    /\ UNCHANGED <<numNodePods, fileVars, maxVars, planVars, numNodesPerPod,
                   numFileErrors, nodeCount, pc, newTargets>>

NewProcess ==
    /\ maxNodesPerPod' = MaxFromEnv
    /\ numNodePods' = -1
    /\ numNodesPerPod' = Unset /\ totalNodes' = Unset
    /\ numFileErrors' = 0
    /\ nodeCount' = [k \in Kind |-> 0]
    /\ pc' = "idle"
    /\ limit' = MaxFromEnv /\ newNumPods' = 0
    /\ fresh' = FALSE /\ newTargets' = NoTargets
    /\ patch' = NoPatch
    /\ UNCHANGED <<replicas, fileVars>>

Restart == NewProcess

\* log.Panicf ends the process.
Panic ==
    /\ pc = "open"
    /\ numFileErrors > MaxFileErrors
    /\ NewProcess

-----------------------------------------------------------------------------
UpdateStep ==
    \/ CountNodes
    \/ PlanPods
    \/ AlreadyCorrect
    \/ GetStatefulSet
    \/ UpdateStatefulSet
    \/ Conflict
    \/ NewTargets
    \/ SameTargets
    \/ OpenFile
    \/ WriteString("rvr", "writeRvr", "writeMtn")
    \/ WriteString("mtn", "writeMtn", "store")
    \/ StoreTargets

UpdateFails ==
    \/ GetStatefulSetFails
    \/ UpdateStatefulSetFails
    \/ getReplicaCountFails
    \/ OpenFileFails
    \/ WriteStringFails("writeRvr", "writeMtn")
    \/ WriteStringFails("writeMtn", "store")
    \/ Panic

Environment ==
    \/ NodesChange
    \/ StatefulSetChanges
    \/ \E mtn, rvr \in Asks : PatchMtn(mtn, rvr)
    \/ Restart

Next == UpdateStep \/ PatchRvr \/ UpdateFails \/ Environment

(***************************************************************************)
(* The watch loop calls updateNodeCounts again and again, each call of     *)
(* kubernetes or of the file system returns, and a request handler that    *)
(* has started goes on.                                                    *)
(***************************************************************************)
Fairness == WF_vars(UpdateStep \/ UpdateFails) /\ WF_vars(PatchRvr)

Spec == Init /\ [][Next]_vars
FairSpec == Spec /\ Fairness

-----------------------------------------------------------------------------
\* A call of updateNodeCounts has come to its end and stored its targets.
Settled == pc = "idle" /\ newNumPods # 0 /\ numFileErrors = 0

(***************************************************************************)
(* The targets that updateNodeCounts leaves behind let the pods it asked   *)
(* for take every node: whether the targets were new or unchanged, and     *)
(* whether or not the replica count could be read.                         *)
(***************************************************************************)
TargetsCoverNodes ==
    Settled => \A k \in Kind : newNumPods * numNodesPerPod[k] >= totalNodes[k]

(***************************************************************************)
(* Whenever updateReplicaCount changes the replicas, up or down, the pods  *)
(* can take all the nodes of the pass within the limits that it has read   *)
(* even if one of them is lost; so also if the answer of kubernetes is     *)
(* lost, or a limit is changed while the call is under way.                *)
(***************************************************************************)
ScaledToFit ==
    [][pc = "update" /\ pc' = "targets" /\ replicas' # replicas
          => \A k \in Kind : (replicas' - 1) * limit[k] >= totalNodes[k]]_vars

(***************************************************************************)
(* While updateNodesPerPod is not writing, the file holds the targets the  *)
(* process has stored, unless a write to it was lost: opening errors,      *)
(* panics and restarts do not leave the two apart.                         *)
(***************************************************************************)
Writing == pc \in {"writeRvr", "writeMtn", "store"}
FileMatchesTargets ==
    ~Writing /\ numNodesPerPod # Unset /\ ~writeLost
        => targetNodeFile = numNodesPerPod

\* From some time on no call fails and nothing else changes.
Calm == <>[][UpdateStep \/ PatchRvr]_vars

(***************************************************************************)
(* Once the system is calm the StatefulSet has the replicas, and the       *)
(* process the totals and targets, that the nodes and the limits call for, *)
(* whatever conflicts, errors and changes of the limits went before.  From *)
(* then on doGetCurrentTargets, which reads the five variables one by one, *)
(* answers with values that belong together.                               *)
(***************************************************************************)
Planned ==
    LET pods == NumPods(nodeCount["mtn"], nodeCount["rvr"],
                        maxNodesPerPod["mtn"], maxNodesPerPod["rvr"])
    IN  /\ totalNodes = nodeCount
        /\ replicas = pods
        /\ numNodePods = pods
        /\ \A k \in Kind : numNodesPerPod[k] = NodesPerPod(nodeCount[k], pods)


(***************************************************************************)
(* k8s.go:246-247 says that the stored targets are updated "only [...]     *)
(* after correctly set in file".                                           *)
(***************************************************************************)
TargetsOnFile ==
    ~Writing /\ numNodesPerPod # Unset => targetNodeFile = numNodesPerPod

(***************************************************************************)
(* consoleOpMain.go:64-65 says of the limits that they are "hard maximums  *)
(* and pods will be scaled so no pod will try to connect to more than      *)
(* this": the targets that a call leaves behind are within the limits that *)
(* it has read.                                                            *)
(***************************************************************************)
TargetsWithinMaximum ==
    Settled => \A k \in Kind : numNodesPerPod[k] <= limit[k]

=============================================================================
