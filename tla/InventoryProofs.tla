--------------------------- MODULE InventoryProofs ---------------------------
(***************************************************************************)
(* Type correctness of Inventory, and that no node is lost and no steady   *)
(* node removed, for all sets of nodes, BMCs, classes and handlers and all *)
(* update periods.                                                         *)
(***************************************************************************)
EXTENDS Inventory, TLAPS

(***************************************************************************)
(* The inductive invariants.                                               *)
(*                                                                         *)
(* Sent: what a pass knows of console-data.  In an ordinary pass a listed  *)
(* node that the lookup passed over is there already; after the additions  *)
(* have succeeded every listed node is there, and the removals spare it.   *)
(***************************************************************************)
Recorded(n) == consoleData[n] # Absent \/ n \in lostToClear

Diff ==
    /\ ~updateSuccessful => pc \in {"remove", "store", "finish"}
    /\ pc \notin PassSteps \ {"endpoints", "components", "paradise"}
         => newNodes = {} /\ unseen = {}
    /\ pc \in {"findNew", "add"}
         => newNodes \subseteq Listed(currNodes) /\ unseen \subseteq Listed(currNodes)
    /\ pc = "add" => unseen = {}
    /\ pc \in {"add", "remove"} => removedNodes \cap Listed(currNodes) = {}

Sent ==
    /\ pc \in {"findNew", "add"} /\ forceUpdateCnt # 0
         => \A n \in Listed(currNodes) : n \in unseen \cup newNodes \/ Recorded(n)
    /\ pc \in {"remove", "store", "finish"} /\ updateSuccessful
         => \A n \in Listed(currNodes) :
                Recorded(n) /\ (forceUpdateCnt = 0 => consoleData[n] = currNodes[n]
                                                        \/ n \in lostToClear)

\* What the replies taken so far say of a node that HSM has listed throughout.
SteadyListed ==
    /\ pc = "start" => steady = {}
    /\ steady \subseteq Listed(HsmView)
    /\ pc \in {"components", "paradise"} => \A n \in steady : BmcOf[n] \in rfEndpoints
    /\ pc = "paradise" => \A n \in steady : stComps[n] # Absent
    /\ pc \in PassSteps \ {"endpoints", "components", "paradise"}
         => steady \subseteq Listed(currNodes)

IInv == TypeOK /\ Diff /\ Sent /\ NoLostNode /\ SteadyListed

-----------------------------------------------------------------------------
\* The steps of the specification, in the order the proofs below take them.
LEMMA Steps ==
    ASSUME [Next]_vars
    PROVE  \/ BeginPass
           \/ getRedfishEndpoints \/ getRedfishEndpointsFails
           \/ getStateComponents \/ getStateComponentsFails
           \/ getParadiseNodes \/ getParadiseNodesFails
           \/ (\E n \in Node : FindNew(n))
           \/ FindRemoved
           \/ NoNodesToAdd
           \/ dataAddNodes
           \/ dataAddNodesFails
           \/ dataRemoveNodes \/ dataRemoveNodesFails
           \/ StoreCache
           \/ FinishPass
           \/ (\E h \in Handler : ClearRead(h) \/ ClearSwap(h))
           \/ (\E h \in Handler : ClearDelete(h) \/ ClearDeleteFails(h))
           \/ doSuspend \/ doResume
           \/ HsmChanges
           \/ Restart
           \/ UNCHANGED vars
BY DEF Next, Progress, Disturbance, Failure, WatchStep, WatchFails, ClearProceeds,
       DebugRequest

\* Every step keeps every variable in its type.
LEMMA TypeInductive == TypeOK /\ [Next]_vars => TypeOK'
<1> SUFFICES ASSUME TypeOK, [Next]_vars
             PROVE  TypeOK'
  OBVIOUS
<1> USE InventoryAssumption DEF TypeOK, NodeMap, NoNodes, Listed, Class, PassSteps,
        hsmVars, replyVars, diffVars, clearVars, dataVars
<1>1. CASE BeginPass
  BY <1>1 DEF BeginPass
<1>2. CASE getRedfishEndpoints \/ getRedfishEndpointsFails
  BY <1>2 DEF getRedfishEndpoints, getRedfishEndpointsFails, RedfishReply, HsmNodes
<1>3. CASE getStateComponents \/ getStateComponentsFails
  BY <1>3 DEF getStateComponents, getStateComponentsFails, ComponentsReply, HsmNodes
<1>4. CASE getParadiseNodes \/ getParadiseNodesFails
  BY <1>4 DEF getParadiseNodes, getParadiseNodesFails, NodesFrom, HsmNodes
<1>5. CASE \E n \in Node : FindNew(n)
  BY <1>5 DEF FindNew
<1>6. CASE FindRemoved
  BY <1>6 DEF FindRemoved, RemovedNodes
<1>7. CASE NoNodesToAdd
  BY <1>7 DEF NoNodesToAdd, AddReturns
<1>8. CASE dataAddNodes
  BY <1>8 DEF dataAddNodes, AddReturns, Put, nodesToUpdate
<1>9. CASE dataAddNodesFails
  BY <1>9 DEF dataAddNodesFails, AddReturns, Put, nodesToUpdate
<1>10. CASE dataRemoveNodes \/ dataRemoveNodesFails
  BY <1>10 DEF dataRemoveNodes, dataRemoveNodesFails, RemoveReturns, Delete
<1>11. CASE StoreCache
  BY <1>11 DEF StoreCache
<1>12. CASE FinishPass
  BY <1>12 DEF FinishPass, LeavePass, NextForceUpdateCnt
<1>13. CASE \E h \in Handler : ClearRead(h) \/ ClearSwap(h)
  BY <1>13 DEF ClearRead, ClearSwap, Clear
<1>14. CASE \E h \in Handler : ClearDelete(h) \/ ClearDeleteFails(h)
  BY <1>14 DEF ClearDelete, ClearDeleteFails, Clear, Delete
<1>15. CASE doSuspend \/ doResume
  BY <1>15 DEF doSuspend, doResume, SetShutdown
<1>16. CASE HsmChanges
  BY <1>16 DEF HsmChanges, HsmEndpointChanges, HsmComponentChanges
<1>17. CASE Restart
  <2>1. clearPc' \in [Handler -> {"idle", "swap", "delete"}] /\ rn' \in [Handler -> SUBSET Node]
    BY <1>17 DEF Restart
  <2>2. nodeCache' \in NodeMap /\ currNodes' \in NodeMap
    BY <1>17 DEF Restart, LeavePass
  <2>3. stComps' \in [Node -> HsmClass \cup {Absent}] /\ forceUpdateCnt' \in 0 .. ForcePeriod
    BY <1>17 DEF Restart, LeavePass
  <2>4. UNCHANGED <<hsmVars, dataVars>> /\ LeavePass /\ inShutdown' = FALSE
    BY <1>17 DEF Restart
  <2> QED
    BY <2>1, <2>2, <2>3, <2>4 DEF LeavePass
<1>18. CASE UNCHANGED vars
  BY <1>18 DEF vars
<1> QED
  BY Steps, <1>1, <1>2, <1>3, <1>4, <1>5, <1>6, <1>7, <1>8, <1>9, <1>10,
     <1>11, <1>12, <1>13, <1>14, <1>15, <1>16, <1>17, <1>18

\* The lists a pass computes stay consistent with each other.
LEMMA DiffInductive == TypeOK /\ Diff /\ [Next]_vars => Diff'
<1> SUFFICES ASSUME TypeOK, Diff, [Next]_vars
             PROVE  Diff'
  OBVIOUS
<1> USE InventoryAssumption DEF NodeMap, NoNodes, Listed, Class, PassSteps,
        hsmVars, replyVars, diffVars, clearVars, dataVars, TypeOK, Diff
<1>1. CASE BeginPass
  BY <1>1 DEF BeginPass
<1>2. CASE getRedfishEndpoints \/ getRedfishEndpointsFails
  BY <1>2 DEF getRedfishEndpoints, getRedfishEndpointsFails, RedfishReply, HsmNodes
<1>3. CASE getStateComponents \/ getStateComponentsFails
  BY <1>3 DEF getStateComponents, getStateComponentsFails, ComponentsReply, HsmNodes
<1>4. CASE getParadiseNodes \/ getParadiseNodesFails
  BY <1>4 DEF getParadiseNodes, getParadiseNodesFails, NodesFrom, HsmNodes
<1>5. CASE \E n \in Node : FindNew(n)
  BY <1>5 DEF FindNew
<1>6. CASE FindRemoved
  BY <1>6 DEF FindRemoved, RemovedNodes
<1>7. CASE NoNodesToAdd
  BY <1>7 DEF NoNodesToAdd, AddReturns, nodesToUpdate, updateAll
<1>8. CASE dataAddNodes
  BY <1>8 DEF dataAddNodes, AddReturns, Put, nodesToUpdate, updateAll
<1>9. CASE dataAddNodesFails
  BY <1>9 DEF dataAddNodesFails, AddReturns, Put, nodesToUpdate, updateAll
<1>10. CASE dataRemoveNodes \/ dataRemoveNodesFails
  BY <1>10 DEF dataRemoveNodes, dataRemoveNodesFails, RemoveReturns, Delete
<1>11. CASE StoreCache
  BY <1>11 DEF StoreCache
<1>12. CASE FinishPass
  BY <1>12 DEF FinishPass, LeavePass, NextForceUpdateCnt
<1>13. CASE \E h \in Handler : ClearRead(h) \/ ClearSwap(h)
  BY <1>13 DEF ClearRead, ClearSwap, Clear
<1>14. CASE \E h \in Handler : ClearDelete(h) \/ ClearDeleteFails(h)
  BY <1>14 DEF ClearDelete, ClearDeleteFails, Clear, Delete
<1>15. CASE doSuspend \/ doResume
  <2>1. UNCHANGED <<pc, diffVars, updateSuccessful>>
    BY <1>15 DEF doSuspend, doResume, SetShutdown
  <2> QED
    BY <2>1
<1>16. CASE HsmChanges
  BY <1>16 DEF HsmChanges, HsmEndpointChanges, HsmComponentChanges
<1>17. CASE Restart
  <2>1. pc' = "start" /\ updateSuccessful' = TRUE /\ newNodes' = {} /\ unseen' = {}
    BY <1>17 DEF Restart, LeavePass
  <2> QED
    BY <2>1
<1>18. CASE UNCHANGED vars
  BY <1>18 DEF vars
<1> QED
  BY Steps, <1>1, <1>2, <1>3, <1>4, <1>5, <1>6, <1>7, <1>8, <1>9, <1>10,
     <1>11, <1>12, <1>13, <1>14, <1>15, <1>16, <1>17, <1>18

\* What a pass has sent, or need not send, console-data holds.
LEMMA SentInductive == TypeOK /\ Diff /\ Sent /\ NoLostNode /\ [Next]_vars => Sent'
<1> SUFFICES ASSUME TypeOK, Diff, Sent, NoLostNode, [Next]_vars
             PROVE  Sent'
  OBVIOUS
<1> USE InventoryAssumption DEF NodeMap, NoNodes, Listed, Class, PassSteps,
        hsmVars, replyVars, diffVars, clearVars, dataVars,
        TypeOK, Diff, Sent, Recorded, NoLostNode, Resending
<1>1. CASE BeginPass
  BY <1>1 DEF BeginPass
<1>2. CASE getRedfishEndpoints \/ getRedfishEndpointsFails
  BY <1>2 DEF getRedfishEndpoints, getRedfishEndpointsFails, RedfishReply, HsmNodes
<1>3. CASE getStateComponents \/ getStateComponentsFails
  BY <1>3 DEF getStateComponents, getStateComponentsFails, ComponentsReply, HsmNodes
<1>4. CASE getParadiseNodes \/ getParadiseNodesFails
  BY <1>4 DEF getParadiseNodes, getParadiseNodesFails, NodesFrom, HsmNodes
<1>5. CASE \E n \in Node : FindNew(n)
  BY <1>5 DEF FindNew
<1>6. CASE FindRemoved
  BY <1>6 DEF FindRemoved, RemovedNodes
<1>7. CASE NoNodesToAdd
  BY <1>7 DEF NoNodesToAdd, AddReturns, nodesToUpdate, updateAll
<1>8. CASE dataAddNodes
  BY <1>8 DEF dataAddNodes, AddReturns, Put, nodesToUpdate, updateAll
<1>9. CASE dataAddNodesFails
  BY <1>9 DEF dataAddNodesFails, AddReturns, Put, nodesToUpdate, updateAll
<1>10. CASE dataRemoveNodes \/ dataRemoveNodesFails
  BY <1>10 DEF dataRemoveNodes, dataRemoveNodesFails, RemoveReturns, Delete
<1>11. CASE StoreCache
  BY <1>11 DEF StoreCache
<1>12. CASE FinishPass
  BY <1>12 DEF FinishPass, LeavePass, NextForceUpdateCnt
<1>13. CASE \E h \in Handler : ClearRead(h) \/ ClearSwap(h)
  BY <1>13 DEF ClearRead, ClearSwap, Clear
<1>14. CASE \E h \in Handler : ClearDelete(h) \/ ClearDeleteFails(h)
  BY <1>14 DEF ClearDelete, ClearDeleteFails, Clear, Delete
<1>15. CASE doSuspend \/ doResume
  BY <1>15 DEF doSuspend, doResume, SetShutdown
<1>16. CASE HsmChanges
  BY <1>16 DEF HsmChanges, HsmEndpointChanges, HsmComponentChanges
<1>17. CASE Restart
  BY <1>17 DEF Restart, LeavePass
<1>18. CASE UNCHANGED vars
  BY <1>18 DEF vars
<1> QED
  BY Steps, <1>1, <1>2, <1>3, <1>4, <1>5, <1>6, <1>7, <1>8, <1>9, <1>10,
     <1>11, <1>12, <1>13, <1>14, <1>15, <1>16, <1>17, <1>18

\* The same facts carry NoLostNode over a step.
LEMMA NoLostNodeInductive == TypeOK /\ Diff /\ Sent /\ NoLostNode /\ [Next]_vars => NoLostNode'
<1> SUFFICES ASSUME TypeOK, Diff, Sent, NoLostNode, [Next]_vars
             PROVE  NoLostNode'
  OBVIOUS
<1> USE InventoryAssumption DEF NodeMap, NoNodes, Listed, Class, PassSteps,
        hsmVars, replyVars, diffVars, clearVars, dataVars,
        TypeOK, Diff, Sent, Recorded, NoLostNode, Resending
<1>1. CASE BeginPass
  BY <1>1 DEF BeginPass
<1>2. CASE getRedfishEndpoints \/ getRedfishEndpointsFails
  BY <1>2 DEF getRedfishEndpoints, getRedfishEndpointsFails, RedfishReply, HsmNodes
<1>3. CASE getStateComponents \/ getStateComponentsFails
  BY <1>3 DEF getStateComponents, getStateComponentsFails, ComponentsReply, HsmNodes
<1>4. CASE getParadiseNodes \/ getParadiseNodesFails
  BY <1>4 DEF getParadiseNodes, getParadiseNodesFails, NodesFrom, HsmNodes
<1>5. CASE \E n \in Node : FindNew(n)
  BY <1>5 DEF FindNew
<1>6. CASE FindRemoved
  BY <1>6 DEF FindRemoved, RemovedNodes
<1>7. CASE NoNodesToAdd
  BY <1>7 DEF NoNodesToAdd, AddReturns, nodesToUpdate, updateAll
<1>8. CASE dataAddNodes
  BY <1>8 DEF dataAddNodes, AddReturns, Put, nodesToUpdate, updateAll
<1>9. CASE dataAddNodesFails
  BY <1>9 DEF dataAddNodesFails, AddReturns, Put, nodesToUpdate, updateAll
<1>10. CASE dataRemoveNodes \/ dataRemoveNodesFails
  BY <1>10 DEF dataRemoveNodes, dataRemoveNodesFails, RemoveReturns, Delete
<1>11. CASE StoreCache
  BY <1>11 DEF StoreCache
<1>12. CASE FinishPass
  BY <1>12 DEF FinishPass, LeavePass, NextForceUpdateCnt
<1>13. CASE \E h \in Handler : ClearRead(h) \/ ClearSwap(h)
  BY <1>13 DEF ClearRead, ClearSwap, Clear
<1>14. CASE \E h \in Handler : ClearDelete(h) \/ ClearDeleteFails(h)
  BY <1>14 DEF ClearDelete, ClearDeleteFails, Clear, Delete
<1>15. CASE doSuspend \/ doResume
  BY <1>15 DEF doSuspend, doResume, SetShutdown
<1>16. CASE HsmChanges
  BY <1>16 DEF HsmChanges, HsmEndpointChanges, HsmComponentChanges
<1>17. CASE Restart
  BY <1>17 DEF Restart, LeavePass
<1>18. CASE UNCHANGED vars
  BY <1>18 DEF vars
<1> QED
  BY Steps, <1>1, <1>2, <1>3, <1>4, <1>5, <1>6, <1>7, <1>8, <1>9, <1>10,
     <1>11, <1>12, <1>13, <1>14, <1>15, <1>16, <1>17, <1>18

\* A steady node is in every list the pass makes.
LEMMA SteadyInductive == TypeOK /\ SteadyListed /\ [Next]_vars => SteadyListed'
<1> SUFFICES ASSUME TypeOK, SteadyListed, [Next]_vars
             PROVE  SteadyListed'
  OBVIOUS
<1> USE InventoryAssumption DEF NodeMap, NoNodes, Listed, Class, PassSteps,
        hsmVars, replyVars, diffVars, clearVars, dataVars,
        TypeOK, SteadyListed, HsmView, NodesFrom
<1>1. CASE BeginPass
  BY <1>1 DEF BeginPass, HsmView, NodesFrom
<1>2. CASE getRedfishEndpoints \/ getRedfishEndpointsFails
  BY <1>2 DEF getRedfishEndpoints, getRedfishEndpointsFails, RedfishReply, HsmNodes, HsmView, NodesFrom
<1>3. CASE getStateComponents \/ getStateComponentsFails
  BY <1>3 DEF getStateComponents, getStateComponentsFails, ComponentsReply, HsmNodes, HsmView, NodesFrom
<1>4. CASE getParadiseNodes \/ getParadiseNodesFails
  BY <1>4 DEF getParadiseNodes, getParadiseNodesFails, NodesFrom, HsmNodes, HsmView
<1>5. CASE \E n \in Node : FindNew(n)
  BY <1>5 DEF FindNew
<1>6. CASE FindRemoved
  BY <1>6 DEF FindRemoved, RemovedNodes
<1>7. CASE NoNodesToAdd
  BY <1>7 DEF NoNodesToAdd, AddReturns, nodesToUpdate, updateAll
<1>8. CASE dataAddNodes
  BY <1>8 DEF dataAddNodes, AddReturns, Put, nodesToUpdate, updateAll
<1>9. CASE dataAddNodesFails
  BY <1>9 DEF dataAddNodesFails, AddReturns, Put, nodesToUpdate, updateAll
<1>10. CASE dataRemoveNodes \/ dataRemoveNodesFails
  BY <1>10 DEF dataRemoveNodes, dataRemoveNodesFails, RemoveReturns, Delete
<1>11. CASE StoreCache
  BY <1>11 DEF StoreCache
<1>12. CASE FinishPass
  BY <1>12 DEF FinishPass, LeavePass, NextForceUpdateCnt
<1>13. CASE \E h \in Handler : ClearRead(h) \/ ClearSwap(h)
  BY <1>13 DEF ClearRead, ClearSwap, Clear
<1>14. CASE \E h \in Handler : ClearDelete(h) \/ ClearDeleteFails(h)
  BY <1>14 DEF ClearDelete, ClearDeleteFails, Clear, Delete
<1>15. CASE doSuspend \/ doResume
  BY <1>15 DEF doSuspend, doResume, SetShutdown
<1>16. CASE HsmChanges
  BY <1>16 DEF HsmChanges, HsmEndpointChanges, HsmComponentChanges
<1>17. CASE Restart
  BY <1>17 DEF Restart, LeavePass
<1>18. CASE UNCHANGED vars
  BY <1>18 DEF vars
<1> QED
  BY Steps, <1>1, <1>2, <1>3, <1>4, <1>5, <1>6, <1>7, <1>8, <1>9, <1>10,
     <1>11, <1>12, <1>13, <1>14, <1>15, <1>16, <1>17, <1>18

-----------------------------------------------------------------------------
\* The initial states satisfy the inductive invariant.
LEMMA InitIInv == Init => IInv
<1> SUFFICES ASSUME Init
             PROVE  IInv
  OBVIOUS
<1> USE InventoryAssumption DEF Init, NodeMap, NoNodes, Listed, Class, PassSteps
<1>1. TypeOK
  <2>1. NoNodes \in NodeMap /\ NoNodes \in [Node -> HsmClass \cup {Absent}]
    OBVIOUS
  <2>2. clearPc \in [Handler -> {"idle", "swap", "delete"}] /\ rn \in [Handler -> SUBSET Node]
    OBVIOUS
  <2>3. forceUpdateCnt \in 0 .. ForcePeriod
    OBVIOUS
  <2> QED
    BY <2>1, <2>2, <2>3 DEF TypeOK
<1>2. Diff /\ Sent
  BY DEF Diff, Sent
<1>3. NoLostNode
  BY DEF NoLostNode
<1>4. SteadyListed
  BY DEF SteadyListed
<1> QED
  BY <1>1, <1>2, <1>3, <1>4 DEF IInv

\* Every step keeps the inductive invariant.
LEMMA NextIInv == IInv /\ [Next]_vars => IInv'
  BY TypeInductive, DiffInductive, SentInductive, NoLostNodeInductive,
     SteadyInductive DEF IInv

\* IInv holds in every reachable state.
THEOREM Invariance == Spec => []IInv
  BY InitIInv, NextIInv, PTL DEF Spec

(***************************************************************************)
(* Every variable of the watch loop and of the debug handlers keeps its    *)
(* type; in particular the countdown of watchHardware stays within its     *)
(* period.                                                                 *)
(***************************************************************************)
THEOREM TypeCorrect == Spec => []TypeOK
<1>1. IInv => TypeOK
  BY DEF IInv
<1> QED
  BY Invariance, <1>1, PTL

(***************************************************************************)
(* A node that the cache holds and console-data does not is about to be    *)
(* sent again, or doClearData removed it: no failure of updateCachedNode-  *)
(* Data loses a node.                                                      *)
(***************************************************************************)
THEOREM NoNodeIsLost == Spec => []NoLostNode
<1>1. IInv => NoLostNode
  BY DEF IInv
<1> QED
  BY Invariance, <1>1, PTL

(***************************************************************************)
(* A pass whose additions have not failed leaves console-data with every   *)
(* node that HSM has listed all through the pass, as far as doClearData    *)
(* lets it: updateCachedNodeData may rely on its cache for what it skips.  *)
(***************************************************************************)
THEOREM NodesAreRecorded == Spec => []PassRecords
<1>1. IInv => PassRecords
  BY DEF IInv, Sent, SteadyListed, PassRecords, Recorded, updateAll, PassSteps
<1> QED
  BY Invariance, <1>1, PTL

(***************************************************************************)
(* updateCachedNodeData never removes from console-data a node that HSM    *)
(* listed all through the pass; only doClearData does.                     *)
(***************************************************************************)
THEOREM SteadyNodesAreKept == Spec => SteadyNodesKept
<1>1. IInv /\ [Next]_vars
        => [\A n \in steady : Dropped(n) => \E h \in Handler : ClearsNode(h, n)]_vars
  <2> SUFFICES ASSUME IInv, [Next]_vars, NEW n \in steady, Dropped(n)
               PROVE  \E h \in Handler : ClearsNode(h, n)
    OBVIOUS
  <2> USE DEF IInv, TypeOK, NodeMap, Listed, Dropped, ClearsNode
  <2>1. CASE dataAddNodes \/ dataAddNodesFails
    BY <2>1 DEF dataAddNodes, dataAddNodesFails, AddReturns, Put, nodesToUpdate,
                dataVars, Diff
  <2>2. CASE dataRemoveNodes \/ dataRemoveNodesFails
    BY <2>2 DEF dataRemoveNodes, dataRemoveNodesFails, RemoveReturns, Delete,
                Diff, SteadyListed, PassSteps
  <2>3. CASE \E h \in Handler : ClearDelete(h)
    BY <2>3 DEF ClearDelete, Delete
  <2>4. CASE UNCHANGED consoleData
    BY <2>4
  <2>5. \/ dataAddNodes \/ dataAddNodesFails \/ dataRemoveNodes \/ dataRemoveNodesFails
        \/ \E h \in Handler : ClearDelete(h)
        \/ UNCHANGED consoleData
    BY Steps DEF BeginPass, getRedfishEndpoints, getRedfishEndpointsFails,
       RedfishReply, HsmNodes, getStateComponents, getStateComponentsFails,
       ComponentsReply, getParadiseNodes, getParadiseNodesFails, FindNew,
       FindRemoved, NoNodesToAdd, StoreCache, FinishPass, ClearRead, ClearSwap,
       ClearDeleteFails, doSuspend, doResume, SetShutdown, HsmChanges,
       HsmEndpointChanges, HsmComponentChanges, Restart, dataVars, vars
  <2> QED
    BY <2>1, <2>2, <2>3, <2>4, <2>5
<1> QED
  BY Invariance, <1>1, PTL DEF Spec, SteadyNodesKept

-----------------------------------------------------------------------------
(***************************************************************************)
(* The inductive invariant of ReliableSpec: what console-data lists at     *)
(* each step of a pass, and that the pass finds exactly the new and the    *)
(* removed nodes, since the cache does not change under it.                *)
(***************************************************************************)
ExactDiff ==
    /\ updateSuccessful
    /\ pc \in {"findNew", "add", "remove"}
         => newNodes = (Listed(currNodes) \ Listed(nodeCache)) \ unseen
    /\ pc \in {"add", "remove"} => unseen = {}
    /\ pc \in {"add", "remove"} => removedNodes = Listed(nodeCache) \ Listed(currNodes)

DataListed ==
    /\ pc = "remove" => Listed(consoleData) = Listed(nodeCache) \cup Listed(currNodes)
    /\ pc = "store" => Listed(consoleData) = Listed(currNodes)
    /\ pc \notin {"remove", "store"} => Listed(consoleData) = Listed(nodeCache)

ReliableInv == TypeOK /\ Diff /\ ExactDiff /\ DataListed

\* The steps of ReliableSpec are steps of Spec without failures and clears.
LEMMA ReliableSteps == [ReliableNext]_vars => [Next]_vars
  BY DEF ReliableNext, Next, Progress, Disturbance, DebugRequest

(***************************************************************************)
(* Without failures and clears every pass sends exactly the differences    *)
(* between HSM and the cache, and then stores what it has sent.            *)
(***************************************************************************)
LEMMA ReliableInductive == ReliableInv /\ [ReliableNext]_vars => ReliableInv'
<1> SUFFICES ASSUME ReliableInv, [ReliableNext]_vars
             PROVE  ReliableInv'
  OBVIOUS
<1>1. TypeOK' /\ Diff'
  BY ReliableSteps, TypeInductive, DiffInductive DEF ReliableInv
<1>2. ExactDiff' /\ DataListed'
  <2>u. ASSUME UNCHANGED <<consoleData, nodeCache, diffVars, updateSuccessful>>,
               \/ pc' = pc
               \/ {pc, pc'} \subseteq {"start", "endpoints", "components", "paradise"}
        PROVE  ExactDiff' /\ DataListed'
    BY <2>u DEF diffVars, ReliableInv, ExactDiff, DataListed
  <2>1. CASE BeginPass \/ getRedfishEndpoints \/ getStateComponents
    BY <2>1, <2>u DEF BeginPass, getRedfishEndpoints, RedfishReply, getStateComponents,
                      ComponentsReply, dataVars
  <2>2. CASE doSuspend \/ doResume
    BY <2>2, <2>u DEF doSuspend, doResume, SetShutdown, dataVars
  <2>3. CASE HsmChanges
    BY <2>3, <2>u DEF HsmChanges, HsmEndpointChanges, HsmComponentChanges, dataVars
  <2>4. CASE UNCHANGED vars
    BY <2>4, <2>u DEF vars, dataVars
  <2> USE DEF NodeMap, NoNodes, Listed, PassSteps, hsmVars, replyVars, diffVars,
          dataVars, ReliableInv, TypeOK, Diff, ExactDiff, DataListed
  <2>5. CASE getParadiseNodes
    BY <2>5 DEF getParadiseNodes, HsmNodes
  <2>6. CASE \E n \in Node : FindNew(n)
    BY <2>6 DEF FindNew
  <2>7. CASE FindRemoved
    BY <2>7 DEF FindRemoved, RemovedNodes
  <2>8. CASE NoNodesToAdd
    BY <2>8 DEF NoNodesToAdd, AddReturns, nodesToUpdate
  <2>9. CASE dataAddNodes
    BY <2>9 DEF dataAddNodes, AddReturns, Put, nodesToUpdate
  <2>10. CASE dataRemoveNodes
    BY <2>10 DEF dataRemoveNodes, RemoveReturns, Delete
  <2>11. CASE StoreCache
    BY <2>11 DEF StoreCache
  <2>12. CASE FinishPass
    BY <2>12 DEF FinishPass, LeavePass
  <2> QED
    BY <2>1, <2>2, <2>3, <2>4, <2>5, <2>6, <2>7, <2>8, <2>9, <2>10, <2>11, <2>12
    DEF ReliableNext, WatchStep
<1> QED
  BY <1>1, <1>2 DEF ReliableInv

(***************************************************************************)
(* If only the hardware changes, the cache of updateCachedNodeData and     *)
(* console-data list the same nodes whenever no pass is sending changes.   *)
(***************************************************************************)
THEOREM CacheMirrors == ReliableSpec => []CacheMirrorsData
<1>1. Init => ReliableInv
  <2>1. Init => TypeOK /\ Diff
    BY InitIInv DEF IInv
  <2>2. Init => ExactDiff /\ DataListed
    BY DEF Init, ExactDiff, DataListed
  <2> QED
    BY <2>1, <2>2 DEF ReliableInv
<1>2. ReliableInv => CacheMirrorsData
  BY DEF ReliableInv, DataListed, CacheMirrorsData
<1> QED
  BY <1>1, <1>2, ReliableInductive, PTL DEF ReliableSpec

=============================================================================
