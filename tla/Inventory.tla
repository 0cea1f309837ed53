------------------------------ MODULE Inventory ------------------------------
(***************************************************************************)
(* The hardware watch loop of console-operator (consoleOpMain.go) and the  *)
(* debug handlers that share its state (debug.go).  One pass of the loop   *)
(* reads the hardware state manager (HSM) with three requests, compares    *)
(* the nodes with the in-memory nodeCache, sends the additions and the     *)
(* removals to console-data, and replaces the cache.  Every request to     *)
(* another service and every access to the unprotected global nodeCache is *)
(* a step of its own, so that the clearData handler and the environment    *)
(* interleave with the pass where the program lets them.                   *)
(*                                                                         *)
(* A nodeConsoleInfo is abstracted to its class: the name is the index of  *)
(* the map, the BMC is a function of the name, and the other fields are    *)
(* only passed on.  A Go map from names to nodeConsoleInfo is a function   *)
(* on Node whose value is Absent for the names the map does not hold.      *)
(***************************************************************************)
EXTENDS Integers

CONSTANTS
    Node,         \* xnames of the nodes that HSM may report
    Bmc,          \* xnames of the BMCs
    BmcOf,        \* the BMC of a node: its xname up to the last "n"
    HsmClass,     \* the classes a state component may carry
    Xd224,        \* the nodes whose FRU data is that of a Paradise node
    ForcePeriod,  \* passes counted down between full updates (10)
    Handler,      \* slots for concurrent clearData requests
    Absent        \* the class of a node that a map does not hold

ASSUME InventoryAssumption ==
    /\ BmcOf \in [Node -> Bmc]
    /\ Xd224 \subseteq Node
    /\ ForcePeriod \in Nat \ {0}
    /\ Absent \notin HsmClass \cup {"Paradise"}

Class == HsmClass \cup {"Paradise"}
NodeMap == [Node -> Class \cup {Absent}]
NoNodes == [n \in Node |-> Absent]
Listed(map) == {n \in Node : map[n] # Absent}

VARIABLES
    \* other services
    hsmEndpoints,      \* BMCs with a redfish endpoint in HSM
    hsmComponents,     \* node components in HSM, with their class
    consoleData,       \* the inventory kept by console-data
    \* globals of the process
    nodeCache,
    inShutdown,
    \* the watchHardware goroutine
    forceUpdateCnt,
    pc,
    rfEndpoints,       \* reply to getRedfishEndpoints
    stComps,           \* reply to getStateComponents
    currNodes,         \* currNodesMap
    unseen,            \* nodes of currNodes not yet looked up in nodeCache
    newNodes,
    removedNodes,
    updateSuccessful,
    \* the doClearData handlers
    clearPc,
    rn,                \* the nodes a handler will remove from console-data
    \* history
    steady,            \* nodes HSM has listed all through this pass, every
                       \* reply so far having been good
    lostToClear        \* nodes doClearData removed since they were last sent

hsmVars   == <<hsmEndpoints, hsmComponents>>
replyVars == <<rfEndpoints, stComps>>
diffVars  == <<currNodes, unseen, newNodes, removedNodes>>
clearVars == <<clearPc, rn>>
dataVars  == <<consoleData, lostToClear>>
vars == <<hsmVars, steady, dataVars, nodeCache, inShutdown, forceUpdateCnt, pc,
          replyVars, diffVars, updateSuccessful, clearVars>>

PassSteps == {"endpoints", "components", "paradise", "findNew", "add",
              "remove", "store", "finish"}

TypeOK ==
    /\ hsmEndpoints \subseteq Bmc
    /\ hsmComponents \in [Node -> HsmClass \cup {Absent}]
    /\ consoleData \in NodeMap
    /\ nodeCache \in NodeMap
    /\ inShutdown \in BOOLEAN
    /\ forceUpdateCnt \in 0 .. ForcePeriod
    /\ pc \in PassSteps \cup {"start"}
    /\ rfEndpoints \subseteq Bmc
    /\ stComps \in [Node -> HsmClass \cup {Absent}]
    /\ currNodes \in NodeMap
    /\ unseen \subseteq Node
    /\ newNodes \subseteq Node
    /\ removedNodes \subseteq Node
    /\ updateSuccessful \in BOOLEAN
    /\ clearPc \in [Handler -> {"idle", "swap", "delete"}]
    /\ rn \in [Handler -> SUBSET Node]
    /\ steady \subseteq Node
    /\ lostToClear \subseteq Node

-----------------------------------------------------------------------------
(***************************************************************************)
(* getCurrentNodesFromHSM: a component becomes a node when its BMC has a   *)
(* redfish endpoint; its class is replaced when it is a Paradise node.     *)
(***************************************************************************)
NodesFrom(endpoints, components, paradise) ==
    [n \in Node |->
        IF components[n] = Absent \/ BmcOf[n] \notin endpoints THEN Absent
        ELSE IF n \in paradise THEN "Paradise"
        ELSE components[n]]

\* What an undisturbed pass would read from HSM now.
HsmView == NodesFrom(hsmEndpoints, hsmComponents, Xd224)

\* A new deployment; console-data keeps its inventory over a Restart.
Init ==
    /\ hsmEndpoints \in SUBSET Bmc
    /\ hsmComponents \in [Node -> HsmClass \cup {Absent}]
    /\ consoleData = NoNodes
    /\ lostToClear = {}
    /\ nodeCache = NoNodes
    /\ inShutdown = FALSE
    /\ forceUpdateCnt = 0
    /\ pc = "start"
    /\ clearPc = [h \in Handler |-> "idle"]
    /\ rn = [h \in Handler |-> {}]
    /\ rfEndpoints = {} /\ stComps = NoNodes
    /\ currNodes = NoNodes /\ unseen = {} /\ newNodes = {} /\ removedNodes = {}
    /\ updateSuccessful = TRUE
    /\ steady = {}

-----------------------------------------------------------------------------
(***************************************************************************)
(* The pass.  A suspended or stopping process does not begin one.          *)
(***************************************************************************)
BeginPass ==
    /\ pc = "start"
    /\ ~inShutdown
    /\ pc' = "endpoints"
    /\ steady' = Listed(HsmView)
    /\ UNCHANGED <<hsmVars, dataVars, nodeCache, inShutdown, forceUpdateCnt,
                   replyVars, diffVars, updateSuccessful, clearVars>>

\* getCurrentNodesFromHSM returns the nodes in map; the loop over them that
\* looks for new nodes begins.
HsmNodes(map) ==
    /\ currNodes' = map
    /\ unseen' = Listed(map)
    /\ rfEndpoints' = {}
    /\ stComps' = NoNodes
    /\ pc' = "findNew"
    /\ UNCHANGED <<hsmVars, dataVars, nodeCache, inShutdown, forceUpdateCnt,
                   newNodes, removedNodes, updateSuccessful, clearVars>>

RedfishReply(endpoints) ==
    /\ rfEndpoints' = endpoints
    /\ pc' = "components"
    /\ UNCHANGED <<hsmVars, dataVars, nodeCache, inShutdown, forceUpdateCnt,
                   stComps, diffVars, updateSuccessful, clearVars>>

getRedfishEndpoints ==
    /\ pc = "endpoints"
    /\ RedfishReply(hsmEndpoints)
    /\ UNCHANGED steady

\* The status code is not looked at: an error document decodes to an empty
\* list.  A transport or decoding error gives up and returns no node.
getRedfishEndpointsFails ==
    /\ pc = "endpoints"
    /\ \/ RedfishReply({})
       \/ HsmNodes(NoNodes)
    /\ steady' = {}

ComponentsReply(components) ==
    /\ stComps' = components
    /\ pc' = "paradise"
    /\ UNCHANGED <<hsmVars, dataVars, nodeCache, inShutdown, forceUpdateCnt,
                   rfEndpoints, diffVars, updateSuccessful, clearVars>>

getStateComponents ==
    /\ pc = "components"
    /\ ComponentsReply(hsmComponents)
    /\ UNCHANGED steady

\* Here a decoding error, too, is an empty list and no error.
getStateComponentsFails ==
    /\ pc = "components"
    /\ \/ ComponentsReply(NoNodes)
       \/ HsmNodes(NoNodes)
    /\ steady' = {}

getParadiseNodes ==
    /\ pc = "paradise"
    /\ HsmNodes(NodesFrom(rfEndpoints, stComps, Xd224))
    /\ UNCHANGED steady

\* The error is logged and the nodes keep the class of their component.
getParadiseNodesFails ==
    /\ pc = "paradise"
    /\ HsmNodes(NodesFrom(rfEndpoints, stComps, {}))
    /\ UNCHANGED steady

\* One iteration of the loop over currNodes: nodeCache is read anew each time.
FindNew(n) ==
    /\ pc = "findNew"
    /\ n \in unseen
    /\ unseen' = unseen \ {n}
    /\ newNodes' = newNodes \cup {m \in {n} : nodeCache[m] = Absent}
    /\ UNCHANGED <<hsmVars, steady, dataVars, nodeCache, inShutdown, forceUpdateCnt,
                   pc, replyVars, currNodes, removedNodes, updateSuccessful,
                   clearVars>>

\* Mutated forms: the cache is compared with the wrong list.
RemovedIfNotNew == Listed(nodeCache) \ newNodes
RemovedIfNew == newNodes \ Listed(nodeCache)

RemovedNodes == Listed(nodeCache) \ Listed(currNodes)

FindRemoved ==
    /\ pc = "findNew"
    /\ unseen = {}
    /\ removedNodes' = RemovedNodes
    /\ pc' = "add"
    /\ UNCHANGED <<hsmVars, steady, dataVars, nodeCache, inShutdown, forceUpdateCnt,
                   replyVars, currNodes, unseen, newNodes, updateSuccessful,
                   clearVars>>

updateAll == forceUpdateCnt = 0

\* Mutated form: the full update is forgotten.
OnlyNewNodes == newNodes

nodesToUpdate == IF updateAll THEN Listed(currNodes) ELSE newNodes

\* console-data inserts or overwrites the nodes of a PUT.
Put(nodes) ==
    /\ consoleData' = [n \in Node |-> IF n \in nodes THEN currNodes[n]
                                                     ELSE consoleData[n]]
    /\ lostToClear' = lostToClear \ nodes

Delete(nodes) ==
    consoleData' = [n \in Node |-> IF n \in nodes THEN Absent
                                                  ELSE consoleData[n]]

AddReturns(ok) ==
    /\ pc = "add"
    /\ updateSuccessful' = ok
    /\ pc' = "remove"
    /\ UNCHANGED <<hsmVars, steady, nodeCache, inShutdown, forceUpdateCnt, replyVars,
                   diffVars, clearVars>>

\* Nothing is sent when there is nothing to add.
NoNodesToAdd ==
    /\ nodesToUpdate = {}
    /\ AddReturns(TRUE)
    /\ UNCHANGED dataVars

dataAddNodes ==
    /\ nodesToUpdate # {}
    /\ AddReturns(TRUE)
    /\ Put(nodesToUpdate)

\* A transport error or a status of 400 and more; the request may have been
\* carried out all the same.
dataAddNodesFails ==
    /\ nodesToUpdate # {}
    /\ AddReturns(FALSE)
    /\ Put(nodesToUpdate) \/ UNCHANGED dataVars

RemoveReturns ==
    /\ pc = "remove"
    /\ pc' = "store"
    /\ UNCHANGED <<hsmVars, steady, nodeCache, inShutdown, forceUpdateCnt, replyVars,
                   diffVars, updateSuccessful, clearVars, lostToClear>>

dataRemoveNodes ==
    /\ RemoveReturns
    /\ Delete(removedNodes)

\* The caller is not told that a removal failed.
dataRemoveNodesFails ==
    /\ removedNodes # {}
    /\ RemoveReturns
    /\ UNCHANGED consoleData

StoreCache ==
    /\ pc = "store"
    /\ nodeCache' = IF updateSuccessful THEN currNodes ELSE nodeCache
    /\ pc' = "finish"
    /\ UNCHANGED <<hsmVars, steady, dataVars, inShutdown, forceUpdateCnt, replyVars,
                   diffVars, updateSuccessful, clearVars>>

\* Mutated forms: the countdown is not restarted; a failure is overlooked.
CountdownNotRestarted == IF ~updateSuccessful THEN 0 ELSE forceUpdateCnt - 1
FailureOverlooked ==
    IF forceUpdateCnt - 1 < 0 THEN ForcePeriod ELSE forceUpdateCnt - 1

\* The countdown to the next full update, which a failure brings forward.
NextForceUpdateCnt ==
    IF ~updateSuccessful THEN 0
    ELSE IF forceUpdateCnt - 1 < 0 THEN ForcePeriod
    ELSE forceUpdateCnt - 1

\* The locals of a pass go out of scope.
LeavePass ==
    /\ pc' = "start"
    /\ rfEndpoints' = {} /\ stComps' = NoNodes
    /\ currNodes' = NoNodes /\ unseen' = {}
    /\ newNodes' = {} /\ removedNodes' = {}
    /\ updateSuccessful' = TRUE
    /\ steady' = {}

\* The rest of doHardwareUpdate does not touch this state; watchHardware
\* sets the countdown for the next pass and sleeps.
FinishPass ==
    /\ pc = "finish"
    /\ forceUpdateCnt' = NextForceUpdateCnt
    /\ LeavePass
    /\ UNCHANGED <<hsmVars, dataVars, nodeCache, inShutdown, clearVars>>

-----------------------------------------------------------------------------
(***************************************************************************)
(* The debug handlers.  doClearData reads the cache, replaces it by an     *)
(* empty one and then asks console-data to remove what it has read.        *)
(***************************************************************************)
Clear(h, from, to, nodes) ==
    /\ clearPc[h] = from
    /\ clearPc' = [clearPc EXCEPT ![h] = to]
    /\ rn' = [rn EXCEPT ![h] = nodes]
    /\ UNCHANGED <<hsmVars, steady, inShutdown, forceUpdateCnt, pc, replyVars,
                   diffVars, updateSuccessful>>

ClearRead(h) ==
    /\ Clear(h, "idle", "swap", Listed(nodeCache))
    /\ UNCHANGED <<dataVars, nodeCache>>

ClearSwap(h) ==
    /\ Clear(h, "swap", "delete", rn[h])
    /\ nodeCache' = NoNodes
    /\ UNCHANGED dataVars

ClearDelete(h) ==
    /\ Clear(h, "delete", "idle", {})
    /\ Delete(rn[h])
    /\ lostToClear' = lostToClear \cup rn[h]
    /\ UNCHANGED nodeCache

ClearDeleteFails(h) ==
    /\ Clear(h, "delete", "idle", {})
    /\ UNCHANGED <<dataVars, nodeCache>>

SetShutdown(flag) ==
    /\ inShutdown # flag
    /\ inShutdown' = flag
    /\ UNCHANGED <<hsmVars, steady, dataVars, nodeCache, forceUpdateCnt, pc,
                   replyVars, diffVars, updateSuccessful, clearVars>>

doSuspend == SetShutdown(TRUE)
doResume  == SetShutdown(FALSE)

-----------------------------------------------------------------------------
(***************************************************************************)
(* The environment: hardware comes and goes in HSM, and the process ends   *)
(* (a signal, a panic, an eviction) and is started again by kubernetes.    *)
(***************************************************************************)
HsmEndpointChanges(b) ==
    /\ hsmEndpoints' = (hsmEndpoints \ {b}) \cup ({b} \ hsmEndpoints)
    /\ UNCHANGED <<hsmComponents, dataVars, nodeCache, inShutdown,
                   forceUpdateCnt, pc, replyVars, diffVars, updateSuccessful,
                   clearVars>>
    /\ steady' = steady \cap Listed(HsmView')

HsmComponentChanges(n, c) ==
    /\ hsmComponents[n] # c
    /\ hsmComponents' = [hsmComponents EXCEPT ![n] = c]
    /\ UNCHANGED <<hsmEndpoints, dataVars, nodeCache, inShutdown,
                   forceUpdateCnt, pc, replyVars, diffVars, updateSuccessful,
                   clearVars>>
    /\ steady' = steady \cap Listed(HsmView')

Restart ==
    /\ LeavePass
    /\ nodeCache' = NoNodes
    /\ inShutdown' = FALSE
    /\ forceUpdateCnt' = 0
    /\ clearPc' = [h \in Handler |-> "idle"]
    /\ rn' = [h \in Handler |-> {}]
    /\ UNCHANGED <<hsmVars, dataVars>>

-----------------------------------------------------------------------------
WatchStep ==
    \/ BeginPass
    \/ getRedfishEndpoints
    \/ getStateComponents
    \/ getParadiseNodes
    \/ \E n \in Node : FindNew(n)
    \/ FindRemoved
    \/ NoNodesToAdd
    \/ dataAddNodes
    \/ dataRemoveNodes
    \/ StoreCache
    \/ FinishPass

WatchFails ==
    \/ getRedfishEndpointsFails
    \/ getStateComponentsFails
    \/ getParadiseNodesFails
    \/ dataAddNodesFails
    \/ dataRemoveNodesFails

ClearProceeds(h) == ClearSwap(h) \/ ClearDelete(h)

DebugRequest ==
    \/ \E h \in Handler : ClearRead(h)
    \/ doSuspend

HsmChanges ==
    \/ \E b \in Bmc : HsmEndpointChanges(b)
    \/ \E n \in Node, c \in HsmClass \cup {Absent} : HsmComponentChanges(n, c)

Failure ==
    \/ WatchFails
    \/ \E h \in Handler : ClearDeleteFails(h)
    \/ Restart

Disturbance == Failure \/ DebugRequest \/ HsmChanges

Progress ==
    \/ WatchStep
    \/ \E h \in Handler : ClearProceeds(h)
    \/ doResume

Next == Progress \/ Disturbance

(***************************************************************************)
(* The loop never ends and each call it makes returns, with an answer or   *)
(* an error, so the goroutine always takes its next step; so does a        *)
(* handler that has started.                                               *)
(***************************************************************************)
Fairness ==
    /\ WF_vars(WatchStep \/ WatchFails)
    /\ \A h \in Handler : WF_vars(ClearProceeds(h) \/ ClearDeleteFails(h))

Spec == Init /\ [][Next]_vars
FairSpec == Spec /\ Fairness

\* The services answer every call and nobody clears the data or restarts the
\* process: what the operator does when only the hardware changes.
ReliableNext == WatchStep \/ HsmChanges \/ doSuspend \/ doResume
ReliableSpec == Init /\ [][ReliableNext]_vars /\ Fairness

-----------------------------------------------------------------------------
(***************************************************************************)
(* A node the cache holds is skipped by every ordinary pass, so a node in  *)
(* the cache that console-data does not hold is lost until the next full   *)
(* update.  Unless doClearData removed it, that only happens while a full  *)
(* update is due: updateCachedNodeData sends removals even when the        *)
(* additions have failed, keeps the old cache, and the failure makes       *)
(* watchHardware force the next update.                                    *)
(***************************************************************************)
Resending(n) ==
    \/ forceUpdateCnt = 0 /\ pc \notin {"remove", "store", "finish"}
    \/ ~updateSuccessful
    \/ pc \in {"remove", "store"} /\ currNodes[n] = Absent

NoLostNode ==
    \A n \in Node :
        nodeCache[n] # Absent /\ consoleData[n] = Absent
            => n \in lostToClear \/ Resending(n)

Dropped(n) == consoleData[n] # Absent /\ consoleData'[n] = Absent
ClearsNode(h, n) == n \in rn[h] /\ ClearDelete(h)

(***************************************************************************)
(* The pass compares three HSM replies taken at different times with a     *)
(* cache that a handler may replace in between.  Even so it never removes  *)
(* from console-data a node that HSM has listed all through the pass; only *)
(* doClearData, or an HSM call that failed, makes such a node disappear.   *)
(***************************************************************************)
SteadyNodesKept ==
    [][\A n \in steady : Dropped(n) => \E h \in Handler : ClearsNode(h, n)]_vars

(***************************************************************************)
(* A pass whose additions have not failed leaves console-data with every   *)
(* node of its list, and with every node that HSM has listed all through   *)
(* the pass, unless doClearData has removed it since: also with those that *)
(* an ordinary pass skips because they are cached.  After a full update    *)
(* they have the class that the pass has read.                             *)
(***************************************************************************)
PassRecords ==
    pc \in {"remove", "store", "finish"} /\ updateSuccessful
        => \A n \in steady \cup Listed(currNodes) :
               \/ n \in lostToClear
               \/ /\ consoleData[n] # Absent
                  /\ updateAll => consoleData[n] = currNodes[n]

\* From some time on no call fails, the process is not restarted, HSM does not
\* change, no clear request arrives and updates are not suspended.
Calm == <>[][Progress]_vars /\ <>[]~inShutdown

(***************************************************************************)
(* Whatever went before, once the system is calm every node that HSM lists *)
(* comes to be in console-data, with its present class: the countdown of   *)
(* watchHardware repairs what failures, restarts and clears have left.     *)
(***************************************************************************)
EventuallyRecorded ==
    Calm => <>[](\A n \in Listed(HsmView) : consoleData[n] = HsmView[n])

(***************************************************************************)
(* If only the hardware changes, the cache lists exactly the nodes that    *)
(* console-data holds, except while a pass sends its changes: comparing    *)
(* HSM with the cache, as updateCachedNodeData does, is as good as         *)
(* comparing it with console-data.                                         *)
(***************************************************************************)
CacheMirrorsData ==
    pc \notin {"remove", "store"} => Listed(consoleData) = Listed(nodeCache)

(***************************************************************************)
(* consoleOpMain.go:185 says of the full updates that they "make sure      *)
(* console-data is actually up to date": it comes to hold the nodes of HSM *)
(* and no other.                                                           *)
(***************************************************************************)
UpToDate == Calm => <>[](consoleData = HsmView)

(***************************************************************************)
(* debug.go:197-200 says that after doClearData all nodes "will get picked *)
(* up again on the next call to state manager": between passes, with no    *)
(* request in progress, a node that is missing from console-data is not in *)
(* the cache, or the next pass sends everything.                           *)
(***************************************************************************)
ClearedNodesPickedUp ==
    pc = "start" /\ (\A h \in Handler : clearPc[h] = "idle")
        => \A n \in Node : nodeCache[n] # Absent /\ consoleData[n] = Absent
                                => forceUpdateCnt = 0

=============================================================================
