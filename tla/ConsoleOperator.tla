---------------------------- MODULE ConsoleOperator ----------------------------
(***************************************************************************)
(* The watch loop together with the key delivery that it feeds: the pass   *)
(* of Inventory, ended by the part of doHardwareUpdate that counts the     *)
(* nodes of the cache and announces the new mountain nodes, and the        *)
(* delivery as KeyDelivery specifies it.                                   *)
(***************************************************************************)
EXTENDS Inventory

VARIABLES
    pending, served,   \* the key delivery
    newAsMountain      \* history: nodes that were mountain nodes when they
                       \* were last found to be new

keyVars == <<pending, served>>
operatorVars == <<vars, keyVars, newAsMountain>>

Keys == INSTANCE KeyDelivery

isMountain(class) == class \in {"Mountain", "Hill"}

\* A node that the cache does not hold is not a mountain node.
ASSUME ConsoleOperatorAssumption == ~isMountain(Absent)

\* Mountain nodes are counted together with Paradise nodes.
MtnNodes == {n \in Node : isMountain(nodeCache[n]) \/ nodeCache[n] = "Paradise"}

\* Mutated form: the nodes of freestanding racks are forgotten.
NewMountainNodesNoHill == {n \in newNodes : currNodes[n] = "Mountain"}

NewMountainNodes == {n \in newNodes : isMountain(currNodes[n])}

-----------------------------------------------------------------------------
OperatorInit ==
    /\ Init
    /\ Keys!Init
    /\ newAsMountain = {}

\* doHardwareUpdate after updateCachedNodeData.  The new nodes are announced
\* even when console-data has refused them.
HandOver ==
    /\ FinishPass
    /\ IF MtnNodes # {} THEN Keys!Announce(NewMountainNodes)
                        ELSE UNCHANGED keyVars
    /\ UNCHANGED newAsMountain

Store ==
    /\ StoreCache
    /\ newAsMountain' =
           (newAsMountain \ newNodes) \cup {n \in newNodes : isMountain(currNodes[n])}
    /\ UNCHANGED keyVars

OperatorRestart ==
    /\ Restart
    /\ Keys!ProcessEnds
    /\ newAsMountain' = {}

Deliver ==
    /\ \E done \in SUBSET pending \ {{}} : \E again \in SUBSET done :
           Keys!Confirm(done, again)
    /\ UNCHANGED <<vars, newAsMountain>>

PassStep ==
    \/ BeginPass
    \/ getRedfishEndpoints
    \/ getStateComponents
    \/ getParadiseNodes
    \/ \E n \in Node : FindNew(n)
    \/ FindRemoved
    \/ NoNodesToAdd
    \/ dataAddNodes
    \/ dataRemoveNodes
    \/ WatchFails

RequestStep ==
    \/ DebugRequest
    \/ \E h \in Handler : ClearProceeds(h) \/ ClearDeleteFails(h)
    \/ doResume

OperatorNext ==
    \/ HandOver
    \/ Store
    \/ OperatorRestart
    \/ Deliver
    \/ (PassStep \/ RequestStep \/ HsmChanges) /\ UNCHANGED <<keyVars, newAsMountain>>

OperatorSpec == OperatorInit /\ [][OperatorNext]_operatorVars /\ Fairness

-----------------------------------------------------------------------------
(***************************************************************************)
(* Every mountain node of the cache has its key or is about to get it, if  *)
(* it was a mountain node when it was new: although a clear request may    *)
(* empty the cache before the lookups, before the store or before the      *)
(* count that decides whether the nodes are announced at all, although     *)
(* console-data may refuse them, and although the cache may drop and       *)
(* regain them.  (A node that becomes a mountain node while it is cached   *)
(* is not new and is not announced, as updateCachedNodeData says.)         *)
(***************************************************************************)
MountainNodesKeyed ==
    \A n \in newAsMountain :
        isMountain(nodeCache[n])
            => n \in pending \cup served \/ (pc = "finish" /\ n \in newNodes)

=============================================================================
