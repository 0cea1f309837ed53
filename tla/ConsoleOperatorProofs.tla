------------------------- MODULE ConsoleOperatorProofs -------------------------
(***************************************************************************)
(* The composition of the watch loop with the key delivery behaves as the  *)
(* watch loop by itself, and every new mountain node is keyed.             *)
(***************************************************************************)
EXTENDS ConsoleOperator, InventoryProofs

Keyed(n) == n \in pending \cup served

(***************************************************************************)
(* A node that was new as a mountain node and has not been announced is    *)
(* not in the cache, and a pass that has looked it up has found it new;    *)
(* or the pass is about to announce it, and it is in the cache as the      *)
(* mountain node it was read as, if a handler has not cleared it.          *)
(***************************************************************************)
FoundAgain(n) ==
    /\ pc = "findNew" => n \in unseen \cup newNodes \/ currNodes[n] = Absent
    /\ pc \in {"add", "remove", "store"} => n \in newNodes \/ currNodes[n] = Absent

Unstored(n) == nodeCache[n] = Absent /\ FoundAgain(n)

AboutToAnnounce(n) ==
    /\ pc = "finish"
    /\ n \in NewMountainNodes
    /\ nodeCache[n] \in {currNodes[n], Absent}

Unannounced == \A n \in newAsMountain : Keyed(n) \/ Unstored(n) \/ AboutToAnnounce(n)

\* Until the store nothing but the pass itself could put a node it has found
\* new into the cache.
NewUncached ==
    pc \in {"findNew", "add", "remove", "store"}
        => \A n \in newNodes : nodeCache[n] = Absent

KeyTypeOK ==
    /\ pending \subseteq Node
    /\ served \subseteq Node
    /\ newAsMountain \subseteq Node

OperatorIInv == IInv /\ NewUncached /\ KeyTypeOK /\ Unannounced

-----------------------------------------------------------------------------
(***************************************************************************)
(* The end of a pass, the store of the cache and a restart are steps of    *)
(* the watch loop with a part for the keys; a delivery leaves the watch    *)
(* loop alone, and every other step leaves the keys alone.                 *)
(***************************************************************************)
LEMMA OperatorStepIsStep == [OperatorNext]_operatorVars => [Next]_vars
<1> SUFFICES ASSUME [OperatorNext]_operatorVars
             PROVE  [Next]_vars
  OBVIOUS
<1>1. CASE HandOver
  BY <1>1 DEF HandOver, Next, Progress, WatchStep
<1>2. CASE Store
  BY <1>2 DEF Store, Next, Progress, WatchStep
<1>3. CASE OperatorRestart
  BY <1>3 DEF OperatorRestart, Next, Disturbance, Failure
<1>4. CASE Deliver
  BY <1>4 DEF Deliver
<1>5. CASE PassStep
  BY <1>5 DEF PassStep, Next, Progress, WatchStep, Disturbance, Failure
<1>6. CASE RequestStep
  BY <1>6 DEF RequestStep, Next, Progress, Disturbance, Failure
<1>7. CASE HsmChanges
  BY <1>7 DEF Next, Disturbance
<1>8. CASE UNCHANGED operatorVars
  BY <1>8 DEF operatorVars
<1> QED
  BY <1>1, <1>2, <1>3, <1>4, <1>5, <1>6, <1>7, <1>8 DEF OperatorNext

(***************************************************************************)
(* Putting the key delivery beside it does not change what the watch loop  *)
(* does: whatever is proved of Inventory holds of the composition.         *)
(***************************************************************************)
THEOREM OperatorIsInventory == OperatorSpec => Spec
  BY OperatorStepIsStep, PTL DEF OperatorSpec, OperatorInit, Spec

\* Lookups find nodes new that are not cached; a clear only empties the cache.
LEMMA NewUncachedInductive == TypeOK /\ Diff /\ NewUncached /\ [Next]_vars => NewUncached'
<1> SUFFICES ASSUME TypeOK, Diff, NewUncached, [Next]_vars
             PROVE  NewUncached'
  OBVIOUS
<1> USE DEF TypeOK, Diff, NodeMap, NoNodes, Listed, PassSteps, hsmVars, replyVars,
        diffVars, clearVars, dataVars, NewUncached
<1>1. CASE BeginPass \/ getRedfishEndpoints \/ getRedfishEndpointsFails
  BY <1>1 DEF BeginPass, getRedfishEndpoints, getRedfishEndpointsFails, RedfishReply,
              HsmNodes
<1>2. CASE getStateComponents \/ getStateComponentsFails
  BY <1>2 DEF getStateComponents, getStateComponentsFails, ComponentsReply, HsmNodes
<1>3. CASE getParadiseNodes \/ getParadiseNodesFails
  BY <1>3 DEF getParadiseNodes, getParadiseNodesFails, HsmNodes
<1>4. CASE \E m \in Node : FindNew(m)
  BY <1>4 DEF FindNew
<1>5. CASE FindRemoved
  BY <1>5 DEF FindRemoved
<1>6. CASE NoNodesToAdd \/ dataAddNodes \/ dataAddNodesFails
  BY <1>6 DEF NoNodesToAdd, dataAddNodes, dataAddNodesFails, AddReturns
<1>7. CASE dataRemoveNodes \/ dataRemoveNodesFails
  BY <1>7 DEF dataRemoveNodes, dataRemoveNodesFails, RemoveReturns
<1>8. CASE StoreCache \/ FinishPass \/ Restart
  BY <1>8 DEF StoreCache, FinishPass, Restart, LeavePass
<1>9. CASE \E h \in Handler : ClearRead(h) \/ ClearSwap(h)
  BY <1>9 DEF ClearRead, ClearSwap, Clear
<1>10. CASE \E h \in Handler : ClearDelete(h) \/ ClearDeleteFails(h)
  BY <1>10 DEF ClearDelete, ClearDeleteFails, Clear
<1>11. CASE doSuspend \/ doResume
  BY <1>11 DEF doSuspend, doResume, SetShutdown
<1>12. CASE HsmChanges
  BY <1>12 DEF HsmChanges, HsmEndpointChanges, HsmComponentChanges
<1>13. CASE UNCHANGED vars
  BY <1>13 DEF vars
<1> QED
  BY Steps, <1>1, <1>2, <1>3, <1>4, <1>5, <1>6, <1>7, <1>8, <1>9, <1>10, <1>11,
     <1>12, <1>13

\* Announcing mountain nodes, and confirming keys, keeps the key sets typed.
LEMMA KeyTypeInductive == TypeOK /\ KeyTypeOK /\ [OperatorNext]_operatorVars => KeyTypeOK'
<1> SUFFICES ASSUME TypeOK, KeyTypeOK, [OperatorNext]_operatorVars
             PROVE  KeyTypeOK'
  OBVIOUS
<1> USE DEF KeyTypeOK, keyVars
<1>1. CASE HandOver
  BY <1>1 DEF HandOver, Keys!Announce, NewMountainNodes, TypeOK
<1>2. CASE Store
  BY <1>2 DEF Store, TypeOK
<1>3. CASE OperatorRestart
  BY <1>3 DEF OperatorRestart, Keys!ProcessEnds
<1>4. CASE Deliver
  BY <1>4 DEF Deliver, Keys!Confirm
<1>5. CASE UNCHANGED <<keyVars, newAsMountain>>
  BY <1>5
<1> QED
  BY <1>1, <1>2, <1>3, <1>4, <1>5 DEF OperatorNext, operatorVars

\* A node that has its key, or waits for it, keeps it or waits on.
LEMMA KeyedStaysKeyed ==
    ASSUME [OperatorNext]_operatorVars, NEW n, Keyed(n), n \in newAsMountain'
    PROVE  Keyed(n)'
<1> USE DEF Keyed, keyVars
<1>1. CASE HandOver
  BY <1>1 DEF HandOver, Keys!Announce
<1>2. CASE Store
  BY <1>2 DEF Store
<1>3. CASE OperatorRestart
  BY <1>3 DEF OperatorRestart
<1>4. CASE Deliver
  BY <1>4 DEF Deliver, Keys!Confirm
<1>5. CASE UNCHANGED <<keyVars, newAsMountain>>
  BY <1>5
<1> QED
  BY <1>1, <1>2, <1>3, <1>4, <1>5 DEF OperatorNext, operatorVars

(***************************************************************************)
(* No other step of a pass, of a handler or of HSM puts an unannounced     *)
(* node into the cache or lets a lookup miss it.                           *)
(***************************************************************************)
LEMMA OtherStepsUnannounced ==
    ASSUME TypeOK, Diff, NEW n \in Node, Unstored(n) \/ AboutToAnnounce(n),
           PassStep \/ RequestStep \/ HsmChanges \/ UNCHANGED vars
    PROVE  Unstored(n)' \/ AboutToAnnounce(n)'
<1> USE DEF TypeOK, Diff, NodeMap, NoNodes, Listed, PassSteps, hsmVars, replyVars,
        diffVars, clearVars, dataVars, Unstored, FoundAgain, AboutToAnnounce,
        NewMountainNodes
<1>1. CASE BeginPass
  BY <1>1 DEF BeginPass
<1>2. CASE getRedfishEndpoints \/ getRedfishEndpointsFails
  BY <1>2 DEF getRedfishEndpoints, getRedfishEndpointsFails, RedfishReply, HsmNodes
<1>3. CASE getStateComponents \/ getStateComponentsFails
  BY <1>3 DEF getStateComponents, getStateComponentsFails, ComponentsReply, HsmNodes
<1>4. CASE getParadiseNodes \/ getParadiseNodesFails
  BY <1>4 DEF getParadiseNodes, getParadiseNodesFails, HsmNodes
<1>5. CASE \E m \in Node : FindNew(m)
  BY <1>5 DEF FindNew
<1>6. CASE FindRemoved
  BY <1>6 DEF FindRemoved
<1>7. CASE NoNodesToAdd \/ dataAddNodes \/ dataAddNodesFails
  BY <1>7 DEF NoNodesToAdd, dataAddNodes, dataAddNodesFails, AddReturns
<1>8. CASE dataRemoveNodes \/ dataRemoveNodesFails
  BY <1>8 DEF dataRemoveNodes, dataRemoveNodesFails, RemoveReturns
<1>9. CASE \E h \in Handler : ClearRead(h) \/ ClearSwap(h)
  BY <1>9 DEF ClearRead, ClearSwap, Clear
<1>10. CASE \E h \in Handler : ClearDelete(h) \/ ClearDeleteFails(h)
  BY <1>10 DEF ClearDelete, ClearDeleteFails, Clear
<1>11. CASE doSuspend \/ doResume
  BY <1>11 DEF doSuspend, doResume, SetShutdown
<1>12. CASE HsmChanges
  BY <1>12 DEF HsmChanges, HsmEndpointChanges, HsmComponentChanges
<1>13. CASE UNCHANGED vars
  BY <1>13 DEF vars
<1> QED
  BY <1>1, <1>2, <1>3, <1>4, <1>5, <1>6, <1>7, <1>8, <1>9, <1>10, <1>11, <1>12, <1>13
  DEF PassStep, WatchFails, RequestStep, DebugRequest, ClearProceeds

(***************************************************************************)
(* Unannounced is inductive.  The store puts nodes into the cache that the *)
(* pass has found new or that have their keys; the end of the pass         *)
(* announces the new ones, or finds that a handler has emptied the cache.  *)
(***************************************************************************)
LEMMA UnannouncedInductive ==
    TypeOK /\ Diff /\ NewUncached /\ KeyTypeOK /\ Unannounced
        /\ [OperatorNext]_operatorVars => Unannounced'
<1> SUFFICES ASSUME TypeOK, Diff, NewUncached, KeyTypeOK, Unannounced,
                    [OperatorNext]_operatorVars, NEW n \in newAsMountain', ~Keyed(n)'
             PROVE  Unstored(n)' \/ AboutToAnnounce(n)'
  BY DEF Unannounced
<1>1. n \in newAsMountain => Unstored(n) \/ AboutToAnnounce(n)
  BY KeyedStaysKeyed DEF Unannounced
<1>2. n \in Node
  BY KeyTypeInductive DEF KeyTypeOK
<1>3. CASE HandOver
  <2>1. n \in newAsMountain /\ UNCHANGED nodeCache /\ pc' = "start"
    BY <1>3 DEF HandOver, FinishPass, LeavePass
  <2>2. CASE Unstored(n)
    BY <2>1, <2>2 DEF Unstored, FoundAgain
  <2>3. CASE AboutToAnnounce(n)
    <3>1. MtnNodes = {}
      BY <1>3, <2>3 DEF HandOver, Keys!Announce, AboutToAnnounce, Keyed
    <3>2. nodeCache[n] = Absent
      BY <3>1, <2>3, <1>2 DEF MtnNodes, AboutToAnnounce, NewMountainNodes
    <3> QED
      BY <3>2, <2>1 DEF Unstored, FoundAgain
  <2> QED
    BY <2>1, <2>2, <2>3, <1>1
<1>4. CASE Store
  <2>1. /\ pc = "store" /\ pc' = "finish"
        /\ nodeCache' = currNodes \/ nodeCache' = nodeCache
        /\ UNCHANGED <<currNodes, newNodes, unseen>>
    BY <1>4 DEF Store, StoreCache, diffVars
  <2>2. CASE n \in newNodes
    <3>1. isMountain(currNodes[n])
      BY <1>4, <2>2 DEF Store
    <3>2. nodeCache[n] = Absent \/ nodeCache' = currNodes
      BY <2>1, <2>2 DEF NewUncached
    <3> QED
      BY <2>1, <2>2, <3>1, <3>2 DEF AboutToAnnounce, NewMountainNodes
  <2>3. CASE n \notin newNodes
    <3>1. n \in newAsMountain
      BY <1>4, <2>3 DEF Store
    <3>2. Unstored(n)
      BY <3>1, <1>1, <2>1 DEF AboutToAnnounce
    <3>3. nodeCache'[n] = Absent
      BY <3>2, <2>1, <2>3 DEF Unstored, FoundAgain
    <3> QED
      BY <3>3, <2>1 DEF Unstored, FoundAgain
  <2> QED
    BY <2>2, <2>3
<1>5. CASE OperatorRestart
  BY <1>5 DEF OperatorRestart
<1>6. CASE Deliver
  <2>1. UNCHANGED <<vars, newAsMountain>>
    BY <1>6 DEF Deliver
  <2> QED
    BY <2>1, <1>1, <1>2, OtherStepsUnannounced
<1>7. CASE (PassStep \/ RequestStep \/ HsmChanges) /\ UNCHANGED <<keyVars, newAsMountain>>
  BY <1>7, <1>1, <1>2, OtherStepsUnannounced
<1>8. CASE UNCHANGED operatorVars
  BY <1>8, <1>1, <1>2, OtherStepsUnannounced DEF operatorVars
<1> QED
  BY <1>3, <1>4, <1>5, <1>6, <1>7, <1>8 DEF OperatorNext

-----------------------------------------------------------------------------
\* The initial states satisfy the inductive invariant, and every step keeps it.
LEMMA OperatorInvariance == OperatorSpec => []OperatorIInv
<1>1. OperatorInit => OperatorIInv
  BY InitIInv DEF OperatorInit, OperatorIInv, Init, Keys!Init, NewUncached, KeyTypeOK,
                  Unannounced
<1>2. OperatorIInv /\ [OperatorNext]_operatorVars => OperatorIInv'
  BY OperatorStepIsStep, NextIInv, NewUncachedInductive, KeyTypeInductive,
     UnannouncedInductive DEF OperatorIInv, IInv
<1> QED
  BY <1>1, <1>2, PTL DEF OperatorSpec

(***************************************************************************)
(* A mountain node in the cache that was a mountain node when it was new   *)
(* has been announced by doHardwareUpdate, or is about to be: for all sets *)
(* of nodes, classes and clear handlers.                                   *)
(***************************************************************************)
THEOREM MountainNodesAreKeyed == OperatorSpec => []MountainNodesKeyed
<1>1. OperatorIInv => MountainNodesKeyed
  BY ConsoleOperatorAssumption
  DEF OperatorIInv, MountainNodesKeyed, Unannounced, Keyed, Unstored, AboutToAnnounce,
      NewMountainNodes
<1> QED
  BY OperatorInvariance, <1>1, PTL

=============================================================================
