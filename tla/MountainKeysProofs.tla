-------------------------- MODULE MountainKeysProofs --------------------------
(***************************************************************************)
(* Proofs of the invariants of MountainKeys, and that it implements        *)
(* KeyDelivery.                                                            *)
(***************************************************************************)
EXTENDS MountainKeys, TLAPS

\* Between two passes every new node has been sent.
NothingUnsent == wpc = "idle" => newNodes = {}

\* What the files hold while the keys are being made.
FilesInMaking ==
    /\ wpc = "vault" => None \in {keyFile, pubFile}
    /\ wpc \in {"redirect", "keygen"} => keyFile = VaultKey
    /\ wpc = "generatePub" => keyFile \in LocalKey

DeliveryInv == TypeOK /\ NothingUnsent /\ NoNodeForgotten
FilesInv == FilesInMaking /\ KeysArePair

(***************************************************************************)
(* The elements of a sequence, as InChannel writes them.                   *)
(***************************************************************************)
Elements(s) == {s[i] : i \in 1 .. Len(s)}

(***************************************************************************)
(* A send adds one node to those in the channel.                           *)
(***************************************************************************)
LEMMA AppendElements ==
    ASSUME NEW s \in Seq(Node), NEW n \in Node
    PROVE  /\ Append(s, n) \in Seq(Node)
           /\ Len(Append(s, n)) = Len(s) + 1
           /\ Elements(Append(s, n)) = Elements(s) \cup {n}
  <1>1. Append(s, n) \in Seq(Node) /\ Len(Append(s, n)) = Len(s) + 1
    OBVIOUS
  <1>2. \A i \in 1 .. Len(s) : Append(s, n)[i] = s[i]
    OBVIOUS
  <1>3. Append(s, n)[Len(s) + 1] = n
    OBVIOUS
  <1>4. Len(s) \in Nat
    OBVIOUS
  <1>5. 1 .. Len(s) + 1 = (1 .. Len(s)) \cup {Len(s) + 1}
    BY <1>4
  <1>6. Elements(Append(s, n)) = {Append(s, n)[i] : i \in (1 .. Len(s)) \cup {Len(s) + 1}}
    BY <1>1, <1>5 DEF Elements
  <1> QED
    BY <1>1, <1>2, <1>3, <1>6 DEF Elements

(***************************************************************************)
(* A receive takes one node out of the channel; another entry for the same *)
(* node may stay behind.                                                   *)
(***************************************************************************)
LEMMA TailElements ==
    ASSUME NEW s \in Seq(Node), s # <<>>
    PROVE  /\ Head(s) \in Node
           /\ Tail(s) \in Seq(Node)
           /\ Len(Tail(s)) = Len(s) - 1
           /\ Elements(s) = {Head(s)} \cup Elements(Tail(s))
  <1>1. Tail(s) \in Seq(Node) /\ Len(Tail(s)) = Len(s) - 1 /\ Len(s) \in Nat \ {0}
    OBVIOUS
  <1>2. \A i \in 1 .. Len(s) - 1 : Tail(s)[i] = s[i + 1]
    OBVIOUS
  <1>3. Head(s) = s[1] /\ Head(s) \in Node
    OBVIOUS
  <1>4. ASSUME NEW x \in Elements(s)
        PROVE  x \in {Head(s)} \cup Elements(Tail(s))
    <2>1. PICK i \in 1 .. Len(s) : x = s[i]
      BY <1>4 DEF Elements
    <2>2. CASE i = 1
      BY <2>1, <2>2, <1>3
    <2>3. CASE i # 1
      <3>1. i - 1 \in 1 .. Len(s) - 1 /\ (i - 1) + 1 = i
        BY <2>3, <1>1
      <3>2. x = Tail(s)[i - 1]
        BY <3>1, <2>1, <1>2
      <3> QED
        BY <3>1, <3>2, <1>1 DEF Elements
    <2> QED
      BY <2>2, <2>3
  <1>5. ASSUME NEW x \in Elements(Tail(s))
        PROVE  x \in Elements(s)
    <2>1. PICK i \in 1 .. Len(s) - 1 : x = Tail(s)[i]
      BY <1>1, <1>5 DEF Elements
    <2>2. x = s[i + 1] /\ i + 1 \in 1 .. Len(s)
      BY <2>1, <1>1, <1>2
    <2> QED
      BY <2>2 DEF Elements
  <1>6. Head(s) \in Elements(s)
    BY <1>1, <1>3 DEF Elements
  <1> QED
    BY <1>1, <1>3, <1>4, <1>5, <1>6

-----------------------------------------------------------------------------
(***************************************************************************)
(* A step of ensureMountainConsoleKeysExist touches the files and nothing  *)
(* of the delivery.                                                        *)
(***************************************************************************)
LEMMA KeyStepKeeps ==
    ASSUME DeliveryInv,
           NEW from, NEW to \in {"stat", "vault", "send"} \cup MakingKeys,
           KeyStep(from, to),
           keyFile' \in Content, pubFile' \in Content,
           vaultHasKey' \in BOOLEAN, damaged' \in BOOLEAN
    PROVE  DeliveryInv'
  BY DEF KeyStep, credVars, DeliveryInv, TypeOK, NothingUnsent, NoNodeForgotten,
         Pending, InChannel, MakingKeys

(***************************************************************************)
(* A pass announces every node that it brings into the cache.              *)
(***************************************************************************)
LEMMA PassKeeps ==
    ASSUME DeliveryInv, NEW nowCached \in {listed, cached}, UpdatePass(nowCached)
    PROVE  DeliveryInv'
  <1> USE DEF UpdatePass, fileVars, DeliveryInv, TypeOK, NothingUnsent
  <1>1. TypeOK' /\ NothingUnsent'
    OBVIOUS
  <1>2. newNodes = {}
    OBVIOUS
  <1>3. NoNodeForgotten'
    BY <1>2 DEF NoNodeForgotten, Pending, InChannel
  <1> QED
    BY <1>1, <1>3

(***************************************************************************)
(* What scsd has confirmed leaves the batch, and nothing else does.        *)
(***************************************************************************)
LEMMA ReplyKeeps ==
    ASSUME DeliveryInv, NEW ok, DeployReply(ok)
    PROVE  DeliveryInv'
  <1> USE DEF DeployReply, CredStep, fileVars, NodesOf, DeliveryInv
  <1>1. TypeOK' /\ NothingUnsent'
    BY DEF TypeOK, NothingUnsent, Content
  <1>2. NoNodeForgotten'
    BY DEF NoNodeForgotten, Pending, InChannel
  <1> QED
    BY <1>1, <1>2

(***************************************************************************)
(* Initially nothing is cached, sent or made.                              *)
(***************************************************************************)
LEMMA InitDelivery == Init => DeliveryInv
  <1> SUFFICES ASSUME Init
               PROVE  DeliveryInv
    OBVIOUS
  <1>1. <<>> \in Seq(Node) /\ Len(<<>>) = 0
    OBVIOUS
  <1>2. 0 <= ChannelCap
    BY MountainKeysAssumption
  <1>3. TypeOK
    BY <1>1, <1>2 DEF Init, TypeOK, Content
  <1> QED
    BY <1>3 DEF Init, DeliveryInv, NothingUnsent, NoNodeForgotten

(***************************************************************************)
(* Every step keeps the types and forgets no node.                         *)
(***************************************************************************)
LEMMA NextDelivery == DeliveryInv /\ [Next]_vars => DeliveryInv'
  <1> SUFFICES ASSUME DeliveryInv, [Next]_vars
               PROVE  DeliveryInv'
    OBVIOUS
  <1>t. TypeOK
    BY DEF DeliveryInv
  <1>1. CASE PassSucceeds
    BY <1>1, PassKeeps DEF PassSucceeds
  <1>2. CASE PassFails
    BY <1>2, PassKeeps DEF PassFails
  <1>3. CASE ensureMountainConsoleKeysExist
    <2>1. PICK to \in {"vault", "send"} : KeyStep("stat", to)
      BY <1>3 DEF ensureMountainConsoleKeysExist
    <2> QED
      BY <2>1, <1>3, <1>t, KeyStepKeeps
      DEF ensureMountainConsoleKeysExist, fileVars, TypeOK
  <1>4. CASE vaultGetPrivateKey
    BY <1>4, <1>t, KeyStepKeeps DEF vaultGetPrivateKey, fileVars, TypeOK, MakingKeys
  <1>5. CASE vaultGetPrivateKeyFails
    BY <1>5, <1>t, KeyStepKeeps DEF vaultGetPrivateKeyFails, fileVars, TypeOK, MakingKeys
  <1>6. CASE WriteKey
    BY <1>6, <1>t, KeyStepKeeps DEF WriteKey, TypeOK, MakingKeys, Content
  <1>7. CASE WriteKeyFails
    BY <1>7, <1>t, KeyStepKeeps DEF WriteKeyFails, TypeOK, MakingKeys, Content
  <1>8. CASE RedirectPub
    BY <1>8, <1>t, KeyStepKeeps DEF RedirectPub, TypeOK, MakingKeys, Content
  <1>9. CASE ExtractPub
    BY <1>9, <1>t, KeyStepKeeps DEF ExtractPub, TypeOK
  <1>10. CASE ExtractPubFails
    BY <1>10, <1>t, KeyStepKeeps DEF ExtractPubFails, TypeOK, MakingKeys
  <1>11. ASSUME NEW k \in LocalKey, GenerateKey(k)
         PROVE  DeliveryInv'
    BY <1>11, <1>t, KeyStepKeeps DEF GenerateKey, TypeOK, MakingKeys, Content
  <1>12. CASE GeneratePub
    BY <1>12, <1>t, KeyStepKeeps DEF GeneratePub, TypeOK
  <1>13. CASE GenerateFails
    BY <1>13, <1>t, KeyStepKeeps DEF GenerateFails, TypeOK
  <1>14. ASSUME NEW n \in Node, SendNode(n)
         PROVE  DeliveryInv'
    <2>1. /\ channel' \in Seq(Node) /\ Len(channel') = Len(channel) + 1
          /\ InChannel' = InChannel \cup {n}
      BY <1>14, <1>t, AppendElements DEF SendNode, TypeOK, InChannel, Elements
    <2>2. Len(channel') <= ChannelCap
      BY <1>14, <1>t, <2>1, MountainKeysAssumption DEF SendNode, TypeOK
    <2> QED
      BY <1>14, <2>1, <2>2
      DEF SendNode, fileVars, credVars, DeliveryInv, TypeOK, NothingUnsent,
          NoNodeForgotten, Pending
  <1>15. CASE EndPass
    BY <1>15
    DEF EndPass, KeyStep, fileVars, credVars, DeliveryInv, TypeOK, NothingUnsent,
        NoNodeForgotten, Pending, InChannel
  <1>16. CASE ReceiveNode
    <2>1. /\ channel' \in Seq(Node) /\ Len(channel') = Len(channel) - 1
          /\ Head(channel) \in Node
          /\ InChannel = {Head(channel)} \cup InChannel'
      BY <1>16, <1>t, TailElements DEF ReceiveNode, TypeOK, InChannel, Elements
    <2>2. Len(channel') <= ChannelCap
      BY <1>t, <2>1, MountainKeysAssumption DEF TypeOK
    <2> QED
      BY <1>16, <2>1, <2>2
      DEF ReceiveNode, CredStep, fileVars, DeliveryInv, TypeOK, NothingUnsent,
          NoNodeForgotten, Pending
  <1>17. CASE StartBatch
    BY <1>17
    DEF StartBatch, CredStep, fileVars, DeliveryInv, TypeOK, NothingUnsent,
        NoNodeForgotten, Pending, InChannel
  <1>18. CASE deployMountainConsoleKeys
    BY <1>18, ReplyKeeps DEF deployMountainConsoleKeys
  <1>19. CASE deployMountainConsoleKeysFails
    BY <1>19, ReplyKeeps DEF deployMountainConsoleKeysFails
  <1>20. CASE Retry
    BY <1>20
    DEF Retry, CredStep, fileVars, DeliveryInv, TypeOK, NothingUnsent,
        NoNodeForgotten, Pending, InChannel, Content
  <1>21. ASSUME NEW n \in Node, HsmChanges(n)
         PROVE  DeliveryInv'
    BY <1>21
    DEF HsmChanges, fileVars, credVars, DeliveryInv, TypeOK, NothingUnsent,
        NoNodeForgotten, Pending, InChannel
  <1>22. CASE doClearData
    BY <1>22
    DEF doClearData, fileVars, credVars, DeliveryInv, TypeOK, NothingUnsent,
        NoNodeForgotten, Pending, InChannel
  <1>23. CASE Restart
    BY <1>23, MountainKeysAssumption
    DEF Restart, DeliveryInv, TypeOK, NothingUnsent, NoNodeForgotten, Pending,
        InChannel, Content
  <1>24. CASE UNCHANGED vars
    BY <1>24
    DEF vars, fileVars, credVars, DeliveryInv, TypeOK, NothingUnsent,
        NoNodeForgotten, Pending, InChannel
  <1> QED
    BY <1>1, <1>2, <1>3, <1>4, <1>5, <1>6, <1>7, <1>8, <1>9, <1>10, <1>11, <1>12,
       <1>13, <1>14, <1>15, <1>16, <1>17, <1>18, <1>19, <1>20, <1>21, <1>22, <1>23, <1>24
    DEF Next, WatchStep, WatchFails, CredsUpdate, CredsUpdateFails, Environment

-----------------------------------------------------------------------------
(***************************************************************************)
(* A fresh process finds no key files.                                     *)
(***************************************************************************)
LEMMA InitFiles == Init => FilesInv
  BY DEF Init, FilesInv, FilesInMaking, KeysArePair

(***************************************************************************)
(* The making of the keys ends with a pair of files or is marked damaged;  *)
(* no other step touches the files.                                        *)
(***************************************************************************)
LEMMA NextFiles == TypeOK /\ FilesInv /\ [Next]_vars => FilesInv'
  <1> SUFFICES ASSUME TypeOK, FilesInv, [Next]_vars
               PROVE  FilesInv'
    OBVIOUS
  <1> USE DEF FilesInv, FilesInMaking, KeysArePair, MakingKeys, fileVars, KeyStep
  <1>1. CASE \/ ensureMountainConsoleKeysExist \/ vaultGetPrivateKey
             \/ vaultGetPrivateKeyFails \/ EndPass
    BY <1>1
    DEF ensureMountainConsoleKeysExist, vaultGetPrivateKey, vaultGetPrivateKeyFails,
        EndPass
  <1>2. CASE WriteKey \/ WriteKeyFails \/ RedirectPub
    BY <1>2 DEF WriteKey, WriteKeyFails, RedirectPub
  <1>3. CASE ExtractPub
    BY <1>3, MountainKeysAssumption DEF ExtractPub
  <1>4. CASE ExtractPubFails
    BY <1>4 DEF ExtractPubFails
  <1>5. ASSUME NEW k \in LocalKey, GenerateKey(k)
        PROVE  FilesInv'
    BY <1>5 DEF GenerateKey
  <1>6. CASE GeneratePub
    BY <1>6, MountainKeysAssumption DEF GeneratePub
  <1>7. CASE GenerateFails
    BY <1>7 DEF GenerateFails
  <1>8. CASE PassSucceeds \/ PassFails
    BY <1>8 DEF PassSucceeds, PassFails, UpdatePass
  <1>9. CASE UNCHANGED <<keyFile, pubFile, damaged, wpc>>
    BY <1>9
  <1>10. CASE Restart
    BY <1>10 DEF Restart, TypeOK
  <1>11. CASE CredsUpdate \/ CredsUpdateFails
    BY <1>9, <1>11
    DEF CredsUpdate, CredsUpdateFails, ReceiveNode, StartBatch, Retry,
        deployMountainConsoleKeys, deployMountainConsoleKeysFails, DeployReply, CredStep
  <1>12. ASSUME NEW n \in Node, SendNode(n) \/ HsmChanges(n)
         PROVE  FilesInv'
    BY <1>9, <1>12 DEF SendNode, HsmChanges
  <1>13. CASE doClearData \/ UNCHANGED vars
    BY <1>9, <1>13 DEF doClearData, vars
  <1> QED
    BY <1>1, <1>2, <1>3, <1>4, <1>5, <1>6, <1>7, <1>8, <1>10, <1>11, <1>12, <1>13
    DEF Next, WatchStep, WatchFails, Environment

-----------------------------------------------------------------------------
(***************************************************************************)
(* Every variable keeps its type, and the channel its capacity.            *)
(***************************************************************************)
THEOREM TypeCorrect == Spec => []TypeOK
  <1>1. DeliveryInv => TypeOK
    BY DEF DeliveryInv
  <1> QED
    BY <1>1, InitDelivery, NextDelivery, PTL DEF Spec

(***************************************************************************)
(* Every mountain node of the cache is on its way to scsd or has its key,  *)
(* for any nodes, BMCs and capacity of the channel.                        *)
(***************************************************************************)
THEOREM NoNodeIsForgotten == Spec => []NoNodeForgotten
  <1>1. DeliveryInv => NoNodeForgotten
    BY DEF DeliveryInv
  <1> QED
    BY <1>1, InitDelivery, NextDelivery, PTL DEF Spec

(***************************************************************************)
(* Key files that exist are a pair, unless making them failed.             *)
(***************************************************************************)
THEOREM KeysMatch == Spec => []KeysArePair
  <1>1. FilesInv => KeysArePair
    BY DEF FilesInv
  <1> QED
    BY <1>1, InitFiles, NextFiles, TypeCorrect, PTL DEF Spec

(***************************************************************************)
(* Key files that exist are neither changed nor made again: vault is asked *)
(* only while one of them is missing, whatever failures and restarts there *)
(* were.                                                                   *)
(***************************************************************************)
THEOREM KeyFilesAreKept == Spec => KeyFilesKept
  <1> DEFINE Keeps == UNCHANGED <<keyFile, pubFile>> /\ wpc' \notin MakingKeys
  <1>1. ASSUME TypeOK, FilesInv, [Next]_vars,
               wpc \notin MakingKeys, None \notin {keyFile, pubFile}
        PROVE  Keeps
    <2> USE <1>1 DEF MakingKeys, fileVars, KeyStep
    <2>1. CASE ensureMountainConsoleKeysExist \/ EndPass
      BY <2>1 DEF ensureMountainConsoleKeysExist, EndPass
    <2>2. CASE vaultGetPrivateKey \/ vaultGetPrivateKeyFails
      BY <2>2 DEF vaultGetPrivateKey, vaultGetPrivateKeyFails, FilesInv, FilesInMaking
    <2>3. CASE \/ WriteKey \/ WriteKeyFails \/ RedirectPub \/ ExtractPub
               \/ ExtractPubFails \/ GeneratePub \/ GenerateFails
               \/ \E k \in LocalKey : GenerateKey(k)
      BY <2>3 DEF WriteKey, WriteKeyFails, RedirectPub, ExtractPub, ExtractPubFails,
                  GenerateKey, GeneratePub, GenerateFails
    <2>4. CASE PassSucceeds \/ PassFails \/ Restart
      BY <2>4 DEF PassSucceeds, PassFails, UpdatePass, Restart
    <2>5. CASE CredsUpdate \/ CredsUpdateFails
      BY <2>5
      DEF CredsUpdate, CredsUpdateFails, ReceiveNode, StartBatch, Retry,
          deployMountainConsoleKeys, deployMountainConsoleKeysFails, DeployReply, CredStep
    <2>6. CASE \/ \E n \in Node : SendNode(n) \/ HsmChanges(n)
               \/ doClearData \/ UNCHANGED vars
      BY <2>6 DEF SendNode, HsmChanges, doClearData, vars
    <2> QED
      BY <2>1, <2>2, <2>3, <2>4, <2>5, <2>6 DEF Next, WatchStep, WatchFails, Environment
  <1>2. TypeOK /\ FilesInv /\ [Next]_vars
          => [wpc \notin MakingKeys /\ None \notin {keyFile, pubFile} => Keeps]_vars
    BY <1>1
  <1> QED
    BY <1>2, InitFiles, NextFiles, TypeCorrect, PTL DEF Spec, KeyFilesKept

-----------------------------------------------------------------------------
(***************************************************************************)
(* A pass announces its new nodes.                                         *)
(***************************************************************************)
LEMMA PassAnnounces ==
    ASSUME DeliveryInv, NEW nowCached \in {listed, cached}, UpdatePass(nowCached)
    PROVE  Delivery!Next
  <1>1. newNodes = {} /\ newNodes' \in SUBSET Node
    BY DEF UpdatePass, DeliveryInv, NothingUnsent, TypeOK
  <1>2. Pending' = Pending \cup newNodes'
    BY <1>1 DEF UpdatePass, Pending, InChannel
  <1>3. acked' = acked \ newNodes'
    BY DEF UpdatePass
  <1>4. Delivery!Announce(newNodes')
    BY <1>2, <1>3 DEF Delivery!Announce
  <1> QED
    BY <1>1, <1>4 DEF Delivery!Next

(***************************************************************************)
(* An answer of scsd confirms nodes; those that were announced again while *)
(* it was awaited stay pending.                                            *)
(***************************************************************************)
LEMMA ReplyConfirms ==
    ASSUME NEW ok, DeployReply(ok)
    PROVE  Delivery!Next
  <1> DEFINE done == NodesOf(ok)
             again == done \cap (newNodes \cup InChannel)
  <1>1. done \in SUBSET Pending /\ again \in SUBSET done
    BY DEF NodesOf, Pending
  <1>2. Pending' = (Pending \ done) \cup again
    BY DEF DeployReply, CredStep, NodesOf, Pending, InChannel
  <1>3. acked' = acked \cup done
    BY DEF DeployReply
  <1> HIDE DEF done, again
  <1>4. Delivery!Confirm(done, again)
    BY <1>1, <1>2, <1>3 DEF Delivery!Confirm
  <1> QED
    BY <1>1, <1>4 DEF Delivery!Next

(***************************************************************************)
(* Every step is a step of KeyDelivery or leaves what is pending and what  *)
(* is served alone.                                                        *)
(***************************************************************************)
LEMMA StepRefines ==
    DeliveryInv /\ [Next]_vars => [Delivery!Next]_<<Pending, acked>>
  <1> SUFFICES ASSUME DeliveryInv, [Next]_vars
               PROVE  Delivery!Next \/ UNCHANGED <<Pending, acked>>
    OBVIOUS
  <1>t. TypeOK
    BY DEF DeliveryInv
  <1>1. CASE PassSucceeds \/ PassFails
    BY <1>1, PassAnnounces DEF PassSucceeds, PassFails
  <1>2. CASE deployMountainConsoleKeys \/ deployMountainConsoleKeysFails
    BY <1>2, ReplyConfirms DEF deployMountainConsoleKeys, deployMountainConsoleKeysFails
  <1>3. CASE Restart
    <2>1. Pending' = {} /\ acked' = {}
      BY <1>3 DEF Restart, Pending, InChannel
    <2> QED
      BY <2>1 DEF Delivery!Next, Delivery!ProcessEnds
  <1>4. CASE UNCHANGED <<newNodes, channel, nodesToUpdate, acked>>
    BY <1>4 DEF Pending, InChannel
  <1>5. ASSUME NEW n \in Node, SendNode(n)
        PROVE  UNCHANGED <<Pending, acked>>
    <2>1. InChannel' = InChannel \cup {n}
      BY <1>5, <1>t, AppendElements DEF SendNode, TypeOK, InChannel, Elements
    <2> QED
      BY <1>5, <2>1 DEF SendNode, credVars, Pending
  <1>6. CASE ReceiveNode
    <2>1. InChannel = {Head(channel)} \cup InChannel'
      BY <1>6, <1>t, TailElements DEF ReceiveNode, TypeOK, InChannel, Elements
    <2> QED
      BY <1>6, <2>1 DEF ReceiveNode, CredStep, Pending
  <1>7. CASE StartBatch \/ Retry
    BY <1>4, <1>7 DEF StartBatch, Retry, CredStep
  <1>8. CASE \/ ensureMountainConsoleKeysExist \/ vaultGetPrivateKey
             \/ vaultGetPrivateKeyFails \/ WriteKey \/ WriteKeyFails \/ RedirectPub
             \/ ExtractPub \/ ExtractPubFails \/ GeneratePub \/ GenerateFails \/ EndPass
             \/ \E k \in LocalKey : GenerateKey(k)
    BY <1>4, <1>8
    DEF ensureMountainConsoleKeysExist, vaultGetPrivateKey, vaultGetPrivateKeyFails,
        WriteKey, WriteKeyFails, RedirectPub, ExtractPub, ExtractPubFails, GeneratePub,
        GenerateFails, EndPass, GenerateKey, KeyStep, credVars
  <1>9. CASE doClearData \/ (\E n \in Node : HsmChanges(n)) \/ UNCHANGED vars
    BY <1>4, <1>9 DEF doClearData, HsmChanges, vars, credVars
  <1> QED
    BY <1>1, <1>2, <1>3, <1>5, <1>6, <1>7, <1>8, <1>9
    DEF Next, WatchStep, WatchFails, CredsUpdate, CredsUpdateFails, Environment

(***************************************************************************)
(* The channel, the goroutine and its retries implement KeyDelivery.       *)
(***************************************************************************)
THEOREM DeliveryImplemented == Spec => ImplementsDelivery
  <1>1. Init => Delivery!Init
    BY DEF Init, Delivery!Init, Pending, InChannel
  <1> QED
    BY <1>1, InitDelivery, NextDelivery, StepRefines, PTL
    DEF Spec, ImplementsDelivery, Delivery!Spec

=============================================================================
