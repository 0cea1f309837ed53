----------------------------- MODULE MountainKeys -----------------------------
(***************************************************************************)
(* The ssh console keys of the mountain nodes (creds.go).  In a pass of    *)
(* the watch loop that leaves mountain nodes in the cache,                 *)
(* ensureMountainConsoleKeysExist makes the key files if one is missing    *)
(* and doHardwareUpdate sends the new mountain nodes down a channel.  The  *)
(* goroutine doMountainCredsUpdates collects them and asks scsd to load    *)
(* the public key into their BMCs, again and again for those that fail.    *)
(*                                                                         *)
(* A file holds a key, or Broken (empty or cut short), or is None.         *)
(* A public key is named by the private key it belongs to.                 *)
(***************************************************************************)
EXTENDS Naturals, Sequences

CONSTANTS
    Node,        \* mountain nodes
    Bmc,
    BmcOf,       \* the BMC of a node
    ChannelCap,  \* capacity of mountainCredsUpdateChannel (100)
    VaultKey,    \* the key that vault keeps
    LocalKey,    \* keys that console-ssh-keygen generates
    Broken, None

ASSUME MountainKeysAssumption ==
    /\ BmcOf \in [Node -> Bmc]
    /\ ChannelCap \in Nat \ {0}
    /\ Broken \notin {VaultKey} \cup LocalKey
    /\ None \notin {VaultKey, Broken} \cup LocalKey

Content == {VaultKey, Broken, None} \cup LocalKey

VARIABLES
    listed,         \* the mountain nodes that HSM reports
    \* files and services
    keyFile,        \* mountainConsoleKey
    pubFile,        \* mountainConsoleKeyPub
    vaultHasKey,
    \* the watch loop
    cached,         \* the mountain nodes in nodeCache
    wpc,
    newNodes,       \* new nodes not yet sent
    channel,        \* mountainCredsUpdateChannel
    \* doMountainCredsUpdates
    upc,
    nodesToUpdate,
    pubKey,         \* the public key in the request to scsd
    \* history
    acked,          \* nodes whose key was delivered since they were last new
    damaged         \* the key files were left half made

fileVars == <<keyFile, pubFile, damaged>>
credVars == <<upc, nodesToUpdate, pubKey, acked>>
vars == <<listed, fileVars, vaultHasKey, cached, wpc, newNodes, channel, credVars>>

MakingKeys == {"writeKey", "redirect", "keygen", "generate", "generatePub"}

TypeOK ==
    /\ listed \subseteq Node
    /\ keyFile \in Content
    /\ pubFile \in Content
    /\ vaultHasKey \in BOOLEAN
    /\ cached \subseteq Node
    /\ wpc \in {"idle", "stat", "vault", "send"} \cup MakingKeys
    /\ newNodes \subseteq Node
    /\ channel \in Seq(Node)
    /\ Len(channel) <= ChannelCap
    /\ upc \in {"select", "post", "sleep"}
    /\ nodesToUpdate \subseteq Node
    /\ pubKey \in Content
    /\ acked \subseteq Node
    /\ damaged \in BOOLEAN

Init ==
    /\ listed \in SUBSET Node
    /\ keyFile = None /\ pubFile = None
    /\ vaultHasKey \in BOOLEAN
    /\ cached = {} /\ wpc = "idle" /\ newNodes = {}
    /\ channel = <<>>
    /\ upc = "select" /\ nodesToUpdate = {} /\ pubKey = None
    /\ acked = {} /\ damaged = FALSE

-----------------------------------------------------------------------------
(***************************************************************************)
(* A pass as far as it concerns the keys: the new nodes are returned even  *)
(* when console-data has refused them and the cache is left as it was, and *)
(* nothing more happens when the cache then holds no mountain node.        *)
(***************************************************************************)
UpdatePass(nowCached) ==
    /\ wpc = "idle"
    /\ cached' = nowCached
    /\ newNodes' = IF nowCached = {} THEN {} ELSE listed \ cached
    /\ acked' = acked \ newNodes'
    /\ wpc' = IF nowCached = {} THEN "idle" ELSE "stat"
    /\ UNCHANGED <<listed, fileVars, vaultHasKey, channel, upc, nodesToUpdate,
                   pubKey>>

PassSucceeds == UpdatePass(listed)

\* The refused request may hold no mountain node at all.
PassFails == UpdatePass(cached)

KeyStep(from, to) ==
    /\ wpc = from
    /\ wpc' = to
    /\ UNCHANGED <<listed, cached, newNodes, channel, credVars>>

\* Mutated form: the keys are made anew in every pass.
MakeKeysAnew ==
    /\ KeyStep("stat", "vault")
    /\ UNCHANGED <<fileVars, vaultHasKey>>

ensureMountainConsoleKeysExist ==
    /\ KeyStep("stat", IF None \in {keyFile, pubFile} THEN "vault" ELSE "send")
    /\ UNCHANGED <<fileVars, vaultHasKey>>

\* vaultGetPrivateKey, after the login: the key is exported, and generated
\* first if vault has none.
vaultGetPrivateKey ==
    /\ KeyStep("vault", "writeKey")
    /\ vaultHasKey' = TRUE
    /\ UNCHANGED fileVars

\* The login or one of the requests fails, perhaps after the key is generated.
vaultGetPrivateKeyFails ==
    /\ KeyStep("vault", "generate")
    /\ vaultHasKey' \in {vaultHasKey, TRUE}
    /\ UNCHANGED fileVars

\* ioutil.WriteFile of the private key
WriteKey ==
    /\ KeyStep("writeKey", "redirect")
    /\ keyFile' = VaultKey
    /\ UNCHANGED <<pubFile, damaged, vaultHasKey>>

\* Mutated form: the error is logged and the public key extracted all the same.
WriteKeyErrorIgnored ==
    /\ KeyStep("writeKey", "redirect")
    /\ keyFile' \in {keyFile, Broken}
    /\ damaged' = TRUE
    /\ UNCHANGED <<pubFile, vaultHasKey>>

WriteKeyFails ==
    /\ KeyStep("writeKey", "generate")
    /\ keyFile' \in {keyFile, Broken}
    /\ damaged' = TRUE
    /\ UNCHANGED <<pubFile, vaultHasKey>>

\* The shell that runs ssh-keygen first truncates the public key file.
RedirectPub ==
    /\ KeyStep("redirect", "keygen")
    /\ pubFile' = Broken
    /\ UNCHANGED <<keyFile, damaged, vaultHasKey>>

ExtractPub ==
    /\ KeyStep("keygen", "send")
    /\ pubFile' = keyFile
    /\ damaged' = FALSE
    /\ UNCHANGED <<keyFile, vaultHasKey>>

\* The command fails; or it succeeds, and killZombie takes its exit status.
ExtractPubFails ==
    /\ wpc \in {"redirect", "keygen"}
    /\ KeyStep(wpc, "generate")
    /\ pubFile' \in {pubFile} \cup {k \in {keyFile} : wpc = "keygen"}
    /\ damaged' = TRUE
    /\ UNCHANGED <<keyFile, vaultHasKey>>

\* generateMountainConsoleCredentials: the script overwrites both files.
GenerateKey(k) ==
    /\ KeyStep("generate", "generatePub")
    /\ keyFile' = k
    /\ UNCHANGED <<pubFile, damaged, vaultHasKey>>

GeneratePub ==
    /\ KeyStep("generatePub", "send")
    /\ pubFile' = keyFile
    /\ damaged' = FALSE
    /\ UNCHANGED <<keyFile, vaultHasKey>>

\* The caller does not look at the result.
GenerateFails ==
    /\ wpc \in {"generate", "generatePub"}
    /\ KeyStep(wpc, "send")
    /\ damaged' = TRUE
    /\ UNCHANGED <<keyFile, pubFile, vaultHasKey>>

\* Mutated form: the channel has no bound.
SendNodeUnbounded(n) ==
    /\ wpc = "send"
    /\ n \in newNodes
    /\ channel' = Append(channel, n)
    /\ newNodes' = newNodes \ {n}
    /\ UNCHANGED <<listed, fileVars, vaultHasKey, cached, wpc, credVars>>

\* The send blocks while the channel is full.
SendNode(n) ==
    /\ wpc = "send"
    /\ n \in newNodes
    /\ Len(channel) < ChannelCap
    /\ channel' = Append(channel, n)
    /\ newNodes' = newNodes \ {n}
    /\ UNCHANGED <<listed, fileVars, vaultHasKey, cached, wpc, credVars>>

EndPass ==
    /\ newNodes = {}
    /\ KeyStep("send", "idle")
    /\ UNCHANGED <<fileVars, vaultHasKey>>

-----------------------------------------------------------------------------
(***************************************************************************)
(* doMountainCredsUpdates.                                                 *)
(***************************************************************************)
CredStep == UNCHANGED <<listed, fileVars, vaultHasKey, cached, wpc, newNodes>>

\* Mutated form: the node replaces those that wait for a retry.
ReceiveNodeReplacing ==
    /\ upc = "select"
    /\ channel # <<>>
    /\ nodesToUpdate' = {Head(channel)}
    /\ channel' = Tail(channel)
    /\ CredStep /\ UNCHANGED <<upc, pubKey, acked>>

ReceiveNode ==
    /\ upc = "select"
    /\ channel # <<>>
    /\ nodesToUpdate' = nodesToUpdate \cup {Head(channel)}
    /\ channel' = Tail(channel)
    /\ CredStep /\ UNCHANGED <<upc, pubKey, acked>>

\* No node came for a second.  The update fails at once if there is no key.
StartBatch ==
    /\ upc = "select"
    /\ channel = <<>>
    /\ nodesToUpdate # {}
    /\ pubKey' = pubFile
    /\ upc' = IF pubFile = None THEN "sleep" ELSE "post"
    /\ CredStep /\ UNCHANGED <<channel, nodesToUpdate, acked>>

Targets == {BmcOf[n] : n \in nodesToUpdate}
NodesOf(bmcs) == {n \in nodesToUpdate : BmcOf[n] \in bmcs}

\* Mutated form: the batch is dropped after the first answer.
DeployReplyNoRetry(ok) ==
    /\ upc = "post"
    /\ acked' = acked \cup NodesOf(ok)
    /\ nodesToUpdate' = {}
    /\ upc' = "select"
    /\ pubKey' = None
    /\ CredStep /\ UNCHANGED channel

\* scsd answers 204 for the BMCs in ok.  A failed request, or one answered with
\* an error, is one with no ok.
DeployReply(ok) ==
    /\ upc = "post"
    /\ acked' = acked \cup NodesOf(ok)
    /\ nodesToUpdate' = nodesToUpdate \ NodesOf(ok)
    /\ upc' = IF nodesToUpdate' = {} THEN "select" ELSE "sleep"
    /\ pubKey' = None
    /\ CredStep /\ UNCHANGED channel

deployMountainConsoleKeys == DeployReply(Targets)

deployMountainConsoleKeysFails ==
    \E ok \in SUBSET Targets \ {Targets} : DeployReply(ok)

\* Mutated form: a node is not received while others wait for a retry.
RetryWithoutSelect ==
    /\ upc = "sleep"
    /\ upc' = IF pubFile = None THEN "sleep" ELSE "post"
    /\ pubKey' = pubFile
    /\ CredStep /\ UNCHANGED <<channel, nodesToUpdate, acked>>

Retry ==
    /\ upc = "sleep"
    /\ upc' = "select"
    /\ pubKey' = None
    /\ CredStep /\ UNCHANGED <<channel, nodesToUpdate, acked>>

-----------------------------------------------------------------------------
HsmChanges(n) ==
    /\ listed' = (listed \ {n}) \cup ({n} \ listed)
    /\ UNCHANGED <<fileVars, vaultHasKey, cached, wpc, newNodes, channel, credVars>>

doClearData ==
    /\ cached' = {}
    /\ UNCHANGED <<listed, fileVars, vaultHasKey, wpc, newNodes, channel, credVars>>

\* The files are on a volume that outlives the process.
Restart ==
    /\ cached' = {} /\ wpc' = "idle" /\ newNodes' = {}
    /\ channel' = <<>>
    /\ upc' = "select" /\ nodesToUpdate' = {} /\ pubKey' = None
    /\ acked' = {}
    /\ damaged' = (damaged \/ wpc \in MakingKeys)
    /\ UNCHANGED <<listed, keyFile, pubFile, vaultHasKey>>

-----------------------------------------------------------------------------
WatchStep ==
    \/ PassSucceeds
    \/ ensureMountainConsoleKeysExist
    \/ vaultGetPrivateKey
    \/ WriteKey
    \/ RedirectPub
    \/ ExtractPub
    \/ \E k \in LocalKey : GenerateKey(k)
    \/ GeneratePub
    \/ \E n \in Node : SendNode(n)
    \/ EndPass

WatchFails ==
    \/ PassFails
    \/ vaultGetPrivateKeyFails
    \/ WriteKeyFails
    \/ ExtractPubFails
    \/ GenerateFails

CredsUpdate ==
    \/ ReceiveNode
    \/ StartBatch
    \/ deployMountainConsoleKeys
    \/ Retry

CredsUpdateFails == deployMountainConsoleKeysFails

Environment ==
    \/ \E n \in Node : HsmChanges(n)
    \/ doClearData
    \/ Restart

Next == WatchStep \/ CredsUpdate \/ WatchFails \/ CredsUpdateFails \/ Environment

(***************************************************************************)
(* Both goroutines loop for ever, and the calls they make return.          *)
(***************************************************************************)
Fairness ==
    /\ WF_vars(WatchStep \/ WatchFails)
    /\ WF_vars(CredsUpdate \/ CredsUpdateFails)

Spec == Init /\ [][Next]_vars
FairSpec == Spec /\ Fairness

-----------------------------------------------------------------------------
InChannel == {channel[i] : i \in 1 .. Len(channel)}
Pending == newNodes \cup InChannel \cup nodesToUpdate

(***************************************************************************)
(* The channel, the goroutine and its retries implement KeyDelivery: a     *)
(* node that doHardwareUpdate has announced, wherever it waits, is dropped *)
(* only when scsd has confirmed its key or when the process ends.          *)
(***************************************************************************)
Delivery == INSTANCE KeyDelivery WITH pending <- Pending, served <- acked
ImplementsDelivery == Delivery!Spec

(***************************************************************************)
(* A node in the cache is never new again, so doHardwareUpdate sends it    *)
(* only once.  It is nevertheless on its way to doMountainCredsUpdates or  *)
(* waiting there until scsd has confirmed its key.                         *)
(***************************************************************************)
NoNodeForgotten == cached \subseteq Pending \cup acked

(***************************************************************************)
(* When ensureMountainConsoleKeysExist is not at work and both files       *)
(* exist, they are a pair of keys, unless a step of making them has failed *)
(* or was cut short by the end of the process.                             *)
(***************************************************************************)
KeysArePair ==
    wpc \notin MakingKeys /\ None \notin {keyFile, pubFile} /\ ~damaged
        => pubFile = keyFile /\ keyFile # Broken

(***************************************************************************)
(* Once both files exist and are not being made, ensureMountainConsole-    *)
(* KeysExist never makes or changes them again, over passes, failures and  *)
(* restarts: a public key that is sent out from then on stays the one of   *)
(* the file.  (Files that were left broken stay so, too.)                  *)
(***************************************************************************)
KeyFilesKept ==
    [][wpc \notin MakingKeys /\ None \notin {keyFile, pubFile}
          => UNCHANGED <<keyFile, pubFile>> /\ wpc' \notin MakingKeys]_vars

(***************************************************************************)
(* A pass that blocks on the full channel goes on: the goroutine at the    *)
(* other end returns to its select, whatever scsd answers.                 *)
(***************************************************************************)
SendersProceed == wpc = "send" ~> wpc = "idle"

Calm == <>[][WatchStep \/ CredsUpdate]_vars

(***************************************************************************)
(* When calls no longer fail, every mountain node that HSM lists comes to  *)
(* have had its key confirmed by scsd, whatever failures went before.      *)
(***************************************************************************)
EventuallyDelivered == Calm => <>[](listed \subseteq acked)

(***************************************************************************)
(* creds.go:375 says in deployMountainConsoleKeys: "Ensure that we have a  *)
(* console ssh key pair."  What it sends to scsd is a public key.          *)
(***************************************************************************)
PostedKeyIsKey == upc = "post" => pubKey # Broken

=============================================================================
