------------------------------ MODULE KeyDelivery ------------------------------
(***************************************************************************)
(* What doHardwareUpdate may rely on when it hands new mountain nodes to   *)
(* the key updater: a node it has announced stays pending until scsd has   *)
(* confirmed its key, and nothing but a new announcement or the end of the *)
(* process takes a confirmation back.  MountainKeys implements this with a *)
(* channel, a goroutine and retries; ConsoleOperator builds on it.         *)
(***************************************************************************)
CONSTANT Node

VARIABLES
    pending,   \* nodes on their way to scsd or to be tried again
    served     \* nodes whose key was confirmed since they were last new

Init == pending = {} /\ served = {}

Announce(new) ==
    /\ pending' = pending \cup new
    /\ served' = served \ new

\* A node that was announced again in the meantime goes on waiting.
Confirm(done, again) ==
    /\ done \subseteq pending
    /\ pending' = (pending \ done) \cup again
    /\ served' = served \cup done

ProcessEnds == pending' = {} /\ served' = {}

Next ==
    \/ \E new \in SUBSET Node : Announce(new)
    \/ \E done \in SUBSET pending : \E again \in SUBSET done : Confirm(done, again)
    \/ ProcessEnds

Spec == Init /\ [][Next]_<<pending, served>>

=============================================================================
