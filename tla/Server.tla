-------------------------------- MODULE Server --------------------------------
(***************************************************************************)
(* The life of the process (main in consoleOpMain.go), the HTTP server and *)
(* its handlers, and the two loops that run beside them: watchHardware, as *)
(* far as inShutdown governs it, and checkHeartbeats (data.go).  What a    *)
(* handler does to the nodes and to the limits is in Inventory and         *)
(* Scaling; here it is a request that makes calls and is answered.         *)
(***************************************************************************)
EXTENDS Naturals, Sequences

CONSTANTS
    Connection,
    MaxInfoCalls,  \* the most nodes that doInfo asks console-data about
    None

ASSUME ServerAssumption ==
    /\ MaxInfoCalls \in Nat
    /\ None \notin {200, 204, 400, 500}

\* The routes of setupRoutes.
Probes     == {"doLiveness", "doReadiness"}
Flags      == {"doSuspend", "doResume"}
Lookups    == {"doGetNodePod", "doGetPodLocation", "doGetPodReplicaCount"}
Tolerant   == {"doInfo", "doClearData"}
HandlerFns == Probes \cup Flags \cup Lookups \cup Tolerant
                \cup {"doHealth", "doGetCurrentTargets", "doSetMaxNodesPerPod"}

\* The handlers that look at their input before they do anything.
ChecksInput == {"doGetNodePod", "doGetPodLocation", "doSetMaxNodesPerPod"}

\* doInfo asks about each node of the cache.
InfoCalls == {[i \in 1 .. n |-> "data"] : n \in 0 .. MaxInfoCalls}

\* The calls that a handler makes, one after the other.
CallsOf(h) ==
    CASE h = "doGetPodLocation"     -> {<<"k8s", "sls">>}
      [] h = "doGetPodReplicaCount" -> {<<"k8s">>}
      [] h \in {"doGetNodePod", "doClearData"} -> {<<"data">>}
      [] h = "doInfo" -> InfoCalls
      [] OTHER -> {<<>>}

VARIABLES
    mainPc,
    sigs,         \* signals in the channel of main
    termSent,     \* history: this process was told to end
    server,
    inShutdown,
    watch,        \* the watchHardware goroutine
    beat,         \* the checkHeartbeats goroutine
    stale,        \* console-data holds nodes for a pod that no longer beats
    req           \* each connection and the request on it

mainVars == <<mainPc, sigs, termSent, server>>
loopVars == <<watch, beat, stale>>
vars == <<mainVars, inShutdown, loopVars, req>>

\* There is no connection, or one that is open and carries no request: it is
\* new, or kept alive after a request.
NoRequest == [h |-> None, at |-> "none", calls |-> <<>>, error |-> FALSE,
              status |-> None, bodies |-> 0]
OpenConnection == [NoRequest EXCEPT !.at = "open"]

Request == [h      : HandlerFns \cup {None},
            at     : {"none", "open", "input", "calls", "sent"},
            calls  : Seq({"k8s", "sls", "data"}),
            error  : BOOLEAN,
            status : {None, 200, 204, 400, 500},
            bodies : Nat]

TypeOK ==
    /\ mainPc \in {"init", "started", "notified", "wait", "signalled", "drain",
                   "gone"}
    /\ sigs \in 0 .. 1
    /\ termSent \in BOOLEAN
    /\ server \in {"none", "starting", "listening", "failed", "closed"}
    /\ inShutdown \in BOOLEAN
    /\ watch \in {"none", "sleep", "pass"}
    /\ beat \in {"none", "sleep", "call"}
    /\ stale \in BOOLEAN
    /\ req \in [Connection -> Request]

Init ==
    /\ mainPc = "init" /\ sigs = 0 /\ termSent = FALSE /\ server = "none"
    /\ inShutdown = FALSE
    /\ watch = "none" /\ beat = "none"
    /\ req = [c \in Connection |-> NoRequest]
    /\ stale \in BOOLEAN

\* Whatever ends the process ends all of it, and closes its connections.
ProcessEnds ==
    /\ mainPc' = "gone" /\ sigs' = 0 /\ termSent' = FALSE /\ server' = "none"
    /\ inShutdown' = FALSE
    /\ watch' = "none" /\ beat' = "none"
    /\ req' = [c \in Connection |-> NoRequest]
    /\ UNCHANGED stale

-----------------------------------------------------------------------------
(***************************************************************************)
(* main.                                                                   *)
(***************************************************************************)
MainStep(from, to) ==
    /\ mainPc = from
    /\ mainPc' = to
    /\ UNCHANGED <<termSent, req, stale>>

StartGoroutines ==
    /\ MainStep("init", "started")
    /\ watch' = "sleep" /\ beat' = "sleep"
    /\ UNCHANGED <<sigs, server, inShutdown>>

\* log.Panicf
NewK8ManagerFails == mainPc = "init" /\ ProcessEnds

Notify ==
    /\ MainStep("started", "notified")
    /\ UNCHANGED <<sigs, server, inShutdown, watch, beat>>

StartServer ==
    /\ MainStep("notified", "wait")
    /\ server' = "starting"
    /\ UNCHANGED <<sigs, inShutdown, watch, beat>>

ListenAndServe(outcome) ==
    /\ server = "starting"
    /\ server' = outcome
    /\ UNCHANGED <<mainPc, sigs, termSent, inShutdown, loopVars, req>>

TakeSignal ==
    /\ MainStep("wait", "signalled")
    /\ sigs > 0
    /\ sigs' = 0
    /\ inShutdown' = TRUE
    /\ UNCHANGED <<server, watch, beat>>

\* Mutated form: a listener that is yet to be opened is overlooked.
CloseOpenListener ==
    /\ MainStep("signalled", "drain")
    /\ server' = IF server = "listening" THEN "closed" ELSE server
    /\ UNCHANGED <<sigs, inShutdown, watch, beat>>

\* httpSrv.Shutdown closes the listener, also one that is yet to be opened.
CloseListener ==
    /\ MainStep("signalled", "drain")
    /\ server' = IF server = "failed" THEN "failed" ELSE "closed"
    /\ UNCHANGED <<sigs, inShutdown, watch, beat>>

Quiet(q) == q.at \in {"none", "open"}

\* Mutated form: main waits for the server to say that it was closed.
DrainedAfterServer ==
    /\ mainPc = "drain"
    /\ \A c \in Connection : Quiet(req[c])
    /\ server = "closed"
    /\ ProcessEnds

\* It waits for the requests in progress, but not for the loops, and closes
\* the connections that carry none.
Drained ==
    /\ mainPc = "drain"
    /\ \A c \in Connection : Quiet(req[c])
    /\ ProcessEnds

-----------------------------------------------------------------------------
(***************************************************************************)
(* The requests.  net/http keeps the first status that is written.         *)
(***************************************************************************)
WriteHeader(q, sc) == [q EXCEPT !.status = IF @ = None THEN sc ELSE @]

SendResponseJSON(q, sc) == [WriteHeader(q, sc) EXCEPT !.bodies = @ + 1]

RequestStep(c, from, next) ==
    /\ req[c].at = from
    /\ req' = [req EXCEPT ![c] = next]
    /\ UNCHANGED <<mainVars, loopVars>>

Accept(c) ==
    /\ server = "listening"
    /\ RequestStep(c, "none", OpenConnection)
    /\ UNCHANGED inShutdown

\* The client closes the connection, or Shutdown does.
Disconnect(c) ==
    /\ RequestStep(c, "open", NoRequest)
    /\ UNCHANGED inShutdown

\* A request comes in on an open connection and is routed to its handler,
\* during a shutdown too.
Receive(c, h, calls) ==
    /\ RequestStep(c, "open",
           [NoRequest EXCEPT !.h = h, !.calls = calls,
                             !.at = IF h \in ChecksInput THEN "input" ELSE "calls"])
    /\ UNCHANGED inShutdown

GoodInput(c) ==
    /\ RequestStep(c, "input", [req[c] EXCEPT !.at = "calls"])
    /\ UNCHANGED inShutdown

BadInput(c) ==
    /\ RequestStep(c, "input", [SendResponseJSON(req[c], 400) EXCEPT !.at = "sent"])
    /\ UNCHANGED inShutdown

NextCall(q) == [q EXCEPT !.calls = Tail(@)]

\* An answer of any status, at which the code does not look.  What it cannot
\* decode is an error of the call, except that getXnameAlias ignores it.
CallReturns(c) ==
    /\ req[c].calls # <<>>
    /\ RequestStep(c, "calls", NextCall(req[c]))
    /\ UNCHANGED inShutdown

\* doGetPodReplicaCount lacks a return after it has answered its error.
AnswerAndGoOn(q) == NextCall(SendResponseJSON(q, 500))

\* Mutated form: a lookup goes on with an empty result.
AfterErrorIgnored(q) == NextCall(q)

\* Mutated form: every lookup lacks the return.
AfterErrorGoesOn(q) ==
    IF q.h \in Tolerant THEN NextCall(q) ELSE AnswerAndGoOn(q)

\* doInfo and doClearData go on without an answer.
AfterError(q) ==
    IF q.h \in Tolerant THEN NextCall(q)
    ELSE IF q.h = "doGetPodReplicaCount" THEN AnswerAndGoOn(q)
    ELSE [SendResponseJSON(q, 500) EXCEPT !.at = "sent"]

CallFails(c) ==
    /\ req[c].calls # <<>>
    /\ RequestStep(c, "calls", AfterError([req[c] EXCEPT !.error = TRUE]))
    /\ UNCHANGED inShutdown

\* A type assertion of getXnameAlias fails; the server closes the connection.
CallPanics(c) ==
    /\ req[c].calls # <<>> /\ Head(req[c].calls) = "sls"
    /\ RequestStep(c, "calls", NoRequest)
    /\ UNCHANGED inShutdown

\* doReadiness is the same.
doLiveness(q) == WriteHeader(q, 204)
doHealth(q)   == SendResponseJSON(q, 200)

Answer(q) ==
    CASE q.h \in Probes    -> doLiveness(q)
      [] q.h = "doHealth"  -> doHealth(q)
      [] q.h \in Flags \cup {"doClearData", "doSetMaxNodesPerPod"} -> WriteHeader(q, 200)
      [] OTHER -> SendResponseJSON(q, 200)

Finish(c) ==
    /\ req[c].calls = <<>>
    /\ RequestStep(c, "calls", [Answer(req[c]) EXCEPT !.at = "sent"])
    /\ inShutdown' = CASE req[c].h = "doSuspend" -> TRUE
                       [] req[c].h = "doResume"  -> FALSE
                       [] OTHER -> inShutdown

\* The response is sent.  The connection may be kept alive, but not once
\* Shutdown has begun.
EndRequest(c) ==
    /\ \/ RequestStep(c, "sent", NoRequest)
       \/ mainPc # "drain" /\ RequestStep(c, "sent", OpenConnection)
    /\ UNCHANGED inShutdown

-----------------------------------------------------------------------------
(***************************************************************************)
(* The loops.  checkHeartbeats does not look at inShutdown.                *)
(***************************************************************************)
WatchStep(from, to) ==
    /\ watch = from
    /\ watch' = to
    /\ UNCHANGED <<mainVars, inShutdown, beat, stale, req>>

BeginPass == ~inShutdown /\ WatchStep("sleep", "pass")
EndPass == WatchStep("pass", "sleep")

BeatStep(from, to) ==
    /\ beat = from
    /\ beat' = to
    /\ UNCHANGED <<mainVars, inShutdown, watch, req>>

\* Mutated form: the loop stands still while updates are suspended.
BeginCheckUnlessSuspended == ~inShutdown /\ BeatStep("sleep", "call") /\ UNCHANGED stale

BeginCheck == BeatStep("sleep", "call") /\ UNCHANGED stale
CheckReturns == BeatStep("call", "sleep") /\ stale' = FALSE
\* No answer, although the request may have been carried out, or an answer
\* that says it was not, at which the code does not look.
CheckFails == BeatStep("call", "sleep") /\ stale' \in {stale, FALSE}

-----------------------------------------------------------------------------
(***************************************************************************)
(* The environment.                                                        *)
(***************************************************************************)
\* Mutated form: the channel has no buffer, and Notify does not block.
InChannelUnbuffered == IF mainPc = "wait" THEN 1 ELSE sigs

\* Mutated form: the channel takes every signal.
InChannelUnbounded == sigs + 1

\* Notify puts a signal into the channel, and drops it if the channel is full.
InChannel == 1

\* SIGINT or SIGTERM, once Notify has been called
Signal ==
    /\ mainPc \notin {"init", "started", "gone"}
    /\ termSent' = TRUE
    /\ sigs' = InChannel
    /\ UNCHANGED <<mainPc, server, inShutdown, loopVars, req>>

\* The liveness probe of kubernetes finds nobody listening.
ProbeFails == server = "failed" /\ ~termSent /\ Signal

\* A signal before Notify, SIGKILL, or a crash
Killed == mainPc # "gone" /\ ProcessEnds

Restart ==
    /\ mainPc = "gone"
    /\ mainPc' = "init"
    /\ UNCHANGED <<sigs, termSent, server, inShutdown, loopVars, req>>

PodGoesStale ==
    /\ ~stale
    /\ stale' = TRUE
    /\ UNCHANGED <<mainVars, inShutdown, watch, beat, req>>

-----------------------------------------------------------------------------
MainRuns ==
    \/ StartGoroutines
    \/ Notify
    \/ StartServer
    \/ ListenAndServe("listening")
    \/ TakeSignal
    \/ CloseListener
    \/ Drained

MainFails ==
    \/ NewK8ManagerFails
    \/ ListenAndServe("failed")

RequestRuns(c) ==
    \/ GoodInput(c)
    \/ BadInput(c)
    \/ CallReturns(c)
    \/ CallFails(c)
    \/ CallPanics(c)
    \/ Finish(c)
    \/ EndRequest(c)

Kubernetes == ProbeFails \/ Restart

Running ==
    \/ MainRuns
    \/ \E c \in Connection : RequestRuns(c)
    \/ \E c \in Connection : Accept(c) \/ Disconnect(c)
    \/ \E c \in Connection, h \in HandlerFns : \E calls \in CallsOf(h) : Receive(c, h, calls)
    \/ BeginPass
    \/ EndPass
    \/ BeginCheck
    \/ CheckReturns
    \/ Kubernetes

Disturbance ==
    \/ MainFails
    \/ CheckFails
    \/ Signal
    \/ Killed
    \/ PodGoesStale

Next == Running \/ Disturbance

(***************************************************************************)
(* Go's scheduler lets main, the server and the heartbeat loop go on, and  *)
(* kubernetes restarts a process that has ended and ends one that does not *)
(* answer its probe.  Nothing is assumed of the watch loop and of the      *)
(* requests, whose calls have no timeout; where a property needs that they *)
(* come to an end it says so.                                              *)
(***************************************************************************)
Fairness ==
    /\ WF_vars(MainRuns \/ MainFails)
    /\ WF_vars(BeginCheck)
    /\ WF_vars(Kubernetes)

Spec == Init /\ [][Next]_vars
FairSpec == Spec /\ Fairness

-----------------------------------------------------------------------------
(***************************************************************************)
(* A lookup (getNodePod, location, replicas) answers with status 500 if    *)
(* and only if one of its calls returned an error to it; so does           *)
(* doGetPodReplicaCount, which goes on after its error and writes a second *)
(* answer.  An error status in a reply (data.go:340, sls.go:68) and a      *)
(* reply of SLS that cannot be decoded (sls.go:77) are not errors to the   *)
(* handler: such a lookup answers 200 with an empty result.                *)
(***************************************************************************)
CallErrorsReported ==
    \A c \in Connection :
        req[c].at = "sent" /\ req[c].h \in Lookups
            => (req[c].status = 500 <=> req[c].error)

(***************************************************************************)
(* A handler that is done has written a status and one document at most,   *)
(* along every path through its input checks, calls and errors.  Only      *)
(* doGetPodReplicaCount, after an error, has written two.                  *)
(***************************************************************************)
AnsweredOnce ==
    \A c \in Connection :
        req[c].at = "sent"
            => /\ req[c].status # None
               /\ \/ req[c].bodies <= 1
                  \/ req[c].bodies = 2 /\ req[c].error /\ req[c].h = "doGetPodReplicaCount"

(***************************************************************************)
(* consoleOpMain.go:285-288: a signal that comes after Notify is trapped   *)
(* until main reads it.  Wherever main is, it is in the channel or main    *)
(* has taken it, and a second signal does not push it out.                 *)
(***************************************************************************)
SignalKept == termSent => sigs = 1 \/ mainPc \in {"signalled", "drain"}

\* The stages of a connection, from its last to its first.
Stage(at) == CASE at = "none"  -> 0
               [] at = "sent"  -> 1
               [] at = "calls" -> 2
               [] at = "input" -> 3
               [] at = "open"  -> 4

\* The connection or its request r is nearer to its end than q.
Nearer(r, q) ==
    \/ Stage(r.at) < Stage(q.at)
    \/ r.at = q.at /\ Len(r.calls) < Len(q.calls)

(***************************************************************************)
(* While Shutdown waits, every step on a connection brings it nearer to    *)
(* its end: a connection that was accepted before may still bring one      *)
(* request, which is answered, but no other comes after it and no new      *)
(* connection is made, also when the signal has overtaken ListenAndServe   *)
(* and the listener was not open when it was closed.                       *)
(***************************************************************************)
DrainProceeds ==
    [][mainPc = "drain"
          => \A c \in Connection : req'[c] = req[c] \/ Nearer(req'[c], req[c])]_vars

\* Every request comes to an end: its body arrives and its calls return.
RequestsEnd == \A c \in Connection : []<>Quiet(req[c])

(***************************************************************************)
(* A process that is told to end ends, wherever main is when the signal    *)
(* comes and although the server may have failed to listen, if the         *)
(* requests in progress end.  The watch loop may hang in a call for ever,  *)
(* or be let loose again by a resume that is handled during the shutdown.  *)
(***************************************************************************)
SignalEndsProcess == RequestsEnd => (termSent ~> mainPc = "gone")

\* From some time on nothing fails and nobody sends signals.
Calm == <>[][Running]_vars

(***************************************************************************)
(* Once nothing fails any more there is a process that serves requests,    *)
(* and it stays: even one whose ListenAndServe failed, which main does not *)
(* notice, is ended and replaced.                                          *)
(***************************************************************************)
EventuallyServing == Calm /\ RequestsEnd => <>[](server = "listening")

(***************************************************************************)
(* Nodes that console-data holds for a dead pod come to be released, also  *)
(* while updates are suspended, while the watch loop or a request hangs,   *)
(* and across restarts, if the calls of checkHeartbeats return.            *)
(***************************************************************************)
StaleReleased == Calm /\ []<>(beat # "call") => <>[]~stale

=============================================================================
