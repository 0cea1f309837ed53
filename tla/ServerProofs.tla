----------------------------- MODULE ServerProofs -----------------------------
(***************************************************************************)
(* Proofs of the invariants of Server.                                     *)
(***************************************************************************)
EXTENDS Server, TLAPS

(***************************************************************************)
(* What a handler has answered at each place: nothing before its calls are *)
(* done or one has failed, except for doGetPodReplicaCount, which has      *)
(* answered its error and goes on, with no call left to make.              *)
(***************************************************************************)
AnswerSoFar(q) ==
    /\ q.at = "none" => q = NoRequest
    /\ q.at = "input" => q.status = None /\ ~q.error /\ q.bodies = 0
    /\ q.at = "calls" /\ q.h \in Lookups
          => \/ q.status = None /\ ~q.error
             \/ q.status = 500 /\ q.error /\ q.h = "doGetPodReplicaCount"
    /\ q.at = "calls"
          => \/ q.bodies = 0
             \/ /\ q.bodies = 1 /\ q.error
                /\ q.h = "doGetPodReplicaCount" /\ q.calls = <<>>
    /\ q.h = "doGetPodReplicaCount" /\ q.calls # <<>> => Tail(q.calls) = <<>>
    /\ q.at = "sent" /\ q.h \in Lookups => (q.status = 500 <=> q.error)
    /\ q.at = "sent"
          => /\ q.status # None
             /\ \/ q.bodies <= 1
                \/ q.bodies = 2 /\ q.error /\ q.h = "doGetPodReplicaCount"

IInv == TypeOK /\ \A c \in Connection : AnswerSoFar(req[c])

(***************************************************************************)
(* WriteHeader keeps the first status.                                     *)
(***************************************************************************)
LEMMA HeaderWritten ==
    ASSUME NEW q \in Request, NEW sc \in {200, 204, 400, 500}
    PROVE  /\ WriteHeader(q, sc) \in Request
           /\ WriteHeader(q, sc).h = q.h
           /\ WriteHeader(q, sc).at = q.at
           /\ WriteHeader(q, sc).calls = q.calls
           /\ WriteHeader(q, sc).error = q.error
           /\ WriteHeader(q, sc).status = IF q.status = None THEN sc ELSE q.status
           /\ WriteHeader(q, sc).bodies = q.bodies
  BY DEF Request, WriteHeader

(***************************************************************************)
(* SendResponseJSON writes the header, and a body.                         *)
(***************************************************************************)
LEMMA ResponseSent ==
    ASSUME NEW q \in Request, NEW sc \in {200, 204, 400, 500}
    PROVE  /\ SendResponseJSON(q, sc) \in Request
           /\ SendResponseJSON(q, sc).h = q.h
           /\ SendResponseJSON(q, sc).at = q.at
           /\ SendResponseJSON(q, sc).calls = q.calls
           /\ SendResponseJSON(q, sc).error = q.error
           /\ SendResponseJSON(q, sc).status = IF q.status = None THEN sc ELSE q.status
           /\ SendResponseJSON(q, sc).bodies = q.bodies + 1
  <1> DEFINE w == WriteHeader(q, sc)
  <1>1. w \in Request
    BY HeaderWritten
  <1> HIDE DEF w
  <1>2. /\ [w EXCEPT !.bodies = @ + 1] \in Request
        /\ [w EXCEPT !.bodies = @ + 1].h = w.h
        /\ [w EXCEPT !.bodies = @ + 1].at = w.at
        /\ [w EXCEPT !.bodies = @ + 1].calls = w.calls
        /\ [w EXCEPT !.bodies = @ + 1].error = w.error
        /\ [w EXCEPT !.bodies = @ + 1].status = w.status
        /\ [w EXCEPT !.bodies = @ + 1].bodies = w.bodies + 1
    BY <1>1 DEF Request
  <1>3. SendResponseJSON(q, sc) = [w EXCEPT !.bodies = @ + 1]
    BY DEF SendResponseJSON, w
  <1> QED
    BY <1>2, <1>3, HeaderWritten DEF w

(***************************************************************************)
(* Moving on in a handler changes nothing of the answer.                   *)
(***************************************************************************)
LEMMA Moved ==
    ASSUME NEW q \in Request, NEW at \in {"none", "open", "input", "calls", "sent"}
    PROVE  /\ [q EXCEPT !.at = at] \in Request
           /\ [q EXCEPT !.at = at].h = q.h
           /\ [q EXCEPT !.at = at].at = at
           /\ [q EXCEPT !.at = at].calls = q.calls
           /\ [q EXCEPT !.at = at].error = q.error
           /\ [q EXCEPT !.at = at].status = q.status
           /\ [q EXCEPT !.at = at].bodies = q.bodies
  BY DEF Request

(***************************************************************************)
(* Neither does a call that returns.                                       *)
(***************************************************************************)
LEMMA CallMade ==
    ASSUME NEW q \in Request, q.calls # <<>>
    PROVE  /\ NextCall(q) \in Request
           /\ NextCall(q).h = q.h
           /\ NextCall(q).at = q.at
           /\ NextCall(q).calls = Tail(q.calls)
           /\ NextCall(q).error = q.error
           /\ NextCall(q).status = q.status
           /\ NextCall(q).bodies = q.bodies
  BY DEF Request, NextCall

(***************************************************************************)
(* A call that fails is remembered in the history.                         *)
(***************************************************************************)
LEMMA ErrorNoted ==
    ASSUME NEW q \in Request, NEW b \in BOOLEAN
    PROVE  /\ [q EXCEPT !.error = b] \in Request
           /\ [q EXCEPT !.error = b].h = q.h
           /\ [q EXCEPT !.error = b].at = q.at
           /\ [q EXCEPT !.error = b].calls = q.calls
           /\ [q EXCEPT !.error = b].error = b
           /\ [q EXCEPT !.error = b].status = q.status
           /\ [q EXCEPT !.error = b].bodies = q.bodies
  BY DEF Request

(***************************************************************************)
(* After an error a lookup has answered 500.                               *)
(***************************************************************************)
LEMMA ErrorAnswered ==
    ASSUME NEW q \in Request, q.calls # <<>>, q.at = "calls", AnswerSoFar(q),
           NEW e \in Request, e.h = q.h, e.at = q.at, e.calls = q.calls,
           e.error = TRUE, e.status = q.status, e.bodies = q.bodies
    PROVE  AfterError(e) \in Request /\ AnswerSoFar(AfterError(e))
  <1> DEFINE s == SendResponseJSON(e, 500)
  <1>b. q.bodies = 0
    BY DEF AnswerSoFar
  <1>1. /\ s \in Request /\ s.h = q.h /\ s.at = "calls" /\ s.calls = q.calls
        /\ s.error = TRUE /\ s.bodies = 1 /\ s.status # None
    BY <1>b, ResponseSent, ServerAssumption
  <1>2. q.h \in Lookups => s.status = 500
    <2>1. s.status = IF e.status = None THEN 500 ELSE e.status
      BY ResponseSent
    <2>2. q.h \in Lookups => q.status \in {None, 500}
      BY DEF AnswerSoFar
    <2> HIDE DEF s
    <2> QED
      BY <2>1, <2>2
  <1> HIDE DEF s
  <1>3. CASE q.h \in Tolerant
    <2>1. AfterError(e) = NextCall(e)
      BY <1>3 DEF AfterError
    <2>2. q.h \notin Lookups
      BY <1>3 DEF Tolerant, Lookups
    <2>3. q.h # "doGetPodReplicaCount"
      BY <2>2 DEF Lookups
    <2> QED
      BY <1>b, <2>1, <2>2, <2>3, CallMade DEF AnswerSoFar
  <1>4. CASE q.h = "doGetPodReplicaCount"
    <2>1. AfterError(e) = NextCall(s)
      BY <1>4 DEF AfterError, AnswerAndGoOn, Tolerant, s
    <2>2. q.h \in Lookups
      BY <1>4 DEF Lookups
    <2>3. Tail(q.calls) = <<>>
      BY <1>4 DEF AnswerSoFar
    <2> DEFINE r == NextCall(s)
    <2>4. /\ r \in Request /\ r.h = q.h /\ r.at = "calls" /\ r.calls = <<>>
          /\ r.error = TRUE /\ r.status = s.status /\ r.bodies = 1
      <3>1. /\ r \in Request /\ r.h = s.h /\ r.at = s.at /\ r.calls = Tail(s.calls)
            /\ r.error = s.error /\ r.status = s.status /\ r.bodies = s.bodies
        BY <1>1, CallMade
      <3> HIDE DEF r
      <3> QED
        BY <1>1, <2>3, <3>1
    <2> HIDE DEF r
    <2>5. AnswerSoFar(r)
      BY <1>2, <1>4, <2>2, <2>4 DEF AnswerSoFar
    <2> QED
      BY <2>1, <2>4, <2>5 DEF r
  <1>5. CASE q.h \notin Tolerant /\ q.h # "doGetPodReplicaCount"
    <2> DEFINE r == [s EXCEPT !.at = "sent"]
    <2>1. AfterError(e) = r
      BY <1>5 DEF AfterError, s
    <2>2. /\ r \in Request /\ r.h = q.h /\ r.at = "sent" /\ r.calls = q.calls
          /\ r.error = TRUE /\ r.status = s.status /\ r.bodies = 1
      BY <1>1, Moved
    <2> HIDE DEF r
    <2>3. AnswerSoFar(r)
      BY <2>2, <1>1, <1>2, <1>5 DEF AnswerSoFar
    <2> QED
      BY <2>1, <2>2, <2>3
  <1> QED
    BY <1>3, <1>4, <1>5

(***************************************************************************)
(* A lookup whose calls have returned answers 200, unless it has already   *)
(* answered 500.                                                           *)
(***************************************************************************)
LEMMA ResultAnswered ==
    ASSUME NEW q \in Request, q.at = "calls", AnswerSoFar(q)
    PROVE  /\ [Answer(q) EXCEPT !.at = "sent"] \in Request
           /\ AnswerSoFar([Answer(q) EXCEPT !.at = "sent"])
  <1> DEFINE a == Answer(q)
             r == [a EXCEPT !.at = "sent"]
  <1>1. \/ a \in {WriteHeader(q, 204), WriteHeader(q, 200)} /\ q.h \notin Lookups
        \/ a = SendResponseJSON(q, 200)
    BY DEF Answer, doLiveness, doHealth, Probes, Flags, Lookups
  <1> HIDE DEF a
  <1>2. /\ a \in Request /\ a.h = q.h /\ a.error = q.error /\ a.calls = q.calls
        /\ a.status # None /\ a.bodies \in {q.bodies, q.bodies + 1}
    BY <1>1, HeaderWritten, ResponseSent, ServerAssumption
  <1>3. q.h \in Lookups => a.status = IF q.status = None THEN 200 ELSE q.status
    BY <1>1, ResponseSent
  <1>4. /\ r \in Request /\ r.h = q.h /\ r.at = "sent" /\ r.calls = q.calls
        /\ r.error = q.error /\ r.status = a.status /\ r.bodies = a.bodies
    BY <1>2, Moved
  <1> HIDE DEF r
  <1>5. q.h \in Lookups => \/ q.status = None /\ ~q.error
                           \/ q.status = 500 /\ q.error
    BY DEF AnswerSoFar
  <1>6. q.h \in Lookups => (r.status = 500 <=> r.error)
    BY <1>3, <1>4, <1>5, ServerAssumption
  <1>7. \/ r.bodies <= 1
        \/ r.bodies = 2 /\ r.error /\ r.h = "doGetPodReplicaCount"
    BY <1>2, <1>4 DEF AnswerSoFar
  <1>8. AnswerSoFar(r)
    BY <1>2, <1>4, <1>6, <1>7 DEF AnswerSoFar
  <1> QED
    BY <1>4, <1>8 DEF r, a

(***************************************************************************)
(* A step of a request that leaves a good record leaves good records.      *)
(***************************************************************************)
LEMMA StepKeeps ==
    ASSUME IInv, inShutdown' \in BOOLEAN,
           NEW c \in Connection, NEW from, NEW next \in Request, AnswerSoFar(next),
           RequestStep(c, from, next)
    PROVE  IInv'
  <1>1. req' \in [Connection -> Request]
    BY DEF IInv, TypeOK, RequestStep
  <1>2. \A d \in Connection : req'[d] \in {req[d], next}
    BY DEF IInv, TypeOK, RequestStep
  <1>3. \A d \in Connection : AnswerSoFar(req'[d])
    BY <1>2 DEF IInv
  <1>4. TypeOK'
    BY <1>1 DEF IInv, TypeOK, RequestStep, mainVars, loopVars
  <1> QED
    BY <1>3, <1>4 DEF IInv, AnswerSoFar

(***************************************************************************)
(* A connection without a request has no answer.                           *)
(***************************************************************************)
LEMMA NoRequestGood ==
    /\ NoRequest \in Request /\ AnswerSoFar(NoRequest)
    /\ OpenConnection \in Request /\ AnswerSoFar(OpenConnection)
  <1>1. <<>> \in Seq({"k8s", "sls", "data"}) /\ FALSE \in BOOLEAN
    OBVIOUS
  <1>2. NoRequest \in Request
    BY <1>1, Zenon DEF NoRequest, Request
  <1>3. NoRequest.at = "none" /\ NoRequest.calls = <<>>
    BY DEF NoRequest
  <1>4. /\ OpenConnection \in Request
        /\ OpenConnection.at = "open" /\ OpenConnection.calls = <<>>
    BY <1>2, <1>3, Moved DEF OpenConnection
  <1> QED
    BY <1>2, <1>3, <1>4 DEF AnswerSoFar

(***************************************************************************)
(* A handler makes calls of the three kinds.                               *)
(***************************************************************************)
LEMMA CallsTyped ==
    ASSUME NEW h \in HandlerFns, NEW calls \in CallsOf(h)
    PROVE  calls \in Seq({"k8s", "sls", "data"})
  <1>1. CASE h = "doInfo"
    <2>1. PICK n \in 0 .. MaxInfoCalls : calls = [i \in 1 .. n |-> "data"]
      BY <1>1 DEF CallsOf, InfoCalls
    <2>2. n \in Nat
      BY ServerAssumption
    <2> QED
      BY <2>1, <2>2
  <1>2. CASE h # "doInfo"
    <2>1. calls \in {<<"k8s", "sls">>, <<"k8s">>, <<"data">>, <<>>}
      BY <1>2, Zenon DEF CallsOf
    <2>2. /\ <<"k8s", "sls">> \in Seq({"k8s", "sls", "data"})
          /\ <<"k8s">> \in Seq({"k8s", "sls", "data"})
          /\ <<"data">> \in Seq({"k8s", "sls", "data"})
          /\ <<>> \in Seq({"k8s", "sls", "data"})
      OBVIOUS
    <2> QED
      BY <2>1, <2>2, Zenon
  <1> QED
    BY <1>1, <1>2

(***************************************************************************)
(* A request that has come in has no answer and no error.                  *)
(***************************************************************************)
LEMMA ReceivedGood ==
    ASSUME NEW h \in HandlerFns, NEW calls \in Seq({"k8s", "sls", "data"}),
           h = "doGetPodReplicaCount" => calls = <<"k8s">>,
           NEW at \in {"input", "calls"}
    PROVE  /\ [NoRequest EXCEPT !.h = h, !.calls = calls, !.at = at] \in Request
           /\ AnswerSoFar([NoRequest EXCEPT !.h = h, !.calls = calls, !.at = at])
  <1> DEFINE r == [NoRequest EXCEPT !.h = h, !.calls = calls, !.at = at]
  <1>1. r \in Request
    <2>1. \A q \in Request : [q EXCEPT !.h = h] \in Request
      BY DEF Request
    <2>2. \A q \in Request : [q EXCEPT !.calls = calls] \in Request
      BY DEF Request
    <2>3. \A q \in Request : [q EXCEPT !.at = at] \in Request
      BY DEF Request
    <2>4. r = [[[NoRequest EXCEPT !.h = h] EXCEPT !.calls = calls] EXCEPT !.at = at]
      OBVIOUS
    <2> QED
      BY <2>1, <2>2, <2>3, <2>4, NoRequestGood
  <1>2. r.status = None /\ r.at = at /\ ~r.error /\ r.bodies = 0 /\ r.h = h /\ r.calls = calls
    <2>1. NoRequest.status = None /\ ~NoRequest.error /\ NoRequest.bodies = 0
      BY DEF NoRequest
    <2>2. /\ r.status = NoRequest.status /\ r.at = at /\ r.error = NoRequest.error
          /\ r.bodies = NoRequest.bodies /\ r.h = h /\ r.calls = calls
      BY NoRequestGood DEF Request
    <2> QED
      BY <2>1, <2>2
  <1> HIDE DEF r
  <1>3. h = "doGetPodReplicaCount" => Tail(calls) = <<>>
    <2>1. Tail(<<"k8s">>) = <<>>
      OBVIOUS
    <2> QED
      BY <2>1
  <1>4. AnswerSoFar(r)
    BY <1>2, <1>3 DEF AnswerSoFar
  <1> QED
    BY <1>1, <1>4 DEF r

(***************************************************************************)
(* The first process has no requests.                                      *)
(***************************************************************************)
LEMMA InitIInv == Init => IInv
  <1> SUFFICES ASSUME Init
               PROVE  IInv
    OBVIOUS
  <1>1. req \in [Connection -> Request] /\ \A c \in Connection : req[c] = NoRequest
    BY NoRequestGood DEF Init
  <1>2. TypeOK
    <2>1. inShutdown \in BOOLEAN /\ termSent \in BOOLEAN /\ stale \in BOOLEAN
      BY DEF Init
    <2> QED
      BY <1>1, <2>1 DEF Init, TypeOK
  <1> QED
    BY <1>1, <1>2, NoRequestGood DEF IInv

(***************************************************************************)
(* Neither has a process that has ended.                                   *)
(***************************************************************************)
LEMMA EndKeeps ==
    ASSUME IInv, ProcessEnds
    PROVE  IInv'
  <1>1. req' \in [Connection -> Request] /\ \A c \in Connection : req'[c] = NoRequest
    BY NoRequestGood DEF ProcessEnds
  <1>2. TypeOK'
    <2>1. inShutdown' \in BOOLEAN /\ termSent' \in BOOLEAN
      BY DEF ProcessEnds
    <2> QED
      BY <1>1, <2>1 DEF IInv, TypeOK, ProcessEnds
  <1> QED
    BY <1>1, <1>2, NoRequestGood DEF IInv, AnswerSoFar

(***************************************************************************)
(* Steps of main, of the loops and of the environment leave the requests   *)
(* alone.                                                                  *)
(***************************************************************************)
LEMMA OtherStepKeeps ==
    ASSUME IInv, UNCHANGED req, TypeOK'
    PROVE  IInv'
  BY DEF IInv, AnswerSoFar

(***************************************************************************)
(* Every step of a request keeps its answer in order.                      *)
(***************************************************************************)
LEMMA RequestKeeps ==
    ASSUME IInv, NEW c \in Connection, RequestRuns(c)
    PROVE  IInv'
  <1> DEFINE q == req[c]
  <1>q. q \in Request /\ AnswerSoFar(q) /\ inShutdown \in BOOLEAN
    BY DEF IInv, TypeOK
  <1> HIDE DEF q
  <1>1. CASE GoodInput(c)
    <2> DEFINE r == [q EXCEPT !.at = "calls"]
    <2>1. RequestStep(c, "input", r) /\ q.at = "input" /\ UNCHANGED inShutdown
      BY <1>1 DEF GoodInput, RequestStep, q
    <2>2. /\ r \in Request /\ r.at = "calls" /\ r.h = q.h /\ r.calls = q.calls
          /\ r.error = q.error /\ r.status = q.status /\ r.bodies = q.bodies
      BY <1>q, Moved
    <2> HIDE DEF r
    <2>3. AnswerSoFar(r)
      BY <1>q, <2>1, <2>2 DEF AnswerSoFar
    <2> QED
      BY <1>q, <2>1, <2>2, <2>3, StepKeeps
  <1>2. CASE BadInput(c)
    <2> DEFINE s == SendResponseJSON(q, 400)
               r == [s EXCEPT !.at = "sent"]
    <2>1. RequestStep(c, "input", r) /\ q.at = "input" /\ UNCHANGED inShutdown
      BY <1>2 DEF BadInput, RequestStep, q
    <2>2. q.status = None /\ ~q.error /\ q.bodies = 0
      BY <1>q, <2>1 DEF AnswerSoFar
    <2>3. /\ s \in Request /\ s.h = q.h /\ s.calls = q.calls
          /\ s.error = q.error /\ s.status = 400 /\ s.bodies = 1
      <3>1. /\ s \in Request /\ s.h = q.h /\ s.calls = q.calls /\ s.error = q.error
            /\ s.status = IF q.status = None THEN 400 ELSE q.status
            /\ s.bodies = q.bodies + 1
        BY <1>q, ResponseSent
      <3> HIDE DEF s
      <3> QED
        BY <2>2, <3>1
    <2> HIDE DEF s
    <2>4. /\ r \in Request /\ r.h = q.h /\ r.at = "sent" /\ r.calls = q.calls
          /\ r.error = q.error /\ r.status = 400 /\ r.bodies = 1
      <3>1. /\ r \in Request /\ r.h = s.h /\ r.at = "sent" /\ r.calls = s.calls
            /\ r.error = s.error /\ r.status = s.status /\ r.bodies = s.bodies
        BY <2>3, Moved
      <3> HIDE DEF r
      <3> QED
        BY <2>3, <3>1
    <2> HIDE DEF r
    <2>5. AnswerSoFar(r)
      BY <1>q, <2>2, <2>4, ServerAssumption DEF AnswerSoFar
    <2> QED
      BY <1>q, <2>1, <2>4, <2>5, StepKeeps
  <1>3. CASE CallReturns(c)
    <2> DEFINE r == NextCall(q)
    <2>1. /\ RequestStep(c, "calls", r) /\ q.at = "calls" /\ q.calls # <<>>
          /\ UNCHANGED inShutdown
      BY <1>3 DEF CallReturns, RequestStep, q
    <2>2. /\ r \in Request /\ r.at = q.at /\ r.h = q.h /\ r.calls = Tail(q.calls)
          /\ r.error = q.error /\ r.status = q.status /\ r.bodies = q.bodies
      BY <1>q, <2>1, CallMade
    <2> HIDE DEF r
    <2>3. AnswerSoFar(r)
      BY <1>q, <2>1, <2>2 DEF AnswerSoFar
    <2> QED
      BY <1>q, <2>1, <2>2, <2>3, StepKeeps
  <1>4. CASE CallFails(c)
    <2> DEFINE e == [q EXCEPT !.error = TRUE]
    <2>1. /\ RequestStep(c, "calls", AfterError(e)) /\ q.at = "calls" /\ q.calls # <<>>
          /\ UNCHANGED inShutdown
      BY <1>4 DEF CallFails, RequestStep, q
    <2>2. TRUE \in BOOLEAN
      OBVIOUS
    <2>3. /\ e \in Request /\ e.h = q.h /\ e.at = q.at /\ e.calls = q.calls
          /\ e.error = TRUE /\ e.status = q.status /\ e.bodies = q.bodies
      BY <1>q, <2>2, ErrorNoted
    <2> HIDE DEF e
    <2>4. AfterError(e) \in Request /\ AnswerSoFar(AfterError(e))
      BY <1>q, <2>1, <2>3, ErrorAnswered
    <2> QED
      BY <1>q, <2>1, <2>4, StepKeeps
  <1>5. CASE CallPanics(c) \/ EndRequest(c)
    <2>1. PICK from : \/ RequestStep(c, from, NoRequest)
                      \/ RequestStep(c, from, OpenConnection)
      BY <1>5 DEF CallPanics, EndRequest
    <2>2. UNCHANGED inShutdown
      BY <1>5 DEF CallPanics, EndRequest
    <2> QED
      BY <1>q, <2>1, <2>2, NoRequestGood, StepKeeps
  <1>6. CASE Finish(c)
    <2> DEFINE r == [Answer(q) EXCEPT !.at = "sent"]
    <2>1. RequestStep(c, "calls", r) /\ q.at = "calls"
      BY <1>6 DEF Finish, RequestStep, q
    <2>2. inShutdown' \in BOOLEAN
      BY <1>6, <1>q DEF Finish
    <2>3. r \in Request /\ AnswerSoFar(r)
      BY <1>q, <2>1, ResultAnswered
    <2> HIDE DEF r
    <2> QED
      BY <2>1, <2>2, <2>3, StepKeeps
  <1> QED
    BY <1>1, <1>2, <1>3, <1>4, <1>5, <1>6 DEF RequestRuns

(***************************************************************************)
(* Every step keeps the types and the answers in order.                    *)
(***************************************************************************)
LEMMA NextIInv == IInv /\ [Next]_vars => IInv'
  <1> SUFFICES ASSUME IInv, [Next]_vars
               PROVE  IInv'
    OBVIOUS
  <1>t. TypeOK
    BY DEF IInv
  <1>1. CASE StartGoroutines \/ Notify \/ StartServer \/ CloseListener
    BY <1>1, <1>t, OtherStepKeeps
    DEF StartGoroutines, Notify, StartServer, CloseListener, MainStep, TypeOK
  <1>2. CASE TakeSignal
    <2>1. inShutdown' \in BOOLEAN
      BY <1>2 DEF TakeSignal
    <2> QED
      BY <1>2, <2>1, <1>t, OtherStepKeeps DEF TakeSignal, MainStep, TypeOK
  <1>3. CASE ListenAndServe("listening") \/ ListenAndServe("failed")
    BY <1>3, <1>t, OtherStepKeeps DEF ListenAndServe, loopVars, TypeOK
  <1>4. CASE Drained \/ NewK8ManagerFails \/ Killed
    BY <1>4, EndKeeps DEF Drained, NewK8ManagerFails, Killed
  <1>5. ASSUME NEW c \in Connection, RequestRuns(c)
        PROVE  IInv'
    BY <1>5, RequestKeeps
  <1>6. ASSUME NEW c \in Connection, NEW h \in HandlerFns, NEW calls \in CallsOf(h),
               Receive(c, h, calls)
        PROVE  IInv'
    <2>1. PICK at \in {"input", "calls"} :
              RequestStep(c, "open", [NoRequest EXCEPT !.h = h, !.calls = calls, !.at = at])
      BY <1>6 DEF Receive
    <2>2. inShutdown' \in BOOLEAN
      BY <1>6, <1>t DEF Receive, TypeOK
    <2>3. h = "doGetPodReplicaCount" => calls = <<"k8s">>
      BY Zenon DEF CallsOf
    <2> QED
      BY <2>1, <2>2, <2>3, CallsTyped, ReceivedGood, StepKeeps
  <1>7. CASE BeginPass \/ EndPass
    BY <1>7, <1>t, OtherStepKeeps DEF BeginPass, EndPass, WatchStep, mainVars, TypeOK
  <1>8. CASE BeginCheck \/ CheckReturns \/ CheckFails
    <2>1. stale' \in BOOLEAN
      BY <1>8, <1>t DEF BeginCheck, CheckReturns, CheckFails, TypeOK
    <2> QED
      BY <1>8, <2>1, <1>t, OtherStepKeeps
      DEF BeginCheck, CheckReturns, CheckFails, BeatStep, mainVars, TypeOK
  <1>9. CASE ProbeFails \/ Signal
    <2>1. termSent' \in BOOLEAN
      BY <1>9 DEF ProbeFails, Signal
    <2> QED
      BY <1>9, <2>1, <1>t, OtherStepKeeps
      DEF ProbeFails, Signal, InChannel, loopVars, TypeOK
  <1>10. CASE Restart
    BY <1>10, <1>t, OtherStepKeeps DEF Restart, loopVars, TypeOK
  <1>11. CASE PodGoesStale
    <2>1. stale' \in BOOLEAN
      BY <1>11 DEF PodGoesStale
    <2> QED
      BY <1>11, <2>1, <1>t, OtherStepKeeps DEF PodGoesStale, mainVars, TypeOK
  <1>12. ASSUME NEW c \in Connection, Accept(c) \/ Disconnect(c)
         PROVE  IInv'
    <2>1. PICK from : \/ RequestStep(c, from, NoRequest)
                      \/ RequestStep(c, from, OpenConnection)
      BY <1>12 DEF Accept, Disconnect
    <2>2. inShutdown' \in BOOLEAN
      BY <1>12, <1>t DEF Accept, Disconnect, TypeOK
    <2> QED
      BY <2>1, <2>2, NoRequestGood, StepKeeps
  <1>13. CASE UNCHANGED vars
    BY <1>13, <1>t, OtherStepKeeps DEF vars, mainVars, loopVars, TypeOK
  <1> QED
    BY <1>1, <1>2, <1>3, <1>4, <1>5, <1>6, <1>7, <1>8, <1>9, <1>10, <1>11, <1>12,
       <1>13
    DEF Next, Running, Disturbance, MainRuns, MainFails, Kubernetes

-----------------------------------------------------------------------------
(***************************************************************************)
(* Every variable keeps its type, for any number of connections.           *)
(***************************************************************************)
THEOREM TypeCorrect == Spec => []TypeOK
  <1>1. IInv => TypeOK
    BY DEF IInv
  <1> QED
    BY <1>1, InitIInv, NextIInv, PTL DEF Spec

(***************************************************************************)
(* A lookup answers 500 if and only if one of its calls returned an error  *)
(* to it, whatever the other requests, the loops and the shutdown do       *)
(* meanwhile.                                                              *)
(***************************************************************************)
THEOREM ErrorsAreReported == Spec => []CallErrorsReported
  <1>1. IInv => CallErrorsReported
    BY DEF IInv, CallErrorsReported, AnswerSoFar
  <1> QED
    BY <1>1, InitIInv, NextIInv, PTL DEF Spec

(***************************************************************************)
(* Every handler answers with a status and no more than one document, but  *)
(* for doGetPodReplicaCount after an error.                                *)
(***************************************************************************)
THEOREM AnswersAreSingle == Spec => []AnsweredOnce
  <1>1. IInv => AnsweredOnce
    BY DEF IInv, AnsweredOnce, AnswerSoFar
  <1> QED
    BY <1>1, InitIInv, NextIInv, PTL DEF Spec

-----------------------------------------------------------------------------
\* Once it is closed the listener is not opened again.
ListenerClosed == mainPc = "drain" => server \in {"closed", "failed"}

ShutdownInv == SignalKept /\ ListenerClosed

(***************************************************************************)
(* No step of main or of the server loses the signal or opens a listener   *)
(* that was closed; requests and loops touch neither.                      *)
(***************************************************************************)
LEMMA NextShutdown == ShutdownInv /\ [Next]_vars => ShutdownInv'
  <1> SUFFICES ASSUME ShutdownInv, [Next]_vars
               PROVE  ShutdownInv'
    OBVIOUS
  <1> USE DEF ShutdownInv, SignalKept, ListenerClosed
  <1>1. CASE StartGoroutines \/ Notify \/ StartServer \/ TakeSignal \/ CloseListener
    BY <1>1 DEF StartGoroutines, Notify, StartServer, TakeSignal, CloseListener, MainStep
  <1>2. CASE ListenAndServe("listening") \/ ListenAndServe("failed")
    BY <1>2 DEF ListenAndServe
  <1>3. CASE ProcessEnds
    BY <1>3 DEF ProcessEnds
  <1>4. CASE Signal
    BY <1>4 DEF Signal, InChannel
  <1>5. CASE Restart
    BY <1>5 DEF Restart
  <1>6. CASE UNCHANGED mainVars
    BY <1>6 DEF mainVars
  <1>7. ASSUME NEW c \in Connection,
               \/ RequestRuns(c)
               \/ Accept(c) \/ Disconnect(c)
               \/ \E h \in HandlerFns : \E calls \in CallsOf(h) : Receive(c, h, calls)
        PROVE  UNCHANGED mainVars
    BY <1>7 DEF RequestRuns, GoodInput, BadInput, CallReturns, CallFails, CallPanics,
                Finish, EndRequest, Accept, Disconnect, Receive, RequestStep
  <1>8. CASE \/ BeginPass \/ EndPass \/ BeginCheck \/ CheckReturns \/ CheckFails
             \/ PodGoesStale \/ UNCHANGED vars
    BY <1>6, <1>8 DEF BeginPass, EndPass, WatchStep, BeginCheck, CheckReturns, CheckFails,
                      BeatStep, PodGoesStale, vars
  <1> QED
    BY <1>1, <1>2, <1>3, <1>4, <1>5, <1>6, <1>7, <1>8
    DEF Next, Running, Disturbance, MainRuns, MainFails, Kubernetes, Drained,
        NewK8ManagerFails, Killed, ProbeFails

\* ShutdownInv holds in every reachable state.
LEMMA ShutdownInvariance == Spec => []ShutdownInv
  <1>1. Init => ShutdownInv
    BY DEF Init, ShutdownInv, SignalKept, ListenerClosed
  <1> QED
    BY <1>1, NextShutdown, PTL DEF Spec

(***************************************************************************)
(* A signal that comes once Notify has been called is not lost, wherever   *)
(* main is and whatever else goes on.                                      *)
(***************************************************************************)
THEOREM SignalIsKept == Spec => []SignalKept
  <1>1. ShutdownInv => SignalKept
    BY DEF ShutdownInv
  <1> QED
    BY <1>1, ShutdownInvariance, PTL

(***************************************************************************)
(* A step on one connection that brings it nearer to its end leaves every  *)
(* connection where it was or nearer to its end.                           *)
(***************************************************************************)
LEMMA StepNearer ==
    ASSUME TypeOK, NEW c \in Connection, NEW from, NEW next,
           RequestStep(c, from, next), Nearer(next, req[c]), NEW d \in Connection
    PROVE  req'[d] = req[d] \/ Nearer(req'[d], req[d])
  BY DEF TypeOK, RequestStep

(***************************************************************************)
(* A call that has returned leaves fewer calls to make.                    *)
(***************************************************************************)
LEMMA CallNearer ==
    ASSUME NEW q \in Request, q.at = "calls", q.calls # <<>>
    PROVE  Nearer(NextCall(q), q)
  <1>1. Len(Tail(q.calls)) < Len(q.calls)
    BY DEF Request
  <1>2. NextCall(q).at = q.at /\ NextCall(q).calls = Tail(q.calls)
    BY CallMade
  <1> QED
    BY <1>1, <1>2 DEF Nearer

(***************************************************************************)
(* A call that has failed does, too, or ends the handler.                  *)
(***************************************************************************)
LEMMA ErrorNearer ==
    ASSUME NEW q \in Request, q.at = "calls", q.calls # <<>>
    PROVE  Nearer(AfterError([q EXCEPT !.error = TRUE]), q)
  <1> DEFINE e == [q EXCEPT !.error = TRUE]
             s == SendResponseJSON(e, 500)
  <1>0. TRUE \in BOOLEAN
    OBVIOUS
  <1>1. e \in Request /\ e.at = q.at /\ e.calls = q.calls
    BY <1>0, ErrorNoted
  <1> HIDE DEF e
  <1>2. s \in Request /\ s.at = q.at /\ s.calls = q.calls
    BY <1>1, ResponseSent
  <1> HIDE DEF s
  <1>3. AfterError(e) \in {NextCall(e), NextCall(s), [s EXCEPT !.at = "sent"]}
    BY DEF AfterError, AnswerAndGoOn, s
  <1>4. Nearer(NextCall(e), e) /\ Nearer(NextCall(s), s)
    BY <1>1, <1>2, CallNearer
  <1>5. Nearer(NextCall(e), q) /\ Nearer(NextCall(s), q)
    BY <1>1, <1>2, <1>4 DEF Nearer
  <1>6. [s EXCEPT !.at = "sent"].at = "sent"
    BY <1>2, Moved
  <1>7. Nearer([s EXCEPT !.at = "sent"], q)
    BY <1>6 DEF Nearer, Stage
  <1> QED
    BY <1>3, <1>5, <1>7 DEF e

(***************************************************************************)
(* A step of a handler, while main drains, brings its request nearer to    *)
(* its end: the connection is not kept alive after it.                     *)
(***************************************************************************)
LEMMA RequestNearer ==
    ASSUME IInv, mainPc = "drain", NEW c \in Connection, RequestRuns(c),
           NEW d \in Connection
    PROVE  req'[d] = req[d] \/ Nearer(req'[d], req[d])
  <1> DEFINE q == req[c]
  <1>q. q \in Request /\ TypeOK
    BY DEF IInv, TypeOK
  <1> SUFFICES \E from, next : RequestStep(c, from, next) /\ Nearer(next, q)
    BY <1>q, StepNearer
  <1>0. NoRequest.at = "none"
    BY DEF NoRequest
  <1>1. CASE GoodInput(c)
    <2>1. q.at = "input" /\ RequestStep(c, "input", [q EXCEPT !.at = "calls"])
      BY <1>1 DEF GoodInput, RequestStep
    <2> HIDE DEF q
    <2>2. [q EXCEPT !.at = "calls"].at = "calls"
      BY <1>q, Moved
    <2>3. Nearer([q EXCEPT !.at = "calls"], q)
      BY <2>1, <2>2 DEF Nearer, Stage
    <2> QED
      BY <2>1, <2>3
  <1>2. CASE BadInput(c)
    <2> DEFINE s == SendResponseJSON(q, 400)
    <2>1. q.at = "input" /\ RequestStep(c, "input", [s EXCEPT !.at = "sent"])
      BY <1>2 DEF BadInput, RequestStep
    <2> HIDE DEF q
    <2>2. s \in Request
      BY <1>q, ResponseSent
    <2> HIDE DEF s
    <2>3. [s EXCEPT !.at = "sent"].at = "sent"
      BY <2>2, Moved
    <2>4. Nearer([s EXCEPT !.at = "sent"], q)
      BY <2>1, <2>3 DEF Nearer, Stage
    <2> QED
      BY <2>1, <2>4
  <1>3. CASE CallReturns(c)
    <2>1. q.at = "calls" /\ q.calls # <<>> /\ RequestStep(c, "calls", NextCall(q))
      BY <1>3 DEF CallReturns, RequestStep
    <2> HIDE DEF q
    <2> QED
      BY <1>q, <2>1, CallNearer
  <1>4. CASE CallFails(c)
    <2>1. /\ q.at = "calls" /\ q.calls # <<>>
          /\ RequestStep(c, "calls", AfterError([q EXCEPT !.error = TRUE]))
      BY <1>4 DEF CallFails, RequestStep
    <2> HIDE DEF q
    <2> QED
      BY <1>q, <2>1, ErrorNearer
  <1>5. CASE CallPanics(c) \/ EndRequest(c)
    <2>1. PICK from \in {"calls", "sent"} : q.at = from /\ RequestStep(c, from, NoRequest)
      BY <1>5 DEF CallPanics, EndRequest, RequestStep
    <2> HIDE DEF q
    <2>2. Nearer(NoRequest, q)
      BY <1>0, <2>1 DEF Nearer, Stage
    <2> QED
      BY <2>1, <2>2
  <1>6. CASE Finish(c)
    <2> DEFINE a == Answer(q)
    <2>1. q.at = "calls" /\ RequestStep(c, "calls", [a EXCEPT !.at = "sent"])
      BY <1>6 DEF Finish, RequestStep
    <2> HIDE DEF q
    <2>2. a \in {WriteHeader(q, 204), WriteHeader(q, 200), SendResponseJSON(q, 200)}
      BY DEF Answer, doLiveness, doHealth
    <2> HIDE DEF a
    <2>3. a \in Request
      BY <1>q, <2>2, HeaderWritten, ResponseSent
    <2>4. [a EXCEPT !.at = "sent"].at = "sent"
      BY <2>3, Moved
    <2>5. Nearer([a EXCEPT !.at = "sent"], q)
      BY <2>1, <2>4 DEF Nearer, Stage
    <2> QED
      BY <2>1, <2>5
  <1> QED
    BY <1>1, <1>2, <1>3, <1>4, <1>5, <1>6 DEF RequestRuns

(***************************************************************************)
(* While Shutdown waits, no connection is made and none is kept alive, for *)
(* any number of connections: each has at most one more request, every     *)
(* step of which brings it nearer to its end.                              *)
(***************************************************************************)
THEOREM DrainingProceeds == Spec => DrainProceeds
  <1>1. ASSUME IInv, ListenerClosed, [Next]_vars, mainPc = "drain", NEW d \in Connection
        PROVE  req'[d] = req[d] \/ Nearer(req'[d], req[d])
    <2>t. TypeOK
      BY <1>1 DEF IInv
    <2>1. CASE UNCHANGED req
      BY <2>1
    <2>2. CASE ProcessEnds
      <3>1. req'[d] = NoRequest /\ NoRequest.at = "none"
        BY <2>2 DEF ProcessEnds, NoRequest
      <3>2. req[d] \in Request /\ (req[d].at = "none" => req[d] = NoRequest)
        BY <1>1 DEF IInv, TypeOK, AnswerSoFar
      <3>3. req[d].at # "none" => Nearer(NoRequest, req[d])
        BY <3>1, <3>2 DEF Nearer, Stage, Request
      <3> QED
        BY <3>1, <3>2, <3>3
    <2>3. ASSUME NEW c \in Connection, RequestRuns(c)
          PROVE  req'[d] = req[d] \/ Nearer(req'[d], req[d])
      BY <1>1, <2>3, RequestNearer
    <2>4. ASSUME NEW c, Accept(c)
          PROVE  FALSE
      BY <1>1, <2>4 DEF Accept, ListenerClosed
    <2>5. ASSUME NEW c \in Connection, Disconnect(c)
          PROVE  req'[d] = req[d] \/ Nearer(req'[d], req[d])
      <3>1. RequestStep(c, "open", NoRequest) /\ req[c].at = "open"
        BY <2>5 DEF Disconnect, RequestStep
      <3>2. Nearer(NoRequest, req[c])
        BY <3>1 DEF Nearer, Stage, NoRequest
      <3> QED
        BY <2>t, <3>1, <3>2, StepNearer
    <2>6. ASSUME NEW c \in Connection, NEW h \in HandlerFns, NEW calls \in CallsOf(h),
                 Receive(c, h, calls)
          PROVE  req'[d] = req[d] \/ Nearer(req'[d], req[d])
      <3>1. PICK at \in {"input", "calls"} :
                RequestStep(c, "open", [NoRequest EXCEPT !.h = h, !.calls = calls, !.at = at])
        BY <2>6 DEF Receive
      <3>2. req[c].at = "open"
        BY <3>1 DEF RequestStep
      <3> DEFINE r == [NoRequest EXCEPT !.h = h, !.calls = calls, !.at = at]
      <3>3. r.at = at
        BY NoRequestGood DEF Request
      <3> HIDE DEF r
      <3>4. Nearer(r, req[c])
        BY <3>2, <3>3 DEF Nearer, Stage
      <3> QED
        BY <2>t, <3>1, <3>4, StepNearer DEF r
    <2>7. \/ UNCHANGED req \/ ProcessEnds \/ \E c \in Connection : RequestRuns(c)
          \/ \E c \in Connection : Accept(c) \/ Disconnect(c)
          \/ \E c \in Connection, h \in HandlerFns :
                 \E calls \in CallsOf(h) : Receive(c, h, calls)
      BY <1>1
      DEF Next, Running, Disturbance, MainRuns, MainFails, Kubernetes, StartGoroutines,
          Notify, StartServer, TakeSignal, CloseListener, MainStep, ListenAndServe, Drained,
          NewK8ManagerFails, Killed, BeginPass, EndPass, WatchStep, BeginCheck,
          CheckReturns, CheckFails, BeatStep, ProbeFails, Signal, Restart, PodGoesStale, vars
    <2> QED
      BY <2>1, <2>2, <2>3, <2>4, <2>5, <2>6, <2>7
  <1>2. IInv /\ ShutdownInv /\ [Next]_vars
          => [mainPc = "drain"
                => \A c \in Connection : req'[c] = req[c] \/ Nearer(req'[c], req[c])]_vars
    BY <1>1 DEF ShutdownInv
  <1>3. Spec => []IInv
    BY InitIInv, NextIInv, PTL DEF Spec
  <1> QED
    BY <1>2, <1>3, ShutdownInvariance, PTL DEF Spec, DrainProceeds

=============================================================================
