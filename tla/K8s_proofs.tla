----------------------------- MODULE K8s_proofs -----------------------------
(***************************************************************************)
(* Proofs about the Kubernetes backend.  For any number of dials,          *)
(* connections and pod failures, PortForward leaks no connection and cuts    *)
(* nobody's stream.  For any cluster and options, Resolver names the first *)
(* pod that is wanted and ready, and says "not found" only of a target     *)
(* that was absent.                                                        *)
(***************************************************************************)
EXTENDS PortForward, Resolver, FiniteSetTheorems, WellFoundedInduction, TLAPS

-----------------------------------------------------------------------------
(* The port-forward backend: the cache of connections and the streams      *)

\* A dial has a result when it has returned, and timers and drainError
\* goroutines belong to streams.
DialsAndStreams ==
    \A d \in Dials :
        /\ pc[d] # "ret" => result[d] = "none"
        /\ timer[d] \/ drain[d] # "done" => data[d] # "none"

\* A connection that is on its way to the cache is known to the dial that
\* opened it and to nobody else.
InstallsAreExclusive ==
    \A d \in Dials : pc[d] = "install" =>
        /\ using[d] # cached
        /\ \A e \in Dials \ {d} : using[e] # using[d]

\* An open connection is the cached one, or on its way to the cache.
OpenIsTracked ==
    \A c \in Conns :
        Alive(c) =>
            cached = c \/ \E d \in Dials : pc[d] = "install" /\ using[d] = c

StoppedCachesNothing == stopped => cached = NoConn

PortForwardInv ==
    /\ TypeOK
    /\ DialsAndStreams
    /\ InstallsAreExclusive
    /\ OpenIsTracked
    /\ StoppedCachesNothing

\* The steps of a stream leave the dials and the cache alone.
LEMMA StreamsStep ==
    ASSUME PortForwardInv, NEW d \in Dials, Streams(d)
    PROVE  PortForwardInv' /\ UNCHANGED <<conn, using, stopped, failures>>
<1> USE DEF PortForwardInv, TypeOK, StreamTypeOK, DialsAndStreams
<1>1. UNCHANGED <<conn, using, pc, result, cached, stopped, failures>>
  BY DEF Streams, StreamStep, StreamEnv, DeadlinePasses, DrainReads,
     DrainCloses, UserCloses, SetDeadline, KubeletEnds
<1>2. /\ data' \in [Dials -> {"none", "open", "ended", "closed"}]
      /\ err' \in [Dials -> {"open", "ended", "message"}]
      /\ timer' \in [Dials -> BOOLEAN]
      /\ drain' \in [Dials -> {"reading", "close", "done"}]
      /\ \A e \in Dials : data'[e] = "none" <=> data[e] = "none"
      /\ \A e \in Dials : timer'[e] \/ drain'[e] # "done" => data[e] # "none"
  <2>1. CASE DeadlinePasses(d)
    BY <2>1 DEF DeadlinePasses, CloseStream
  <2>2. CASE DrainReads(d)
    <3>1. UNCHANGED <<data, err, timer>> /\ drain[d] = "reading"
      BY <2>2 DEF DrainReads
    <3>2. \/ drain' = [drain EXCEPT ![d] = "close"]
          \/ drain' = [drain EXCEPT ![d] = "done"]
      BY <2>2 DEF DrainReads
    <3> QED
      BY <3>1, <3>2
  <2>3. CASE DrainCloses(d)
    BY <2>3 DEF DrainCloses, CloseStream
  <2>4. CASE UserCloses(d)
    BY <2>4 DEF UserCloses, CloseStream
  <2>5. CASE SetDeadline(d)
    BY <2>5 DEF SetDeadline
  <2>6. CASE KubeletEnds(d)
    BY <2>6 DEF KubeletEnds
  <2> QED
    BY <2>1, <2>2, <2>3, <2>4, <2>5, <2>6 DEF Streams, StreamStep, StreamEnv
<1>3. TypeOK' /\ DialsAndStreams'
  BY <1>1, <1>2
<1>4. InstallsAreExclusive' /\ OpenIsTracked' /\ StoppedCachesNothing'
  BY <1>1 DEF InstallsAreExclusive, OpenIsTracked, Alive, StoppedCachesNothing
<1> QED
  BY <1>1, <1>3, <1>4

\* A new backend is idle and has no connection.
LEMMA InitPortForwardInv == Init => PortForwardInv
<1> SUFFICES ASSUME Init PROVE PortForwardInv
  OBVIOUS
<1> USE PortForwardAssumption DEF Init, StreamInit
<1>1. StreamTypeOK
  BY DEF StreamTypeOK
<1>2. failures \in 0..MaxFailures
  OBVIOUS
<1>3. TypeOK
  BY <1>1, <1>2 DEF TypeOK
<1>4. DialsAndStreams /\ InstallsAreExclusive
  BY DEF DialsAndStreams, InstallsAreExclusive
<1>5. OpenIsTracked /\ StoppedCachesNothing
  BY DEF OpenIsTracked, Alive, StoppedCachesNothing
<1> QED
  BY <1>3, <1>4, <1>5 DEF PortForwardInv

\* DialContext is called: it looks at stopped and at nothing else.
LEMMA DialBeginStep ==
    ASSUME PortForwardInv, NEW d \in Dials, DialBegin(d)
    PROVE  PortForwardInv'
<1> USE PortForwardAssumption
    DEF PortForwardInv, TypeOK, StreamTypeOK, DialsAndStreams, DialBegin,
        streamVars,
        Goto, Return,
          Closed, Alive
<1>1. TypeOK' /\ DialsAndStreams'
  OBVIOUS
<1>2. InstallsAreExclusive'
  BY DEF InstallsAreExclusive
<1>3. OpenIsTracked' /\ StoppedCachesNothing'
  BY DEF OpenIsTracked, StoppedCachesNothing
<1> QED
  BY <1>1, <1>2, <1>3

\* Reusing the cached connection gives no dial a connection being installed.
LEMMA EnsureStep ==
    ASSUME PortForwardInv, NEW d \in Dials, Ensure(d)
    PROVE  PortForwardInv'
<1> USE PortForwardAssumption
    DEF PortForwardInv, TypeOK, StreamTypeOK, DialsAndStreams, Ensure,
        streamVars,
        Goto, Return,
          Closed, Alive
<1>1. TypeOK' /\ DialsAndStreams'
  OBVIOUS
<1>2. InstallsAreExclusive'
  BY DEF InstallsAreExclusive
<1>3. OpenIsTracked' /\ StoppedCachesNothing'
  BY DEF OpenIsTracked, StoppedCachesNothing
<1> QED
  BY <1>1, <1>2, <1>3

\* A new connection is on its way to the cache, and known to nobody else.
LEMMA ResolveStep ==
    ASSUME PortForwardInv, NEW d \in Dials, Resolve(d)
    PROVE  PortForwardInv'
<1> USE PortForwardAssumption
    DEF PortForwardInv, TypeOK, StreamTypeOK, DialsAndStreams, Resolve,
        streamVars,
        Goto, Return,
          Closed, Alive
<1>1. \/ /\ UNCHANGED <<conn, using>>
         /\ Return(d, "Retryable")
      \/ \E c \in Conns : /\ Fresh(c) /\ c # NoConn
                         /\ conn' = [conn EXCEPT ![c] = "open"]
                         /\ using' = [using EXCEPT ![d] = c]
                         /\ Goto(d, "install") /\ UNCHANGED result
  OBVIOUS
<1>2. TypeOK' /\ DialsAndStreams'
  BY <1>1 DEF Fresh
<1>3. InstallsAreExclusive'
  BY <1>1 DEF Fresh, InstallsAreExclusive
<1>4. OpenIsTracked' /\ StoppedCachesNothing'
  BY <1>1 DEF Fresh, OpenIsTracked, StoppedCachesNothing
<1> QED
  BY <1>2, <1>3, <1>4

\* Whoever wins the race for the cache, the connection that loses is closed.
LEMMA InstallStep ==
    ASSUME PortForwardInv, NEW d \in Dials, Install(d)
    PROVE  PortForwardInv'
<1> USE PortForwardAssumption DEF PortForwardInv, TypeOK, StreamTypeOK,
    DialsAndStreams
<1>1. CASE InstallStopped(d)
  <2> USE <1>1 DEF InstallStopped, Install, streamVars, Goto, Return,
          Closed, Alive
  <2>1. TypeOK' /\ DialsAndStreams'
    OBVIOUS
  <2>2. InstallsAreExclusive'
    BY DEF InstallsAreExclusive
  <2>3. OpenIsTracked' /\ StoppedCachesNothing'
    BY DEF InstallsAreExclusive, OpenIsTracked, StoppedCachesNothing
  <2> QED
    BY <2>1, <2>2, <2>3
<1>2. CASE InstallLost(d)
  <2> USE <1>2 DEF InstallLost, Install, streamVars, Goto, Return,
          Closed, Alive
  <2>1. TypeOK' /\ DialsAndStreams'
    OBVIOUS
  <2>2. InstallsAreExclusive'
    BY DEF InstallsAreExclusive
  <2>3. OpenIsTracked' /\ StoppedCachesNothing'
    BY DEF InstallsAreExclusive, OpenIsTracked, StoppedCachesNothing
  <2> QED
    BY <2>1, <2>2, <2>3
<1>3. CASE InstallWon(d)
  <2> USE <1>3 DEF InstallWon, Install, streamVars, Goto, Return,
          Closed, Alive
  <2>1. TypeOK' /\ DialsAndStreams'
    OBVIOUS
  <2>2. InstallsAreExclusive'
    BY DEF InstallsAreExclusive
  <2>3. OpenIsTracked' /\ StoppedCachesNothing'
    BY DEF InstallsAreExclusive, OpenIsTracked, StoppedCachesNothing
  <2> QED
    BY <2>1, <2>2, <2>3
<1> QED
  BY <1>1, <1>2, <1>3 DEF Install

\* A stream opened over a connection changes no connection.
LEMMA StreamOpensStep ==
    ASSUME PortForwardInv, NEW d \in Dials, Stream(d)
    PROVE  PortForwardInv'
<1> USE PortForwardAssumption
    DEF PortForwardInv, TypeOK, StreamTypeOK, DialsAndStreams, Stream,
        streamVars,
        Goto, Return, Opened, Closed, Alive
<1>1. \/ /\ Return(d, "stream") /\ Opened(d)
      \/ Goto(d, "drop") /\ UNCHANGED <<result, data, err, timer, drain>>
  OBVIOUS
<1>2. TypeOK' /\ DialsAndStreams'
  <2>1. CASE Return(d, "stream") /\ Opened(d)
    <3>1. TypeOK'
      BY <2>1
    <3>2. DialsAndStreams'
      BY <2>1
    <3> QED
      BY <3>1, <3>2
  <2>2. CASE Goto(d, "drop") /\ UNCHANGED <<result, data, err, timer, drain>>
    BY <2>2
  <2> QED
    BY <1>1, <2>1, <2>2
<1>3. InstallsAreExclusive'
  BY DEF InstallsAreExclusive
<1>4. OpenIsTracked' /\ StoppedCachesNothing'
  BY DEF OpenIsTracked, StoppedCachesNothing
<1> QED
  BY <1>2, <1>3, <1>4

\* A dial whose stream failed closes the connection only as it leaves the
\* cache.
LEMMA DropConnStep ==
    ASSUME PortForwardInv, NEW d \in Dials, DropConn(d)
    PROVE  PortForwardInv'
<1> USE PortForwardAssumption
    DEF PortForwardInv, TypeOK, StreamTypeOK, DialsAndStreams, DropConn,
        streamVars,
        Goto, Return,
          Closed, Alive
<1>1. TypeOK' /\ DialsAndStreams'
  OBVIOUS
<1>2. InstallsAreExclusive'
  BY DEF InstallsAreExclusive
<1>3. OpenIsTracked' /\ StoppedCachesNothing'
  BY DEF OpenIsTracked, StoppedCachesNothing
<1> QED
  BY <1>1, <1>2, <1>3

\* A dial that starts over has let go of its connection and its stream.
LEMMA RedialStep ==
    ASSUME PortForwardInv, NEW d \in Dials, Redial(d)
    PROVE  PortForwardInv'
<1> USE PortForwardAssumption
    DEF PortForwardInv, TypeOK, StreamTypeOK, DialsAndStreams, Redial,
        streamVars,
        Goto, Return,
          Closed, Alive
<1>1. TypeOK' /\ DialsAndStreams'
  OBVIOUS
<1>2. InstallsAreExclusive'
  BY DEF InstallsAreExclusive
<1>3. OpenIsTracked' /\ StoppedCachesNothing'
  BY DEF OpenIsTracked, StoppedCachesNothing
<1> QED
  BY <1>1, <1>2, <1>3

\* Stop closes the cached connection and caches nothing any more.
LEMMA StopStep ==
    ASSUME PortForwardInv, Stop
    PROVE  PortForwardInv'
<1> USE PortForwardAssumption DEF PortForwardInv, TypeOK, StreamTypeOK,
    DialsAndStreams,
        Stop, streamVars, Closed
<1>1. TypeOK' /\ DialsAndStreams'
  OBVIOUS
<1>2. InstallsAreExclusive'
  BY DEF InstallsAreExclusive
<1>3. OpenIsTracked' /\ StoppedCachesNothing'
  BY DEF OpenIsTracked, Alive, StoppedCachesNothing
<1> QED
  BY <1>1, <1>2, <1>3

\* A pod that fails disturbs one connection.
LEMMA PodFailsStep ==
    ASSUME PortForwardInv, NEW c \in Conns, PodFails(c)
    PROVE  PortForwardInv'
<1> USE PortForwardAssumption DEF PortForwardInv, TypeOK, StreamTypeOK,
    DialsAndStreams,
        PodFails, streamVars
<1>1. TypeOK' /\ DialsAndStreams'
  OBVIOUS
<1>2. InstallsAreExclusive'
  BY DEF InstallsAreExclusive
<1>3. OpenIsTracked' /\ StoppedCachesNothing'
  BY DEF OpenIsTracked, Alive, StoppedCachesNothing
<1> QED
  BY <1>1, <1>2, <1>3

\* No step breaks the invariant.
LEMMA NextPortForwardInv == PortForwardInv /\ [Next]_vars => PortForwardInv'
<1> SUFFICES ASSUME PortForwardInv, [Next]_vars PROVE PortForwardInv'
  OBVIOUS
<1>1. ASSUME NEW d \in Dials,
             DialBegin(d) \/ Step(d) \/ Redial(d) \/ Streams(d)
      PROVE  PortForwardInv'
  BY <1>1, DialBeginStep, EnsureStep, ResolveStep, InstallStep,
     StreamOpensStep, DropConnStep, RedialStep, StreamsStep DEF Step
<1>2. ASSUME NEW c \in Conns, PodFails(c) PROVE PortForwardInv'
  BY <1>2, PodFailsStep
<1>3. CASE Stop
  BY <1>3, StopStep
<1>4. CASE UNCHANGED vars
  BY <1>4 DEF vars, streamVars, Alive, PortForwardInv, TypeOK, StreamTypeOK,
      DialsAndStreams,
     InstallsAreExclusive, OpenIsTracked, StoppedCachesNothing
<1> QED
  BY <1>1, <1>2, <1>3, <1>4 DEF Next, Terminated

\* The invariant holds in every state of every execution.
THEOREM PortForwardInvariance == Spec => []PortForwardInv
  BY InitPortForwardInv, NextPortForwardInv, PTL DEF Spec

\* No open connection is ever forgotten, by losing the race to install it, by
\* dropConn or by Stop, and after Stop no stream works.
THEOREM NoLeakTheorem == Spec => []NoConnectionLeaks
<1>1. PortForwardInv => NoConnectionLeaks
  <2> SUFFICES ASSUME PortForwardInv PROVE NoConnectionLeaks
    OBVIOUS
  <2>1. TypeOK /\ (stopped => cached = NoConn)
    BY DEF PortForwardInv, StoppedCachesNothing
  <2>2. ASSUME stopped, NEW d \in Dials, Works(d) PROVE FALSE
    <3>1. pc[d] = "ret" /\ using[d] \in Conns /\ Alive(using[d])
      BY <2>2 DEF PortForwardInv, TypeOK, StreamTypeOK, DialsAndStreams, Works,
             Alive
    <3>2. PICK e \in Dials : pc[e] = "install" /\ using[e] = using[d]
      BY <2>1, <2>2, <3>1, PortForwardAssumption DEF PortForwardInv,
          OpenIsTracked
    <3> QED
      BY <3>1, <3>2 DEF PortForwardInv, InstallsAreExclusive
  <2> QED
    BY <2>1, <2>2 DEF PortForwardInv, OpenIsTracked, NoConnectionLeaks
<1> QED
  BY <1>1, PortForwardInvariance, PTL

\* Dials that race to install, replace or drop the shared connection never cut
\* a stream that works: whoever closes its connection is Stop, the pod's end or
\* a dial whose own stream failed on it.
THEOREM NoCutTheorem == Spec => StreamsAreNotCut
<1> DEFINE Cut(d) == Works(d) /\ ~Alive(using[d])'
           Excused(d) == \/ stopped' /\ ~stopped
                         \/ failures' # failures
                         \/ \E e \in Dials :
                               pc[e] = "drop" /\ using[e] = using[d]
<1>1. PortForwardInv /\ [Next]_vars =>
         \A d \in Dials : Cut(d) => Excused(d)
  <2> SUFFICES ASSUME PortForwardInv, [Next]_vars, NEW d \in Dials, Cut(d)
               PROVE  Excused(d)
    OBVIOUS
  <2>1. pc[d] = "ret" /\ using[d] \in Conns /\ Alive(using[d])
    BY DEF PortForwardInv, TypeOK, StreamTypeOK, DialsAndStreams, Works,
             Alive
  <2>2. ~Alive(using[d])'
    OBVIOUS
  <2>3. \A e \in Dials : pc[e] = "install" => using[e] # using[d]
    BY <2>1 DEF PortForwardInv, InstallsAreExclusive
  <2> USE DEF PortForwardInv, TypeOK
  <2>4. ASSUME NEW e \in Dials, Install(e) PROVE Excused(d)
    BY <2>1, <2>2, <2>3, <2>4
       DEF Install, InstallStopped, InstallLost, InstallWon, Closed, Alive
  <2>5. ASSUME NEW e \in Dials, DropConn(e) PROVE Excused(d)
    BY <2>1, <2>2, <2>5 DEF DropConn, Closed, Alive
  <2>6. ASSUME NEW e \in Dials,
               DialBegin(e) \/ Ensure(e) \/ Stream(e) \/ Redial(e)
        PROVE  Excused(d)
    <3>1. data[d] = "open"
      BY DEF Works
    <3>2. using'[d] = using[d] /\ UNCHANGED conn
      BY <2>1, <2>6, <3>1 DEF DialBegin, Ensure, Stream, Redial
    <3> QED
      BY <2>1, <2>2, <3>2 DEF Alive
  <2>7. ASSUME NEW e \in Dials, Resolve(e) PROVE Excused(d)
    <3>1. \/ UNCHANGED conn
          \/ \E c \in Conns : conn' = [conn EXCEPT ![c] = "open"]
      BY <2>7 DEF Resolve
    <3>2. using'[d] = using[d]
      BY <2>1, <2>7 DEF Resolve
    <3> QED
      BY <2>1, <2>2, <3>1, <3>2 DEF Alive
  <2>8. ASSUME NEW e \in Dials, Streams(e) PROVE Excused(d)
    BY <2>1, <2>2, <2>8, StreamsStep DEF Alive
  <2>9. CASE Stop
    BY <2>9 DEF Stop
  <2>10. ASSUME NEW c \in Conns, PodFails(c) PROVE Excused(d)
    BY <2>10 DEF PodFails
  <2>11. CASE UNCHANGED vars
    BY <2>1, <2>2, <2>11 DEF vars, Alive
  <2> QED
    BY <2>4, <2>5, <2>6, <2>8, <2>9, <2>10, <2>11, <2>7
       DEF Next, Step, Terminated
<1> QED
  BY <1>1, PortForwardInvariance, PTL DEF Spec, StreamsAreNotCut

-----------------------------------------------------------------------------
(* The resolver                                                            *)

\* A target that has been there all the time is there, and so is the Service
\* whose pods are asked for.
PresentIsTrue ==
    present =>
        /\ Exists
        /\ at = "list" /\ opts.kind = "service" => got = svc

ResolverInv ==
    /\ ResolverTypeOK /\ PresentIsTrue /\ NotFoundMeansAbsent
    /\ at = "list" /\ opts.kind = "selector" => opts.selector # {}

\* What a resolve may return, by its kind.
LEMMA Outcomes ==
    /\ Nothing # NotFound
    /\ \A p, n : Target(p, n) \notin {Nothing, NotFound}
    /\ \A why : Error(why) # Nothing
    /\ \A why : why # "not found" => Error(why) # NotFound
  BY DEF Nothing, NotFound, Target, Error

\* The choice of the port never says that the target is not there.
LEMMA AnswerFacts ==
    ASSUME NEW p, NEW tp, NEW infer
    PROVE  Answer(p, tp, infer) \notin {Nothing, NotFound}
<1> DEFINE c == containerPort(pods[p], tp, infer)
<1>1. \/ c.ok
      \/ c.why \in {"ambiguous", "no such name", "unset"}
  BY DEF containerPort, inferredContainerPort, namedPort, Port,
     NoPort
<1>2. CASE c.ok
  BY <1>2, Outcomes DEF Answer
<1>3. CASE ~c.ok
  <2>1. Answer(p, tp, infer) = Error(c.why)
    BY <1>3 DEF Answer
  <2>2. c.why # "not found"
    BY <1>1, <1>3
  <2> QED
    BY <2>1, <2>2, Outcomes
<1> QED
  BY <1>2, <1>3

\* A listing says so exactly when no pod matches.
LEMMA SelectorFacts ==
    ASSUME NEW sel, NEW tp, NEW infer
    PROVE  /\ resolveSelector(sel, tp, infer) # Nothing
           /\ resolveSelector(sel, tp, infer) = NotFound =>
                 matching(sel) = {}
<1>1. Error("not ready") \notin {Nothing, NotFound}
  BY Outcomes
<1> DEFINE ready == {p \in matching(sel) : podReady(pods[p])}
<1>2. CASE ready # {}
  <2>1. resolveSelector(sel, tp, infer) =
          Answer(CHOOSE p \in ready : \A q \in ready : p <= q, tp, infer)
    BY <1>2 DEF resolveSelector
  <2> QED
    BY <2>1, AnswerFacts
<1>3. CASE ready = {}
  BY <1>1, <1>3, Outcomes DEF resolveSelector
<1> QED
  BY <1>2, <1>3

\* Whether the target exists depends on the options, the pods and the Service
\* only.
LEMMA ExistsFacts ==
    ASSUME opts \in Options
    PROVE  Exists \in BOOLEAN
<1> opts.kind \in {"pod", "service", "selector"}
  BY ResolverAssumption DEF ResolverAssumption
<1>1. CASE opts.kind = "pod"
  <2>1. Exists = (opts.pod \in DOMAIN pods)
    BY <1>1 DEF Exists
  <2> QED
    BY <2>1
<1>2. CASE opts.kind = "service"
  <2>1. Exists = (svc # None /\ matching(svc.selector) # {})
    BY <1>2 DEF Exists
  <2> QED
    BY <2>1
<1>3. CASE opts.kind = "selector"
  <2>1. Exists = (matching(opts.selector) # {})
    BY <1>3 DEF Exists
  <2> QED
    BY <2>1
<1> QED
  BY <1>1, <1>2, <1>3

LEMMA InitResolverInv ==
    ASSUME ResolverInit
    PROVE  ResolverInv
<1> USE DEF ResolverInit
<1>1. Exists \in BOOLEAN
  BY ExistsFacts
<1>2. PICK S \in SUBSET (1..N) : pods \in [S -> Pod]
  OBVIOUS
<1> MaxChanges \in Nat
  BY ResolverAssumption DEF ResolverAssumption
<1>3. ResolverTypeOK
  BY <1>1, <1>2 DEF ResolverTypeOK
<1>4. PresentIsTrue
  BY DEF PresentIsTrue
<1>5. NotFoundMeansAbsent
  BY <1>3, Outcomes DEF NotFoundMeansAbsent
<1> QED
  BY <1>3, <1>4, <1>5 DEF ResolverInv

\* A step that answers, and leaves the cluster alone.
LEMMA ReturnKeeps ==
    ASSUME ResolverInv, NEW r, Returns(r), r # Nothing,
           r = NotFound => ~present,
           UNCHANGED <<opts, pods, svc, present>>,
           got' \in Services \cup {None},
           changes' \in 0..MaxChanges
    PROVE  ResolverInv'
<1> USE DEF ResolverInv, Returns
<1>1. ResolverTypeOK'
  BY DEF ResolverTypeOK, Nothing
<1>2. PresentIsTrue'
  BY DEF PresentIsTrue, Exists, matching
<1>3. NotFoundMeansAbsent'
  BY <1>1 DEF NotFoundMeansAbsent, NotFound, Error
<1> QED
  BY <1>1, <1>2, <1>3

\* resolvePod.
LEMMA GetPodStep ==
    ASSUME ResolverInv, GetPod
    PROVE  ResolverInv'
<1> USE DEF GetPod
<1> changes' \in 0..MaxChanges /\ got' \in Services \cup {None}
  BY DEF ResolverInv, ResolverTypeOK
<1>1. CASE opts.pod \notin DOMAIN pods
  <2>1. Returns(NotFound)
    BY <1>1
  <2>2. ~Exists
    BY <1>1 DEF Exists
  <2>3. ~present
    BY <2>2 DEF ResolverInv, PresentIsTrue
  <2> QED
    BY <2>1, <2>3, Outcomes, ReturnKeeps
<1>2. CASE opts.pod \in DOMAIN pods /\ ~podReady(pods[opts.pod])
  <2>1. Returns(Error("not ready"))
    BY <1>2
  <2> QED
    BY <2>1, Outcomes, ReturnKeeps
<1>3. CASE opts.pod \in DOMAIN pods /\ podReady(pods[opts.pod])
  <2>1. Returns(Answer(opts.pod, opts.targetPort, ~opts.hasTarget))
    BY <1>3
  <2> QED
    BY <2>1, AnswerFacts, ReturnKeeps
<1> QED
  BY <1>1, <1>2, <1>3

\* resolveService, up to the listing: the Service it has got is the one there.
LEMMA GetServiceStep ==
    ASSUME ResolverInv, GetService
    PROVE  ResolverInv'
<1> USE DEF GetService
<1>1. changes' \in 0..MaxChanges /\ got' \in Services \cup {None}
  BY DEF ResolverInv, ResolverTypeOK
<1>2. CASE ServiceError(svc) = Nothing
  <2>1. svc # None /\ svc.selector # {}
    BY <1>2, Outcomes DEF ServiceError
  <2>2. ResolverTypeOK'
    BY <1>1, <1>2, <2>1 DEF ResolverInv, ResolverTypeOK
  <2>3. PresentIsTrue'
    BY DEF ResolverInv, PresentIsTrue, Exists, matching
  <2>4. NotFoundMeansAbsent'
    BY <1>2, <2>2 DEF ResolverInv, NotFoundMeansAbsent, NotFound, Error
  <2>5. opts'.kind = "service"
    OBVIOUS
  <2> QED
    BY <2>2, <2>3, <2>4, <2>5 DEF ResolverInv
<1>3. CASE ServiceError(svc) # Nothing
  <2>1. ServiceError(svc) = NotFound => svc = None
    BY <1>3, Outcomes DEF ServiceError
  <2>2. svc = None => ~Exists
    BY DEF Exists
  <2>3. ServiceError(svc) = NotFound => ~present
    BY <2>1, <2>2 DEF ResolverInv, PresentIsTrue
  <2>4. Returns(ServiceError(svc))
    BY <1>3
  <2> QED
    BY <1>1, <1>3, <2>3, <2>4, ReturnKeeps
<1> QED
  BY <1>2, <1>3

\* resolve with a selector of its own.
LEMMA UseSelectorStep ==
    ASSUME ResolverInv, UseSelector
    PROVE  ResolverInv'
<1> USE DEF UseSelector
<1>1. changes' \in 0..MaxChanges /\ got' \in Services \cup {None}
  BY DEF ResolverInv, ResolverTypeOK
<1>2. CASE opts.selector # {}
  <2>1. ResolverTypeOK'
    BY <1>1, <1>2 DEF ResolverInv, ResolverTypeOK
  <2>2. PresentIsTrue'
    BY DEF ResolverInv, PresentIsTrue, Exists, matching
  <2>3. NotFoundMeansAbsent'
    BY <1>2, <2>1 DEF ResolverInv, NotFoundMeansAbsent, NotFound, Error
  <2>4. opts'.selector # {}
    BY <1>2
  <2> QED
    BY <2>1, <2>2, <2>3, <2>4 DEF ResolverInv
<1>3. CASE opts.selector = {}
  <2>1. Returns(Error("empty selector"))
    BY <1>3
  <2> QED
    BY <1>1, <2>1, Outcomes, ReturnKeeps
<1> QED
  BY <1>2, <1>3

\* resolveSelector: when it finds no pod, the target is not there.
LEMMA ListPodsStep ==
    ASSUME ResolverInv, ListPods
    PROVE  ResolverInv'
<1> USE DEF ListPods
<1>1. changes' \in 0..MaxChanges /\ got' \in Services \cup {None}
  BY DEF ResolverInv, ResolverTypeOK
<1>2. CASE opts.kind = "selector"
  <2> DEFINE r == resolveSelector(opts.selector, opts.targetPort,
                                    ~opts.hasTarget)
  <2>1. Returns(r)
    BY <1>2
  <2>2. r # Nothing /\ (r = NotFound => matching(opts.selector) = {})
    BY SelectorFacts
  <2>3. matching(opts.selector) = {} => ~Exists
    BY <1>2 DEF Exists
  <2>4. r = NotFound => ~present
    BY <2>2, <2>3 DEF ResolverInv, PresentIsTrue
  <2> HIDE DEF r
  <2> QED
    BY <1>1, <2>1, <2>2, <2>4, ReturnKeeps
<1>3. CASE opts.kind = "service"
  <2> DEFINE tp == IF opts.hasTarget THEN opts.targetPort
                                     ELSE servicePort(got)
             r == resolveSelector(got.selector, tp, FALSE)
  <2>1. Returns(r)
    BY <1>3
  <2>2. r # Nothing /\ (r = NotFound => matching(got.selector) = {})
    BY SelectorFacts
  <2>3. matching(svc.selector) = {} => ~Exists
    BY <1>3 DEF Exists
  <2>4. present => got = svc
    BY <1>3 DEF ResolverInv, PresentIsTrue
  <2>5. r = NotFound => ~present
    BY <2>2, <2>3, <2>4 DEF ResolverInv, PresentIsTrue
  <2> HIDE DEF r
  <2> QED
    BY <1>1, <2>1, <2>2, <2>5, ReturnKeeps
<1> QED
  BY <1>2, <1>3, ResolverAssumption DEF ResolverInv, ResolverTypeOK

\* A request that fails says nothing of the target.
LEMMA ApiFailsStep ==
    ASSUME ResolverInv, ApiFails
    PROVE  ResolverInv'
<1> changes' \in 0..MaxChanges /\ got' \in Services \cup {None}
  BY ResolverAssumption DEF ResolverAssumption, ResolverInv, ResolverTypeOK,
     ApiFails
<1>1. Returns(Error("api"))
  BY DEF ApiFails
<1> QED
  BY <1>1, Outcomes, ReturnKeeps DEF ApiFails

\* A new resolve.
LEMMA RestartStep ==
    ASSUME ResolverInv, Restart
    PROVE  ResolverInv'
<1> USE DEF Restart, ResolverInv
<1>1. Exists \in BOOLEAN
  BY ExistsFacts DEF ResolverTypeOK
<1>2. ResolverTypeOK'
  BY <1>1 DEF ResolverTypeOK
<1>3. Exists' <=> Exists
  BY DEF Exists, matching
<1>4. PresentIsTrue'
  BY <1>3 DEF PresentIsTrue
<1>5. NotFoundMeansAbsent'
  BY <1>2, Outcomes DEF NotFoundMeansAbsent, NotFound, Nothing, Error
<1> QED
  BY <1>2, <1>4, <1>5

\* The cluster changes.
LEMMA ChangedStep ==
    ASSUME ResolverInv, Changed,
           UNCHANGED <<opts, at, got, out>>,
           DOMAIN pods' \subseteq 1..N,
           \A p \in DOMAIN pods' : pods'[p] \in Pod,
           svc' \in Services \cup {None}
    PROVE  ResolverInv'
<1> USE DEF Changed, ResolverInv
<1>1. ResolverTypeOK'
  BY ResolverAssumption DEF ResolverAssumption, ResolverTypeOK, Pod, Nothing
<1>2. PresentIsTrue'
  BY DEF PresentIsTrue
<1>3. NotFoundMeansAbsent'
  BY <1>1 DEF NotFoundMeansAbsent, NotFound, Error
<1> QED
  BY <1>1, <1>2, <1>3

LEMMA PodChangesStep ==
    ASSUME ResolverInv,
           NEW p \in 1..N, PodChanges(p)
    PROVE  ResolverInv'
<1>1. DOMAIN pods' \subseteq 1..N /\ \A q \in DOMAIN pods' : pods'[q] \in Pod
  <2>1. DOMAIN pods \subseteq 1..N /\ \A q \in DOMAIN pods : pods[q] \in Pod
    BY DEF ResolverInv, ResolverTypeOK
  <2>2. CASE pods' = [q \in DOMAIN pods \ {p} |-> pods[q]]
    BY <2>1, <2>2
  <2>3. CASE \E r \in Pod :
               pods' = [q \in DOMAIN pods \cup {p} |-> IF q = p THEN r
                                                      ELSE pods[q]]
    BY <2>1, <2>3
  <2> QED
    BY <2>2, <2>3 DEF PodChanges
<1>2. svc' \in Services \cup {None}
  BY DEF ResolverInv, ResolverTypeOK, PodChanges
<1> QED
  BY <1>1, <1>2, ChangedStep DEF PodChanges

LEMMA ServiceChangesStep ==
    ASSUME ResolverInv,
           ServiceChanges
    PROVE  ResolverInv'
<1>1. /\ DOMAIN pods' \subseteq 1..N
      /\ \A q \in DOMAIN pods' : pods'[q] \in Pod
      /\ svc' \in Services \cup {None}
  BY DEF ResolverInv, ResolverTypeOK, ServiceChanges, Pod
<1> QED
  BY <1>1, ChangedStep DEF ServiceChanges

LEMMA ResolverStutter ==
    ASSUME ResolverInv, UNCHANGED resolverVars
    PROVE  ResolverInv'
  BY DEF ResolverInv, PresentIsTrue, resolverVars, ResolverTypeOK, Pod,
     Nothing, NotFoundMeansAbsent, NotFound, Error, Exists, matching

LEMMA NextResolverInv ==
    ASSUME ResolverInv,
           [ResolverNext]_resolverVars
    PROVE  ResolverInv'
<1>1. CASE GetPod
  BY <1>1, GetPodStep
<1>2. CASE GetService
  BY <1>2, GetServiceStep
<1>3. CASE UseSelector
  BY <1>3, UseSelectorStep
<1>4. CASE ListPods
  BY <1>4, ListPodsStep
<1>5. CASE Retry
  BY <1>5, RestartStep DEF Retry
<1>6. CASE ApiFails
  BY <1>6, ApiFailsStep
<1>7. CASE DialAnew
  BY <1>7, RestartStep DEF DialAnew
<1>8. CASE ServiceChanges
  BY <1>8, ServiceChangesStep
<1>9. CASE \E p \in 1..N : PodChanges(p)
  BY <1>9, PodChangesStep
<1>10. CASE UNCHANGED resolverVars
  BY <1>10, ResolverStutter
<1> QED
  BY <1>1, <1>2, <1>3, <1>4, <1>5, <1>6, <1>7, <1>8, <1>9, <1>10
  DEF ResolverNext, ResolverStep

\* The invariant that the theorems below rest on.
THEOREM ResolverInvariance == ResolverSpec => []ResolverInv
  BY InitResolverInv, NextResolverInv, PTL DEF ResolverSpec

\* resolve answers ErrTargetNotFound only if the target was absent at some
\* moment of the resolve.
THEOREM NotFoundTheorem == ResolverSpec => []NotFoundMeansAbsent
<1>1. ResolverInv => NotFoundMeansAbsent
  BY DEF ResolverInv
<1> QED
  BY <1>1, ResolverInvariance, PTL

-----------------------------------------------------------------------------
(* The pod of the answer                                                   *)

\* The first of some pods.
LEMMA FirstPod ==
    ASSUME NEW S \in SUBSET Nat, S # {}
    PROVE  LET p == CHOOSE p \in S : \A q \in S : p <= q
           IN  p \in S /\ \A q \in S : p <= q
<1> DEFINE below(n) == 0..(n - 1)
           T == {below(n) : n \in S}
           F == FiniteSubsetsOf(Nat)
<1>1. T \subseteq F /\ T # {}
  <2>1. ASSUME NEW n \in S
        PROVE  below(n) \in F
    <3>1. IsFiniteSet(below(n))
      BY FS_Interval
    <3>2. below(n) \in SUBSET Nat
      OBVIOUS
    <3> QED
      BY <3>1, <3>2 DEF FiniteSubsetsOf
  <2> QED
    BY <2>1
<1>2. IsWellFoundedOn(StrictSubsetOrdering(Nat), F)
  BY FS_StrictSubsetOrderingWellFounded
<1>3. PICK x \in T : \A y \in T : ~(<<y, x>> \in StrictSubsetOrdering(Nat))
  <2> HIDE DEF T, F
  <2> QED
    BY <1>1, <1>2, WFMin
<1>4. PICK n \in S : x = below(n)
  OBVIOUS
<1>5. ASSUME NEW m \in S, m < n
      PROVE  FALSE
  <2>1. below(m) \subseteq below(n) /\ below(m) # below(n)
    <3>1. m \in below(n) /\ m \notin below(m)
      BY <1>5
    <3> QED
      BY <1>5, <3>1
  <2> QED
    <3>1. below(m) \in T /\ below(m) \in SUBSET Nat /\ x \in SUBSET Nat
      BY <1>4
    <3>2. <<below(m), x>> \in StrictSubsetOrdering(Nat)
      BY <1>4, <2>1, <3>1 DEF StrictSubsetOrdering
    <3> QED
      BY <1>3, <3>1, <3>2
<1>6. n \in S /\ \A q \in S : n <= q
  BY <1>5
<1> QED
  BY <1>6

\* An answer that names a pod names the one it was made for.
LEMMA AnswerPod ==
    ASSUME NEW p, NEW tp, NEW infer, Answer(p, tp, infer).kind = "target"
    PROVE  Answer(p, tp, infer).pod = p
  BY DEF Answer, Target, Error

LEMMA SelectorPod ==
    ASSUME DOMAIN pods \subseteq 1..N, NEW sel, NEW tp, NEW infer,
           resolveSelector(sel, tp, infer).kind = "target"
    PROVE  LET p == resolveSelector(sel, tp, infer).pod
           IN  /\ p \in DOMAIN pods /\ sel \subseteq pods[p].labels
               /\ podReady(pods[p])
               /\ \A q \in DOMAIN pods :
                    q < p => ~(/\ sel \subseteq pods[q].labels
                               /\ podReady(pods[q]))
<1> DEFINE ready == {p \in matching(sel) : podReady(pods[p])}
           first == CHOOSE p \in ready : \A q \in ready : p <= q
<1>1. ready # {}
  BY DEF resolveSelector, NotFound, Error
<1>2. ready \in SUBSET Nat
  BY ResolverAssumption DEF ResolverAssumption, matching
<1>3. first \in ready /\ \A q \in ready : first <= q
  <2> HIDE DEF ready
  <2> QED
    BY <1>1, <1>2, FirstPod
<1>4. resolveSelector(sel, tp, infer) = Answer(first, tp, infer)
  BY <1>1 DEF resolveSelector
<1>5. resolveSelector(sel, tp, infer).pod = first
  BY <1>4, AnswerPod
<1>6. \A q \in DOMAIN pods :
        sel \subseteq pods[q].labels /\ podReady(pods[q]) => q \in ready
  BY DEF matching
<1>7. first \in Nat /\ DOMAIN pods \subseteq Nat
  BY <1>2, <1>3, ResolverAssumption DEF ResolverAssumption
<1>8. \A q \in DOMAIN pods : q < first => q \notin ready
  <2> HIDE DEF ready, first
  <2> QED
    BY <1>2, <1>3, <1>7
<1>9. first \in DOMAIN pods /\ sel \subseteq pods[first].labels
      /\ podReady(pods[first])
  <2> HIDE DEF first
  <2> QED
    BY <1>3 DEF matching
<1> HIDE DEF ready, first
<1> QED
  BY <1>5, <1>6, <1>8, <1>9

\* The part of TargetsAreServing that is about the pod: when a resolve
\* succeeds, its pod is one that is wanted and ready at that moment, and no
\* pod before it is.
THEOREM FirstReadyTheorem ==
    ResolverSpec =>
      [][(at # "done" /\ at' = "done" /\ out'.kind = "target") =>
            FirstReady(out'.pod, got)]_resolverVars
<1>1. \A why : Error(why).kind # "target"
  BY DEF Error
<1>2. ASSUME ResolverInv, [ResolverNext]_resolverVars,
             at # "done", at' = "done", out'.kind = "target"
      PROVE  FirstReady(out'.pod, got)
  <2>1. CASE GetPod
    <3>1. /\ opts.pod \in DOMAIN pods /\ podReady(pods[opts.pod])
          /\ out' = Answer(opts.pod, opts.targetPort, ~opts.hasTarget)
      BY <1>2, <2>1 DEF GetPod, Returns, NotFound, Error
    <3>2. out'.pod = opts.pod
      BY <1>2, <3>1, AnswerPod
    <3>3. \A q : Wanted(q, got) <=> q = opts.pod
      BY <2>1 DEF GetPod, Wanted
    <3>4. opts.pod \in Nat
      BY <3>1, <1>2, ResolverAssumption
      DEF ResolverAssumption, ResolverInv, ResolverTypeOK
    <3> QED
      BY <3>1, <3>2, <3>3, <3>4 DEF FirstReady
  <2>2. CASE ListPods
    <3>1. DOMAIN pods \subseteq 1..N
      BY <1>2 DEF ResolverInv, ResolverTypeOK
    <3>2. CASE opts.kind = "selector"
      <4>1. out' = resolveSelector(opts.selector, opts.targetPort,
                                   ~opts.hasTarget)
        BY <2>2, <3>2 DEF ListPods, Returns
      <4>2. opts.selector # {}
        BY <1>2, <2>2, <3>2 DEF ListPods, ResolverInv
      <4>3. \A q : Wanted(q, got) <=> opts.selector \subseteq pods[q].labels
        BY <3>2, <4>2 DEF Wanted
      <4> QED
        BY <1>2, <3>1, <4>1, <4>3, SelectorPod DEF FirstReady
    <3>3. CASE opts.kind = "service"
      <4>1. \E tp : out' = resolveSelector(got.selector, tp, FALSE)
        BY <2>2, <3>3 DEF ListPods, Returns
      <4>2. got.selector # {}
        BY <1>2, <2>2, <3>3 DEF ListPods, ResolverInv, ResolverTypeOK
      <4>3. \A q : Wanted(q, got) <=> got.selector \subseteq pods[q].labels
        BY <3>3, <4>2 DEF Wanted
      <4> QED
        BY <1>2, <3>1, <4>1, <4>3, SelectorPod DEF FirstReady
    <3> QED
      BY <1>2, <2>2, <3>2, <3>3, ResolverAssumption
      DEF ResolverAssumption, ResolverInv, ResolverTypeOK, ListPods
  <2>3. CASE GetService
    <3>1. out' = ServiceError(svc)
      BY <1>2, <2>3 DEF GetService, Returns
    <3>2. ServiceError(svc).kind # "target"
      BY DEF ServiceError, NotFound, Error, Nothing
    <3> QED
      BY <1>2, <3>1, <3>2
  <2>4. CASE UseSelector
    BY <1>1, <1>2, <2>4 DEF UseSelector, Returns
  <2>5. CASE ApiFails
    BY <1>1, <1>2, <2>5 DEF ApiFails, Returns
  <2>6. CASE Retry \/ DialAnew
    BY <1>2, <2>6 DEF Retry, DialAnew
  <2>7. CASE ServiceChanges \/ \E p \in 1..N : PodChanges(p)
    BY <1>2, <2>7 DEF ServiceChanges, PodChanges
  <2>8. CASE UNCHANGED resolverVars
    BY <1>2, <2>8 DEF resolverVars
  <2> QED
    BY <1>2, <2>1, <2>2, <2>3, <2>4, <2>5, <2>6, <2>7, <2>8
    DEF ResolverNext, ResolverStep
<1>3. ResolverInv /\ [ResolverNext]_resolverVars =>
        [(at # "done" /\ at' = "done" /\ out'.kind = "target") =>
            FirstReady(out'.pod, got)]_resolverVars
  BY <1>2
<1> QED
  BY <1>3, ResolverInvariance, PTL DEF ResolverSpec
=============================================================================
