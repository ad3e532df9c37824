---------------------------- MODULE PortForward ----------------------------
(***************************************************************************)
(* The Kubernetes port-forward backend (k8s/portforward.go): concurrent    *)
(* DialContext calls that share one cached SPDY connection to a pod, and   *)
(* the streams they open over it (StreamConn), while pods fail and Stop    *)
(* runs.  An atomic step is what the code does under portForward.mu, or    *)
(* one call to the API server or to a connection; the health events it     *)
(* emits in between are left out.  The registry's readiness loop calls     *)
(* DialContext again after a Retryable error, and the user of a stream     *)
(* dials again when it is through with it.                                 *)
(***************************************************************************)
EXTENDS Naturals, StreamConn

CONSTANTS
    MaxFailures     \* bound: how often pods fail

ASSUME PortForwardAssumption == NoConn \notin Conns /\ MaxFailures \in Nat

VARIABLES
    pc,             \* where each dial is
    result,         \* what it returned
    cached,         \* portForward.conn
    stopped,        \* portForward.closed
    failures        \* failures of pods so far

vars == <<pc, result, using, cached, stopped, conn, failures, streamVars>>

TypeOK ==
    /\ pc \in [Dials -> {"idle", "ensure", "resolve", "install", "stream",
                         "drop", "ret"}]
    /\ result \in [Dials -> {"none", "stream", "Retryable", "ErrStopped"}]
    /\ using \in [Dials -> Conns \cup {NoConn}]
    /\ cached \in Conns \cup {NoConn}
    /\ stopped \in BOOLEAN
    /\ conn \in [Conns -> {"open", "stuck", "dead", "closed"}]
    /\ failures \in 0..MaxFailures
    /\ StreamTypeOK
    /\ \A d \in Dials : /\ data[d] # "none" <=> result[d] = "stream"
                        /\ pc[d] \in {"install", "stream", "drop"} =>
                              using[d] # NoConn
                        /\ data[d] # "none" => using[d] # NoConn

Init ==
    /\ pc = [d \in Dials |-> "idle"]
    /\ result = [d \in Dials |-> "none"]
    /\ using = [d \in Dials |-> NoConn]
    /\ cached = NoConn /\ stopped = FALSE
    /\ conn = [c \in Conns |-> "closed"]
    /\ failures = 0
    /\ StreamInit

\* pooledConn.close
Closed(c) == IF c = NoConn THEN conn ELSE [conn EXCEPT ![c] = "closed"]

\* A name for a new connection: nobody knows one of that name any more.
Fresh(c) == ~Alive(c) /\ c # cached /\ \A d \in Dials : using[d] # c

Goto(d, l) == pc' = [pc EXCEPT ![d] = l]

Return(d, res) ==
    /\ Goto(d, "ret")
    /\ result' = [result EXCEPT ![d] = res]

-----------------------------------------------------------------------------
(* DialContext                                                             *)

DialBegin(d) ==
    /\ pc[d] = "idle"
    /\ \/ stopped /\ Return(d, "ErrStopped")
       \/ ~stopped /\ Goto(d, "ensure") /\ UNCHANGED result
    /\ UNCHANGED <<using, cached, stopped, conn, failures, streamVars>>

\* ensureConn: reuse the cached connection if it is alive.
Ensure(d) ==
    /\ pc[d] = "ensure"
    /\ \/ /\ Alive(cached)
          /\ using' = [using EXCEPT ![d] = cached]
          /\ Goto(d, "stream")
       \/ ~Alive(cached) /\ Goto(d, "resolve") /\ UNCHANGED using
    /\ UNCHANGED <<result, cached, stopped, conn, failures, streamVars>>

\* resolve and dial, without the lock; both may fail.  The names of connections
\* are interchangeable, so which fresh one is taken makes no difference.
Resolve(d) ==
    /\ pc[d] = "resolve"
    /\ \/ /\ \E k \in Conns : Fresh(k)
          /\ LET c == CHOOSE k \in Conns : Fresh(k)
             IN  /\ conn' = [conn EXCEPT ![c] = "open"]
                 /\ using' = [using EXCEPT ![d] = c]
          /\ Goto(d, "install") /\ UNCHANGED result
       \/ Return(d, "Retryable") /\ UNCHANGED <<conn, using>>
    /\ UNCHANGED <<cached, stopped, failures, streamVars>>

\* The backend was stopped meanwhile: the new connection is closed.
InstallStopped(d) ==
    /\ pc[d] = "install" /\ stopped
    /\ conn' = Closed(using[d])
    /\ Return(d, "Retryable")
    /\ UNCHANGED <<using, cached>>

\* Mutant: the loser of the race for the cache keeps its connection open.
InstallLostLeaks(d) ==
    /\ pc[d] = "install" /\ ~stopped /\ Alive(cached)
    /\ using' = [using EXCEPT ![d] = cached]
    /\ Goto(d, "stream")
    /\ UNCHANGED <<cached, conn, result>>

\* Mutant: the newest connection is kept, not the first.
InstallLostReplaces(d) ==
    /\ pc[d] = "install" /\ ~stopped /\ Alive(cached)
    /\ conn' = Closed(cached)
    /\ cached' = using[d]
    /\ Goto(d, "stream")
    /\ UNCHANGED <<using, result>>

\* Another dial has installed a live connection: it is used, the new closed.
InstallLost(d) ==
    /\ pc[d] = "install" /\ ~stopped /\ Alive(cached)
    /\ using' = [using EXCEPT ![d] = cached]
    /\ conn' = Closed(using[d])
    /\ Goto(d, "stream")
    /\ UNCHANGED <<cached, result>>

\* The new connection replaces the cached one, which is closed.
InstallWon(d) ==
    /\ pc[d] = "install" /\ ~stopped /\ ~Alive(cached)
    /\ conn' = Closed(cached)
    /\ cached' = using[d]
    /\ Goto(d, "stream")
    /\ UNCHANGED <<using, result>>

\* The second critical section of ensureConn.
Install(d) ==
    /\ InstallStopped(d) \/ InstallLost(d) \/ InstallWon(d)
    /\ UNCHANGED <<stopped, failures, streamVars>>

\* dialStream fails on a connection that is stuck or has ended, and may fail on
\* one that works.
Stream(d) ==
    /\ pc[d] = "stream"
    /\ \/ conn[using[d]] = "open" /\ Return(d, "stream") /\ Opened(d)
       \/ Goto(d, "drop") /\ UNCHANGED <<result, streamVars>>
    /\ UNCHANGED <<using, cached, stopped, conn, failures>>

\* Mutant: a connection on which a stream failed stays in the cache.
DropConnKeeps(d) ==
    /\ pc[d] = "drop"
    /\ Return(d, "Retryable")
    /\ UNCHANGED <<using, cached, conn, stopped, failures, streamVars>>

\* dropConn: forget and close the connection, if it is still the cached one.
DropConn(d) ==
    /\ pc[d] = "drop"
    /\ IF cached = using[d]
       THEN conn' = Closed(cached) /\ cached' = NoConn
       ELSE UNCHANGED <<conn, cached>>
    /\ Return(d, "Retryable")
    /\ UNCHANGED <<using, stopped, failures, streamVars>>

\* The next DialContext: the readiness loop tries again, or the user has
\* closed its stream and wants another (its timers may still be pending, but
\* find the stream closed).
Redial(d) ==
    /\ pc[d] = "ret"
    /\ \/ result[d] = "Retryable"
       \/ result[d] = "stream" /\ data[d] = "closed" /\ drain[d] = "done"
    /\ Goto(d, "idle")
    /\ result' = [result EXCEPT ![d] = "none"]
    /\ using' = [using EXCEPT ![d] = NoConn]
    /\ data' = [data EXCEPT ![d] = "none"]
    /\ err' = [err EXCEPT ![d] = "ended"]
    /\ timer' = [timer EXCEPT ![d] = FALSE]
    /\ UNCHANGED <<conn, drain, cached, stopped, failures>>

-----------------------------------------------------------------------------
(* Stop, and the cluster                                                   *)

Stop ==
    /\ ~stopped
    /\ stopped' = TRUE
    /\ conn' = Closed(cached)
    /\ cached' = NoConn
    /\ UNCHANGED <<pc, result, using, failures, streamVars>>

\* The pod behind a connection fails: the connection ends, or it stays up and
\* takes no more streams, which only the next dialStream finds out.
PodFails(c) ==
    /\ failures < MaxFailures /\ failures' = failures + 1
    /\ \/ Alive(c) /\ conn' = [conn EXCEPT ![c] = "dead"]
       \/ conn[c] = "open" /\ conn' = [conn EXCEPT ![c] = "stuck"]
    /\ UNCHANGED <<pc, result, using, cached, stopped, streamVars>>

Step(d) ==
    \/ Ensure(d) \/ Resolve(d) \/ Install(d) \/ Stream(d) \/ DropConn(d)

\* What the streams do on their own.
Streams(d) ==
    /\ StreamStep(d) \/ StreamEnv(d)
    /\ UNCHANGED <<pc, result, cached, stopped, failures>>

Terminated ==
    /\ stopped
    /\ \A d \in Dials : result[d] = "ErrStopped"
    /\ UNCHANGED vars

Next ==
    \/ \E d \in Dials : DialBegin(d) \/ Step(d) \/ Redial(d) \/ Streams(d)
    \/ \E c \in Conns : PodFails(c)
    \/ Stop
    \/ Terminated

Spec == Init /\ [][Next]_vars

\* Goroutines run and timers fire.  Of the cluster it is assumed that its calls
\* return, also the SPDY dial, which does not look at ctx (stream.go:57); that
\* who asks again and again for a pod and a connection to it gets them in the
\* end; and that so does who asks for a stream, on connections that are not
\* stuck.  A user need not close its stream or dial again.
FairSpec ==
    /\ Spec
    /\ \A d \in Dials :
          /\ WF_vars(DialBegin(d)) /\ WF_vars(Step(d))
          /\ WF_vars(result[d] = "Retryable" /\ Redial(d))
          /\ WF_vars(DeadlinePasses(d) /\ Streams(d))
          /\ WF_vars((DrainReads(d) \/ DrainCloses(d)) /\ Streams(d))
          /\ SF_vars(Resolve(d) /\ pc'[d] = "install")
          /\ SF_vars(Stream(d) /\ pc'[d] = "ret")

-----------------------------------------------------------------------------
(* Properties                                                              *)

\* Every connection to a pod that is up is the cached one or about to be
\* considered for the cache by the dial that opened it: losing the race to
\* install, a replaced or dropped connection and Stop all close theirs.  A
\* stopped backend caches nothing: a dial that was resolving a pod when Stop
\* ran cannot bring a connection back, and no stream it ever handed out works
\* on.  (The invariant includes TypeOK.)
NoConnectionLeaks ==
    /\ TypeOK
    /\ \A c \in Conns :
          Alive(c) =>
             cached = c \/ \E d \in Dials : pc[d] = "install" /\ using[d] = c
    /\ stopped => cached = NoConn /\ \A d \in Dials : ~Works(d)

\* The streams of a dial are not cut by what other dials do to the cache they
\* share, racing to resolve a pod included: the connection under a working
\* stream goes only by Stop, by its own end, or by a dial whose own
\* stream failed on that connection ("likely dead", portforward.go:166-168).
StreamsAreNotCut ==
    [][\A d \in Dials :
          Works(d) /\ ~Alive(using[d])' =>
             \/ stopped' /\ ~stopped
             \/ failures' # failures
             \/ \E e \in Dials : pc[e] = "drop" /\ using[e] = using[d]]_vars

\* The backend heals: a dial gets its stream although connections end or get
\* stuck, other dials replace and drop them, and streams fail, unless the
\* backend is stopped.  A connection on which no stream can be opened and that still
\* looks alive does not stay in the cache: whoever finds out drops it
\* (portforward.go:164-168).
SelfHeals ==
    \A d \in Dials : pc[d] = "idle" ~> result[d] \in {"stream", "ErrStopped"}

=============================================================================
