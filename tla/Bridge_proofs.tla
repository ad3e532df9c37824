---------------------------- MODULE Bridge_proofs ----------------------------
(***************************************************************************)
(* Proofs, for any number of bridges, route generations and kinds of       *)
(* backend, that Close finds every listener whose accept loop still runs,  *)
(* and that a bridged connection goes to the right route, is not cut short *)
(* and leaves nothing behind.  BridgeInv is about the listeners, ConnInv   *)
(* about one connection; they share the progress of Registry.Close.        *)
(***************************************************************************)
EXTENDS Bridge, TLAPS

-----------------------------------------------------------------------------
(* The inductive invariants                                                *)

\* A ListenLocal has nothing before it listens, only a socket until the set
\* has taken it, and afterwards an accept loop exactly if it succeeded.
CallsMatchSockets ==
    \A b \in Bridges :
        /\ pc[b] \in {"idle", "listen"} => sock[b] = "none"
        /\ pc[b] \in {"add", "refuse"} => sock[b] = "open"
        /\ pc[b] # "ret" => result[b] = "none"
        /\ pc[b] = "ret" => result[b] # "none"
        /\ result[b] = "ok" <=> loop[b] # "none"
        /\ result[b] # "ok" /\ pc[b] = "ret" => sock[b] # "open"

\* A listener is in the set or taken from it only after its accept loop has
\* started, and for as long as it is bound and the loop runs.
RunningLoopsAreTracked ==
    \A b \in Bridges :
        /\ b \in ls \cup taken => loop[b] # "none"
        /\ loop[b] \in {"accept", "backoff"} /\ sock[b] = "open" =>
              b \in ls \cup taken

\* How far Close is with the set of listeners.
SetFollowsClose ==
    /\ setClosed <=> reg \in {"sweep", "end", "stopped"}
    /\ setClosed => ls = {}
    /\ reg # "sweep" => taken = {}

BridgeInv ==
    /\ TypeOK
    /\ CallsMatchSockets
    /\ RunningLoopsAreTracked
    /\ SetFollowsClose

\* The route a lookup would find now is none that was gone at Accept.
RouteIsFresh ==
    /\ gen >= 1
    /\ least <= IF live THEN gen ELSE gen + 1
    /\ dialed # 0 => dialed >= least

\* There is no more of the response, or nobody to give it to, or no registry.
ResponseOver == server = "ended" \/ peer = "gone" \/ Done

\* bridgeConn: what exists at each of its steps.
ConnIsInOrder ==
    /\ conn \in {"accept", "lookup"} => watcher = "none" /\ dialed = 0
    /\ conn \in {"accept", "lookup", "dial"} => up = "none"
    /\ conn \in {"pipe", "drain"} => up # "none"
    /\ up = "closed" => conn = "ret"
    /\ conn = "drain" => ResponseOver
    /\ conn \in {"leave", "ret"} /\ up # "none" => ResponseOver
    /\ conn \in {"leave", "ret"} => copyUp \in {"none", "done"}
    /\ client = "closed" => conn = "ret" \/ Done
    /\ conn = "ret" => /\ client = "closed" /\ up \in {"none", "closed"}
                       /\ watcher # "armed"

ConnInv ==
    /\ ConnTypeOK
    /\ reg \in {"open", "closed", "done", "sweep", "end", "stopped"}
    /\ RouteIsFresh
    /\ ConnIsInOrder

-----------------------------------------------------------------------------
(* Listeners                                                               *)

\* The steps of ListenLocal, of an accept loop and of a listener's owner keep
\* the set in step with the sockets and loops.
LEMMA ListenerStep ==
    ASSUME BridgeInv, NEW b \in Bridges,
           \/ ListenLocal(b) \/ Call(b) \/ Loop(b) \/ OwnerCloses(b)
    PROVE  BridgeInv' /\ UNCHANGED <<regVars, connVars>>
<1> USE DEF BridgeInv, TypeOK, regVars, Return
<1>1. ASSUME ListenLocal(b) PROVE BridgeInv' /\ UNCHANGED <<regVars, connVars>>
  <2> USE <1>1 DEF ListenLocal
  <2>1. TypeOK' /\ UNCHANGED <<regVars, connVars>>
    BY DEF CallsMatchSockets
  <2>2. CallsMatchSockets'
    BY DEF CallsMatchSockets
  <2>3. RunningLoopsAreTracked'
    BY DEF RunningLoopsAreTracked, CallsMatchSockets
  <2>4. SetFollowsClose'
    BY DEF SetFollowsClose
  <2> QED
    BY <2>1, <2>2, <2>3, <2>4
<1>2. ASSUME Listen(b) PROVE BridgeInv' /\ UNCHANGED <<regVars, connVars>>
  <2> USE <1>2 DEF Listen
  <2>1. TypeOK' /\ UNCHANGED <<regVars, connVars>>
    BY DEF CallsMatchSockets
  <2>2. CallsMatchSockets'
    BY DEF CallsMatchSockets
  <2>3. RunningLoopsAreTracked'
    BY DEF RunningLoopsAreTracked, CallsMatchSockets
  <2>4. SetFollowsClose'
    BY DEF SetFollowsClose
  <2> QED
    BY <2>1, <2>2, <2>3, <2>4
<1>3. ASSUME Add(b) PROVE BridgeInv' /\ UNCHANGED <<regVars, connVars>>
  <2> USE <1>3 DEF Add
  <2>1. TypeOK' /\ UNCHANGED <<regVars, connVars>>
    BY DEF CallsMatchSockets
  <2>2. CallsMatchSockets'
    BY DEF CallsMatchSockets
  <2>3. RunningLoopsAreTracked'
    BY DEF RunningLoopsAreTracked, CallsMatchSockets
  <2>4. SetFollowsClose'
    BY DEF SetFollowsClose
  <2> QED
    BY <2>1, <2>2, <2>3, <2>4
<1>4. ASSUME Refuse(b) PROVE BridgeInv' /\ UNCHANGED <<regVars, connVars>>
  <2> USE <1>4 DEF Refuse
  <2>1. TypeOK' /\ UNCHANGED <<regVars, connVars>>
    BY DEF CallsMatchSockets
  <2>2. CallsMatchSockets'
    BY DEF CallsMatchSockets
  <2>3. RunningLoopsAreTracked'
    BY DEF RunningLoopsAreTracked, CallsMatchSockets
  <2>4. SetFollowsClose'
    BY DEF SetFollowsClose
  <2> QED
    BY <2>1, <2>2, <2>3, <2>4
<1>5. ASSUME AcceptFails(b) PROVE BridgeInv' /\ UNCHANGED <<regVars, connVars>>
  <2> USE <1>5 DEF AcceptFails
  <2>1. TypeOK' /\ UNCHANGED <<regVars, connVars>>
    BY DEF CallsMatchSockets
  <2>2. CallsMatchSockets'
    BY DEF CallsMatchSockets
  <2>3. RunningLoopsAreTracked'
    BY DEF RunningLoopsAreTracked, CallsMatchSockets
  <2>4. SetFollowsClose'
    BY DEF SetFollowsClose
  <2> QED
    BY <2>1, <2>2, <2>3, <2>4
<1>6. ASSUME Backoff(b) PROVE BridgeInv' /\ UNCHANGED <<regVars, connVars>>
  <2> USE <1>6 DEF Backoff
  <2>1. TypeOK' /\ UNCHANGED <<regVars, connVars>>
    BY DEF CallsMatchSockets
  <2>2. CallsMatchSockets'
    BY DEF CallsMatchSockets
  <2>3. RunningLoopsAreTracked'
    BY DEF RunningLoopsAreTracked, CallsMatchSockets
  <2>4. SetFollowsClose'
    BY DEF SetFollowsClose
  <2> QED
    BY <2>1, <2>2, <2>3, <2>4
<1>7. ASSUME Leave(b) PROVE BridgeInv' /\ UNCHANGED <<regVars, connVars>>
  <2> USE <1>7 DEF Leave
  <2>1. TypeOK' /\ UNCHANGED <<regVars, connVars>>
    BY DEF CallsMatchSockets
  <2>2. CallsMatchSockets'
    BY DEF CallsMatchSockets
  <2>3. RunningLoopsAreTracked'
    BY DEF RunningLoopsAreTracked, CallsMatchSockets
  <2>4. SetFollowsClose'
    BY DEF SetFollowsClose
  <2> QED
    BY <2>1, <2>2, <2>3, <2>4
<1>8. ASSUME OwnerCloses(b) PROVE BridgeInv' /\ UNCHANGED <<regVars, connVars>>
  <2> USE <1>8 DEF OwnerCloses
  <2>1. TypeOK' /\ UNCHANGED <<regVars, connVars>>
    BY DEF CallsMatchSockets
  <2>2. CallsMatchSockets'
    BY DEF CallsMatchSockets
  <2>3. RunningLoopsAreTracked'
    BY DEF RunningLoopsAreTracked, CallsMatchSockets
  <2>4. SetFollowsClose'
    BY DEF SetFollowsClose
  <2> QED
    BY <2>1, <2>2, <2>3, <2>4
<1> QED
  BY <1>1, <1>2, <1>3, <1>4, <1>5, <1>6, <1>7, <1>8 DEF Call, Loop

\* Each part of Close keeps the set in step with how far Close is; once it has
\* closed what it took, nothing is left to take.
LEMMA CloseListeners ==
    ASSUME BridgeInv, Close
    PROVE  BridgeInv'
<1> USE DEF BridgeInv, TypeOK, bridgeVars, regVars, routeVars
<1>1. ASSUME CloseMark \/ CloseSignal \/ StopBackends PROVE BridgeInv'
  BY <1>1 DEF CloseMark, CloseSignal, StopBackends, CallsMatchSockets,
     RunningLoopsAreTracked, SetFollowsClose
<1>2. ASSUME CloseAll PROVE BridgeInv'
  BY <1>2 DEF CloseAll, CallsMatchSockets, RunningLoopsAreTracked,
     SetFollowsClose
<1>3. ASSUME CloseListener PROVE BridgeInv'
  <2> USE <1>3 DEF CloseListener
  <2>1. TypeOK'
    OBVIOUS
  <2>2. CallsMatchSockets'
    BY DEF CallsMatchSockets, RunningLoopsAreTracked
  <2>3. RunningLoopsAreTracked'
    BY DEF RunningLoopsAreTracked
  <2>4. SetFollowsClose'
    BY DEF SetFollowsClose
  <2> QED
    BY <2>1, <2>2, <2>3, <2>4
<1> QED
  BY <1>1, <1>2, <1>3 DEF Close

\* What happens to a connection or to the route is nothing to the listeners.
LEMMA ListenersUnchanged ==
    ASSUME BridgeInv, UNCHANGED <<reg, bridgeVars>>
    PROVE  BridgeInv'
  BY DEF BridgeInv, TypeOK, bridgeVars, CallsMatchSockets,
     RunningLoopsAreTracked, SetFollowsClose

-----------------------------------------------------------------------------
(* A connection                                                            *)

\* A connection sees nothing of the steps of a listener.
LEMMA ConnUnchanged ==
    ASSUME ConnInv, UNCHANGED <<regVars, connVars>>
    PROVE  ConnInv'
  BY DEF ConnInv, ConnTypeOK, RouteIsFresh, ConnIsInOrder, ResponseOver,
     Done, regVars, connVars, routeVars

\* Registry.Close moves forward only, and stops what it can stop.
LEMMA CloseConn ==
    ASSUME ConnInv, Close
    PROVE  ConnInv'
<1> USE BridgeConnAssumption
    DEF ConnInv, ConnTypeOK, regVars, connVars, routeVars
<1>1. /\ UNCHANGED <<backend, gen, bridgeable, least, dialed, conn, client,
                      peer, up, copyUp, watcher>>
      /\ live' \in BOOLEAN /\ server' \in {"open", "ended"}
      /\ reg' \in {"open", "closed", "done", "sweep", "end", "stopped"}
  BY DEF Close, CloseMark, CloseSignal, CloseAll, CloseListener, StopBackends
<1>2. ConnTypeOK'
  BY <1>1
<1>3. RouteIsFresh'
  BY DEF Close, CloseMark, CloseSignal, CloseAll, CloseListener,
     StopBackends, RouteIsFresh
<1>4. ConnIsInOrder'
  BY DEF Close, CloseMark, CloseSignal, CloseAll, CloseListener,
     StopBackends, ConnIsInOrder, ResponseOver, Done
<1> QED
  BY <1>1, <1>2, <1>3, <1>4

\* A route that replaces another has a younger generation.
LEMMA RouteChangesConn ==
    ASSUME ConnInv, RouteChanges
    PROVE  ConnInv'
<1> USE BridgeConnAssumption
    DEF ConnInv, ConnTypeOK, regVars, connVars, routeVars, RouteChanges
<1>1. /\ UNCHANGED <<reg, backend, least, dialed, conn, client, peer, up,
                      copyUp, watcher>>
      /\ live' \in BOOLEAN /\ server' \in {"open", "ended"}
      /\ bridgeable' \in BOOLEAN
  OBVIOUS
<1>2. gen' \in 0..MaxGen
  OBVIOUS
<1>3. ConnTypeOK' /\ reg' = reg
  BY <1>1, <1>2
<1>4. RouteIsFresh'
  BY DEF RouteIsFresh
<1>5. ConnIsInOrder'
  BY DEF ConnIsInOrder, ResponseOver, Done
<1> QED
  BY <1>3, <1>4, <1>5

\* bridgeConn from its start to its deferred calls, with the two copies, the
\* watcher and the two peers.
LEMMA ConnStepStep ==
    ASSUME ConnInv, Accepted \/ ConnStep \/ ConnEnv
    PROVE  ConnInv'
<1> USE BridgeConnAssumption
    DEF ConnInv, ConnTypeOK, regVars, connVars, routeVars
<1>1. ASSUME Accepted PROVE ConnInv'
  <2> USE <1>1 DEF Accepted
  <2>1. least' \in 0..(MaxGen + 1)
    BY DEF RouteIsFresh
  <2>2. ConnTypeOK' /\ reg' = reg
    BY <2>1 DEF RouteIsFresh, ConnIsInOrder
  <2>3. RouteIsFresh'
    BY DEF RouteIsFresh, ConnIsInOrder
  <2>4. ConnIsInOrder'
    BY DEF ConnIsInOrder, ResponseOver, Done
  <2> QED
    BY <2>2, <2>3, <2>4
<1>2. ASSUME Lookup PROVE ConnInv'
  <2> USE <1>2 DEF Lookup
  <2>1. ConnTypeOK' /\ reg' = reg
    BY DEF RouteIsFresh, ConnIsInOrder
  <2>2. RouteIsFresh'
    BY DEF RouteIsFresh, ConnIsInOrder
  <2>3. ConnIsInOrder'
    BY DEF ConnIsInOrder, ResponseOver, Done
  <2> QED
    BY <2>1, <2>2, <2>3
<1>3. ASSUME DialReturns PROVE ConnInv'
  <2> USE <1>3 DEF DialReturns
  <2>1. ConnTypeOK' /\ reg' = reg
    BY DEF RouteIsFresh, ConnIsInOrder
  <2>2. RouteIsFresh'
    BY DEF RouteIsFresh, ConnIsInOrder
  <2>3. ConnIsInOrder'
    BY DEF ConnIsInOrder, ResponseOver, Done
  <2> QED
    BY <2>1, <2>2, <2>3
<1>4. ASSUME CopyUpEnds PROVE ConnInv'
  <2> USE <1>4 DEF CopyUpEnds
  <2>1. ConnTypeOK' /\ reg' = reg
    BY DEF RouteIsFresh, ConnIsInOrder
  <2>2. RouteIsFresh'
    BY DEF RouteIsFresh, ConnIsInOrder
  <2>3. ConnIsInOrder'
    BY DEF ConnIsInOrder, ResponseOver, Done
  <2> QED
    BY <2>1, <2>2, <2>3
<1>5. ASSUME PropagateEOF PROVE ConnInv'
  <2> USE <1>5 DEF PropagateEOF
  <2>1. ConnTypeOK' /\ reg' = reg
    BY DEF RouteIsFresh, ConnIsInOrder
  <2>2. RouteIsFresh'
    BY DEF RouteIsFresh, ConnIsInOrder
  <2>3. ConnIsInOrder'
    BY DEF ConnIsInOrder, ResponseOver, Done
  <2> QED
    BY <2>1, <2>2, <2>3
<1>6. ASSUME CopyDownEnds PROVE ConnInv'
  <2> USE <1>6 DEF CopyDownEnds
  <2>1. ConnTypeOK' /\ reg' = reg
    BY DEF RouteIsFresh, ConnIsInOrder
  <2>2. RouteIsFresh'
    BY DEF RouteIsFresh, ConnIsInOrder
  <2>3. ConnIsInOrder'
    BY DEF ConnIsInOrder, ResponseOver, Done
  <2> QED
    BY <2>1, <2>2, <2>3
<1>7. ASSUME Joined PROVE ConnInv'
  <2> USE <1>7 DEF Joined
  <2>1. ConnTypeOK' /\ reg' = reg
    BY DEF RouteIsFresh, ConnIsInOrder
  <2>2. RouteIsFresh'
    BY DEF RouteIsFresh, ConnIsInOrder
  <2>3. ConnIsInOrder'
    BY DEF ConnIsInOrder, ResponseOver, Done
  <2> QED
    BY <2>1, <2>2, <2>3
<1>8. ASSUME ConnLeaves PROVE ConnInv'
  <2> USE <1>8 DEF ConnLeaves
  <2>1. ConnTypeOK' /\ reg' = reg
    BY DEF RouteIsFresh, ConnIsInOrder
  <2>2. RouteIsFresh'
    BY DEF RouteIsFresh, ConnIsInOrder
  <2>3. ConnIsInOrder'
    BY DEF ConnIsInOrder, ResponseOver, Done
  <2> QED
    BY <2>1, <2>2, <2>3
<1>9. ASSUME WatcherFires PROVE ConnInv'
  <2> USE <1>9 DEF WatcherFires
  <2>1. ConnTypeOK' /\ reg' = reg
    BY DEF RouteIsFresh, ConnIsInOrder
  <2>2. RouteIsFresh'
    BY DEF RouteIsFresh, ConnIsInOrder
  <2>3. ConnIsInOrder'
    BY DEF ConnIsInOrder, ResponseOver, Done
  <2> QED
    BY <2>1, <2>2, <2>3
<1>10. ASSUME PeerEnds PROVE ConnInv'
  <2> USE <1>10 DEF PeerEnds
  <2>1. ConnTypeOK' /\ reg' = reg
    BY DEF RouteIsFresh, ConnIsInOrder
  <2>2. RouteIsFresh'
    BY DEF RouteIsFresh, ConnIsInOrder
  <2>3. ConnIsInOrder'
    BY DEF ConnIsInOrder, ResponseOver, Done
  <2> QED
    BY <2>1, <2>2, <2>3
<1>11. ASSUME ServerEnds PROVE ConnInv'
  <2> USE <1>11 DEF ServerEnds
  <2>1. ConnTypeOK' /\ reg' = reg
    BY DEF RouteIsFresh, ConnIsInOrder
  <2>2. RouteIsFresh'
    BY DEF RouteIsFresh, ConnIsInOrder
  <2>3. ConnIsInOrder'
    BY DEF ConnIsInOrder, ResponseOver, Done
  <2> QED
    BY <2>1, <2>2, <2>3
<1> QED
  BY <1>1, <1>2, <1>3, <1>4, <1>5, <1>6, <1>7, <1>8, <1>9, <1>10, <1>11
     DEF ConnStep, ConnEnv

-----------------------------------------------------------------------------
(* The theorems                                                            *)

\* No bridge and no connection: nothing is out of order.
LEMMA InitInv == Init => BridgeInv /\ ConnInv
<1> SUFFICES ASSUME Init PROVE BridgeInv /\ ConnInv
  OBVIOUS
<1> USE BridgeConnAssumption DEF Init, ConnInit
<1>1. BridgeInv
  BY DEF BridgeInv, TypeOK, CallsMatchSockets, RunningLoopsAreTracked,
     SetFollowsClose
<1>2. ConnInv
  BY DEF ConnInv, ConnTypeOK, RouteIsFresh, ConnIsInOrder, ResponseOver
<1> QED
  BY <1>1, <1>2

\* No step breaks the invariants.
LEMMA NextInv == BridgeInv /\ ConnInv /\ [Next]_vars => (BridgeInv /\ ConnInv)'
<1> SUFFICES ASSUME BridgeInv, ConnInv, [Next]_vars
             PROVE  BridgeInv' /\ ConnInv'
  OBVIOUS
<1>1. ASSUME NEW b \in Bridges,
             ListenLocal(b) \/ Call(b) \/ Loop(b) \/ OwnerCloses(b)
      PROVE  BridgeInv' /\ ConnInv'
  BY <1>1, ListenerStep, ConnUnchanged
<1>2. ASSUME NEW b \in Bridges, AcceptConn(b)
      PROVE  BridgeInv' /\ ConnInv'
  <2>1. Accepted /\ UNCHANGED <<reg, bridgeVars>>
    BY <1>2 DEF AcceptConn, Accepted, regVars
  <2> QED
    BY <2>1, ConnStepStep, ListenersUnchanged
<1>3. ASSUME Conn \/ Env
      PROVE  BridgeInv' /\ ConnInv'
  <2>1. (ConnStep \/ ConnEnv) /\ UNCHANGED <<reg, bridgeVars>>
    BY <1>3 DEF Conn, Env, ConnStep, ConnEnv, Lookup, DialReturns, CopyUpEnds,
       PropagateEOF, CopyDownEnds, Joined, ConnLeaves, WatcherFires, PeerEnds,
       ServerEnds, regVars
  <2> QED
    BY <2>1, ConnStepStep, ListenersUnchanged
<1>4. CASE Close
  BY <1>4, CloseListeners, CloseConn
<1>5. CASE RouteChanges
  <2>1. UNCHANGED <<reg, bridgeVars>>
    BY <1>5 DEF RouteChanges
  <2> QED
    BY <1>5, <2>1, RouteChangesConn, ListenersUnchanged
<1>6. CASE UNCHANGED vars
  <2>1. UNCHANGED <<regVars, connVars>> /\ UNCHANGED <<reg, bridgeVars>>
    BY <1>6 DEF vars, regVars
  <2> QED
    BY <2>1, ConnUnchanged, ListenersUnchanged
<1> QED
  BY <1>1, <1>2, <1>3, <1>4, <1>5, <1>6 DEF Next, Terminated

\* The invariants hold in every state of every execution.
THEOREM Invariance == Spec => [](BridgeInv /\ ConnInv)
  BY InitInv, NextInv, PTL DEF Spec

\* ListenLocal and Close race for a new listener, and it is never forgotten
\* while its accept loop runs.
THEOREM TrackedTheorem == Spec => []ReturnedListenersAreTracked
<1>1. BridgeInv => ReturnedListenersAreTracked
  <2> SUFFICES ASSUME BridgeInv PROVE ReturnedListenersAreTracked
    OBVIOUS
  <2> USE DEF BridgeInv
  <2>1. ASSUME NEW b \in Bridges, loop[b] \notin {"leave", "exited"}
        PROVE  /\ ~Leaked(b)
               /\ result[b] = "ok" /\ sock[b] = "open" => b \in ls \cup taken
    <3>1. result[b] = "ok" /\ sock[b] = "open" => b \in ls \cup taken
      BY <2>1 DEF TypeOK, CallsMatchSockets, RunningLoopsAreTracked
    <3>2. ASSUME Leaked(b) PROVE FALSE
      <4>1. pc[b] = "ret" /\ result[b] = "ok" /\ sock[b] = "open"
        BY <3>2 DEF Leaked, TypeOK, CallsMatchSockets
      <4>2. ls = {} /\ taken = {}
        BY <3>2 DEF Leaked, SetFollowsClose
      <4> QED
        BY <3>1, <4>1, <4>2
    <3> QED
      BY <3>1, <3>2
  <2> QED
    BY <2>1 DEF ReturnedListenersAreTracked
<1> QED
  BY <1>1, Invariance, PTL

\* A bridge follows the name: however often the route is replaced between
\* Accept and the dial, a connection is piped to none that was gone before.
THEOREM FreshRouteTheorem == Spec => []NoStaleRoute
<1>1. ConnInv => NoStaleRoute
  BY DEF ConnInv, RouteIsFresh, NoStaleRoute
<1> QED
  BY <1>1, Invariance, PTL

\* A client's half-close never cuts the response it waits for.
THEOREM NotTruncatedTheorem == Spec => []ResponsesAreNotTruncated
<1>1. ConnInv => ResponsesAreNotTruncated
  BY DEF ConnInv, ConnIsInOrder, ResponseOver, ResponsesAreNotTruncated
<1> QED
  BY <1>1, Invariance, PTL

\* However the copies, the watcher and Close interleave, a bridgeConn that has
\* returned has closed both connections and left no goroutine running.
THEOREM NothingLeftTheorem == Spec => []NothingIsLeftBehind
<1>1. ConnInv => NothingIsLeftBehind
  BY DEF ConnInv, ConnIsInOrder, NothingIsLeftBehind
<1> QED
  BY <1>1, Invariance, PTL
=============================================================================
