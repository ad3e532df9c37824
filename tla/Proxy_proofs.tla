---------------------------- MODULE Proxy_proofs ----------------------------
(***************************************************************************)
(* Proofs, for any number of clients and routes, that the handlers of the  *)
(* forward proxy clean up, that tunnels are not cut, and that a request    *)
(* carries the Host of its route, while the proxy is closed around them.   *)
(***************************************************************************)
EXTENDS Proxy, TLAPS

-----------------------------------------------------------------------------
(* The inductive invariant                                                 *)

\* What a tunnel has at each point of handleConnect.
TunnelHas ==
    /\ tun = "idle" => client = "none"
    /\ tun # "idle" => client # "none"
    /\ tun \in {"idle", "dial"} => back = "none"
    /\ tun \in {"hijack", "write", "buffered"} => back = "open"
    /\ tun = "buffered" => client = "open"
    /\ tun = "wait" => back # "none" /\ copyUp # "none" /\ copyDown # "none"
    /\ tun # "wait" =>
          copyUp \in {"none", "done"} /\ copyDown \in {"none", "done"}
    /\ tun \in {"idle", "dial", "hijack", "write", "buffered"} =>
          copyUp = "none" /\ copyDown = "none"
    /\ tun \in {"answered", "ret"} => back \in {"none", "closed"}
    /\ tun = "ret" => client = "closed"
    /\ tun = "answered" => copyUp = "none" /\ copyDown = "none"

\* The copy of the request ends because one of the ends has ended its
\* direction; until it has ended nothing closes a connection under the tunnel,
\* and afterwards only closeBoth does.
CutsHaveCauses ==
    /\ copyUp \in {"eof", "done"} => peer # "open" \/ server = "ended"
    /\ tun = "wait" /\ "closed" \in {client, back} =>
          copyUp = "done" /\ ~halfClose

TunnelInv == TunnelTypeOK /\ TunnelHas /\ CutsHaveCauses

\* The routes that were: nothing refers to one that is still to come, and an
\* Add in progress has the name for itself.
RoutesInOrder ==
    /\ \A q \in Reqs : first[q] <= gen
    /\ adding => ~live /\ gen < MaxGen

\* A request that holds a connection is in its round trip, or copies a body.
ConnectionsHeld ==
    \A q \in Reqs : fwd[q] \in {"sent", "body"} <=> via[q] # 0

\* The flag is up for every route that has a rewrite, also for the one that is
\* about to be published.
FlagIsUp ==
    /\ \A g \in Rewritten : g <= gen => hasRewrites
    /\ adding /\ gen + 1 \in Rewritten => hasRewrites

\* A request that has asked for the rewrite carries that of the route it began
\* with, as long as that route is there.
RewriteIsRight ==
    \A q \in Reqs :
        /\ fwd[q] \in {"flag", "lookup"} => host[q] = 0
        /\ /\ fwd[q] \in {"pool", "dial", "sent", "body"}
           /\ first[q] = Live /\ first[q] # 0
           => host[q] = (IF first[q] \in Rewritten THEN first[q] ELSE 0)

ForwardInv ==
    /\ ForwardTypeOK /\ RoutesInOrder /\ ConnectionsHeld /\ FlagIsUp
    /\ RewriteIsRight

\* A connection that no handler has hijacked is closed by Close alone, as long
\* as its client is there.
ServerKeeps ==
    tun \in {"dial", "hijack", "answered"} => client = "open" \/ once = "done"

IInv == TypeOK /\ TunnelInv /\ ForwardInv /\ ServerKeeps

-----------------------------------------------------------------------------
(* The tunnel                                                              *)

\* What does not touch the tunnel keeps its invariant.
LEMMA TunnelUnchanged ==
    ASSUME TunnelInv, UNCHANGED tunnelVars
    PROVE  TunnelInv'
  BY DEF TunnelInv, TunnelTypeOK, TunnelHas, CutsHaveCauses, tunnelVars

\* Every step of the tunnel and of its two ends keeps it.
LEMMA TunnelKept ==
    ASSUME TunnelInv, Connect \/ ConnectAgain \/ TunnelStep \/ TunnelEnv
    PROVE  TunnelInv' /\ (UNCHANGED once /\ ServerKeeps => ServerKeeps')
<1> USE DEF TunnelInv, TunnelTypeOK, TunnelHas, CutsHaveCauses, ServerKeeps
<1>1. CASE Connect
  BY <1>1 DEF Connect
<1>2. CASE TunnelDial
  BY <1>2 DEF TunnelDial
<1>3. CASE Hijack
  BY <1>3 DEF Hijack
<1>4. CASE Established
  BY <1>4 DEF Established
<1>5. CASE Buffered
  BY <1>5 DEF Buffered
<1>6. CASE CopyUpEnds
  BY <1>6 DEF CopyUpEnds, ClientEnded, ServerEnded
<1>7. CASE CopyDownEnds
  BY <1>7 DEF CopyDownEnds, ServerEnded
<1>8. CASE TunnelUp
  BY <1>8 DEF TunnelUp
<1>9. CASE TunnelDown
  BY <1>9 DEF TunnelDown
<1>10. CASE TunnelJoined
  BY <1>10 DEF TunnelJoined
<1>11. CASE TunnelLeaves
  BY <1>11 DEF TunnelLeaves
<1>12. CASE ConnectAgain
  BY <1>12 DEF ConnectAgain
<1>13. CASE ServerDrops
  BY <1>13 DEF ServerDrops
<1>14. CASE TunnelPeerEnds
  BY <1>14 DEF TunnelPeerEnds
<1>15. CASE TunnelServerEnds
  BY <1>15 DEF TunnelServerEnds
<1> QED
  BY <1>1, <1>2, <1>3, <1>4, <1>5, <1>6, <1>7, <1>8, <1>9, <1>10, <1>11,
     <1>14, <1>15, <1>12, <1>13 DEF TunnelStep, TunnelEnv

-----------------------------------------------------------------------------
(* Forwarding                                                              *)

\* What does not touch the requests, the name or the pool keeps the invariant.
LEMMA ForwardUnchanged ==
    ASSUME ForwardInv, UNCHANGED forwardVars
    PROVE  ForwardInv'
  BY DEF ForwardInv, ForwardTypeOK, RoutesInOrder, ConnectionsHeld, FlagIsUp,
     RewriteIsRight, Live, forwardVars, routeVars, poolVars

\* A request begins: it takes note of the route that is there.
LEMMA BeginStep ==
    ASSUME ForwardInv, NEW q \in Reqs, Begin(q)
    PROVE  ForwardInv'
<1> USE ForwardAssumption
    DEF ForwardInv, ForwardTypeOK, Begin, At, routeVars, poolVars,
        Routes
<1>1. ForwardTypeOK'
  BY DEF RoutesInOrder, ConnectionsHeld, Live
<1>2. RoutesInOrder'
  BY DEF RoutesInOrder, Live
<1>3. ConnectionsHeld'
  BY DEF ConnectionsHeld
<1>4. FlagIsUp'
  BY DEF FlagIsUp
<1>5. RewriteIsRight'
  BY DEF RoutesInOrder, FlagIsUp, RewriteIsRight, Live
<1> QED
  BY <1>1, <1>2, <1>3, <1>4, <1>5

\* The flag is down only when no route with a rewrite is there.
LEMMA CheckFlagStep ==
    ASSUME ForwardInv, NEW q \in Reqs, CheckFlag(q)
    PROVE  ForwardInv'
<1> USE ForwardAssumption
    DEF ForwardInv, ForwardTypeOK, CheckFlag, At, routeVars, poolVars,
        Routes
<1>1. ForwardTypeOK'
  BY DEF RoutesInOrder, ConnectionsHeld, Live
<1>2. RoutesInOrder'
  BY DEF RoutesInOrder, Live
<1>3. ConnectionsHeld'
  BY DEF ConnectionsHeld
<1>4. FlagIsUp'
  BY DEF FlagIsUp
<1>5. RewriteIsRight'
  BY DEF RoutesInOrder, FlagIsUp, RewriteIsRight, Live
<1> QED
  BY <1>1, <1>2, <1>3, <1>4, <1>5

\* The lookup takes the rewrite of the route that is there.
LEMMA LookupRewriteStep ==
    ASSUME ForwardInv, NEW q \in Reqs, LookupRewrite(q)
    PROVE  ForwardInv'
<1> USE ForwardAssumption
    DEF ForwardInv, ForwardTypeOK, LookupRewrite, At, routeVars, poolVars,
        Routes
<1>1. ForwardTypeOK'
  BY DEF RoutesInOrder, ConnectionsHeld, Live
<1>2. RoutesInOrder'
  BY DEF RoutesInOrder, Live
<1>3. ConnectionsHeld'
  BY DEF ConnectionsHeld
<1>4. FlagIsUp'
  BY DEF FlagIsUp
<1>5. RewriteIsRight'
  BY DEF RoutesInOrder, FlagIsUp, RewriteIsRight, Live
<1> QED
  BY <1>1, <1>2, <1>3, <1>4, <1>5

\* A connection comes from the pool.
LEMMA GetConnStep ==
    ASSUME ForwardInv, NEW q \in Reqs, GetConn(q)
    PROVE  ForwardInv'
<1> USE ForwardAssumption
    DEF ForwardInv, ForwardTypeOK, GetConn, At, routeVars, poolVars,
        Routes
<1>1. ForwardTypeOK'
  BY DEF RoutesInOrder, ConnectionsHeld, Live
<1>2. RoutesInOrder'
  BY DEF RoutesInOrder, Live
<1>3. ConnectionsHeld'
  BY DEF ConnectionsHeld
<1>4. FlagIsUp'
  BY DEF FlagIsUp
<1>5. RewriteIsRight'
  BY DEF RoutesInOrder, FlagIsUp, RewriteIsRight, Live
<1> QED
  BY <1>1, <1>2, <1>3, <1>4, <1>5

\* Or it is dialed.
LEMMA DialConnStep ==
    ASSUME ForwardInv, NEW q \in Reqs, DialConn(q)
    PROVE  ForwardInv'
<1> USE ForwardAssumption
    DEF ForwardInv, ForwardTypeOK, DialConn, At, routeVars, poolVars,
        Routes
<1>1. ForwardTypeOK'
  BY DEF RoutesInOrder, ConnectionsHeld, Live
<1>2. RoutesInOrder'
  BY DEF RoutesInOrder, Live
<1>3. ConnectionsHeld'
  BY DEF ConnectionsHeld
<1>4. FlagIsUp'
  BY DEF FlagIsUp
<1>5. RewriteIsRight'
  BY DEF RoutesInOrder, FlagIsUp, RewriteIsRight, Live
<1> QED
  BY <1>1, <1>2, <1>3, <1>4, <1>5

\* The response begins, or there is none.
LEMMA RespondStep ==
    ASSUME ForwardInv, NEW q \in Reqs, Respond(q)
    PROVE  ForwardInv'
<1> USE ForwardAssumption
    DEF ForwardInv, ForwardTypeOK, Respond, At, routeVars, poolVars,
        Routes
<1>1. ForwardTypeOK'
  BY DEF RoutesInOrder, ConnectionsHeld, Live
<1>2. RoutesInOrder'
  BY DEF RoutesInOrder, Live
<1>3. ConnectionsHeld'
  BY DEF ConnectionsHeld
<1>4. FlagIsUp'
  BY DEF FlagIsUp
<1>5. RewriteIsRight'
  BY DEF RoutesInOrder, FlagIsUp, RewriteIsRight, Live
<1> QED
  BY <1>1, <1>2, <1>3, <1>4, <1>5

\* The body ends, and its connection returns to the pool.
LEMMA BodyEndsStep ==
    ASSUME ForwardInv, NEW q \in Reqs, BodyEnds(q)
    PROVE  ForwardInv'
<1> USE ForwardAssumption
    DEF ForwardInv, ForwardTypeOK, BodyEnds, At, routeVars, poolVars,
        Routes
<1>1. ForwardTypeOK'
  BY DEF RoutesInOrder, ConnectionsHeld, Live
<1>2. RoutesInOrder'
  BY DEF RoutesInOrder, Live
<1>3. ConnectionsHeld'
  BY DEF ConnectionsHeld
<1>4. FlagIsUp'
  BY DEF FlagIsUp
<1>5. RewriteIsRight'
  BY DEF RoutesInOrder, FlagIsUp, RewriteIsRight, Live
<1> QED
  BY <1>1, <1>2, <1>3, <1>4, <1>5

\* The client is gone, and the connection is closed.
LEMMA AbandonStep ==
    ASSUME ForwardInv, NEW q \in Reqs, Abandon(q)
    PROVE  ForwardInv'
<1> USE ForwardAssumption
    DEF ForwardInv, ForwardTypeOK, Abandon, At, routeVars, poolVars,
        Routes
<1>1. ForwardTypeOK'
  BY DEF RoutesInOrder, ConnectionsHeld, Live
<1>2. RoutesInOrder'
  BY DEF RoutesInOrder, Live
<1>3. ConnectionsHeld'
  BY DEF ConnectionsHeld
<1>4. FlagIsUp'
  BY DEF FlagIsUp
<1>5. RewriteIsRight'
  BY DEF RoutesInOrder, FlagIsUp, RewriteIsRight, Live
<1> QED
  BY <1>1, <1>2, <1>3, <1>4, <1>5

\* A route that is removed does not come back.
LEMMA RemoveRouteStep ==
    ASSUME ForwardInv, RemoveRoute
    PROVE  ForwardInv'
<1> USE ForwardAssumption
    DEF ForwardInv, ForwardTypeOK, RemoveRoute, At, routeVars, poolVars,
        Routes
<1>1. ForwardTypeOK'
  BY DEF RoutesInOrder, ConnectionsHeld, Live
<1>2. RoutesInOrder'
  BY DEF RoutesInOrder, Live
<1>3. ConnectionsHeld'
  BY DEF ConnectionsHeld
<1>4. FlagIsUp'
  BY DEF FlagIsUp
<1>5. RewriteIsRight'
  BY DEF RoutesInOrder, FlagIsUp, RewriteIsRight, Live
<1> QED
  BY <1>1, <1>2, <1>3, <1>4, <1>5

\* The next route is another one, and its flag is up before it.
LEMMA AddRouteStep ==
    ASSUME ForwardInv, AddRoute
    PROVE  ForwardInv'
<1> USE ForwardAssumption
    DEF ForwardInv, ForwardTypeOK, AddRoute, At, routeVars, poolVars,
        Routes
<1>1. hasRewrites' \in BOOLEAN
  OBVIOUS
<1>2. gen' \in Routes
  BY DEF RoutesInOrder
<1>3. /\ hasRewrites => hasRewrites'
      /\ ~adding => (gen + 1 \in Rewritten => hasRewrites')
  OBVIOUS
<1>4. ForwardTypeOK'
  BY <1>1, <1>2 DEF RoutesInOrder, ConnectionsHeld, Live
<1>5. RoutesInOrder'
  BY DEF RoutesInOrder, Live
<1>6. ConnectionsHeld'
  BY DEF ConnectionsHeld
<1>7. FlagIsUp'
  BY <1>3 DEF FlagIsUp
<1>8. RewriteIsRight'
  BY DEF RoutesInOrder, FlagIsUp, RewriteIsRight, Live
<1> QED
  BY <1>4, <1>5, <1>6, <1>7, <1>8

\* A connection of the pool dies.
LEMMA IdleDiesStep ==
    ASSUME ForwardInv, IdleDies
    PROVE  ForwardInv'
<1> USE ForwardAssumption
    DEF ForwardInv, ForwardTypeOK, IdleDies, At, routeVars, poolVars,
        Routes
<1>1. ForwardTypeOK'
  BY DEF RoutesInOrder, ConnectionsHeld, Live
<1>2. RoutesInOrder'
  BY DEF RoutesInOrder, Live
<1>3. ConnectionsHeld'
  BY DEF ConnectionsHeld
<1>4. FlagIsUp'
  BY DEF FlagIsUp
<1>5. RewriteIsRight'
  BY DEF RoutesInOrder, FlagIsUp, RewriteIsRight, Live
<1> QED
  BY <1>1, <1>2, <1>3, <1>4, <1>5

-----------------------------------------------------------------------------
(* The proxy                                                               *)

\* Initially nothing has begun.
LEMMA InitIInv == Init => IInv
<1> SUFFICES ASSUME Init PROVE IInv
  OBVIOUS
<1>1. TunnelInv
  BY DEF Init, TunnelInit, TunnelInv, TunnelTypeOK, TunnelHas, CutsHaveCauses
<1>2. ForwardInv
  <2>1. hasRewrites = (1 \in Rewritten)
    BY DEF Init, ForwardInit
  <2>2. hasRewrites \in BOOLEAN
    BY <2>1
  <2>3. 1 \in Rewritten => hasRewrites
    BY <2>1
  <2>4. /\ gen = 1 /\ live \in BOOLEAN /\ adding = FALSE
        /\ fwd = [q \in Reqs |-> "none"] /\ first = [q \in Reqs |-> 0]
        /\ host = [q \in Reqs |-> 0] /\ via = [q \in Reqs |-> 0]
        /\ idle = {} /\ closeIdle \in BOOLEAN
    BY DEF Init, ForwardInit
  <2>5. ForwardTypeOK
    <3>1. gen \in Routes /\ 0 \notin Routes
      BY <2>4, ForwardAssumption DEF Routes
    <3>2. adding \in BOOLEAN
      BY <2>4
    <3> QED
      BY <2>2, <2>4, <3>1, <3>2 DEF ForwardTypeOK
  <2>6. FlagIsUp
    BY <2>2, <2>4, <2>3, ForwardAssumption DEF FlagIsUp
  <2> QED
    BY <2>4, <2>5, <2>6 DEF ForwardInv, RoutesInOrder, ConnectionsHeld,
       RewriteIsRight, Live
<1> QED
  BY <1>1, <1>2 DEF Init, TunnelInit, IInv, TypeOK, TunnelInv, ForwardInv,
     ServerKeeps

\* Start, its goroutines and Close do not touch what the handlers have, but for
\* the pool and the connections that the server still has.
LEMMA LifeStep ==
    ASSUME IInv,
           \/ Listen \/ StartServing \/ Serve \/ Watch \/ CallClose \/ Close
           \/ ContextEnds
    PROVE  IInv'
<1> USE DEF IInv, TypeOK, ServerKeeps
<1>1. CASE Listen \/ StartServing \/ Serve \/ Watch \/ CallClose \/ ContextEnds
  <2>1. TunnelInv' /\ ForwardInv'
    BY <1>1, TunnelUnchanged, ForwardUnchanged
       DEF Listen, StartServing, Serve, Watch, CallClose, ContextEnds, Idle
  <2> QED
    BY <1>1, <2>1
       DEF Listen, StartServing, Serve, Watch, CallClose, ContextEnds, Idle,
           TunnelInv, ForwardInv, tunnelVars
<1>2. CASE CloseDone
  <2>1. TunnelInv' /\ ForwardInv'
    BY <1>2, TunnelUnchanged, ForwardUnchanged DEF CloseDone, Idle
  <2> QED
    BY <1>2, <2>1 DEF CloseDone, Idle, TunnelInv, ForwardInv, tunnelVars
<1>3. CASE CloseIdle
  <2>1. TunnelInv'
    BY <1>3, TunnelUnchanged DEF CloseIdle
  <2>2. ForwardInv'
    BY <1>3 DEF CloseIdle, ForwardInv, ForwardTypeOK, RoutesInOrder,
       ConnectionsHeld, FlagIsUp, RewriteIsRight, Live, routeVars
  <2> QED
    BY <1>3, <2>1, <2>2 DEF CloseIdle, TunnelInv, ForwardInv, tunnelVars
<1>4. CASE CloseServer
  <2>1. TunnelInv'
    BY <1>4 DEF CloseServer, Hijacked, Shut, TunnelInv, TunnelTypeOK,
       TunnelHas, CutsHaveCauses
  <2>2. ForwardInv'
    BY <1>4, ForwardUnchanged DEF CloseServer
  <2> QED
    BY <1>4, <2>1, <2>2 DEF CloseServer, TunnelInv, ForwardInv
<1> QED
  BY <1>1, <1>2, <1>3, <1>4 DEF Close

\* The connection of a client is accepted, terminated and closed around its
\* requests.
LEMMA LinkStep ==
    ASSUME IInv, NEW q \in Reqs,
           Accept(q) \/ TerminateTLS(q) \/ ClientLeaves(q) \/ TLSEnds(q)
    PROVE  IInv'
<1>1. TunnelInv' /\ ForwardInv'
  BY TunnelUnchanged, ForwardUnchanged
     DEF IInv, Accept, TerminateTLS, ClientLeaves, TLSEnds
<1> QED
  BY <1>1 DEF IInv, TypeOK, TunnelInv, ForwardInv, ServerKeeps, Accept,
     TerminateTLS, ClientLeaves, TLSEnds, lifeVars, tunnelVars

\* A tunnel goes on, or its ends do.
LEMMA TunnelsStep ==
    ASSUME IInv, Tunnels
    PROVE  IInv'
<1>1. TunnelInv' /\ ForwardInv' /\ ServerKeeps'
  BY TunnelKept, ForwardUnchanged DEF IInv, Tunnels, lifeVars
<1> QED
  BY <1>1 DEF IInv, TypeOK, TunnelInv, ForwardInv, Tunnels, lifeVars

\* A request begins, goes on or gives up.
LEMMA RequestStep ==
    ASSUME IInv, NEW q \in Reqs, Request(q) \/ Forwards(q) \/ GiveUp(q)
    PROVE  IInv'
<1>1. TunnelInv'
  BY TunnelUnchanged DEF IInv, Request, Forwards, GiveUp
<1>2. ForwardInv'
  BY BeginStep, CheckFlagStep, LookupRewriteStep, GetConnStep, DialConnStep,
     RespondStep, BodyEndsStep, AbandonStep
     DEF IInv, Request, Forwards, GiveUp, ForwardStep
<1> QED
  BY <1>1, <1>2 DEF IInv, TypeOK, TunnelInv, ForwardInv, ServerKeeps, Request,
     Forwards, GiveUp, lifeVars, tunnelVars

\* The name is removed and added again, and idle connections die.
LEMMA WorldStep ==
    ASSUME IInv, World
    PROVE  IInv'
<1>1. TunnelInv' /\ ForwardInv'
  BY TunnelUnchanged, RemoveRouteStep, AddRouteStep, IdleDiesStep
     DEF IInv, World, ForwardEnv
<1> QED
  BY <1>1 DEF IInv, TypeOK, TunnelInv, ForwardInv, ServerKeeps, World,
     lifeVars, tunnelVars

\* The invariant is inductive.
LEMMA NextIInv == IInv /\ [Next]_vars => IInv'
<1> SUFFICES ASSUME IInv, [Next]_vars PROVE IInv'
  OBVIOUS
<1>1. CASE UNCHANGED vars
  <2>1. TunnelInv' /\ ForwardInv'
    BY <1>1, TunnelUnchanged, ForwardUnchanged DEF IInv, vars
  <2> QED
    BY <1>1, <2>1 DEF vars, lifeVars, tunnelVars, IInv, TypeOK, TunnelInv,
       ForwardInv, ServerKeeps
<1> QED
  BY <1>1, LifeStep, TunnelsStep, LinkStep, RequestStep, WorldStep
     DEF Next, Terminated

\* The invariant holds in every state of every execution.
THEOREM Invariance == Spec => []IInv
  BY InitIInv, NextIInv, PTL DEF Spec

\* A CONNECT handler closes the connections it has taken, on every path, and
\* leaves the client's to the server when it has not hijacked it.
THEOREM CleanUpTheorem == Spec => []HandlersCleanUp
<1>1. IInv => HandlersCleanUp
  BY DEF IInv, TunnelInv, TunnelHas, ServerKeeps, HandlersCleanUp
<1> QED
  BY <1>1, Invariance, PTL

\* The end of the request does not cut the response.
THEOREM NotCutTheorem == Spec => []TunnelsAreNotCut
<1>1. IInv => TunnelsAreNotCut
  BY DEF IInv, TunnelInv, CutsHaveCauses, TunnelsAreNotCut
<1> QED
  BY <1>1, Invariance, PTL

\* A request carries the Host of the route it goes to.
THEOREM RewriteTheorem == Spec => []RewriteIsApplied
<1>1. IInv => RewriteIsApplied
  BY DEF IInv, ForwardInv, ForwardTypeOK, ConnectionsHeld, RewriteIsRight,
     RewriteIsApplied
<1> QED
  BY <1>1, Invariance, PTL
=============================================================================
