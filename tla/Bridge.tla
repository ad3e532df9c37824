------------------------------- MODULE Bridge -------------------------------
(***************************************************************************)
(* The local bridges of a registry (listenlocal.go): ListenLocal, the set  *)
(* of listeners it keeps under a lock of its own, the accept loop of each  *)
(* listener, one of the connections they accept (BridgeConn), and          *)
(* Registry.Close, which tears all of them down.                           *)
(***************************************************************************)
EXTENDS BridgeConn

CONSTANTS
    Bridges         \* calls of ListenLocal, and the listeners they make

VARIABLES
    pc,             \* where each ListenLocal is
    result,         \* what it returned
    sock,           \* its listening socket
    loop,           \* its accept loop
    ls, setClosed,  \* bridgeSet
    taken           \* closeAll: the listeners it has yet to close

bridgeVars == <<pc, result, sock, loop, ls, setClosed, taken>>
vars == <<regVars, connVars, bridgeVars>>

TypeOK ==
    /\ pc \in [Bridges -> {"idle", "listen", "add", "refuse", "ret"}]
    /\ result \in [Bridges -> {"none", "ok", "ErrClosed", "ErrRouteNotFound",
                               "ErrPorts", "ErrListen"}]
    /\ sock \in [Bridges -> {"none", "open", "closed"}]
    /\ loop \in [Bridges -> {"none", "accept", "backoff", "leave", "exited"}]
    /\ ls \subseteq Bridges /\ setClosed \in BOOLEAN
    /\ taken \subseteq Bridges
    /\ reg \in {"open", "closed", "done", "sweep", "end", "stopped"}
    /\ \A b \in Bridges : loop[b] # "none" => result[b] = "ok"

Init ==
    /\ ConnInit
    /\ pc = [b \in Bridges |-> "idle"]
    /\ result = [b \in Bridges |-> "none"]
    /\ sock = [b \in Bridges |-> "none"]
    /\ loop = [b \in Bridges |-> "none"]
    /\ ls = {} /\ setClosed = FALSE /\ taken = {}

Return(b, res) ==
    /\ pc' = [pc EXCEPT ![b] = "ret"]
    /\ result' = [result EXCEPT ![b] = res]

-----------------------------------------------------------------------------
(* ListenLocal                                                             *)

\* The read-locked lookup and bridgeDialPort, which refuses a route with
\* several mapped ports.
ListenLocal(b) ==
    /\ pc[b] = "idle"
    /\ \/ reg # "open" /\ Return(b, "ErrClosed")
       \/ reg = "open" /\ ~live /\ Return(b, "ErrRouteNotFound")
       \/ reg = "open" /\ live /\ ~bridgeable /\ Return(b, "ErrPorts")
       \/ /\ reg = "open" /\ live /\ bridgeable
          /\ pc' = [pc EXCEPT ![b] = "listen"] /\ UNCHANGED result
    /\ UNCHANGED <<regVars, connVars, sock, loop, ls, setClosed, taken>>

\* net.Listen
Listen(b) ==
    /\ pc[b] = "listen"
    /\ \/ /\ sock' = [sock EXCEPT ![b] = "open"]
          /\ pc' = [pc EXCEPT ![b] = "add"] /\ UNCHANGED result
       \/ Return(b, "ErrListen") /\ UNCHANGED sock
    /\ UNCHANGED <<regVars, connVars, loop, ls, setClosed, taken>>

\* Mutant: the answer of bridgeSet.add is not looked at.
AddIgnoresRefusal(b) ==
    /\ pc[b] = "add"
    /\ ls' = IF setClosed THEN ls ELSE ls \cup {b}
    /\ loop' = [loop EXCEPT ![b] = "accept"]
    /\ Return(b, "ok")
    /\ UNCHANGED <<regVars, connVars, sock, setClosed, taken>>

\* bridgeSet.add, which refuses once closeAll has run; the accept loop starts.
Add(b) ==
    /\ pc[b] = "add"
    /\ \/ /\ ~setClosed
          /\ ls' = ls \cup {b}
          /\ loop' = [loop EXCEPT ![b] = "accept"]
          /\ Return(b, "ok")
       \/ /\ setClosed
          /\ pc' = [pc EXCEPT ![b] = "refuse"]
          /\ UNCHANGED <<ls, loop, result>>
    /\ UNCHANGED <<regVars, connVars, sock, setClosed, taken>>

\* A listener the set refused is closed again.
Refuse(b) ==
    /\ pc[b] = "refuse"
    /\ sock' = [sock EXCEPT ![b] = "closed"]
    /\ Return(b, "ErrClosed")
    /\ UNCHANGED <<regVars, connVars, loop, ls, setClosed, taken>>

-----------------------------------------------------------------------------
(* bridgeAccept; an accepted connection is given to bridgeConn and leaves  *)
(* the loop where it was                                                   *)

\* Accept returns a connection.
AcceptConn(b) ==
    /\ loop[b] = "accept" /\ sock[b] = "open"
    /\ Accepted
    /\ UNCHANGED bridgeVars

\* Accept fails: for good once the listener is closed, or for now.
AcceptFails(b) ==
    /\ loop[b] = "accept"
    /\ \/ /\ sock[b] = "closed"
          /\ loop' = [loop EXCEPT ![b] = "leave"]
       \/ /\ sock[b] = "open"
          /\ loop' = [loop EXCEPT ![b] = "backoff"]
    /\ UNCHANGED <<regVars, connVars, pc, result, sock, ls, setClosed, taken>>

\* The select of the backoff: Registry.done ends the loop, the timer
\* continues it.
Backoff(b) ==
    /\ loop[b] = "backoff"
    /\ \/ Done /\ loop' = [loop EXCEPT ![b] = "leave"]
       \/ loop' = [loop EXCEPT ![b] = "accept"]
    /\ UNCHANGED <<regVars, connVars, pc, result, sock, ls, setClosed, taken>>

\* Mutant: the loop does not remove its listener from the set.
LeaveStaysInSet(b) ==
    /\ loop[b] = "leave"
    /\ loop' = [loop EXCEPT ![b] = "exited"]
    /\ UNCHANGED <<regVars, connVars, pc, result, sock, ls, setClosed, taken>>

\* The deferred bridgeSet.remove.
Leave(b) ==
    /\ loop[b] = "leave"
    /\ ls' = ls \ {b}
    /\ loop' = [loop EXCEPT ![b] = "exited"]
    /\ UNCHANGED <<regVars, connVars, pc, result, sock, setClosed, taken>>

-----------------------------------------------------------------------------
(* Registry.Close, and the rest of the world                               *)

\* closed is set and the map emptied...
CloseMark ==
    /\ reg = "open" /\ reg' = "closed" /\ live' = FALSE
    /\ UNCHANGED <<backend, gen, bridgeable, connVars, bridgeVars>>

\* ... done is closed...
CloseSignal ==
    /\ reg = "closed" /\ reg' = "done"
    /\ UNCHANGED <<backend, routeVars, connVars, bridgeVars>>

\* ... closeAll takes the listeners under the set's lock...
CloseAll ==
    /\ reg = "done" /\ reg' = "sweep"
    /\ taken' = ls /\ ls' = {} /\ setClosed' = TRUE
    /\ UNCHANGED <<backend, routeVars, connVars, pc, result, sock, loop>>

\* ... and closes them outside it.
CloseListener ==
    /\ reg = "sweep"
    /\ \/ /\ \E b \in taken :
                /\ sock' = [sock EXCEPT ![b] = "closed"]
                /\ taken' = taken \ {b}
          /\ UNCHANGED reg
       \/ taken = {} /\ reg' = "end" /\ UNCHANGED <<sock, taken>>
    /\ UNCHANGED <<backend, routeVars, connVars, pc, result, loop, ls, setClosed>>

\* The backends are stopped last.
StopBackends ==
    /\ reg = "end" /\ reg' = "stopped"
    /\ server' = IF Stoppable THEN "ended" ELSE server
    /\ UNCHANGED <<backend, routeVars, least, dialed, conn, client, peer, up,
                   copyUp, watcher, bridgeVars>>

\* The owner of a listener closes it early.
OwnerCloses(b) ==
    /\ pc[b] = "ret" /\ sock[b] = "open"
    /\ sock' = [sock EXCEPT ![b] = "closed"]
    /\ UNCHANGED <<regVars, connVars, pc, result, loop, ls, setClosed, taken>>

\* Remove, which stops the backend, and Add of a new route under the name,
\* with a single port or with several.
RouteChanges ==
    /\ reg = "open"
    /\ \/ /\ live /\ live' = FALSE /\ UNCHANGED <<gen, bridgeable>>
          /\ server' = IF Stoppable /\ dialed = gen THEN "ended" ELSE server
       \/ /\ ~live /\ gen < MaxGen
          /\ gen' = gen + 1 /\ live' = TRUE /\ bridgeable' \in BOOLEAN
          /\ UNCHANGED server
    /\ UNCHANGED <<backend, reg, least, dialed, conn, client, peer, up, copyUp,
                   watcher, bridgeVars>>

Close == CloseMark \/ CloseSignal \/ CloseAll \/ CloseListener \/ StopBackends

Call(b) == Listen(b) \/ Add(b) \/ Refuse(b)

Loop(b) == AcceptFails(b) \/ Backoff(b) \/ Leave(b)

Conn == ConnStep /\ UNCHANGED bridgeVars

Env == ConnEnv /\ UNCHANGED bridgeVars

Terminated ==
    /\ reg = "stopped" /\ conn \in {"accept", "ret"}
    /\ \A b \in Bridges : pc[b] = "ret"
    /\ UNCHANGED vars

Next ==
    \/ \E b \in Bridges : \/ ListenLocal(b) \/ Call(b) \/ Loop(b)
                          \/ AcceptConn(b) \/ OwnerCloses(b)
    \/ Conn \/ Env
    \/ Close
    \/ RouteChanges
    \/ Terminated

Spec == Init /\ [][Next]_vars

\* A call, an accept loop and a Close that have begun keep running.  A loop
\* whose listener is closed or whose registry is done does not draw transient
\* errors from Accept for ever, nor always the timer from the select.  The
\* goroutines of a connection run and its dial returns.  A copy to a side that
\* is gone ends only if the other one sends something, which it need not; a
\* server that has seen the end of the request ends its response.
FairSpec ==
    /\ Spec
    /\ \A b \in Bridges :
          /\ WF_vars(Call(b))
          /\ WF_vars(Leave(b)) /\ WF_vars(Backoff(b))
          /\ WF_vars(sock[b] = "closed" /\ AcceptFails(b))
    /\ WF_vars(reg # "open" /\ Close)
    /\ WF_vars((Lookup \/ DialReturns \/ Joined \/ ConnLeaves) /\ UNCHANGED bridgeVars)
    /\ WF_vars(server = "ended" /\ CopyDownEnds /\ UNCHANGED bridgeVars)
    /\ WF_vars(ClientEnded /\ CopyUpEnds /\ UNCHANGED bridgeVars)
    /\ WF_vars(PropagateEOF /\ UNCHANGED bridgeVars)
    /\ WF_vars(WatcherFires /\ UNCHANGED bridgeVars)
    /\ WF_vars(up = "halfclosed" /\ ServerEnds /\ UNCHANGED bridgeVars)

-----------------------------------------------------------------------------
(* Properties                                                              *)

\* b is bound although Close is through with the bridges, and nobody is left to
\* close it: not even its own ListenLocal, which has yet to be refused.
Leaked(b) ==
    /\ reg \in {"end", "stopped"}
    /\ sock[b] = "open" /\ pc[b] \notin {"add", "refuse"}

\* A ListenLocal that passed the closed check before Close began cannot slip
\* its listener past closeAll, and a listener it returned is in the set or taken
\* from it for as long as it is bound and its accept loop runs ("The listener
\* ... closed by Registry.Close", listenlocal.go:42).  The accept loop itself
\* can break the claim: see CloseUnbindsListeners.  (It includes TypeOK.)
ReturnedListenersAreTracked ==
    /\ TypeOK
    /\ \A b \in Bridges :
          loop[b] \notin {"leave", "exited"} =>
             /\ ~Leaked(b)
             /\ result[b] = "ok" /\ sock[b] = "open" => b \in ls \cup taken

\* The comment's claim for every listener.  An accept loop that backs off from
\* a transient error leaves when done is closed, and takes its listener out of
\* the set before closeAll can find it there.
CloseUnbindsListeners == \A b \in Bridges : ~Leaked(b)

\* Bridges closed early do not pile up in a registry that is never closed
\* (listenlocal.go:94-95).
ClosedBridgesAreForgotten ==
    \A b \in Bridges : sock[b] = "closed" ~> b \notin ls

\* Once Close has begun, it gets through, every accept loop ends, also one that
\* is backing off from a transient error, and bridgeConn returns ("close the
\* client conn, which unwinds both copies", listenlocal.go:178-181): a half-close
\* ends the response of a TCP server, Stop breaks a stream of k8s.  An upstream
\* with neither (net.Pipe) that is idle keeps its copy in Read.
CloseUnwinds ==
    reg # "open" ~>
        /\ reg = "stopped"
        /\ \A b \in Bridges : loop[b] \in {"none", "exited"}
        /\ conn \in {"accept", "ret"} \/ backend = "mem"

=============================================================================
