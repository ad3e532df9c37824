----------------------------- MODULE BridgeConn -----------------------------
(***************************************************************************)
(* One connection through a local bridge (bridgeConn, listenlocal.go): the *)
(* lookup at connection time, the dial, the two copies with half-close,    *)
(* and the watcher that tears the pipe down when the registry closes.      *)
(* Connections share nothing but the registry, so one is enough.  The      *)
(* module Bridge composes it with the accept loops and Registry.Close.     *)
(*                                                                         *)
(* A route's identity is a generation number: every re-Add of the name is  *)
(* a new one.  A copy is blocked in Read until its source ends or is       *)
(* closed; a Write fails only when there is something to write.            *)
(***************************************************************************)
EXTENDS Naturals

CONSTANTS
    Backends,       \* the kinds of backend the route may have
    MaxGen          \* bound: how many routes the name has in turn

ASSUME BridgeConnAssumption ==
    Backends \subseteq {"tcp", "k8s", "mem"} /\ MaxGen \in Nat \ {0}

VARIABLES
    backend,        \* the route's kind of backend
    reg,            \* how far Registry.Close is
    gen, live,      \* the last route of the name, and whether it is in the map
    bridgeable      \* bridgeDialPort has no objection to it

VARIABLES
    least,          \* the oldest route this connection may be given
    dialed,         \* the route it dialed, 0 before that
    conn,           \* where bridgeConn is
    client,         \* its side of the client connection
    peer,           \* the client's side: "open", "eof" (half-closed), "gone"
    up,             \* its side of the upstream connection
    server,         \* the server's side
    copyUp,         \* the goroutine copying client to upstream
    watcher         \* the goroutine waiting for done or stop

routeVars == <<gen, live, bridgeable>>
regVars == <<backend, reg, routeVars>>
connVars == <<least, dialed, conn, client, peer, up, server, copyUp, watcher>>

\* The upstream connection has CloseWrite: that of TCP has, the streams of k8s
\* and net.Pipe have not.
HalfClose == backend = "tcp"

\* The backend has a Stop method, which breaks its connections.
Stoppable == backend = "k8s"

ConnTypeOK ==
    /\ backend \in Backends
    /\ gen \in 0..MaxGen /\ live \in BOOLEAN /\ bridgeable \in BOOLEAN
    /\ least \in 0..(MaxGen + 1) /\ dialed \in 0..MaxGen
    /\ conn \in {"accept", "lookup", "dial", "pipe", "drain", "leave", "ret"}
    /\ client \in {"open", "halfclosed", "closed"}
    /\ peer \in {"open", "eof", "gone"}
    /\ up \in {"none", "open", "halfclosed", "closed"}
    /\ server \in {"open", "ended"}
    /\ copyUp \in {"none", "copying", "eof", "done"}
    /\ watcher \in {"none", "armed", "fired", "stopped"}
    /\ up = "none" <=> copyUp = "none"

ConnInit ==
    /\ backend \in Backends
    /\ reg = "open"
    /\ gen = 1 /\ live = TRUE /\ bridgeable \in BOOLEAN
    /\ least = 0 /\ dialed = 0
    /\ conn = "accept"
    /\ client = "open" /\ peer = "open"
    /\ up = "none" /\ server = "open"
    /\ copyUp = "none" /\ watcher = "none"

Done == reg \notin {"open", "closed"}     \* Registry.done is closed

-----------------------------------------------------------------------------
(* bridgeConn                                                              *)

\* The accept loop starts the goroutine.  From here on a route that is gone
\* must not be dialed.
Accepted ==
    /\ conn = "accept"
    /\ least' = IF live THEN gen ELSE gen + 1
    /\ conn' = "lookup"
    /\ UNCHANGED <<regVars, dialed, client, peer, up, server, copyUp, watcher>>

\* Mutant: the bridge keeps the route it found when it was made.
LookupPinned ==
    /\ conn = "lookup"
    /\ \/ /\ reg = "open"
          /\ dialed' = 1
          /\ watcher' = "armed"
          /\ conn' = "dial"
       \/ /\ reg # "open"
          /\ conn' = "leave" /\ UNCHANGED <<dialed, watcher>>
    /\ UNCHANGED <<regVars, least, client, peer, up, server, copyUp>>

\* The lookup by name; the watcher is armed before the dial.
Lookup ==
    /\ conn = "lookup"
    /\ \/ /\ reg = "open" /\ live /\ bridgeable
          /\ dialed' = gen
          /\ watcher' = "armed"
          /\ conn' = "dial"
       \/ /\ ~(reg = "open" /\ live /\ bridgeable)
          /\ conn' = "leave" /\ UNCHANGED <<dialed, watcher>>
    /\ UNCHANGED <<regVars, least, client, peer, up, server, copyUp>>

\* dialRoute returns; when the watcher has canceled it, most likely an error.
DialReturns ==
    /\ conn = "dial"
    /\ \/ /\ up' = "open" /\ copyUp' = "copying"
          /\ conn' = "pipe"
       \/ conn' = "leave" /\ UNCHANGED <<up, copyUp>>
    /\ UNCHANGED <<regVars, least, dialed, client, peer, server, watcher>>

\* There is nothing more to read from the client.
ClientEnded == peer # "open" \/ client = "closed"

\* io.Copy(upstream, conn) ends: the client has, or it had something to write
\* to a server that is not there any more.
CopyUpEnds ==
    /\ copyUp = "copying"
    /\ ClientEnded \/ server = "ended"
    /\ copyUp' = "eof"
    /\ UNCHANGED <<regVars, least, dialed, conn, client, peer, up, server, watcher>>

\* Mutant: an upstream without CloseWrite is closed instead.
PropagateClose ==
    /\ copyUp = "eof"
    /\ copyUp' = "done"
    /\ up' = IF up # "open" THEN up ELSE IF HalfClose THEN "halfclosed" ELSE "closed"
    /\ UNCHANGED <<regVars, least, dialed, conn, client, peer, server, watcher>>

\* The client's EOF is passed on if the upstream can be half-closed.
PropagateEOF ==
    /\ copyUp = "eof"
    /\ copyUp' = "done"
    /\ up' = IF HalfClose /\ up = "open" THEN "halfclosed" ELSE up
    /\ UNCHANGED <<regVars, least, dialed, conn, client, peer, server, watcher>>

\* io.Copy(conn, upstream) ends because the server has finished, or because
\* there was something to write to a client that is not there any more; then
\* the client is told that the response is over.
CopyDownEnds ==
    /\ conn = "pipe"
    /\ server = "ended" \/ peer = "gone" \/ client = "closed"
    /\ client' = IF client = "open" THEN "halfclosed" ELSE client
    /\ conn' = "drain"
    /\ UNCHANGED <<regVars, least, dialed, peer, up, server, copyUp, watcher>>

\* <-done
Joined ==
    /\ conn = "drain" /\ copyUp = "done"
    /\ conn' = "leave"
    /\ UNCHANGED <<regVars, least, dialed, client, peer, up, server, copyUp,
                   watcher>>

\* Mutant: the stop channel is not closed.
ConnLeavesWithoutStop ==
    /\ conn = "leave"
    /\ up' = IF up = "none" THEN "none" ELSE "closed"
    /\ client' = "closed"
    /\ conn' = "ret"
    /\ UNCHANGED <<regVars, least, dialed, peer, server, copyUp, watcher>>

\* The deferred calls: upstream.Close, close(stop), cancel, conn.Close.
ConnLeaves ==
    /\ conn = "leave"
    /\ up' = IF up = "none" THEN "none" ELSE "closed"
    /\ watcher' = IF watcher = "armed" THEN "stopped" ELSE watcher
    /\ client' = "closed"
    /\ conn' = "ret"
    /\ UNCHANGED <<regVars, least, dialed, peer, server, copyUp>>

\* Mutant: the watcher only cancels the dial.
WatcherOnlyCancels ==
    /\ watcher = "armed" /\ Done
    /\ watcher' = "fired"
    /\ UNCHANGED <<regVars, least, dialed, conn, client, peer, up, server, copyUp>>

\* The watcher sees done: it cancels the dial and closes the client conn.
WatcherFires ==
    /\ watcher = "armed" /\ Done
    /\ watcher' = "fired"
    /\ client' = "closed"
    /\ UNCHANGED <<regVars, least, dialed, conn, peer, up, server, copyUp>>

-----------------------------------------------------------------------------
(* The rest of the world                                                   *)

\* The client half-closes its connection, or goes away altogether.
PeerEnds ==
    /\ \/ peer = "open" /\ peer' \in {"eof", "gone"}
       \/ peer = "eof" /\ peer' = "gone"
    /\ UNCHANGED <<regVars, least, dialed, conn, client, up, server, copyUp,
                   watcher>>

\* The server ends its side, at any time it likes.
ServerEnds ==
    /\ conn = "pipe" /\ server = "open"
    /\ server' = "ended"
    /\ UNCHANGED <<regVars, least, dialed, conn, client, peer, up, copyUp, watcher>>

ConnStep ==
    \/ Lookup \/ DialReturns \/ CopyUpEnds \/ PropagateEOF
    \/ CopyDownEnds \/ Joined \/ ConnLeaves \/ WatcherFires

ConnEnv == PeerEnds \/ ServerEnds

-----------------------------------------------------------------------------
(* Properties of a connection                                              *)

\* A connection is never piped to a route that was gone when it was accepted
\* (listenlocal.go:37-40): the bridge follows the name, not the route.
NoStaleRoute == dialed # 0 => dialed >= least

\* A response is not cut short: the bridge closes the upstream only when the
\* server has ended it, the client is gone, or the registry closes, and not
\* because the client has half-closed (listenlocal.go:207-211).
ResponsesAreNotTruncated ==
    up = "closed" => server = "ended" \/ peer = "gone" \/ Done

\* When bridgeConn returns, both connections are closed and no goroutine it
\* started is left behind.  (The invariant includes ConnTypeOK.)
NothingIsLeftBehind ==
    /\ ConnTypeOK
    /\ conn = "ret" => /\ client = "closed" /\ up \in {"none", "closed"}
                       /\ copyUp \in {"none", "done"} /\ watcher # "armed"

=============================================================================
