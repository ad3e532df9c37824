------------------------------- MODULE Proxy -------------------------------
(***************************************************************************)
(* The forward proxy (proxy/proxy.go): Start, its watcher and its server   *)
(* goroutine against Close, with the traffic the server has accepted: a    *)
(* CONNECT tunnel (Tunnel), or requests (Forward) that arrive in absolute  *)
(* form or, one after the other, through a TLS connection that the proxy   *)
(* terminates (proxy/tls.go).  net/http's Server is modelled by what the   *)
(* code relies on: Close closes its listeners and every connection that    *)
(* was not hijacked, and Serve after Close closes its listener.            *)
(***************************************************************************)
EXTENDS Tunnel, Forward

VARIABLES
    traffic,        \* what comes in: a tunnel, requests, requests over TLS
    start,          \* where Start is
    lis,            \* its listener
    serve,          \* the goroutine that serves
    watcher,        \* the goroutine that waits for the context's end
    ctxEnded,       \* the context given to Start has ended
    once,           \* how far Close is: closed done, dropped idle connections
    closer,         \* a caller of Close
    link            \* the connection of each client in Reqs, and its handler

lifeVars == <<start, lis, serve, watcher, ctxEnded, once, closer>>
vars == <<traffic, lifeVars, link, tunnelVars, forwardVars>>

TypeOK ==
    /\ traffic \in {"tunnel", "absolute", "tls"}
    /\ start \in {"idle", "bound", "served", "refused"}
    /\ lis \in {"none", "open", "closed"}
    /\ serve \in {"none", "ready", "serving", "exited"}
    /\ watcher \in {"none", "armed", "closing", "exited"}
    /\ ctxEnded \in BOOLEAN
    /\ once \in {"no", "marked", "drained", "done"}
    /\ closer \in {"idle", "closing", "ret"}
    /\ link \in [Reqs -> {"none", "open", "hijack", "tls", "tlsClosed", "closed"}]
    /\ TunnelTypeOK /\ ForwardTypeOK

Init ==
    /\ traffic \in {"tunnel", "absolute", "tls"}
    /\ start = "idle" /\ lis = "none" /\ serve = "none" /\ watcher = "none"
    /\ ctxEnded = FALSE /\ once = "no" /\ closer = "idle"
    /\ link = [q \in Reqs |-> "none"]
    /\ TunnelInit /\ (traffic # "tunnel" => halfClose)
    /\ ForwardInit

Idle == UNCHANGED <<tunnelVars, forwardVars, link>>

-----------------------------------------------------------------------------
(* Start, Serve and Close                                                  *)

Listen ==
    /\ start = "idle"
    /\ start' = "bound" /\ lis' = "open"
    /\ UNCHANGED <<traffic, serve, watcher, ctxEnded, once, closer>> /\ Idle

\* A context that has ended already closes the listener again.
StartServing ==
    /\ start = "bound"
    /\ \/ /\ ctxEnded
          /\ start' = "refused" /\ lis' = "closed"
          /\ UNCHANGED <<serve, watcher>>
       \/ /\ ~ctxEnded
          /\ start' = "served" /\ serve' = "ready" /\ watcher' = "armed"
          /\ UNCHANGED lis
    /\ UNCHANGED <<traffic, ctxEnded, once, closer>> /\ Idle

\* server.Serve, which refuses after server.Close and returns when its listener
\* is closed.
Serve ==
    /\ \/ /\ serve = "ready" /\ once # "done"
          /\ serve' = "serving" /\ UNCHANGED lis
       \/ /\ serve = "ready" /\ once = "done"
          /\ serve' = "exited" /\ lis' = "closed"
       \/ /\ serve = "serving" /\ lis = "closed"
          /\ serve' = "exited" /\ UNCHANGED lis
    /\ UNCHANGED <<traffic, start, watcher, ctxEnded, once, closer>> /\ Idle

\* Mutant: the watcher waits for the context alone.
WatchContextOnly ==
    /\ \/ /\ watcher = "armed" /\ ctxEnded
          /\ watcher' = "closing"
       \/ /\ watcher = "closing" /\ once = "done"
          /\ watcher' = "exited"
    /\ UNCHANGED <<traffic, start, lis, serve, ctxEnded, once, closer>> /\ Idle

\* The watcher's select; Close returns when it is through, whoever runs it.
Watch ==
    /\ \/ /\ watcher = "armed"
          /\ \/ ctxEnded /\ watcher' = "closing"
             \/ once # "no" /\ watcher' = "exited"
       \/ /\ watcher = "closing" /\ once = "done"
          /\ watcher' = "exited"
    /\ UNCHANGED <<traffic, start, lis, serve, ctxEnded, once, closer>> /\ Idle

CallClose ==
    /\ \/ closer = "idle" /\ closer' = "closing"
       \/ closer = "closing" /\ once = "done" /\ closer' = "ret"
    /\ UNCHANGED <<traffic, start, lis, serve, watcher, ctxEnded, once>> /\ Idle

\* close(p.done), by the first caller
CloseDone ==
    /\ once = "no" /\ "closing" \in {watcher, closer}
    /\ once' = "marked"
    /\ UNCHANGED <<traffic, start, lis, serve, watcher, ctxEnded, closer>> /\ Idle

\* transport.CloseIdleConnections
CloseIdle ==
    /\ once = "marked" /\ once' = "drained"
    /\ idle' = {} /\ closeIdle' = TRUE
    /\ UNCHANGED <<traffic, start, lis, serve, watcher, ctxEnded, closer, link,
                   tunnelVars, routeVars, fwd, first, host, via>>

\* server.Close, which closes the listener that is being served and the
\* connections the server still has.
CloseServer ==
    /\ once = "drained" /\ once' = "done"
    /\ lis' = IF serve = "serving" THEN "closed" ELSE lis
    /\ client' = IF Hijacked THEN client ELSE Shut(client)
    /\ link' = [q \in Reqs |-> IF link[q] \in {"open", "hijack"} THEN "closed"
                               ELSE link[q]]
    /\ UNCHANGED <<traffic, start, serve, watcher, ctxEnded, closer, forwardVars,
                   halfClose, tun, peer, back, server, copyUp, copyDown>>

ContextEnds ==
    /\ ~ctxEnded /\ ctxEnded' = TRUE
    /\ UNCHANGED <<traffic, start, lis, serve, watcher, once, closer>> /\ Idle

-----------------------------------------------------------------------------
(* Traffic                                                                 *)

\* A tunnel is asked for, or goes on.
Tunnels ==
    /\ traffic = "tunnel"
    /\ \/ Connect /\ serve = "serving" /\ lis = "open"
       \/ ConnectAgain \/ TunnelStep \/ TunnelEnv
    /\ UNCHANGED <<traffic, lifeVars, link, forwardVars>>

\* A client connects, for TLS with a CONNECT request.
Accept(q) ==
    /\ traffic # "tunnel" /\ serve = "serving" /\ lis = "open"
    /\ link[q] = "none"
    /\ link' = [link EXCEPT ![q] = IF traffic = "tls" THEN "hijack" ELSE "open"]
    /\ UNCHANGED <<traffic, lifeVars, tunnelVars, forwardVars>>

\* terminateTLS: hijack, then write the answer.
TerminateTLS(q) ==
    /\ link[q] = "hijack"
    /\ link' \in {[link EXCEPT ![q] = "tls"], [link EXCEPT ![q] = "closed"]}
    /\ UNCHANGED <<traffic, lifeVars, tunnelVars, forwardVars>>

\* A request on a connection; the handler of a TLS connection is the same.
Request(q) ==
    /\ link[q] \in {"open", "tls"}
    /\ Begin(q)
    /\ UNCHANGED <<traffic, lifeVars, link, tunnelVars>>

Forwards(q) ==
    /\ ForwardStep(q)
    /\ UNCHANGED <<traffic, lifeVars, link, tunnelVars>>

\* The client closes its connection.
ClientLeaves(q) ==
    /\ \/ link[q] = "open" /\ link' = [link EXCEPT ![q] = "closed"]
       \/ link[q] = "tls" /\ link' = [link EXCEPT ![q] = "tlsClosed"]
    /\ UNCHANGED <<traffic, lifeVars, tunnelVars, forwardVars>>

\* The handler of a request whose connection is gone gives up.
GiveUp(q) ==
    /\ link[q] \in {"closed", "tlsClosed"}
    /\ Abandon(q)
    /\ UNCHANGED <<traffic, lifeVars, link, tunnelVars>>

\* notifyConn.Close lets the second Accept of singleConnListener return: Serve
\* returns, and so does terminateTLS.
TLSEnds(q) ==
    /\ link[q] = "tlsClosed" /\ fwd[q] \in {"none", "over"}
    /\ link' = [link EXCEPT ![q] = "closed"]
    /\ UNCHANGED <<traffic, lifeVars, tunnelVars, forwardVars>>

World ==
    /\ traffic # "tunnel" /\ ForwardEnv
    /\ UNCHANGED <<traffic, lifeVars, link, tunnelVars>>

-----------------------------------------------------------------------------

Close == CloseDone \/ CloseIdle \/ CloseServer

Terminated ==
    /\ once = "done" /\ UNCHANGED vars

Next ==
    \/ Listen \/ StartServing \/ Serve \/ Watch \/ CallClose \/ Close
    \/ ContextEnds
    \/ Tunnels
    \/ \E q \in Reqs : \/ Accept(q) \/ TerminateTLS(q) \/ Request(q)
                       \/ Forwards(q) \/ ClientLeaves(q) \/ GiveUp(q) \/ TLSEnds(q)
    \/ World
    \/ Terminated

Spec == Init /\ [][Next]_vars

\* Goroutines run; dials and round trips return (they obey the request's
\* context, which ends with the client's connection).  A server that has seen
\* the end of the request ends its response.  Nobody need call Close, end a
\* context, connect or disconnect.
FairSpec ==
    /\ Spec
    /\ WF_vars(StartServing) /\ WF_vars(Serve) /\ WF_vars(Watch)
    /\ WF_vars(closer = "closing" /\ CallClose) /\ WF_vars(Close)
    /\ WF_vars(Tunnels /\ tun' # tun /\ tun \notin {"idle", "answered"})
    /\ WF_vars(Tunnels /\ ServerDrops)
    /\ WF_vars(Tunnels /\ ClientEnded /\ CopyUpEnds)
    /\ WF_vars(Tunnels /\ ServerEnded /\ CopyDownEnds)
    /\ WF_vars(Tunnels /\ (TunnelUp \/ TunnelDown))
    /\ WF_vars(Tunnels /\ back = "halfclosed" /\ TunnelServerEnds)
    /\ \A q \in Reqs :
          /\ WF_vars(TerminateTLS(q)) /\ WF_vars(Forwards(q))
          /\ WF_vars(GiveUp(q)) /\ WF_vars(TLSEnds(q))

-----------------------------------------------------------------------------
(* Properties                                                              *)

\* A CONNECT handler gives back what it has taken, and nothing else.  One that
\* has returned, whichever of its steps failed and whenever Close ran, has closed
\* its connection to the backend and has no copy left.  It has closed the
\* client's connection if it has hijacked it; if not, the connection is the
\* server's, which keeps it for the next request: as long as the client is
\* there only Close ends it (connect.go:21-25, 33-37).  (The invariant
\* includes TypeOK.)
HandlersCleanUp ==
    /\ TypeOK
    /\ tun \in {"answered", "ret"} =>
          /\ back \in {"none", "closed"}
          /\ {copyUp, copyDown} \subseteq {"none", "done"}
    /\ tun = "ret" => client = "closed"
    /\ tun \in {"dial", "hijack", "answered"} /\ client # "open" => once = "done"

\* The proxy is down: nobody listens, serves, watches or waits in Close, and of
\* the handlers only those with a hijacked connection may still run.
Down ==
    /\ start \in {"idle", "served", "refused"} /\ lis # "open"
    /\ serve \in {"none", "exited"} /\ watcher \in {"none", "exited"}
    /\ closer # "closing"
    /\ tun \notin {"dial", "hijack", "answered"}
    /\ \A q \in Reqs : link[q] # "tls" => fwd[q] \in {"none", "over"}

\* Once Close is called or the context of Start ends, in whatever order with
\* Start and the goroutines it has begun, the proxy is down for good ("serves
\* ... until ctx is canceled or Close is called", proxy.go:85-86); a hijacked
\* connection ends when its client does.
ProxyUnwinds ==
    /\ once # "no" ~> []Down
    /\ ctxEnded /\ start # "idle" ~> []Down
    /\ tun # "idle" /\ peer # "open" ~> tun = "ret"
    /\ \A q \in Reqs : link[q] = "tlsClosed" ~> link[q] = "closed"

=============================================================================
