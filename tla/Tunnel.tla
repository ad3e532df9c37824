------------------------------- MODULE Tunnel -------------------------------
(***************************************************************************)
(* The CONNECT requests of one client of the forward proxy                 *)
(* (proxy/connect.go): the dial, the hijack of the client's connection,    *)
(* and the two copies that pass a half-close on or, over a backend         *)
(* connection that cannot be half-closed, tear the tunnel down.  A request *)
(* that is refused leaves the connection to the server, for another one.   *)
(* Tunnels share nothing but the proxy, so one client is enough.  The      *)
(* module Proxy composes it with the server.                               *)
(*                                                                         *)
(* A copy is blocked in Read until its source ends or is closed; a Write   *)
(* fails only when there is something to write.                            *)
(***************************************************************************)
VARIABLES
    halfClose,      \* the backend's connection has CloseWrite
    tun,            \* where handleConnect is
    client,         \* the proxy's side of the client's connection
    peer,           \* the client's side: "open", "eof" (half-closed), "gone"
    back,           \* the proxy's side of the backend's connection
    server,         \* the backend's side
    copyUp,         \* the tunnel goroutine from client to backend
    copyDown        \* the one from backend to client

tunnelVars == <<halfClose, tun, client, peer, back, server, copyUp, copyDown>>

TunnelTypeOK ==
    /\ halfClose \in BOOLEAN
    /\ tun \in {"idle", "dial", "hijack", "answered", "write", "buffered",
                "wait", "leave", "ret"}
    /\ client \in {"none", "open", "halfclosed", "closed"}
    /\ peer \in {"open", "eof", "gone"}
    /\ back \in {"none", "open", "halfclosed", "closed"}
    /\ server \in {"open", "ended"}
    /\ copyUp \in {"none", "copying", "eof", "done"}
    /\ copyDown \in {"none", "copying", "eof", "done"}

TunnelInit ==
    /\ halfClose \in BOOLEAN
    /\ tun = "idle"
    /\ client = "none" /\ peer = "open"
    /\ back = "none" /\ server = "open"
    /\ copyUp = "none" /\ copyDown = "none"

\* The connection is the handler's: the server does not close it any more.
Hijacked == tun \in {"write", "buffered", "wait", "leave", "ret"}

Shut(side) == IF side = "none" THEN "none" ELSE "closed"

-----------------------------------------------------------------------------
(* handleConnect                                                           *)

\* The server has accepted the connection and read the request.
Connect ==
    /\ tun = "idle"
    /\ tun' = "dial" /\ client' = "open"
    /\ UNCHANGED <<halfClose, peer, back, server, copyUp, copyDown>>

\* It reads the next request from a connection it has kept.
ConnectAgain ==
    /\ tun = "answered" /\ client = "open" /\ peer = "open"
    /\ tun' = "dial" /\ back' = "none" /\ server' = "open"
    /\ UNCHANGED <<halfClose, client, peer, copyUp, copyDown>>

\* DialContext returns; when the client is gone, its context has ended and
\* most likely an error.  A failed dial is answered with 502.
TunnelDial ==
    /\ tun = "dial"
    /\ \/ back' = "open" /\ tun' = "hijack"
       \/ tun' = "answered" /\ UNCHANGED back
    /\ UNCHANGED <<halfClose, client, peer, server, copyUp, copyDown>>

\* Mutant: the close of the backend's connection is deferred after the hijack.
HijackLeaks ==
    /\ tun = "hijack"
    /\ tun' \in {"write", "answered"}
    /\ UNCHANGED <<halfClose, client, peer, back, server, copyUp, copyDown>>

\* Hijack works also for a connection that was closed, but may fail: then the
\* answer is 500 and the deferred close is that of the backend's connection.
Hijack ==
    /\ tun = "hijack"
    /\ \/ tun' = "write" /\ UNCHANGED back
       \/ tun' = "answered" /\ back' = "closed"
    /\ UNCHANGED <<halfClose, client, peer, server, copyUp, copyDown>>

\* The client is told that the connection is established.
Established ==
    /\ tun = "write"
    /\ \/ client = "open" /\ tun' = "buffered"
       \/ client # "open" /\ tun' = "leave"
       \/ peer = "gone" /\ tun' = "leave"
    /\ UNCHANGED <<halfClose, client, peer, back, server, copyUp, copyDown>>

\* The bytes the client has sent early go to the backend; the tunnels start.
Buffered ==
    /\ tun = "buffered"
    /\ \/ /\ tun' = "wait"
          /\ copyUp' = "copying" /\ copyDown' = "copying"
       \/ /\ server = "ended"
          /\ tun' = "leave" /\ UNCHANGED <<copyUp, copyDown>>
    /\ UNCHANGED <<halfClose, client, peer, back, server>>

\* There is nothing more to read from the client, or from the backend.
ClientEnded == peer # "open" \/ client = "closed"
ServerEnded == server = "ended" \/ back = "closed"

\* io.Copy ends with its source, or because there was something to write to a
\* destination that is not there any more.
CopyUpEnds ==
    /\ copyUp = "copying"
    /\ ClientEnded \/ ServerEnded
    /\ copyUp' = "eof"
    /\ UNCHANGED <<halfClose, tun, client, peer, back, server, copyDown>>

CopyDownEnds ==
    /\ copyDown = "copying"
    /\ ServerEnded \/ peer = "gone" \/ client = "closed"
    /\ copyDown' = "eof"
    /\ UNCHANGED <<halfClose, tun, client, peer, back, server, copyUp>>

\* Mutant: the end of the request closes the tunnel.
TunnelUpCloses ==
    /\ copyUp = "eof" /\ copyUp' = "done"
    /\ client' = "closed" /\ back' = "closed"
    /\ UNCHANGED <<halfClose, tun, peer, server, copyDown>>

\* The end of the request is passed on if the backend's connection can be
\* half-closed; otherwise closeBoth.
TunnelUp ==
    /\ copyUp = "eof" /\ copyUp' = "done"
    /\ \/ /\ halfClose
          /\ back' = IF back = "open" THEN "halfclosed" ELSE back
          /\ UNCHANGED client
       \/ ~halfClose /\ client' = "closed" /\ back' = "closed"
    /\ UNCHANGED <<halfClose, tun, peer, server, copyDown>>

\* The client's connection is TCP, and can be half-closed.
TunnelDown ==
    /\ copyDown = "eof" /\ copyDown' = "done"
    /\ client' = IF client = "open" THEN "halfclosed" ELSE client
    /\ UNCHANGED <<halfClose, tun, peer, back, server, copyUp>>

\* wg.Wait
TunnelJoined ==
    /\ tun = "wait" /\ copyUp = "done" /\ copyDown = "done"
    /\ tun' = "leave"
    /\ UNCHANGED <<halfClose, client, peer, back, server, copyUp, copyDown>>

\* The deferred closes of a handler that has hijacked its connection.
TunnelLeaves ==
    /\ tun = "leave" /\ tun' = "ret"
    /\ client' = "closed" /\ back' = "closed"
    /\ UNCHANGED <<halfClose, peer, server, copyUp, copyDown>>

\* The server is through with a connection it has kept: the client has ended,
\* or Close has closed it.
ServerDrops ==
    /\ tun = "answered" /\ ClientEnded
    /\ tun' = "ret" /\ client' = "closed"
    /\ UNCHANGED <<halfClose, peer, back, server, copyUp, copyDown>>

-----------------------------------------------------------------------------
(* The client and the server behind the route                              *)

TunnelPeerEnds ==
    /\ tun \notin {"idle", "ret"}
    /\ \/ peer = "open" /\ peer' \in {"eof", "gone"}
       \/ peer = "eof" /\ peer' = "gone"
    /\ UNCHANGED <<halfClose, tun, client, back, server, copyUp, copyDown>>

TunnelServerEnds ==
    /\ back # "none" /\ server = "open" /\ tun \notin {"answered", "ret"}
    /\ server' = "ended"
    /\ UNCHANGED <<halfClose, tun, client, peer, back, copyUp, copyDown>>

TunnelStep ==
    \/ TunnelDial \/ Hijack \/ Established \/ Buffered
    \/ CopyUpEnds \/ CopyDownEnds \/ TunnelUp \/ TunnelDown
    \/ TunnelJoined \/ TunnelLeaves \/ ServerDrops

TunnelEnv == TunnelPeerEnds \/ TunnelServerEnds

-----------------------------------------------------------------------------
(* Properties of a tunnel                                                  *)

\* A response is not cut: as long as both ends are there and the tunnel stands,
\* the end of the request alone closes nothing over a backend that can be
\* half-closed ("the peer sees EOF while the opposite direction can still
\* drain", connect.go:63-64); over another the tunnel is torn down, but only
\* when one of the ends has ended its direction.
TunnelsAreNotCut ==
    tun = "wait" /\ "closed" \in {client, back} =>
        ~halfClose /\ (peer # "open" \/ server = "ended")

=============================================================================
