----------------------------- MODULE StreamConn -----------------------------
(***************************************************************************)
(* The forwarding streams of the Kubernetes backend (k8s/stream.go): the   *)
(* net.Conn that DialContext returns wraps a data stream and an error      *)
(* stream of a shared SPDY connection.  It is closed by its user, by any   *)
(* deadline that was ever set on it, and by drainError, the goroutine that *)
(* reads the error stream.  The module PortForward composes the streams    *)
(* with the cache of connections they run over.                            *)
(*                                                                         *)
(* Each dial has at most one stream at a time.  Closing the streams        *)
(* unblocks whoever reads them, which is what the code relies on.          *)
(***************************************************************************)
CONSTANTS
    Dials,          \* callers of DialContext
    Conns,          \* SPDY connections; a forgotten one's name is used again
    NoConn          \* no connection

VARIABLES
    conn,           \* the state of each connection
    using,          \* the connection each dial has, and its stream runs over
    data,           \* the data stream of each dial
    err,            \* its error stream
    timer,          \* an AfterFunc of armDeadline is pending
    drain           \* its drainError goroutine

streamVars == <<data, err, timer, drain>>

StreamTypeOK ==
    /\ data \in [Dials -> {"none", "open", "ended", "closed"}]
    /\ err \in [Dials -> {"open", "ended", "message"}]
    /\ timer \in [Dials -> BOOLEAN]
    /\ drain \in [Dials -> {"reading", "close", "done"}]

StreamInit ==
    /\ data = [d \in Dials |-> "none"]
    /\ err = [d \in Dials |-> "ended"]
    /\ timer = [d \in Dials |-> FALSE]
    /\ drain = [d \in Dials |-> "done"]

\* pooledConn.alive: the connection's CloseChan is open.  It is closed by the
\* connection's end ("dead") as well as by our own close, but not by a failure
\* nobody has noticed yet ("stuck").
Alive(c) == c # NoConn /\ conn[c] \in {"open", "stuck"}

\* The stream of d is there and nobody has cut it.
Works(d) == data[d] = "open" /\ Alive(using[d])

\* dialStream: both streams are created, drainError starts.
Opened(d) ==
    /\ data' = [data EXCEPT ![d] = "open"]
    /\ err' = [err EXCEPT ![d] = "open"]
    /\ timer' = [timer EXCEPT ![d] = FALSE]
    /\ drain' = [drain EXCEPT ![d] = "reading"]

\* streamConn.Close, once.
CloseStream(d) == data' = [data EXCEPT ![d] = "closed"]

\* The user closes the stream, or sets a deadline that is in the past.
UserCloses(d) ==
    /\ data[d] \in {"open", "ended"}
    /\ CloseStream(d)
    /\ UNCHANGED <<conn, using, err, timer, drain>>

\* The user sets a deadline.  One that is moved or cleared keeps its AfterFunc.
SetDeadline(d) ==
    /\ data[d] \in {"open", "ended"}
    /\ timer' = [timer EXCEPT ![d] = TRUE]
    /\ UNCHANGED <<conn, using, data, err, drain>>

\* Mutant: a deadline closes nothing.
DeadlinePassesQuietly(d) ==
    /\ timer[d]
    /\ timer' = [timer EXCEPT ![d] = FALSE]
    /\ UNCHANGED <<conn, using, data, err, drain>>

DeadlinePasses(d) ==
    /\ timer[d]
    /\ timer' = [timer EXCEPT ![d] = FALSE]
    /\ CloseStream(d)
    /\ UNCHANGED <<conn, using, err, drain>>

\* io.ReadAll(errStream) returns: the stream has ended, with a message or
\* without, or it was closed with the data stream or the connection.
DrainReads(d) ==
    /\ drain[d] = "reading"
    /\ err[d] # "open" \/ data[d] = "closed" \/ ~Alive(using[d])
    /\ \/ err[d] = "message" /\ drain' = [drain EXCEPT ![d] = "close"]
       \/ /\ err[d] # "message" \/ ~Alive(using[d]) \/ data[d] = "closed"
          /\ drain' = [drain EXCEPT ![d] = "done"]
    /\ UNCHANGED <<conn, using, data, err, timer>>

\* A message closes the stream.
DrainCloses(d) ==
    /\ drain[d] = "close"
    /\ drain' = [drain EXCEPT ![d] = "done"]
    /\ CloseStream(d)
    /\ UNCHANGED <<conn, using, err, timer>>

\* The kubelet ends the streams: the server has sent everything (the reader
\* sees the end of the data), or forwarding has failed.
KubeletEnds(d) ==
    /\ data[d] \in {"open", "ended"} /\ Alive(using[d])
    /\ \/ data' = [data EXCEPT ![d] = "ended"] /\ UNCHANGED err
       \/ /\ err[d] = "open" /\ err' \in {[err EXCEPT ![d] = "ended"],
                                          [err EXCEPT ![d] = "message"]}
          /\ UNCHANGED data
    /\ UNCHANGED <<conn, using, timer, drain>>

StreamStep(d) == DeadlinePasses(d) \/ DrainReads(d) \/ DrainCloses(d)

StreamEnv(d) == UserCloses(d) \/ SetDeadline(d) \/ KubeletEnds(d)

-----------------------------------------------------------------------------
(* Properties of the streams                                               *)

\* A stream does not outlive a deadline set on it nor a message from the
\* kubelet, whatever its user is blocked in, unless its connection goes first
\* (stream.go:166-168, stream.go:191-192); and no drainError goroutine outlives
\* its stream.
StreamsUnwind ==
    \A d \in Dials :
       /\ timer[d] \/ err[d] = "message" ~> ~Works(d)
       /\ data[d] = "closed" ~> drain[d] = "done"

=============================================================================
