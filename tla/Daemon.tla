------------------------------- MODULE Daemon -------------------------------
(***************************************************************************)
(* The portless command (cmd/portless) as processes: clients (`run`,       *)
(* `alias`, `route add`, `route rm`) that look for a daemon at the control *)
(* socket and register a name with it or remove it, the daemons they or    *)
(* `serve` start, and the socket file through which they meet.  A step is  *)
(* one system call on the socket file, or one request to a daemon.         *)
(*                                                                         *)
(* A daemon is named after the client that starts it.  All clients ask for *)
(* the same name, so a daemon's registry is the client that holds it.      *)
(***************************************************************************)
CONSTANTS
    Clients,
    None

ASSUME DaemonAssumption == None \notin Clients

VARIABLES
    world,          \* what happens in this behavior, see Hardships
    kind,           \* the command each client runs
    pc,             \* where it is
    canceled,       \* it was interrupted
    conn,           \* the daemon its HTTP client keeps a connection to
    result,         \* how it ended
    daemon,         \* where each daemon is in runServe
    exit,           \* the exit code of each daemon
    path,           \* the daemon that bound the file at the socket path
    holder          \* each daemon's registry: the client that has the name

clientVars == <<world, kind, canceled, conn, result>>
vars == <<world, kind, pc, canceled, conn, result, daemon, exit, path, holder>>

Hardships ==
    {"overlap",     \* clients come while a daemon is starting or ending, or
                    \* `serve` while one serves
     "failure",     \* daemons fail, are killed, or told to end by a signal
     "interrupt"}   \* `run` is interrupted

TypeOK ==
    /\ world \subseteq Hardships
    /\ kind \in [Clients -> {"run", "alias", "route", "rm", "serve"}]
    /\ pc \in [Clients -> {"idle", "poll", "add", "child", "cleanup", "ret"}]
    /\ canceled \in [Clients -> BOOLEAN]
    /\ conn \in [Clients -> Clients \cup {None}]
    /\ result \in [Clients -> {"none", "ok", "exists", "unreachable",
                               "canceled"}]
    /\ daemon \in [Clients -> {"none", "proxy", "lstat", "unlink", "listen", "chmod",
                               "serve", "closed", "dead"}]
    /\ exit \in [Clients -> {"none", "0", "1", "noproxy", "killed"}]
    /\ path \in Clients \cup {None}
    /\ holder \in [Clients -> Clients \cup {None}]
    /\ \A c \in Clients : pc[c] = "child" => kind[c] = "run" /\ conn[c] # None

Init ==
    /\ world \in SUBSET Hardships
    /\ kind \in [Clients -> {"run", "alias", "route", "rm", "serve"}]
    /\ pc = [c \in Clients |-> "idle"]
    /\ canceled = [c \in Clients |-> FALSE]
    /\ conn = [c \in Clients |-> None]
    /\ result = [c \in Clients |-> "none"]
    /\ daemon = [c \in Clients |-> "none"]
    /\ exit = [c \in Clients |-> "none"]
    /\ path = None
    /\ holder = [c \in Clients |-> None]

Serving(d) == d # None /\ daemon[d] = "serve"

\* A connection to the socket waits in the backlog of a daemon that listens
\* and does not serve yet.
Pending == path # None /\ daemon[path] = "chmod"

\* No daemon is starting or ending.
Settled == \A d \in Clients : daemon[d] \in {"none", "serve", "dead"}

\* The daemon a request of c goes to: the transport reuses its connection and
\* dials the path when that is gone.
Target(c) == IF Serving(conn[c]) THEN conn[c]
             ELSE IF Serving(path) THEN path ELSE None

Goto(c, l) == pc' = [pc EXCEPT ![c] = l]

Return(c, res) ==
    /\ Goto(c, "ret")
    /\ result' = [result EXCEPT ![c] = res]

-----------------------------------------------------------------------------
(* Clients                                                                 *)

\* ensureDaemon asks for the status and starts a daemon if there is no answer.
\* `route` just sends its request.
Status(c) ==
    /\ pc[c] = "idle" /\ kind[c] # "serve" /\ ~Pending
    /\ "overlap" \in world \/ Settled
    /\ \/ /\ Serving(path)
          /\ conn' = [conn EXCEPT ![c] = path]
          /\ Goto(c, IF kind[c] = "rm" THEN "cleanup" ELSE "add")
          /\ UNCHANGED <<daemon, result>>
       \/ /\ ~Serving(path) /\ kind[c] \in {"route", "rm"}
          /\ Return(c, "unreachable") /\ UNCHANGED <<daemon, conn>>
       \/ /\ ~Serving(path) /\ kind[c] \in {"run", "alias"}
          /\ daemon' = [daemon EXCEPT ![c] = "proxy"]
          /\ Goto(c, "poll") /\ UNCHANGED <<conn, result>>
    /\ UNCHANGED <<world, kind, canceled, exit, path, holder>>

\* `serve` is a daemon, without asking whether there is one.
RunServe(c) ==
    /\ pc[c] = "idle" /\ kind[c] = "serve"
    /\ "overlap" \in world \/ (Settled /\ ~Serving(path))
    /\ daemon' = [daemon EXCEPT ![c] = "proxy"]
    /\ Return(c, "ok")
    /\ UNCHANGED <<world, kind, canceled, conn, exit, path, holder>>

\* Mutant: instead of giving up, a daemon that has died is started again.
PollRestarts(c) ==
    /\ pc[c] = "poll" /\ ~Pending
    /\ \/ /\ Serving(path) /\ ~canceled[c]
          /\ conn' = [conn EXCEPT ![c] = path]
          /\ Goto(c, "add") /\ UNCHANGED <<result, daemon>>
       \/ /\ ~Serving(path) \/ canceled[c]
          /\ daemon' = [daemon EXCEPT ![c] = IF @ = "dead" THEN "proxy" ELSE @]
          /\ UNCHANGED <<pc, conn, result>>
    /\ UNCHANGED <<world, kind, canceled, exit, path, holder>>

\* ensureDaemon polls the status until there is an answer or its deadline has
\* passed.  The answer need not come from the daemon it started.
Poll(c) ==
    /\ pc[c] = "poll" /\ ~Pending
    /\ \/ /\ Serving(path) /\ ~canceled[c]
          /\ conn' = [conn EXCEPT ![c] = path]
          /\ Goto(c, "add") /\ UNCHANGED result
       \/ /\ ~Serving(path) \/ canceled[c]
          /\ Return(c, "unreachable") /\ UNCHANGED conn
    /\ UNCHANGED <<world, kind, canceled, daemon, exit, path, holder>>

\* Mutant: the cleanup is deferred before the answer is looked at.
AddRefusedCleansUp(c) ==
    /\ pc[c] = "add" /\ Target(c) # None /\ holder[Target(c)] # None
    /\ Goto(c, "cleanup")
    /\ UNCHANGED <<conn, result, holder>>

\* 409: the name is taken.
AddRefused(c) ==
    /\ pc[c] = "add" /\ Target(c) # None /\ holder[Target(c)] # None
    /\ Return(c, "exists")
    /\ UNCHANGED <<conn, holder>>

\* 201: the name is registered; `run` starts its child.
AddAccepted(c) ==
    /\ pc[c] = "add" /\ Target(c) # None /\ holder[Target(c)] = None
    /\ holder' = [holder EXCEPT ![Target(c)] = c]
    /\ conn' = [conn EXCEPT ![c] = Target(c)]
    /\ IF kind[c] = "run" THEN Goto(c, "child") /\ UNCHANGED result
                          ELSE Return(c, "ok")

\* The request fails: nobody answers, or `run` was interrupted, in which case
\* the daemon may have served it all the same.
AddFails(c) ==
    /\ pc[c] = "add"
    /\ \/ Target(c) = None /\ Return(c, "unreachable") /\ UNCHANGED holder
       \/ /\ canceled[c] /\ Return(c, "canceled")
          /\ \/ UNCHANGED holder
             \/ /\ Target(c) # None /\ holder[Target(c)] = None
                /\ holder' = [holder EXCEPT ![Target(c)] = c]
    /\ UNCHANGED conn

AddRoute(c) ==
    /\ AddRefused(c) \/ AddAccepted(c) \/ AddFails(c)
    /\ UNCHANGED <<world, kind, canceled, daemon, exit, path>>

\* Mutant: `run` returns the child's exit code at once.
ChildEndsAtOnce(c) ==
    /\ pc[c] = "child"
    /\ Return(c, "ok")
    /\ UNCHANGED <<world, kind, canceled, conn, daemon, exit, path, holder>>

\* The child ends, is killed because of the interrupt, or did not start.
ChildEnds(c) ==
    /\ pc[c] = "child"
    /\ Goto(c, "cleanup")
    /\ UNCHANGED <<clientVars, daemon, exit, path, holder>>

\* The deferred RemoveRoute of `run`, or that of `route rm`, by name.
RemoveRoute(c) ==
    /\ pc[c] = "cleanup"
    /\ holder' = IF Target(c) = None THEN holder
                 ELSE [holder EXCEPT ![Target(c)] = None]
    /\ Return(c, IF kind[c] = "rm" /\ Target(c) = None THEN "unreachable" ELSE "ok")
    /\ UNCHANGED <<world, kind, canceled, conn, daemon, exit, path>>

\* SIGINT or SIGTERM; the context of `alias` and `route` does not hear of it.
Interrupt(c) ==
    /\ "interrupt" \in world /\ kind[c] = "run"
    /\ pc[c] \in {"poll", "add", "child"}
    /\ ~canceled[c]
    /\ canceled' = [canceled EXCEPT ![c] = TRUE]
    /\ UNCHANGED <<world, kind, pc, conn, result, daemon, exit, path, holder>>

-----------------------------------------------------------------------------
(* Daemons: runServe                                                       *)

DaemonGoto(d, l) == daemon' = [daemon EXCEPT ![d] = l] /\ UNCHANGED exit

DaemonExit(d, code) ==
    /\ daemon' = [daemon EXCEPT ![d] = "dead"]
    /\ exit' = [exit EXCEPT ![d] = code]

\* The CA is loaded and the proxy started, which may fail.
StartProxy(d) ==
    /\ daemon[d] = "proxy"
    /\ \/ DaemonGoto(d, "lstat")
       \/ "failure" \in world /\ DaemonExit(d, "noproxy")
    /\ UNCHANGED <<pc, clientVars, path, holder>>

\* Mutant: what is at the path is left there.
LstatIgnored(d) ==
    /\ daemon[d] = "lstat"
    /\ DaemonGoto(d, "listen")
    /\ UNCHANGED <<pc, clientVars, path, holder>>

\* EnsureSocketDir looks whether there is a socket at the path ...
Lstat(d) ==
    /\ daemon[d] = "lstat"
    /\ DaemonGoto(d, IF path = None THEN "listen" ELSE "unlink")
    /\ UNCHANGED <<pc, clientVars, path, holder>>

\* ... and removes it, whether somebody serves it or not.
Unlink(d) ==
    /\ daemon[d] = "unlink"
    /\ IF path # None THEN path' = None /\ DaemonGoto(d, "listen")
                      ELSE DaemonExit(d, "1") /\ UNCHANGED path
    /\ UNCHANGED <<pc, clientVars, holder>>

\* net.Listen binds the path unless something is there.
Listen(d) ==
    /\ daemon[d] = "listen"
    /\ IF path = None THEN path' = d /\ DaemonGoto(d, "chmod")
                      ELSE DaemonExit(d, "1") /\ UNCHANGED path
    /\ UNCHANGED <<pc, clientVars, holder>>

\* os.Chmod, then the control server is started.
Chmod(d) ==
    /\ daemon[d] = "chmod"
    /\ IF path # None THEN DaemonGoto(d, "serve") ELSE DaemonExit(d, "1")
    /\ UNCHANGED <<pc, clientVars, path, holder>>

\* A signal, or the control server fails: the listener is closed, which unlinks
\* the path.
Signal(d) ==
    /\ "failure" \in world /\ daemon[d] = "serve"
    /\ DaemonGoto(d, "closed")
    /\ path' = None
    /\ UNCHANGED <<pc, clientVars, holder>>

\* The deferred os.Remove of the path; the registry is closed.
Remove(d) ==
    /\ daemon[d] = "closed"
    /\ DaemonExit(d, "0")
    /\ path' = None
    /\ UNCHANGED <<pc, clientVars, holder>>

\* SIGKILL, a crash: the socket file stays.
Kill(d) ==
    /\ "failure" \in world /\ daemon[d] \notin {"none", "dead"}
    /\ DaemonExit(d, "killed")
    /\ UNCHANGED <<pc, clientVars, path, holder>>

-----------------------------------------------------------------------------

Client(c) == Poll(c) \/ AddRoute(c) \/ ChildEnds(c) \/ RemoveRoute(c)

Serve(d) == StartProxy(d) \/ Lstat(d) \/ Unlink(d) \/ Listen(d) \/ Chmod(d) \/ Remove(d)

\* A second `serve` waits for its behavior.
Terminated ==
    /\ \A c \in Clients : pc[c] = "ret" \/ (pc[c] = "idle" /\ kind[c] = "serve")
    /\ UNCHANGED vars

Next ==
    \/ \E c \in Clients : \/ Status(c) \/ RunServe(c) \/ Client(c) \/ Interrupt(c)
                          \/ Serve(c) \/ Signal(c) \/ Kill(c)
    \/ Terminated

Spec == Init /\ [][Next]_vars

\* Processes run, and children end.
FairSpec == Spec /\ \A c \in Clients : WF_vars(Client(c)) /\ WF_vars(Serve(c))

-----------------------------------------------------------------------------
(* Properties                                                              *)

\* As long as no client comes while a daemon is starting or ending, nor `serve`
\* while one serves, at most one daemon serves, and it is the one that clients
\* reach ("so multiple `run`/`alias` invocations share one proxy and registry",
\* daemon.go:34-36).
\* A socket file that a killed daemon left behind keeps no other from starting
\* (socket.go:30-32): the socket fails no daemon.  (The
\* invariant includes TypeOK.)
OneDaemonServes ==
    /\ TypeOK
    /\ "overlap" \notin world =>
          \A d \in Clients : (Serving(d) => path = d) /\ exit[d] # "1"

\* The comment's claim for commands that overlap: of two daemons that start
\* together, one unlinks the socket of the other, which runs on and cannot be
\* reached.
DaemonsAreShared ==
    (\A c \in Clients : kind[c] # "serve") =>
        \A d \in Clients : Serving(d) => path = d

\* When `run` has returned, its name is not registered for it any more
\* ("deregisters on exit", docs/cli.md:16), also when its daemon has lost the
\* path to another one meanwhile: the client's kept-alive connection
\* (client.go:101) still leads to it.  An interrupt may end the request that
\* registers the name after the daemon has served it, and then it is.
RunsDeregister ==
    "interrupt" \notin world =>
        \A c, d \in Clients :
            kind[c] = "run" /\ pc[c] = "ret" /\ Serving(d) => holder[d] # c

\* While its child runs, a `run` keeps the name it was given by a daemon that
\* lives: no cleanup of another takes it away, only `route rm`.  (A cleanup goes
\* by name to whatever daemon is at the path, which after a failure may be
\* another one.)
ChildrenKeepTheirNames ==
    "failure" \notin world /\ (\A c \in Clients : kind[c] # "rm") =>
        \A c \in Clients :
            pc[c] = "child" /\ Serving(conn[c]) => holder[conn[c]] = c

\* Every command ends if its child does, also when the daemon it started dies.
ClientsReturn == \A c \in Clients : pc[c] # "idle" ~> pc[c] = "ret"

=============================================================================
