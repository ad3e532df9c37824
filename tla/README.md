# A verification development for go-portless

TLA+ models of [go-portless](../src), the TLC runs that check them on small
instances, and TLAPS proofs of their safety properties for instances of any
size. `PROJECT.json` lists every run, property, source line, hazard and theorem;
this file explains them.

    tlc -config Registry.cfg MCRegistry            # one run
    tlapm Registry_proofs.tla                      # the proofs of one module

## 1. The system

A `Registry` maps route names to backends and offers them as a dialer: a dial
of `name:port` waits until the backend is up. Around it are bridges (a local
listener that pipes into a route), a forward proxy with TLS termination, a
control API over a Unix socket, a Kubernetes port-forward backend, and the
`portless` command that runs all of it as a shared background daemon.

| component | state | operations | meets others through |
|---|---|---|---|
| route table (`registry.go`) | `routes` (absent / reserved `nil` / route), `closed`, `done`, `closeOnce`, `hasRewrites` | `Add`, `AddReady`, `Remove`, `Lookup`, `Routes`, `Close` | calls `Start`/`Stop` of backends with the lock released; event hook |
| readiness loop (`registry.go`, `route.go`, `errors.go`) | per dial: context, timer, last error, connection | `DialContext`, `Route.Ready`, `Registry.Ready` | `done` of the registry, the backend's `DialContext`, the health check |
| bridges (`listenlocal.go`) | `bridgeSet`, one accept loop per listener, two copies and a watcher per connection | `ListenLocal`, closing a listener | `Close` marks the registry, closes `done`, then calls `closeAll`, without a common lock |
| k8s backend (`k8s/portforward.go`, `k8s/stream.go`) | one cached SPDY connection, `closed`, event sink | `DialContext`, `Stop` | readiness loop retries its errors; API server; pods fail |
| k8s resolution (`k8s/resolve.go`) | none; reads the cluster in one or two requests | `resolve` | called for every new connection |
| control API (`control/`) | `Server.specs` under a lock of its own | POST, DELETE, GET routes, ready, status | the registry, which the embedding program may use as well |
| daemon and CLI (`cmd/portless`, `control/socket.go`) | processes, the socket file, registrations | `run`, `alias`, `route add`, `route rm`, `serve` | HTTP over the socket, signals |
| local CA (`ca/ca.go`) | two files, per process the CA in memory and a leaf cache | `Load`, `LeafFor`, `ca install`, `ca uninstall` | files shared by processes without a lock; OS trust store |
| forward proxy (`proxy/`) | `http.Server`, hijacked tunnels, connection pool | `Start`, `Close`, CONNECT, absolute-form, TLS termination | dials through the registry |
| HTTP helpers, simple backends | little or none | wrappers, one dial | - |

What is hard in it: locks that are released between two halves of an operation
(`Add`, `ListenLocal`, the control handlers, `ensureConn`); `Close` against
everything that is in flight; a `select` with several ready cases; half-close
in both directions; connections cached while pods die; files and sockets
shared by processes that start, crash and are interrupted at any time. The
hazards in `PROJECT.json` name the lines, and each names the properties aimed
at it.

## 2. The modules and the code

Every module states in its header what an atomic step is: what the code does
under one lock, or one call that can block or be observed. The variables are
the fields and locals of the code under their own names where that is possible;
`pc` says where a goroutine or process is. Operators whose comment begins with
"Mutant" are not part of a specification. Each is a plausible wrong version of
the definition that follows it, used to see that a property notices.

- **Registry** - `registry.go` 27-277. An element of `Calls` is one goroutine
  making one API call, and names the `*Route` it builds, so that a route has an
  identity apart from its name. `AddBegin`, `AddReserve`, `AddStart`,
  `AddUnreserve`/`AddPublish`/`AddDiscard`, `AddEmit`, `AddReadyWait` are
  `Add`/`AddReady`; `RemoveTake`, `RemoveStop`, `StopReturn` are `Remove`;
  `CloseOnce` to `CloseReturn` are `Close`, which stops the routes of its
  snapshot in any order, as iteration over a Go map does. `Lower` is
  `strings.ToLower`: two spellings of a name share a key. Backends may have
  `Start`, `Stop`, both or neither, and either may fail.
- **RouteTable** - the abstract specification: a name is absent, held or bound;
  it is held before it is bound, and a closed table stays empty.
- **Dial** - `dialRoute` and its callers: dials, the health check's probe and its
  own dial, `Registry.Ready` over several routes, and the ready handler of the
  control API, which turns the outcome into a status. An error is the set of
  things that `errors.Is`/`errors.As` find in its chain, which is all that
  `IsRetryable` and the handler look at; wrapping an error keeps them. One tag,
  `own`, is not in the code: it marks the error of the dial's own context among
  the context errors a backend may report, so that a property can tell them
  apart. A `select` that finds cases ready takes any of them
  (`Select`), one that finds none parks and is woken by the first event
  (`Woken`). Time is the order of timer, deadline, ready timeout and `Close`.
- **BridgeConn**, and **Bridge**, which extends it. BridgeConn is one connection
  through a bridge: lookup, dial, two copies, watcher, over each kind of
  upstream. Bridge adds `ListenLocal`, `bridgeSet`, the accept loops, the changes
  of the route table and `Close` to its end, where it stops the backends.
- **StreamConn**, and **PortForward**, which extends it. StreamConn is the stream
  that a dial of the k8s backend returns: its user, the deadlines that were ever
  set on it and `drainError` all may close it. PortForward adds the cache of
  connections they run over, under concurrent dials, pods that fail and `Stop`.
  A failed pod ends its connection, or leaves it up and taking no more streams
  (`stuck`), which `alive()` does not see.
- **Tunnel**, **Forward**, and **Proxy**, which extends both. Tunnel is the CONNECT
  requests of one client, with the hijacked connection and two copies; one that
  is refused (`answered`) leaves the connection to the server, which keeps it for
  the next or drops it; Forward is a request
  through the HTTP transport of a registry with its Host rewrite and its
  connection pool; Proxy adds `Start`, the watcher, `Serve` and `Close`, and
  requests that arrive over TLS which the proxy terminates.
- **Resolver** - the requests and the choice of pod and port of one resolve, in
  a cluster that changes between the requests.
- **Control** - the handlers that add, remove and list, over a registry at the
  level of RouteTable.
- **Daemon** - clients (`run`, `alias`, `route add`, `route rm`), `serve`, the
  daemons they start and the socket file, a step being one system call on the
  file or one request. A connection that a client keeps alive reaches its daemon
  even after the file has been replaced.
- **CA** - processes that load the CA, with `os.WriteFile` as truncation and
  write, the leaves of a daemon, and the trust store that `ca install` and `ca
  uninstall` change in one command (darwin) or two (linux).
- **MCRegistry, MCDial, MCResolver, MCCA** hold the constants and
  symmetries of the runs; the other modules are given plain sets by their
  configurations.
- **Registry_proofs, Dial_proofs, Bridge_proofs, K8s_proofs** (PortForward and
  Resolver), **Proxy_proofs, Control_proofs, Daemon_proofs, CA_proofs** hold the
  theorems of section 5. Resolver says `at`, `ResolverSpec` and so on where the
  other modules say `pc` and `Spec`, so that K8s_proofs can extend both.

Where a module extends another, a connection, stream or request is written as
if it were alone, with its own variables and its environment, and the larger
module supplies the shared state: an action of the part leaves the whole's
variables unchanged, and an action of the whole says what it does to the part
(`CloseSignal` wakes the watcher of a connection, `dropConn` ends the streams of
a connection, `http.Server.Close` closes what was not hijacked).

## 3. The runs

| run | shows |
|---|---|
| `registry` | Three calls of any kind on two names: what a lookup finds is running; no backend is stopped twice; a started backend is stopped or somebody is left to stop it; a failed `Add` leaves nothing; events and table agree when all is quiet; every call returns (a second `Close` waits for the first). Registry implements RouteTable. `IInv` is the inductive invariant of the proofs. |
| `dial` | One dial, a `Registry.Ready` over two routes, or a request to the ready handler, with a health check that dials again, against every order of cancellation, deadline, ready timeout, timer and `Close`: connections are accounted for, at most one attempt after the context has ended, no sleep after a wake-up, a failed wait says why it failed (the end of the dial's own context is never taken for a failure of the backend, and the handler answers 504 to every wait that the deadline of its request ended), and everything returns. |
| `bridge` | A listener that `ListenLocal` returned is tracked until it is closed, and none slips past `closeAll`; accept loops leave the set; no stale route is dialed; no response is cut by the client's half-close; a connection leaves nothing behind; `Close` unwinds listeners, loops and connections. |
| `portforward` | No connection leaks from the race for the cache or past `Stop`, and a stopped backend caches nothing; a stream is cut only by a failure of its connection, by its user or by a deadline that was set; streams end with their deadline; dials get a stream in the end although connections end or get stuck. |
| `proxy` | A CONNECT handler that has returned has closed its connection to the backend and has no copy left, has closed the client's connection if it hijacked it, and has left it to the server if not; a half-close does not cut a tunnel that can pass it on; a request over a connection to a route that was there from its beginning carries that route's Host, however recently it was added; in whatever order `Start`, the end of its context and `Close` come, the proxy is down for good. |
| `resolver` | For every way to name the target and the port: the answer is wanted, ready, the first such pod, and its port is the number that the options or the Service give, or, for a name or no port at all, one that a running container declares (checked against a definition that does not search); `ErrTargetNotFound` means that the target was absent at some moment; once the target is there to stay, dials get it. |
| `control` | The answers account for the registry whatever overlaps and fails; in calm times the specs match the routes, and a listing shows each route with its own. |
| `daemon` | One daemon serves, stale sockets are replaced, `run` deregisters, a child keeps its name while it runs, commands end. |
| `ca` | `Load` succeeds also after a process that died between the two files; all processes have one CA; after `ca install` the leaves of every daemon verify; after `ca uninstall` nothing is trusted. |
| `registry_addready` | *violation*: the cleanup of `AddReady` goes by name and can hit a route that another caller has added since. |
| `bridge_leak` | *violation*: with transient `Accept` errors a loop can leave the set before `closeAll` reads it, its listener still bound. |
| `daemon_race` | *violation*: of two daemons that start together, one unlinks the socket of the other. |

A violation run states what a comment of the repository says; the finding in
`PROJECT.json` quotes it.

### Conditions

Several modules contain hardships under which the code keeps only some of its
promises. They are part of every behavior that draws them in `Init` (`world` in
Daemon and CA, `calm` in Control, `backend` in Bridge, `halfClose` in Proxy) or
of every behavior in which they happen, and a property that needs their absence
says so as its premise. What happens in their presence is as real as the rest,
and was seen in counterexamples when the premise was dropped:

- *Control, overlap or a failing `Stop`* (`server.go:134`, `:142`): the registry
  and `Server.specs` change in two critical sections, so a POST and a DELETE of
  a name that overlap leave a spec without its route or a route without its
  spec; a 500 of a DELETE leaves the spec of a route that is gone.
- *Ready handler* (`server.go:177`): the comment above that line says that a
  deadline reached means not ready, and that a terminal error of the backend is
  not a timeout. The code asks `errors.Is` for `DeadlineExceeded` anywhere in
  the chain, which is not quite that. The cause of the route's ready timeout is
  an error of its own, so a wait that it ends during the backoff is answered
  with 502; if it interrupts the last attempt, the backend's error is
  `DeadlineExceeded` and the answer 504. And a terminal error of a backend that
  wraps a deadline of the backend's own is answered with 504, the context of the
  request being alive. `WaitsEndForTheirReason` claims what holds: 504 for every
  wait that the deadline of the request ended, and no 504 without a deadline of
  the request, of the route or of the backend.
- *Daemon, overlap* (`socket.go:42`): run `daemon_race`; a `serve` beside a
  serving daemon unlinks its socket in the same way.
- *Daemon, interrupt* (`run.go:68`): `RemoveRoute` is deferred only after
  `AddRoute` has succeeded; an interrupt that ends the request while the daemon
  serves it leaves the name registered.
- *Daemon, failure* (`run.go:71`): the deferred `RemoveRoute` goes by name to
  whatever daemon is at the path, and can deregister the name of a run that
  registered it with the next daemon. `route rm` takes any name, including that
  of a run whose child is alive.
- *CA, overlap* (`ca.go:58`): of two processes that find no CA each keeps the
  one it generated, and `ca install` trusts one of them. *CA, torn*
  (`ca.go:61`): an empty file left by a process that died in `os.WriteFile` is
  never repaired. *CA, readError* (`ca.go:47`): a read of the key that fails for
  any reason makes `Load` replace a CA that is trusted. On darwin `ca uninstall`
  takes out the certificate that `ca.crt` holds now, so that one which was
  replaced since stays trusted.
- *Bridge, `mem`* (`listenlocal.go:216`): closing the client connection does
  not end a copy that waits in `Read` of an idle upstream without `CloseWrite`
  whose backend has no `Stop`.
- *PortForward, `dropConn`* (`portforward.go:222`): a dial that fails to open a
  stream closes the connection and with it the streams of other dials, which is
  meant. *A deadline that was moved or cleared* (`stream.go:178`): its
  `AfterFunc` stays armed and closes the stream all the same; a stream is
  therefore cut by any deadline that was ever set on it. *The message of the
  kubelet* (`stream.go:136`): a `Read` can end with a plain EOF before
  `drainError` has stored the message.
- *Proxy, a tunnel* is hijacked and outlives `Proxy.Close` (`connect.go:60`); it
  ends when its client does, or its server if that can be passed on. *Idle
  connections* (`proxy.go:126`): a request that returns its connection to the
  pool between `CloseIdleConnections` and the end of `server.Close` leaves it
  there. *Rewrite* (`forward.go:40`, `http.go:39`): the Host is looked up before
  the dial, so while a name changes hands a request can carry the Host of one
  route to the backend of the other, and a pooled connection can lead to a route
  that is gone; `RewriteIsApplied` speaks of the routes that stayed.
- *Resolver, a Service that is switched* to other pods between the two requests
  (`resolve.go:97`) is "not found" if the old pods are gone.
- *Dial, a caller with a deadline* (`registry.go:310`): the ready timeout does
  not apply, as the comment there says; the wait ends with the deadline.

### Bounds
- Registry: three calls are needed for a name to change hands during a wait
  (`registry_addready`); calls touch each other only through a shared key, so
  one key in two spellings is the crowded case, and the second name gives
  `Close` several routes to stop. The proofs remove the bound for the safety
  properties they state.
- Dial: dials share only the registry, so one is enough, and one handler; two
  probes for `Ready`. Each `return` of
  `IsRetryable` decides some error: a failed health check is marked retryable,
  a refused connection, a deadline of the backend's own and a plain timeout are
  in `ErrorClasses`, and a port that is not in the port map gives an error with
  none of these.
- Bridge: one bridge and one connection through it, since bridges meet only in
  the set and connections only in the registry; `MaxGen = 2` routes of the name,
  so that it is replaced before or after the lookup; each kind of upstream.
  `bridge_leak` needs no more either.
- PortForward: two dials that race, each with its stream, three connections (one
  of each dial and its replacement) and `MaxFailures = 1`, a connection that
  ends or one that gets stuck.
- Proxy: one tunnel or one client, whose requests follow each other on one
  connection; `MaxGen = 2` routes of which the second has a rewrite, so that
  both the rewrite and its absence can be stale.
- Resolver: two pods (the first one not ready, or not wanted), pod specs with a
  native sidecar and with an init container that declares a port of the same
  name, `MaxChanges = 2` changes of the cluster or failed requests.
- Control: four requests on one name. Daemon: two commands on one name, and so up
  to two daemons, each of which can be the one that is replaced.
- CA: three processes, at most one hardship at a time, two names; processes and
  names are symmetric.

`CHECK_DEADLOCK FALSE` is used for CA only, whose processes end; the other
modules have a `Terminated` step that is enabled only when all calls returned.

### Fairness
Safety runs need none. The liveness runs use weak fairness of the steps of a
goroutine, process or handler that has begun, because the Go scheduler and the
OS run them, and of timers and deadlines. Never assumed: that anybody cancels,
closes, removes, half-closes or dials again. Beyond that:
- Dial, `Step`: an attempt returns, which `Backend` asks of implementations
  ("DialContext must respect ctx").
- Registry: `Start` and `Stop` return.
- Bridge: a loop whose listener is closed gets the error of the closed listener
  in the end; transient errors do not go on for ever. A server that has seen
  the end of the request ends its response. Nothing is assumed of a peer that
  has not.
- PortForward: the timers of deadlines fire. Of the cluster it is assumed that
  its calls return; the code does not enforce it, as the SPDY dial takes no
  context (`stream.go:57`). Strong fairness of a successful resolve, and of a
  successful stream over a connection that is not stuck: both are tried again
  and again. Nothing is assumed of a stuck connection, over which no stream is
  ever opened, so that only `dropConn` gets a dial away from it. A user need not
  close its stream, nor dial again after a success.
- Proxy: dials and round trips return, because they obey the context of the
  request, which ends with the client's connection; a server that has seen the
  end of the request ends its response. Nobody need call `Close`, end the
  context of `Start`, connect or disconnect.
- Resolver: weak fairness of the resolver and the retry; the cluster's changes
  are bounded by `MaxChanges`.

## 4. Mutants

Every property of every passing run has a mutant: a dropped check, a missing
reset, an unlocked half of an operation, a swapped order. Under it the same run
reports the property violated. A property that no mutant breaks was removed or
replaced.

## 5. What is proved

Every safety invariant of the passing runs is a theorem of its specification,
and so are an action property and the refinement of RouteTable: for any number
of calls, goroutines, names, connections, pods, requests or processes, where a
run has two or three.

| module | theorem | property or statement |
|---|---|---|
| Registry_proofs | `ReservationTheorem`, `ClosedTheorem` | a reserved name belongs to one `Add` in progress; nothing is registered in a closed registry |
| | `RunningTheorem`, `StopTheorem`, `NoLeakTheorem` | `LiveRoutesAreRunning`, `StoppedAtMostOnce`, `NoBackendLeaked` |
| | `FailedAddTheorem`, `EventsTheorem` | `FailedAddIsUndone`, `EventsMatchTable` |
| | `Refinement` | `ImplementsRouteTable`: `Spec => AbstractTable!Spec` |
| Dial_proofs | `AccountsTheorem`, `LateTheorem`, `WakeupTheorem`, `ReasonTheorem` | `ConnectionsAreAccounted`, `OneAttemptAfterCtxEnds`, `NoSleepAfterWakeup`, `WaitsEndForTheirReason` |
| Bridge_proofs | `TrackedTheorem`, `FreshRouteTheorem`, `NotTruncatedTheorem`, `NothingLeftTheorem` | `ReturnedListenersAreTracked`, `NoStaleRoute`, `ResponsesAreNotTruncated`, `NothingIsLeftBehind` |
| K8s_proofs | `NoLeakTheorem`, `NoCutTheorem` | `NoConnectionLeaks`, and the action property `StreamsAreNotCut` |
| | `NotFoundTheorem`, `FirstReadyTheorem` | `NotFoundMeansAbsent`, and the part of the action property `TargetsAreServing` that is about the pod |
| Proxy_proofs | `CleanUpTheorem`, `NotCutTheorem`, `RewriteTheorem` | `HandlersCleanUp`, `TunnelsAreNotCut`, `RewriteIsApplied` |
| Control_proofs | `AccountTheorem`, `SpecsTheorem` | `AnswersAccountForRoutes`, `SpecsMatchRoutes` |
| Daemon_proofs | `OneDaemonTheorem`, `DeregisterTheorem`, `KeepTheorem` | `OneDaemonServes`, `RunsDeregister`, `ChildrenKeepTheirNames` |
| CA_proofs | `LoadTheorem`, `OneCATheorem`, `VerifyTheorem`, `UninstallTheorem` | `LoadsSucceed`, `OneCA`, `RoutesVerify`, `UninstallRemoves` |

Each module has one inductive invariant for each specification (`IInv`,
`PortForwardInv`, `ResolverInv`), the type invariant among its conjuncts, and a
theorem that says it always holds. The argument is the same everywhere: a lemma
for `Init`, a lemma for each action (or group of actions that touch the same
variables) with a step for each conjunct that the action can disturb, a lemma
that splits `Next` and cites them, and propositional temporal logic in the last
step. Every inductive invariant was checked with TLC on the instance of its run
before it was proved.

The proofs use the named assumptions of the modules and no others: markers such
as `None` or `Nil` are none of the calls, processes or files they stand beside,
bounds are natural numbers, requests and options are well-formed, and the three
kinds of dial in Dial are different dials. No constant set is assumed to be
finite, not even where Control counts requests. The bounds `MaxGen`,
`MaxFailures` and `MaxChanges` are any natural numbers.

None of the properties is inductive. What has to be added says why the code
works:

- **Registry**: `PhaseMatchesPc` (the state of a backend follows from where its
  `Add` is), `Custody` (a started backend is in exactly one hand - its `Add`, the
  table, the call that took it out of the table, the snapshot of `Close` - or has
  been given to `Stop`) and `OneCloser` (`closeOnce` lets one call past, and the
  snapshot is empty unless that call drains it). From `Custody`, whoever stops a
  backend is the only one who can. `Reports`, inductive together with `IInv`,
  says what the outcome of a call tells of the table, and that the events lag
  behind the table only by the calls that have still to emit theirs.
  The refinement takes one step lemma per action: `AddReserve` maps to holding a
  name, `AddPublish` to binding it, `AddUnreserve`, `RemoveTake` and the first
  half of `Close` to freeing it or them all, every other step to a stutter.
- **Dial**: `Holds` gives the number of connections open at each point of the
  loop, and `Accounts` says it is that number at every point; `LateIsLast` says
  that an attempt with an ended context is followed by the end of the dial;
  `OwnErrors`, that the error of the dial's own context is met only after that
  has ended, with the tag of its cause, and never ends a dial as the backend's.
- **Bridge**: `RunningLoopsAreTracked` with `SetFollowsClose`: a listener is in
  the set, or in the hands of `closeAll`, for as long as it is bound and its loop
  runs, and the set stays empty once `Close` has swept it. For a connection,
  `RouteIsFresh` (a lookup after `Accept` finds no route that was gone then) and
  `ConnIsInOrder` (what exists at each step of `bridgeConn`).
- **PortForward**: `OpenIsTracked` and `InstallsAreExclusive`: an open
  connection is the cached one or on its way to the cache with one dial, which
  nobody else knows yet, so that the loser of the race may close its own.
- **Resolver**: `PresentIsTrue`: as long as the target has been there, it is
  there now, and the Service that was got is the Service. The first ready pod
  exists because finite sets of numbers are well-founded.
- **Proxy**: `TunnelInv` (what a tunnel has at each step, and the cause of each
  cut), `ServerKeeps` (a connection that is not hijacked is closed by nothing
  but `Close` while its client is there) and `ForwardInv` (the routes a request has met come in order, a
  connection is held exactly during the round trip, and the flag is up for every
  route with a rewrite, also for the one that is about to be published).
- **Control**: `Balance` counts the requests that added and removed a route at
  every moment, including those that have not answered yet. In calm times,
  `CalmSpecs`: specs and table differ only while one handler still has to record
  or forget a spec. `Listings`: the table is still what a listing has read when
  it gets to the specs.
- **Daemon**: `OneAtATime`, `NamesAreKnown` and `NamesAreKept`, each under the
  hardship it excludes (section 3, Conditions). `RunsDeregister` needs no
  absence of overlap: the request that deregisters goes over the connection
  that registered.
- **CA**: `KeyIsLast` (a key that exists is that of the certificate, since it is
  written last) and `LoadedIsStored`, in behaviors without overlap and failed
  reads; `StoreIsKnown` ties the trust store to the files.

Only model-checked, because fairness and `ENABLED` are beyond the prover, are
the liveness properties: `CallsReturn`, `DialsReturn`, `CloseUnwinds`,
`ClosedBridgesAreForgotten`, `StreamsUnwind`, `SelfHeals`, `ProxyUnwinds`,
`ClientsReturn`, `ResolvesInTheEnd`. So is the part of `TargetsAreServing` that
is about the port: what `FlattenSeq` and `SelectSeq` return for sequences of
any length needs induction over data, which the installed provers do not do.
`SpecsMatchRoutes`, `OneCA` and the others with a premise are proved with that
premise; without it they are false (section 3, Conditions).

## 6. What is not modelled, and why

- Bytes. Copies are modelled by when they end; HTTP, TLS, SPDY, JSON and
  formatting by what the code does with their success or failure. So the
  hop-by-hop headers that the proxy strips are left out.
- The health events of the k8s backend, which it emits outside its lock: a
  late "unhealthy" can follow the "recovered" of another dial. The one handler
  in the repository (`http.go`) then drops idle connections, which is harmless.
- Durations. Backoff and timeouts are the order in which they fire. That the
  backoff grows and stays within its bounds is not modelled, nor are the
  validity periods and serial numbers of certificates.
- `register.go`, `parse.go`, `spec.go`, `options.go`, flag parsing and printing:
  they turn text and options into fields once, with no state of their own.
- `freePort` and `ports.go`: the port can be taken by another process before it
  is bound; the code accepts that and documents it.
- `backend/tcp.go`, `future.go`, `listener.go`, `mem.go`: one dial, one read or
  one `select` between the rendezvous, `done` and the context. Dial takes an
  attempt of any backend with any outcome.
- `status`, `doctor`, `env` and the `main` command: they read and print.
- `middleware.go` composes functions. Of `http.go`, what wires `net/http`
  together; `http.DefaultTransport` and a transport that is built after `Close`
  are ordinary users of the registry.
- In Forward, the retry of `net/http` over a new connection when a pooled one
  turns out to be dead: it sends the same request, with the Host it has, as if
  the pool had been empty. In Dial, an error of closing the probe's connection
  (`route.go:123`) has none of the tags that the status depends on.
- In Resolver, a pod has one Ready condition, as the API server guarantees, and
  a terminating pod is like any other, as in the code.

## 7. Plan

Done: Registry with RouteTable, Dial with the ready handler, Bridge with
BridgeConn, PortForward with StreamConn, Proxy with Tunnel and Forward, Control,
Daemon, Resolver, CA, and the proofs of their safety properties. What is left:

1. Action properties for any number of processes: which steps may stop a backend
   or free a name (Registry), and that a connection of a bridge or of the proxy
   is closed once.
2. The port of `TargetsAreServing` for the targets that need no search: a number
   in the options or in the Service.
3. As a model, the composition of Control with Registry instead of RouteTable,
   in which a handler can be overtaken inside `Add`.
