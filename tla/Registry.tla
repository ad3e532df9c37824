------------------------------ MODULE Registry ------------------------------
(***************************************************************************)
(* The route table of a portless Registry (registry.go) under concurrent   *)
(* callers.  Each element of Calls is one goroutine making one API call:   *)
(* Add, AddReady, Remove, Close, or DialContext up to the point where it   *)
(* has resolved its route.  An atomic step is what the code does while it  *)
(* holds Registry.mu, or one call into a backend (Start, Stop); everything *)
(* between two such steps may interleave.                                  *)
(*                                                                         *)
(* The *Route an Add call builds is named by that call, so a route object  *)
(* has an identity that is independent of the name it is registered under. *)
(* How the readiness wait of AddReady ends is left open here; the module   *)
(* Dial is about it.  ListenLocal bridges are in the module Bridge.        *)
(***************************************************************************)
EXTENDS Naturals

CONSTANTS
    Calls,          \* the API calls made of the registry
    Names,          \* route names as callers spell them
    Keys,           \* keys of the routes map
    Lower,          \* strings.ToLower: the key of a name
    Requests,       \* what a call may ask for
    HasFallback,    \* WithFallback is configured and WithStrict is not
    Absent,         \* the key is not in the map
    Nil,            \* the map holds a nil *Route: the name is reserved
    None            \* no request yet / no route

Ops == {"Add", "AddReady", "Remove", "Dial", "Close"}

ASSUME RegistryAssumption ==
    /\ Lower \in [Names -> Keys]
    /\ Requests \subseteq [op : Ops, name : Names, starter : BOOLEAN,
                           stopper : BOOLEAN, rewrite : BOOLEAN]
    /\ HasFallback \in BOOLEAN
    /\ Absent \notin Calls /\ Nil \notin Calls /\ Absent # Nil
    /\ None \notin Calls /\ None \notin Requests

VARIABLES
    req,            \* the request of each call
    pc,             \* where each call is
    rt,             \* the call's local route variable
    result,         \* what the call returned
    routes,         \* Registry.routes
    closed,         \* Registry.closed
    done,           \* Registry.done has been closed
    once,           \* Registry.closeOnce
    hasRewrites,    \* Registry.hasRewrites
    snapshot,       \* Close: the routes it has yet to stop
    closeErr,       \* Close: errs is not empty
    backend,        \* state of the backend each Add call was given
    stops,          \* how often Stop was called on that backend
    announced,      \* routes for which EventRouteAdded was emitted
    withdrawn       \* routes for which EventRouteRemoved was emitted

table == <<routes, closed>>
closeVars == <<done, once, snapshot, closeErr>>
backends == <<backend, stops>>
events == <<announced, withdrawn>>
vars == <<req, pc, rt, result, routes, closed, done, once, hasRewrites,
          snapshot, closeErr, backend, stops, announced, withdrawn>>

PCs == {"idle", "reserve", "start", "unreserve", "publish", "discard",
        "added", "ready", "remove", "removed", "stopping", "resolve",
        "once", "swap", "signal", "drain", "ret"}
Results == {"none", "ok", "fallback", "ErrClosed", "ErrRouteExists",
            "ErrRouteNotFound", "ErrStart", "ErrNotReady", "ErrStop",
            "ErrInvalid"}
Phases == {"new", "up", "failed", "stopping", "stopped"}

\* The map key a call works on.
key(c) == Lower[req[c].name]

TypeOK ==
    /\ req \in [Calls -> Requests \cup {None}]
    /\ pc \in [Calls -> PCs]
    /\ rt \in [Calls -> Calls \cup {None}]
    /\ result \in [Calls -> Results]
    /\ routes \in [Keys -> Calls \cup {Absent, Nil}]
    /\ closed \in BOOLEAN /\ done \in BOOLEAN
    /\ once \in {"fresh", "running", "done"}
    /\ hasRewrites \in BOOLEAN
    /\ snapshot \subseteq Calls /\ closeErr \in BOOLEAN
    /\ backend \in [Calls -> Phases]
    /\ stops \in [Calls -> Nat]
    /\ announced \subseteq Calls /\ withdrawn \subseteq Calls
    /\ \A c \in Calls : pc[c] # "idle" => req[c] \in Requests

Init ==
    /\ req = [c \in Calls |-> None]
    /\ pc = [c \in Calls |-> "idle"]
    /\ rt = [c \in Calls |-> None]
    /\ result = [c \in Calls |-> "none"]
    /\ routes = [k \in Keys |-> Absent]
    /\ closed = FALSE /\ done = FALSE /\ once = "fresh"
    /\ hasRewrites = FALSE
    /\ snapshot = {} /\ closeErr = FALSE
    /\ backend = [c \in Calls |-> "new"]
    /\ stops = [c \in Calls |-> 0]
    /\ announced = {} /\ withdrawn = {}

Goto(c, l) == pc' = [pc EXCEPT ![c] = l]

Return(c, res) ==
    /\ Goto(c, "ret")
    /\ result' = [result EXCEPT ![c] = res]

\* b.Stop is called on the backend of route r, if it is a Stopper; the call c
\* then waits for it in "stopping".
CallStop(c, r) ==
    /\ backend' = [backend EXCEPT ![r] = "stopping"]
    /\ stops' = [stops EXCEPT ![r] = @ + 1]
    /\ Goto(c, "stopping")

-----------------------------------------------------------------------------
(* Add and AddReady                                                        *)

\* Add up to the lock: the checks of its arguments have passed and, for a
\* route with a host rewrite, hasRewrites is stored.
AddBegin(c) ==
    /\ pc[c] = "idle"
    /\ \E q \in Requests :
          /\ q.op \in {"Add", "AddReady"}
          /\ req' = [req EXCEPT ![c] = q]
          /\ hasRewrites' = (hasRewrites \/ q.rewrite)
    /\ Goto(c, "reserve")
    /\ UNCHANGED <<rt, result, table, closeVars, backends, events>>

\* An empty name, a nil backend or a host rewrite that is no host.
AddInvalid(c) ==
    /\ pc[c] = "idle"
    /\ \E q \in Requests :
          /\ q.op \in {"Add", "AddReady"}
          /\ req' = [req EXCEPT ![c] = q]
    /\ Return(c, "ErrInvalid")
    /\ UNCHANGED <<rt, table, closeVars, hasRewrites, backends, events>>

\* Mutant: a name that is only reserved counts as free.
AddReserveTakesReserved(c) ==
    /\ pc[c] = "reserve"
    /\ \/ /\ closed
          /\ Return(c, "ErrClosed")
          /\ UNCHANGED routes
       \/ /\ ~closed /\ routes[key(c)] \in Calls
          /\ Return(c, "ErrRouteExists")
          /\ UNCHANGED routes
       \/ /\ ~closed /\ routes[key(c)] \in {Absent, Nil}
          /\ routes' = [routes EXCEPT ![key(c)] = Nil]
          /\ Goto(c, "start")
          /\ UNCHANGED result
    /\ UNCHANGED <<req, rt, closed, closeVars, hasRewrites, backends, events>>

\* The first critical section of Add: reserve the name, or fail.
AddReserve(c) ==
    /\ pc[c] = "reserve"
    /\ \/ /\ closed
          /\ Return(c, "ErrClosed")
          /\ UNCHANGED routes
       \/ /\ ~closed /\ routes[key(c)] # Absent
          /\ Return(c, "ErrRouteExists")
          /\ UNCHANGED routes
       \/ /\ ~closed /\ routes[key(c)] = Absent
          /\ routes' = [routes EXCEPT ![key(c)] = Nil]
          /\ Goto(c, "start")
          /\ UNCHANGED result
    /\ UNCHANGED <<req, rt, closed, closeVars, hasRewrites, backends, events>>

\* SetEventSink, then Start when the backend is a Starter; Start may fail.
AddStart(c) ==
    /\ pc[c] = "start"
    /\ \/ /\ backend' = [backend EXCEPT ![c] = "up"]
          /\ Goto(c, "publish")
       \/ /\ req[c].starter
          /\ backend' = [backend EXCEPT ![c] = "failed"]
          /\ Goto(c, "unreserve")
    /\ UNCHANGED <<req, rt, result, table, closeVars, hasRewrites, stops,
                   events>>

\* Mutant: Start is tried again for as long as it fails.
AddUnreserveRestarts(c) ==
    /\ pc[c] = "unreserve"
    /\ backend' = [backend EXCEPT ![c] = "new"]
    /\ Goto(c, "start")
    /\ UNCHANGED <<req, rt, result, table, closeVars, hasRewrites, stops, events>>

\* Start failed: the reservation is deleted under the lock.
AddUnreserve(c) ==
    /\ pc[c] = "unreserve"
    /\ routes' = [routes EXCEPT ![key(c)] = Absent]
    /\ Return(c, "ErrStart")
    /\ UNCHANGED <<req, rt, closed, closeVars, hasRewrites, backends, events>>

\* Mutant: closed is not looked at again after Start.
AddPublishUnchecked(c) ==
    /\ pc[c] = "publish"
    /\ routes' = [routes EXCEPT ![key(c)] = c]
    /\ Goto(c, "added")
    /\ UNCHANGED <<req, rt, result, closed, closeVars, hasRewrites, backends,
                   events>>

\* Mutant: an Add that finds the registry closed leaves its backend running.
AddPublishAbandons(c) ==
    /\ pc[c] = "publish"
    /\ \/ /\ closed
          /\ routes' = [routes EXCEPT ![key(c)] = Absent]
          /\ Return(c, "ErrClosed")
       \/ /\ ~closed
          /\ routes' = [routes EXCEPT ![key(c)] = c]
          /\ Goto(c, "added") /\ UNCHANGED result
    /\ UNCHANGED <<req, rt, closed, closeVars, hasRewrites, backends, events>>

\* The second critical section of Add: publish the route unless the registry
\* was closed while the backend started.
AddPublish(c) ==
    /\ pc[c] = "publish"
    /\ \/ /\ closed
          /\ routes' = [routes EXCEPT ![key(c)] = Absent]
          /\ Goto(c, "discard")
       \/ /\ ~closed
          /\ routes' = [routes EXCEPT ![key(c)] = c]
          /\ Goto(c, "added")
    /\ UNCHANGED <<req, rt, result, closed, closeVars, hasRewrites, backends,
                   events>>

\* stopBackend of an Add that found the registry closed.
AddDiscard(c) ==
    /\ pc[c] = "discard"
    /\ \/ /\ req[c].stopper
          /\ rt' = [rt EXCEPT ![c] = c]
          /\ CallStop(c, c)
          /\ UNCHANGED result
       \/ /\ ~req[c].stopper
          /\ Return(c, "ErrClosed")
          /\ UNCHANGED <<rt, backends>>
    /\ UNCHANGED <<req, table, closeVars, hasRewrites, events>>

\* EventRouteAdded; Add returns its route, AddReady goes on to wait.
AddEmit(c) ==
    /\ pc[c] = "added"
    /\ announced' = announced \cup {c}
    /\ \/ req[c].op = "Add" /\ Return(c, "ok")
       \/ req[c].op = "AddReady" /\ Goto(c, "ready") /\ UNCHANGED result
    /\ UNCHANGED <<req, rt, table, closeVars, hasRewrites, backends, withdrawn>>

\* Mutant: a route that does not become ready is left in the table.
AddReadyWaitLeavesRoute(c) ==
    /\ pc[c] = "ready"
    /\ \E res \in {"ok", "ErrNotReady"} : Return(c, res)
    /\ UNCHANGED <<req, rt, table, closeVars, hasRewrites, backends, events>>

\* The readiness wait of AddReady ends: the route is handed out, or the
\* cleanup calls Remove with the route's NAME.
AddReadyWait(c) ==
    /\ pc[c] = "ready"
    /\ \/ Return(c, "ok")
       \/ Goto(c, "remove") /\ UNCHANGED result
    /\ UNCHANGED <<req, rt, table, closeVars, hasRewrites, backends, events>>

-----------------------------------------------------------------------------
(* Remove, DialContext                                                     *)

\* A Remove, Dial or Close call begins.
Begin(c) ==
    /\ pc[c] = "idle"
    /\ \E q \in Requests :
          /\ req' = [req EXCEPT ![c] = q]
          /\ \/ q.op = "Remove" /\ Goto(c, "remove")
             \/ q.op = "Dial" /\ Goto(c, "resolve")
             \/ q.op = "Close" /\ Goto(c, "once")
    /\ UNCHANGED <<rt, result, table, closeVars, hasRewrites, backends, events>>

\* Mutant: the route is looked up under the lock and deleted by nobody.
RemoveTakeKeepsRoute(c) ==
    /\ pc[c] = "remove"
    /\ \/ /\ routes[key(c)] \in Calls
          /\ rt' = [rt EXCEPT ![c] = routes[key(c)]]
          /\ Goto(c, "removed")
          /\ UNCHANGED result
       \/ /\ routes[key(c)] \in {Absent, Nil}
          /\ Return(c, IF req[c].op = "Remove" THEN "ErrRouteNotFound"
                                               ELSE "ErrNotReady")
          /\ UNCHANGED rt
    /\ UNCHANGED <<req, table, closeVars, hasRewrites, backends, events>>

\* The critical section of Remove, called by a user or by AddReady's cleanup,
\* which ignores ErrRouteNotFound.
RemoveTake(c) ==
    /\ pc[c] = "remove"
    /\ \/ /\ routes[key(c)] \in Calls
          /\ rt' = [rt EXCEPT ![c] = routes[key(c)]]
          /\ routes' = [routes EXCEPT ![key(c)] = Absent]
          /\ Goto(c, "removed")
          /\ UNCHANGED result
       \/ /\ routes[key(c)] \in {Absent, Nil}
          /\ Return(c, IF req[c].op = "Remove" THEN "ErrRouteNotFound"
                                               ELSE "ErrNotReady")
          /\ UNCHANGED <<rt, routes>>
    /\ UNCHANGED <<req, closed, closeVars, hasRewrites, backends, events>>

\* Mutant: EventRouteRemoved is emitted only for a backend that is stopped.
RemoveStopQuiet(c) ==
    /\ pc[c] = "removed"
    /\ \/ /\ req[rt[c]].stopper
          /\ withdrawn' = withdrawn \cup {rt[c]}
          /\ CallStop(c, rt[c])
          /\ UNCHANGED result
       \/ /\ ~req[rt[c]].stopper
          /\ Return(c, IF req[c].op = "Remove" THEN "ok" ELSE "ErrNotReady")
          /\ UNCHANGED <<backends, withdrawn>>
    /\ UNCHANGED <<req, rt, table, closeVars, hasRewrites, announced>>

\* Outside the lock: EventRouteRemoved, then Stop if the backend has one.
RemoveStop(c) ==
    /\ pc[c] = "removed"
    /\ withdrawn' = withdrawn \cup {rt[c]}
    /\ \/ /\ req[rt[c]].stopper
          /\ CallStop(c, rt[c])
          /\ UNCHANGED result
       \/ /\ ~req[rt[c]].stopper
          /\ Return(c, IF req[c].op = "Remove" THEN "ok" ELSE "ErrNotReady")
          /\ UNCHANGED backends
    /\ UNCHANGED <<req, rt, table, closeVars, hasRewrites, announced>>

\* Stop returns, with or without an error; what the caller makes of it
\* depends on who called.
StopReturn(c) ==
    /\ pc[c] = "stopping"
    /\ backend' = [backend EXCEPT ![rt[c]] = "stopped"]
    /\ \/ /\ req[c].op = "Add"
          /\ Return(c, "ErrClosed") /\ UNCHANGED closeErr
       \/ /\ req[c].op = "AddReady"
          /\ Return(c, IF c \in announced THEN "ErrNotReady" ELSE "ErrClosed")
          /\ UNCHANGED closeErr
       \/ /\ req[c].op = "Remove"
          /\ \E res \in {"ok", "ErrStop"} : Return(c, res)
          /\ UNCHANGED closeErr
       \/ /\ req[c].op = "Close"
          /\ closeErr' \in {closeErr, TRUE}
          /\ Goto(c, "drain") /\ UNCHANGED result
    /\ UNCHANGED <<req, rt, table, done, once, snapshot, hasRewrites, stops,
                   events>>

\* The read-locked lookup of DialContext.  It leaves the route in rt.
Resolve(c) ==
    /\ pc[c] = "resolve"
    /\ \/ /\ closed
          /\ Return(c, "ErrClosed") /\ UNCHANGED rt
       \/ /\ ~closed /\ routes[key(c)] \in {Absent, Nil}
          /\ Return(c, IF HasFallback THEN "fallback" ELSE "ErrRouteNotFound")
          /\ UNCHANGED rt
       \/ /\ ~closed /\ routes[key(c)] \in Calls
          /\ Return(c, "ok")
          /\ rt' = [rt EXCEPT ![c] = routes[key(c)]]
    /\ UNCHANGED <<req, table, closeVars, hasRewrites, backends, events>>

-----------------------------------------------------------------------------
(* Close                                                                   *)

\* closeOnce.Do: the first caller runs the body, the others wait for it.
CloseOnce(c) ==
    /\ pc[c] = "once"
    /\ \/ /\ once = "fresh"
          /\ once' = "running"
          /\ Goto(c, "swap") /\ UNCHANGED result
       \/ /\ once = "done"
          /\ Return(c, "ok") /\ UNCHANGED once
    /\ UNCHANGED <<req, rt, table, done, snapshot, closeErr, hasRewrites,
                   backends, events>>

\* The critical section: mark closed and take the whole map.
CloseSwap(c) ==
    /\ pc[c] = "swap"
    /\ closed' = TRUE
    /\ snapshot' = {r \in Calls : \E k \in Keys : routes[k] = r}
    /\ routes' = [k \in Keys |-> Absent]
    /\ Goto(c, "signal")
    /\ UNCHANGED <<req, rt, result, done, once, closeErr, hasRewrites, backends,
                   events>>

\* close(r.done); the bridges and the HTTP pool are torn down here too.
CloseSignal(c) ==
    /\ pc[c] = "signal"
    /\ done' = TRUE
    /\ Goto(c, "drain")
    /\ UNCHANGED <<req, rt, result, table, once, snapshot, closeErr, hasRewrites,
                   backends, events>>

\* One turn of the loop over the taken routes, in map order (any order).
CloseStopNext(c) ==
    /\ pc[c] = "drain"
    /\ \E r \in snapshot :
          /\ snapshot' = snapshot \ {r}
          /\ \/ /\ req[r].stopper
                /\ rt' = [rt EXCEPT ![c] = r]
                /\ CallStop(c, r)
             \/ /\ ~req[r].stopper
                /\ UNCHANGED <<rt, pc, backends>>
    /\ UNCHANGED <<req, result, table, done, once, closeErr, hasRewrites, events>>

CloseReturn(c) ==
    /\ pc[c] = "drain" /\ snapshot = {}
    /\ once' = "done"
    /\ Return(c, IF closeErr THEN "ErrStop" ELSE "ok")
    /\ UNCHANGED <<req, rt, table, done, snapshot, closeErr, hasRewrites,
                   backends, events>>

-----------------------------------------------------------------------------

\* The steps a call takes once it has begun.
Step(c) ==
    \/ AddReserve(c) \/ AddStart(c) \/ AddUnreserve(c) \/ AddPublish(c)
    \/ AddDiscard(c) \/ AddEmit(c) \/ AddReadyWait(c)
    \/ RemoveTake(c) \/ RemoveStop(c) \/ StopReturn(c) \/ Resolve(c)
    \/ CloseOnce(c) \/ CloseSwap(c) \/ CloseSignal(c) \/ CloseStopNext(c)
    \/ CloseReturn(c)

\* Nothing is left to do: every call that was made has returned.
Quiescent == \A c \in Calls : pc[c] \in {"idle", "ret"}

Terminated == (\A c \in Calls : pc[c] = "ret") /\ UNCHANGED vars

Next ==
    \/ \E c \in Calls : AddBegin(c) \/ AddInvalid(c) \/ Begin(c) \/ Step(c)
    \/ Terminated

Spec == Init /\ [][Next]_vars

\* A goroutine that is inside a call keeps running, and the backend's Start,
\* Stop and the readiness wait (bounded by its timeout) return.
FairSpec == Spec /\ \A c \in Calls : WF_vars(Step(c))

-----------------------------------------------------------------------------
(* Properties                                                              *)

\* The calls that hold a reservation: an Add between its two critical sections.
Holding(c) == pc[c] \in {"start", "unreserve", "publish"}

Live == {r \in Calls : \E k \in Keys : routes[k] = r}

\* The route r is about to be stopped by somebody, or can still be: it is in
\* the map, in the routes Close took, with a Remove that has yet to call Stop,
\* or with its own Add before that publishes or discards it.
Owned(r) ==
    \/ r \in Live \cup snapshot
    \/ pc[r] \in {"publish", "discard"}
    \/ \E c \in Calls : pc[c] = "removed" /\ rt[c] = r

\* A reserved name (nil in the map) belongs to exactly one Add in progress,
\* and no name stays reserved once its Add has failed (registry.go:108-141):
\* the deletes of Add, which go by key, never hit another call's entry.
ReservationsAreOwned ==
    ~closed => /\ \A c \in Calls : Holding(c) => routes[key(c)] = Nil
               /\ \A c, d \in Calls :
                     Holding(c) /\ Holding(d) /\ key(c) = key(d) => c = d
               /\ \A k \in Keys : routes[k] = Nil =>
                     \E c \in Calls : Holding(c) /\ key(c) = k

\* Whatever a lookup can return was started, has not been stopped, and is
\* registered under its own key: Start comes before publication and Stop
\* after removal, whichever of Add, Remove, AddReady and Close interleave.
LiveRoutesAreRunning ==
    \A k \in Keys : routes[k] \in Calls =>
        /\ backend[routes[k]] = "up" /\ stops[routes[k]] = 0
        /\ key(routes[k]) = k

\* Nothing is registered in a closed registry: an Add whose backend was still
\* starting when Close took the map does not publish into the new one.
ClosedRegistryIsEmpty == closed => \A k \in Keys : routes[k] = Absent

\* Remove, AddReady's cleanup, a late Add and Close race for a route, and
\* exactly one of them wins the right to stop its backend.
StoppedAtMostOnce ==
    \A r \in Calls : /\ stops[r] <= 1
                     /\ stops[r] = 1 <=> backend[r] \in {"stopping", "stopped"}

\* A started backend with a Stop method is never forgotten.
NoBackendLeaked ==
    \A r \in Calls : backend[r] = "up" /\ req[r].stopper => Owned(r)

\* A route whose Add or AddReady reported an error is not in the table.
FailedAddIsUndone ==
    \A c \in Calls : c \in Live => result[c] \in {"none", "ok"}

\* An observer that counts EventRouteAdded and EventRouteRemoved knows the
\* table whenever no call is in flight, until Close, which emits neither.
EventsMatchTable ==
    Quiescent => /\ withdrawn \subseteq announced
                 /\ ~closed => announced \ withdrawn = Live

\* Every call returns, in particular a second Close that waits for the first.
CallsReturn == \A c \in Calls : pc[c] # "idle" ~> pc[c] = "ret"

\* What the comment of AddReady says ("If readiness fails, the route is
\* removed again", registry.go:147-148): its cleanup takes its own route.
AddReadyRemovesItsOwnRoute ==
    \A c \in Calls :
        pc[c] = "removed" /\ req[c].op = "AddReady" => rt[c] = c

-----------------------------------------------------------------------------
(* The inductive invariant behind the safety properties                    *)

\* A call that has not come out of Add: its route was never in the map.
Early == {"idle", "reserve", "start", "unreserve", "publish", "discard"}

\* How far a backend is follows from where its Add is.
PhaseMatchesPc ==
    \A c \in Calls :
        /\ pc[c] \in {"idle", "reserve", "start"} => backend[c] = "new"
        /\ pc[c] = "unreserve" => backend[c] = "failed"
        /\ pc[c] \in {"publish", "discard"} => backend[c] = "up"
        /\ pc[c] = "discard" => closed

\* A route that was published is in one place only: in the map, in the routes
\* Close took, with the one Remove that took it, or with the one call that is
\* stopping its backend.
Custody ==
    /\ \A k \in Keys : routes[k] \in Calls =>
          routes[k] \notin snapshot /\ pc[routes[k]] \notin Early
    /\ \A r \in snapshot : backend[r] = "up" /\ pc[r] \notin Early
    /\ \A c \in Calls : pc[c] = "removed" =>
          /\ rt[c] \in Calls /\ rt[c] \notin snapshot
          /\ backend[rt[c]] = "up" /\ pc[rt[c]] \notin Early
          /\ \A k \in Keys : routes[k] # rt[c]
    /\ \A c \in Calls : pc[c] = "stopping" =>
          rt[c] \in Calls /\ backend[rt[c]] = "stopping"
    /\ \A c, d \in Calls :
          /\ pc[c] \in {"removed", "stopping"} /\ pc[d] = pc[c]
          /\ rt[c] = rt[d]
          => c = d

\* One Close at most runs the body of closeOnce, and it swaps the map once.
OneCloser ==
    /\ once = "fresh" => ~closed
    /\ ~closed => snapshot = {}
    /\ \A c \in Calls :
          /\ pc[c] = "swap" => once = "running" /\ ~closed
          /\ pc[c] \in {"signal", "drain"} => closed
          /\ pc[c] = "stopping" /\ req[c].op = "Close" => closed
          /\ pc[c] \in {"reserve", "start", "unreserve", "publish", "discard",
                       "added", "ready", "remove", "removed"}
                => req[c].op # "Close"
    /\ \A c, d \in Calls : pc[c] = "swap" /\ pc[d] = "swap" => c = d

IInv ==
    /\ TypeOK
    /\ PhaseMatchesPc
    /\ ReservationsAreOwned
    /\ LiveRoutesAreRunning
    /\ ClosedRegistryIsEmpty
    /\ StoppedAtMostOnce
    /\ Custody
    /\ OneCloser
    /\ NoBackendLeaked

-----------------------------------------------------------------------------
(* Refinement: the route table without locks, goroutines and backends      *)

\* Where the route built by call c is in its life.
PhaseOf(c) ==
    IF c \in Live THEN "live"
    ELSE IF Holding(c) /\ ~closed THEN "held"
    ELSE IF backend[c] = "new" /\ pc[c] # "start" THEN "new"
    ELSE "gone"

AbstractTable == INSTANCE RouteTable WITH
    Routes <- Calls, Free <- Absent, Held <- Nil,
    table <- routes,
    phase <- [c \in Calls |-> PhaseOf(c)],
    at <- [c \in Calls |-> IF PhaseOf(c) = "new" THEN Absent ELSE key(c)],
    open <- ~closed

\* The registry implements RouteTable.
ImplementsRouteTable == AbstractTable!Spec

=============================================================================
