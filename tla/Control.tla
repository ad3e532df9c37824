------------------------------ MODULE Control ------------------------------
(***************************************************************************)
(* The control API of the daemon (control/server.go): requests that add,   *)
(* remove and list routes.  A handler first changes the registry and then, *)
(* in a critical section of its own, the server's record of what was added *)
(* through the API (Server.specs).  The registry is taken at the level of  *)
(* RouteTable: Add reserves a name and then publishes or gives it up,      *)
(* Remove is atomic.                                                       *)
(*                                                                         *)
(* A route and its spec are named after the request that added them.       *)
(***************************************************************************)
EXTENDS Integers, FiniteSets

CONSTANTS
    Requests,       \* HTTP requests, and calls of the embedding program
    Keys,           \* route names in lower case
    Held,           \* the name is reserved by an Add in progress
    None

ASSUME ControlAssumption ==
    /\ None \notin Requests /\ Held \notin Requests /\ None # Held

\* "libadd" and "libremove" are calls of Registry.Add and Registry.Remove by
\* the program that embeds the server.
Ops == {"add", "remove", "list", "libadd", "libremove"}
Statuses == {"none", "200", "201", "204", "400", "404", "409", "500",
             "added", "removed"}

VARIABLES
    calm,           \* requests come one at a time, every Stop succeeds, and
                    \* the embedding program removes nothing
    op, key,        \* what each request asks for
    pc, status,     \* where it is and what it answered
    reg,            \* the registry: the route of each key
    specs,          \* Server.specs
    snapshot,       \* list: the routes it has read
    shown           \* list: the spec it showed for each of them

vars == <<calm, op, key, pc, status, reg, specs, snapshot, shown>>

Entry == [Keys -> Requests \cup {None}]

\* The route of k, as Lookup and Routes see it.
Visible(k) == IF reg[k] = Held THEN None ELSE reg[k]

TypeOK ==
    /\ calm \in BOOLEAN
    /\ op \in [Requests -> Ops] /\ key \in [Requests -> Keys]
    /\ pc \in [Requests -> {"idle", "start", "record", "forget", "show", "ret"}]
    /\ status \in [Requests -> Statuses]
    /\ reg \in [Keys -> Requests \cup {None, Held}] /\ specs \in Entry
    /\ snapshot \in [Requests -> Entry] /\ shown \in [Requests -> Entry]
    /\ \A r \in Requests : pc[r] = "ret" <=> status[r] # "none"

Empty == [k \in Keys |-> None]

Init ==
    /\ calm \in BOOLEAN
    /\ op \in [Requests -> IF calm THEN Ops \ {"libremove"} ELSE Ops]
    /\ key \in [Requests -> Keys]
    /\ pc = [r \in Requests |-> "idle"]
    /\ status = [r \in Requests |-> "none"]
    /\ reg = Empty /\ specs = Empty
    /\ snapshot = [r \in Requests |-> Empty]
    /\ shown = [r \in Requests |-> Empty]

Quiescent == \A r \in Requests : pc[r] \in {"idle", "ret"}

Begins(r) == pc[r] = "idle" /\ (calm => Quiescent)

Goto(r, l) == pc' = [pc EXCEPT ![r] = l]

Answer(r, code) ==
    /\ Goto(r, "ret")
    /\ status' = [status EXCEPT ![r] = code]

-----------------------------------------------------------------------------

\* Mutant: a name that is taken is reserved all the same.
ReserveAnyway(r) ==
    /\ reg' = [reg EXCEPT ![key[r]] = Held]
    /\ Goto(r, "start") /\ UNCHANGED status

\* Registry.Add reserves the name, or fails with ErrRouteExists.
Reserve(r) ==
    \/ /\ reg[key[r]] # None
       /\ Answer(r, "409") /\ UNCHANGED reg
    \/ /\ reg[key[r]] = None
       /\ reg' = [reg EXCEPT ![key[r]] = Held]
       /\ Goto(r, "start") /\ UNCHANGED status

\* handleAddRoute: decode, find the factory, make the backend, reg.Add; or the
\* embedding program adds a route of its own, which is listed as "custom".
AddRoute(r) ==
    /\ Begins(r)
    /\ \/ op[r] = "add" /\ Answer(r, "400") /\ UNCHANGED reg
       \/ op[r] \in {"add", "libadd"} /\ Reserve(r)
    /\ UNCHANGED <<calm, op, key, specs, snapshot, shown>>

\* The backend has started, or not.
AddReturns(r) ==
    /\ pc[r] = "start"
    /\ \/ /\ reg' = [reg EXCEPT ![key[r]] = r]
          /\ \/ op[r] = "add" /\ Goto(r, "record") /\ UNCHANGED status
             \/ op[r] = "libadd" /\ Answer(r, "added")
       \/ /\ reg' = [reg EXCEPT ![key[r]] = None]
          /\ Answer(r, "500")
    /\ UNCHANGED <<calm, op, key, specs, snapshot, shown>>

\* ... and then record the spec.
RecordSpec(r) ==
    /\ pc[r] = "record"
    /\ specs' = [specs EXCEPT ![key[r]] = r]
    /\ Answer(r, "201")
    /\ UNCHANGED <<calm, op, key, reg, snapshot, shown>>

\* handleRemoveRoute: reg.Remove, which has removed the route also when the
\* backend's Stop fails and the answer is 500; or the embedding program removes
\* a route, of which the server does not hear.
RemoveRoute(r) ==
    /\ Begins(r) /\ op[r] \in {"remove", "libremove"}
    /\ \/ /\ Visible(key[r]) = None
          /\ Answer(r, "404") /\ UNCHANGED reg
       \/ /\ Visible(key[r]) # None
          /\ reg' = [reg EXCEPT ![key[r]] = None]
          /\ \/ op[r] = "remove" /\ Goto(r, "forget") /\ UNCHANGED status
             \/ op[r] = "remove" /\ ~calm /\ Answer(r, "500")
             \/ op[r] = "libremove" /\ Answer(r, "removed")
    /\ UNCHANGED <<calm, op, key, specs, snapshot, shown>>

\* Mutant: the spec of a removed route is kept.
ForgetSpecKeeps(r) ==
    /\ pc[r] = "forget"
    /\ Answer(r, "204")
    /\ UNCHANGED <<calm, op, key, reg, specs, snapshot, shown>>

\* ... and then forget the spec.
ForgetSpec(r) ==
    /\ pc[r] = "forget"
    /\ specs' = [specs EXCEPT ![key[r]] = None]
    /\ Answer(r, "204")
    /\ UNCHANGED <<calm, op, key, reg, snapshot, shown>>

\* handleListRoutes: reg.Routes, then the specs under the server's lock.
ListRoutes(r) ==
    /\ Begins(r) /\ op[r] = "list"
    /\ snapshot' = [snapshot EXCEPT ![r] = [k \in Keys |-> Visible(k)]]
    /\ Goto(r, "show")
    /\ UNCHANGED <<calm, op, key, status, reg, specs, shown>>

ShowRoutes(r) ==
    /\ pc[r] = "show"
    /\ shown' = [shown EXCEPT ![r] =
                   [k \in Keys |-> IF snapshot[r][k] = None THEN None
                                                            ELSE specs[k]]]
    /\ Answer(r, "200")
    /\ UNCHANGED <<calm, op, key, reg, specs, snapshot>>

Terminated == (\A r \in Requests : pc[r] = "ret") /\ UNCHANGED vars

Next ==
    \/ \E r \in Requests :
          \/ AddRoute(r) \/ AddReturns(r) \/ RecordSpec(r)
          \/ RemoveRoute(r) \/ ForgetSpec(r)
          \/ ListRoutes(r) \/ ShowRoutes(r)
    \/ Terminated

Spec == Init /\ [][Next]_vars

-----------------------------------------------------------------------------
(* Properties                                                              *)

\* The answers account for the table: of the requests for a name, those that
\* were told a route was added are one more than those that took it away when
\* the name is bound, and as many when it is free.  A 500 of a DELETE counts
\* as a removal: only Stop failed, the route is gone.  (The invariant includes
\* TypeOK.)
AnswersAccountForRoutes ==
    /\ TypeOK
    /\ Quiescent =>
        \A k \in Keys :
            LET told(codes, ops) ==
                    Cardinality({r \in Requests : /\ key[r] = k /\ op[r] \in ops
                                                  /\ status[r] \in codes})
            IN told({"201", "added"}, {"add", "libadd"})
               - told({"204", "500", "removed"}, {"remove", "libremove"})
               = IF reg[k] = None THEN 0 ELSE 1

\* Server.specs holds "routes added via the API, for listing" (server.go:37).
\* In calm times, when no request is in progress, it has the spec of every
\* route that was added through the API, and no other; and a listing, which
\* reads the routes first and the specs later, shows each route with its own.
\* Overlapping requests, a Stop that fails and a removal by the embedding
\* program each break this: the handlers change the registry and the specs in
\* two steps, and the second is left out on an error.
SpecsMatchRoutes ==
    LET spec(x) == IF x # None /\ op[x] = "add" THEN x ELSE None
    IN calm => /\ Quiescent => \A k \in Keys : specs[k] = spec(reg[k])
               /\ \A r \in Requests, k \in Keys :
                     pc[r] = "ret" => shown[r][k] = spec(snapshot[r][k])

=============================================================================
