------------------------------ MODULE Forward ------------------------------
(***************************************************************************)
(* HTTP requests through a registry: the lookup of the Host rewrite        *)
(* (http.go), the round trip over a pooled or a new connection to the      *)
(* route, and the copy of the response (proxy/forward.go), while the name  *)
(* is removed and added again.  The pool is net/http's Transport, by what  *)
(* the code relies on.  The module Proxy composes it with the server.      *)
(*                                                                         *)
(* A route's identity is a generation number: every re-Add of the name is  *)
(* a new one.  A connection is known by the route it leads to; how many    *)
(* the pool has to one route does not matter here.                         *)
(***************************************************************************)
EXTENDS Naturals

CONSTANTS
    Reqs,           \* clients, each with one request after the other
    MaxGen,         \* bound: how many routes the name has in turn
    Rewritten       \* the routes that declare a Host rewrite

ASSUME ForwardAssumption == MaxGen \in Nat \ {0} /\ Rewritten \subseteq 1..MaxGen

VARIABLES
    gen, live,      \* the last route of the name, and whether it is in the map
    adding,         \* an Add is between hasRewrites and publishing its route
    hasRewrites,    \* Registry.hasRewrites
    fwd,            \* where each request is
    first,          \* the route that was there when it began, or 0
    host,           \* the route whose rewrite is its Host header, or 0
    via,            \* the route its connection leads to, or 0
    idle,           \* the routes the pool has idle connections to
    closeIdle       \* Transport.closeIdle: what is returned to the pool is closed

routeVars == <<gen, live, adding, hasRewrites>>
poolVars == <<idle, closeIdle>>
forwardVars == <<routeVars, fwd, first, host, via, poolVars>>

Routes == 1..MaxGen

ForwardTypeOK ==
    /\ gen \in Routes /\ live \in BOOLEAN
    /\ adding \in BOOLEAN /\ hasRewrites \in BOOLEAN
    /\ fwd \in [Reqs -> {"none", "flag", "lookup", "pool", "dial", "sent", "body",
                         "over"}]
    /\ first \in [Reqs -> Routes \cup {0}] /\ host \in [Reqs -> Routes \cup {0}]
    /\ via \in [Reqs -> Routes \cup {0}]
    /\ idle \subseteq Routes /\ closeIdle \in BOOLEAN

ForwardInit ==
    /\ gen = 1 /\ live = TRUE /\ adding = FALSE
    /\ hasRewrites = (1 \in Rewritten)
    /\ fwd = [q \in Reqs |-> "none"]
    /\ first = [q \in Reqs |-> 0] /\ host = [q \in Reqs |-> 0]
    /\ via = [q \in Reqs |-> 0]
    /\ idle = {} /\ closeIdle = FALSE

\* Lookup of the name.
Live == IF live THEN gen ELSE 0

At(q, l) == fwd' = [fwd EXCEPT ![q] = l]

-----------------------------------------------------------------------------
(* forward                                                                 *)

\* A request is read from the client's connection.
Begin(q) ==
    /\ fwd[q] \in {"none", "over"}
    /\ At(q, "flag")
    /\ first' = [first EXCEPT ![q] = Live]
    /\ host' = [host EXCEPT ![q] = 0]
    /\ UNCHANGED <<routeVars, via, poolVars>>

\* HostRewrite: the flag is read without the lock...
CheckFlag(q) ==
    /\ fwd[q] = "flag"
    /\ At(q, IF hasRewrites THEN "lookup" ELSE "pool")
    /\ UNCHANGED <<routeVars, first, host, via, poolVars>>

\* ... then the route is looked up.
LookupRewrite(q) ==
    /\ fwd[q] = "lookup"
    /\ host' = [host EXCEPT ![q] = IF Live \in Rewritten THEN Live ELSE 0]
    /\ At(q, "pool")
    /\ UNCHANGED <<routeVars, first, via, poolVars>>

\* RoundTrip: the transport takes an idle connection or dials.  Either way it
\* keeps idle connections again from now on.
GetConn(q) ==
    /\ fwd[q] = "pool"
    /\ \/ \E g \in idle : /\ via' = [via EXCEPT ![q] = g]
                          /\ idle' \in {idle, idle \ {g}}
                          /\ At(q, "sent")
       \/ idle = {} /\ At(q, "dial") /\ UNCHANGED <<via, idle>>
    /\ closeIdle' = FALSE
    /\ UNCHANGED <<routeVars, first, host>>

\* The dial looks the name up again; it may fail, which is answered with 502.
DialConn(q) ==
    /\ fwd[q] = "dial"
    /\ \/ live /\ via' = [via EXCEPT ![q] = gen] /\ At(q, "sent")
       \/ At(q, "over") /\ UNCHANGED via
    /\ UNCHANGED <<routeVars, first, host, poolVars>>

\* The response begins, or there will be none: 502.
Respond(q) ==
    /\ fwd[q] = "sent"
    /\ \/ At(q, "body") /\ UNCHANGED via
       \/ At(q, "over") /\ via' = [via EXCEPT ![q] = 0]
    /\ UNCHANGED <<routeVars, first, host, poolVars>>

\* The body has been copied: its connection is free.
BodyEnds(q) ==
    /\ fwd[q] = "body"
    /\ At(q, "over")
    /\ via' = [via EXCEPT ![q] = 0]
    /\ idle' = IF closeIdle THEN idle ELSE idle \cup {via[q]}
    /\ UNCHANGED <<routeVars, first, host, closeIdle>>

\* The client's connection is gone, and with it the request's context: the
\* round trip fails or the copy does, and the body is closed before its end.
Abandon(q) ==
    /\ fwd[q] \in {"dial", "sent", "body"}
    /\ At(q, "over")
    /\ via' = [via EXCEPT ![q] = 0]
    /\ UNCHANGED <<routeVars, first, host, poolVars>>

ForwardStep(q) ==
    \/ CheckFlag(q) \/ LookupRewrite(q) \/ GetConn(q) \/ DialConn(q)
    \/ Respond(q) \/ BodyEnds(q)

-----------------------------------------------------------------------------
(* The registry, and the servers behind the routes                         *)

\* Remove
RemoveRoute ==
    /\ live
    /\ live' = FALSE
    /\ UNCHANGED <<gen, adding, hasRewrites, fwd, first, host, via, poolVars>>

\* Mutant: hasRewrites is stored after the route is published.
AddFlagLate ==
    \/ /\ ~live /\ ~adding /\ gen < MaxGen
       /\ gen' = gen + 1 /\ live' = TRUE /\ adding' = TRUE
       /\ UNCHANGED <<hasRewrites, fwd, first, host, via, poolVars>>
    \/ /\ live /\ adding
       /\ hasRewrites' = (hasRewrites \/ gen \in Rewritten) /\ adding' = FALSE
       /\ UNCHANGED <<gen, live, fwd, first, host, via, poolVars>>

\* Add of the next route of the name: first the flag, then the map.
AddRoute ==
    \/ /\ ~live /\ ~adding /\ gen < MaxGen
       /\ hasRewrites' = (hasRewrites \/ gen + 1 \in Rewritten)
       /\ adding' = TRUE
       /\ UNCHANGED <<gen, live, fwd, first, host, via, poolVars>>
    \/ /\ adding
       /\ gen' = gen + 1 /\ live' = TRUE /\ adding' = FALSE
       /\ UNCHANGED <<hasRewrites, fwd, first, host, via, poolVars>>

\* A server closes its idle connections; that of a removed route may never.
IdleDies ==
    /\ \E g \in idle : idle' = idle \ {g}
    /\ UNCHANGED <<routeVars, fwd, first, host, via, closeIdle>>

ForwardEnv == RemoveRoute \/ AddRoute \/ IdleDies

-----------------------------------------------------------------------------
(* Properties of forwarding                                                *)

\* A request over a connection to the route that was there when it began, and
\* is still, carries the Host of that route ("HTTP requests to this route carry"
\* it, options.go:172), however short before it was added: hasRewrites is not
\* seen too late.  When the route is replaced in between, or the connection comes
\* from the pool of a route that is gone, the two may differ.
RewriteIsApplied ==
    \A q \in Reqs :
       fwd[q] \in {"sent", "body"} /\ via[q] = first[q] /\ first[q] = Live =>
          host[q] = (IF via[q] \in Rewritten THEN via[q] ELSE 0)

=============================================================================
