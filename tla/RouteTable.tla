----------------------------- MODULE RouteTable -----------------------------
(***************************************************************************)
(* What a Registry promises about its names, without locks, goroutines or  *)
(* backends: a name is free, held by the one registration in progress, or  *)
(* bound to a live route.  A route is live at most once in its life, under *)
(* the name it was registered with; a live route leaves only by being      *)
(* retired, never by being replaced; shutting the table retires all of it. *)
(***************************************************************************)
CONSTANTS
    Routes,         \* route objects
    Keys,           \* names, normalised
    Free,           \* the name is available
    Held            \* a registration of the name is in progress

VARIABLES
    table,          \* what each name is bound to
    phase,          \* "new", "held", "live" or "gone" for each route
    at,             \* the name a route was given, Free before that
    open            \* the table accepts registrations

vars == <<table, phase, at, open>>

Init ==
    /\ table = [k \in Keys |-> Free]
    /\ phase = [r \in Routes |-> "new"]
    /\ at = [r \in Routes |-> Free]
    /\ open = TRUE

\* A registration takes a free name.
Hold(r, k) ==
    /\ open /\ phase[r] = "new" /\ table[k] = Free
    /\ table' = [table EXCEPT ![k] = Held]
    /\ phase' = [phase EXCEPT ![r] = "held"]
    /\ at' = [at EXCEPT ![r] = k]
    /\ UNCHANGED open

\* The registration succeeds: the name now resolves to the route.
Bind(r) ==
    /\ phase[r] = "held" /\ table[at[r]] = Held
    /\ table' = [table EXCEPT ![at[r]] = r]
    /\ phase' = [phase EXCEPT ![r] = "live"]
    /\ UNCHANGED <<at, open>>

\* The registration fails and gives its name back.
Drop(r) ==
    /\ phase[r] = "held" /\ table[at[r]] = Held
    /\ table' = [table EXCEPT ![at[r]] = Free]
    /\ phase' = [phase EXCEPT ![r] = "gone"]
    /\ UNCHANGED <<at, open>>

\* A live route is removed.
Retire(r) ==
    /\ phase[r] = "live" /\ table[at[r]] = r
    /\ table' = [table EXCEPT ![at[r]] = Free]
    /\ phase' = [phase EXCEPT ![r] = "gone"]
    /\ UNCHANGED <<at, open>>

\* All names are freed at once and no name can be taken again.
Shut ==
    /\ open
    /\ open' = FALSE
    /\ table' = [k \in Keys |-> Free]
    /\ phase' = [r \in Routes |-> IF phase[r] = "new" THEN "new" ELSE "gone"]
    /\ UNCHANGED at

Next ==
    \/ \E r \in Routes : Bind(r) \/ Drop(r) \/ Retire(r)
    \/ \E r \in Routes, k \in Keys : Hold(r, k)
    \/ Shut

Spec == Init /\ [][Next]_vars
=============================================================================
