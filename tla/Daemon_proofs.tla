---------------------------- MODULE Daemon_proofs ----------------------------
(***************************************************************************)
(* Proofs, for any number of clients and daemons, that clients share one   *)
(* daemon as long as they do not overlap with its start or end, that `run` *)
(* deregisters its name, and that nobody takes it away from a running      *)
(* child.                                                                  *)
(***************************************************************************)
EXTENDS Daemon, TLAPS

-----------------------------------------------------------------------------
(* The inductive invariant                                                 *)

\* The daemon d is starting or ending.
Busy(d) == daemon[d] \notin {"none", "serve", "dead"}

\* A daemon belongs to a client that has begun, holds nothing before it serves,
\* and what goes wrong has its name in world.
DaemonsBegin ==
    /\ \A c \in Clients : pc[c] = "idle" => daemon[c] = "none"
    /\ \A d \in Clients :
          holder[d] # None => daemon[d] \in {"serve", "closed", "dead"}
    /\ \A c \in Clients : canceled[c] => "interrupt" \in world

\* Without overlap one daemon at most is not yet or no longer at rest, nobody
\* serves meanwhile, and it finds at the socket path what it left there.
OneAtATime ==
    "overlap" \notin world =>
        /\ \A d, e \in Clients :
              Busy(d) /\ (Busy(e) \/ daemon[e] = "serve") => d = e
        /\ \A d \in Clients :
              /\ daemon[d] = "serve" => path = d
              /\ daemon[d] = "unlink" => path # None
              /\ daemon[d] = "listen" => path = None
              /\ daemon[d] = "chmod" => path = d
              /\ exit[d] # "1"

\* Without an interrupt, a name that is registered for a `run` is that of one
\* whose child runs or which is about to deregister, over the connection it
\* has, unless the daemon is gone.
NamesAreKnown ==
    "interrupt" \notin world =>
        \A c, d \in Clients :
            kind[c] = "run" /\ holder[d] = c =>
                \/ pc[c] \in {"child", "cleanup"} /\ conn[c] = d
                \/ daemon[d] \in {"closed", "dead"}

\* As long as no daemon fails and nobody removes routes by hand, a `run` with a
\* child, or about to deregister, has its name at the daemon it is connected
\* to.
NamesAreKept ==
    "failure" \notin world /\ (\A c \in Clients : kind[c] # "rm") =>
        \A c \in Clients : pc[c] \in {"child", "cleanup"} =>
            /\ conn[c] \in Clients
            /\ daemon[conn[c]] = "serve" /\ holder[conn[c]] = c

IInv == TypeOK /\ DaemonsBegin /\ OneAtATime /\ NamesAreKnown /\ NamesAreKept

\* What a client sees of its daemons.
LEMMA TargetFacts ==
    ASSUME IInv, NEW c \in Clients
    PROVE  /\ Target(c) # None =>
                 Target(c) \in Clients /\ daemon[Target(c)] = "serve"
           /\ Serving(path) => path \in Clients /\ daemon[path] = "serve"
           /\ conn[c] \in Clients /\ daemon[conn[c]] = "serve" =>
                 Target(c) = conn[c]
  BY DaemonAssumption DEF IInv, TypeOK, Target, Serving

\* A client that finds a daemon connects to it; one that finds none starts its
\* own, when nobody else is starting one unless commands overlap.
LEMMA StatusStep ==
    ASSUME IInv, NEW c \in Clients, Status(c)
    PROVE  IInv'
<1> USE DaemonAssumption, TargetFacts
    DEF IInv, TypeOK, Status, clientVars, Goto, Return, DaemonGoto,
        DaemonExit
<1>1. TypeOK'
  OBVIOUS
<1>2. DaemonsBegin'
  BY DEF DaemonsBegin
<1>3. OneAtATime'
  BY DEF OneAtATime, Busy, Settled, Serving, DaemonsBegin
<1>4. NamesAreKnown'
  BY DEF NamesAreKnown, DaemonsBegin
<1>5. NamesAreKept'
  BY DEF NamesAreKept, DaemonsBegin
<1> QED
  BY <1>1, <1>2, <1>3, <1>4, <1>5

\* `serve` starts a daemon.
LEMMA RunServeStep ==
    ASSUME IInv, NEW c \in Clients, RunServe(c)
    PROVE  IInv'
<1> USE DaemonAssumption, TargetFacts
    DEF IInv, TypeOK, RunServe, clientVars, Goto, Return, DaemonGoto,
        DaemonExit
<1>1. TypeOK'
  OBVIOUS
<1>2. DaemonsBegin'
  BY DEF DaemonsBegin
<1>3. OneAtATime'
  BY DEF OneAtATime, Busy, Settled, Serving, DaemonsBegin
<1>4. NamesAreKnown'
  BY DEF NamesAreKnown, DaemonsBegin
<1>5. NamesAreKept'
  BY DEF NamesAreKept, DaemonsBegin
<1> QED
  BY <1>1, <1>2, <1>3, <1>4, <1>5

\* Whoever answers the poll becomes the daemon of the client.
LEMMA PollStep ==
    ASSUME IInv, NEW c \in Clients, Poll(c)
    PROVE  IInv'
<1> USE DaemonAssumption, TargetFacts
    DEF IInv, TypeOK, Poll, clientVars, Goto, Return, DaemonGoto,
        DaemonExit
<1>1. TypeOK'
  OBVIOUS
<1>2. DaemonsBegin'
  BY DEF DaemonsBegin
<1>3. OneAtATime'
  BY DEF OneAtATime, Busy, Settled, Serving, DaemonsBegin
<1>4. NamesAreKnown'
  BY DEF NamesAreKnown, DaemonsBegin
<1>5. NamesAreKept'
  BY DEF NamesAreKept, DaemonsBegin
<1> QED
  BY <1>1, <1>2, <1>3, <1>4, <1>5

\* A name is given only when nobody holds it.
LEMMA AddRouteStep ==
    ASSUME IInv, NEW c \in Clients, AddRoute(c)
    PROVE  IInv'
<1> USE DaemonAssumption, TargetFacts
    DEF IInv, TypeOK, AddRoute, AddRefused, AddAccepted, AddFails,
        clientVars, Goto, Return, DaemonGoto, DaemonExit
<1>1. TypeOK'
  OBVIOUS
<1>2. DaemonsBegin'
  BY DEF DaemonsBegin
<1>3. OneAtATime'
  BY DEF OneAtATime, Busy, Settled, Serving, DaemonsBegin
<1>4. NamesAreKnown'
  BY DEF NamesAreKnown, DaemonsBegin
<1>5. NamesAreKept'
  BY DEF NamesAreKept, DaemonsBegin
<1> QED
  BY <1>1, <1>2, <1>3, <1>4, <1>5

\* A child that has ended leaves its name to the cleanup.
LEMMA ChildEndsStep ==
    ASSUME IInv, NEW c \in Clients, ChildEnds(c)
    PROVE  IInv'
<1> USE DaemonAssumption, TargetFacts
    DEF IInv, TypeOK, ChildEnds, clientVars, Goto, Return, DaemonGoto,
        DaemonExit
<1>1. TypeOK'
  OBVIOUS
<1>2. DaemonsBegin'
  BY DEF DaemonsBegin
<1>3. OneAtATime'
  BY DEF OneAtATime, Busy, Settled, Serving, DaemonsBegin
<1>4. NamesAreKnown'
  BY DEF NamesAreKnown, DaemonsBegin
<1>5. NamesAreKept'
  BY DEF NamesAreKept, DaemonsBegin
<1> QED
  BY <1>1, <1>2, <1>3, <1>4, <1>5

\* The cleanup reaches the daemon that has the name, if it still serves.
LEMMA RemoveRouteStep ==
    ASSUME IInv, NEW c \in Clients, RemoveRoute(c)
    PROVE  IInv'
<1> USE DaemonAssumption, TargetFacts
    DEF IInv, TypeOK, RemoveRoute, clientVars, Goto, Return, DaemonGoto,
        DaemonExit
<1>1. TypeOK'
  OBVIOUS
<1>2. DaemonsBegin'
  BY DEF DaemonsBegin
<1>3. OneAtATime'
  BY DEF OneAtATime, Busy, Settled, Serving, DaemonsBegin
<1>4. NamesAreKnown'
  BY DEF NamesAreKnown, DaemonsBegin
<1>5. NamesAreKept'
  BY DEF NamesAreKept, DaemonsBegin
<1> QED
  BY <1>1, <1>2, <1>3, <1>4, <1>5

\* An interrupt only cancels.
LEMMA InterruptStep ==
    ASSUME IInv, NEW c \in Clients, Interrupt(c)
    PROVE  IInv'
<1> USE DaemonAssumption, TargetFacts
    DEF IInv, TypeOK, Interrupt, clientVars, Goto, Return, DaemonGoto,
        DaemonExit
<1>1. TypeOK'
  OBVIOUS
<1>2. DaemonsBegin'
  BY DEF DaemonsBegin
<1>3. OneAtATime'
  BY DEF OneAtATime, Busy, Settled, Serving, DaemonsBegin
<1>4. NamesAreKnown'
  BY DEF NamesAreKnown, DaemonsBegin
<1>5. NamesAreKept'
  BY DEF NamesAreKept, DaemonsBegin
<1> QED
  BY <1>1, <1>2, <1>3, <1>4, <1>5

\* A daemon that starts changes neither the path nor a registry.
LEMMA StartProxyStep ==
    ASSUME IInv, NEW c \in Clients, StartProxy(c)
    PROVE  IInv'
<1> USE DaemonAssumption, TargetFacts
    DEF IInv, TypeOK, StartProxy, clientVars, Goto, Return, DaemonGoto,
        DaemonExit
<1>1. TypeOK'
  OBVIOUS
<1>2. DaemonsBegin'
  BY DEF DaemonsBegin
<1>3. OneAtATime'
  BY DEF OneAtATime, Busy, Settled, Serving, DaemonsBegin
<1>4. NamesAreKnown'
  BY DEF NamesAreKnown, DaemonsBegin
<1>5. NamesAreKept'
  BY DEF NamesAreKept, DaemonsBegin
<1> QED
  BY <1>1, <1>2, <1>3, <1>4, <1>5

\* What a daemon finds at the path decides what it does next.
LEMMA LstatStep ==
    ASSUME IInv, NEW c \in Clients, Lstat(c)
    PROVE  IInv'
<1> USE DaemonAssumption, TargetFacts
    DEF IInv, TypeOK, Lstat, clientVars, Goto, Return, DaemonGoto,
        DaemonExit
<1>1. TypeOK'
  OBVIOUS
<1>2. DaemonsBegin'
  BY DEF DaemonsBegin
<1>3. OneAtATime'
  BY DEF OneAtATime, Busy, Settled, Serving, DaemonsBegin
<1>4. NamesAreKnown'
  BY DEF NamesAreKnown, DaemonsBegin
<1>5. NamesAreKept'
  BY DEF NamesAreKept, DaemonsBegin
<1> QED
  BY <1>1, <1>2, <1>3, <1>4, <1>5

\* A stale socket file is removed; nobody serves it unless commands overlap.
LEMMA UnlinkStep ==
    ASSUME IInv, NEW c \in Clients, Unlink(c)
    PROVE  IInv'
<1> USE DaemonAssumption, TargetFacts
    DEF IInv, TypeOK, Unlink, clientVars, Goto, Return, DaemonGoto,
        DaemonExit
<1>1. TypeOK'
  OBVIOUS
<1>2. DaemonsBegin'
  BY DEF DaemonsBegin
<1>3. OneAtATime'
  BY DEF OneAtATime, Busy, Settled, Serving, DaemonsBegin
<1>4. NamesAreKnown'
  BY DEF NamesAreKnown, DaemonsBegin
<1>5. NamesAreKept'
  BY DEF NamesAreKept, DaemonsBegin
<1> QED
  BY <1>1, <1>2, <1>3, <1>4, <1>5

\* The path is bound by the only daemon that starts.
LEMMA ListenStep ==
    ASSUME IInv, NEW c \in Clients, Listen(c)
    PROVE  IInv'
<1> USE DaemonAssumption, TargetFacts
    DEF IInv, TypeOK, Listen, clientVars, Goto, Return, DaemonGoto,
        DaemonExit
<1>1. TypeOK'
  OBVIOUS
<1>2. DaemonsBegin'
  BY DEF DaemonsBegin
<1>3. OneAtATime'
  BY DEF OneAtATime, Busy, Settled, Serving, DaemonsBegin
<1>4. NamesAreKnown'
  BY DEF NamesAreKnown, DaemonsBegin
<1>5. NamesAreKept'
  BY DEF NamesAreKept, DaemonsBegin
<1> QED
  BY <1>1, <1>2, <1>3, <1>4, <1>5

\* A daemon serves when it has bound the path.
LEMMA ChmodStep ==
    ASSUME IInv, NEW c \in Clients, Chmod(c)
    PROVE  IInv'
<1> USE DaemonAssumption, TargetFacts
    DEF IInv, TypeOK, Chmod, clientVars, Goto, Return, DaemonGoto,
        DaemonExit
<1>1. TypeOK'
  OBVIOUS
<1>2. DaemonsBegin'
  BY DEF DaemonsBegin
<1>3. OneAtATime'
  BY DEF OneAtATime, Busy, Settled, Serving, DaemonsBegin
<1>4. NamesAreKnown'
  BY DEF NamesAreKnown, DaemonsBegin
<1>5. NamesAreKept'
  BY DEF NamesAreKept, DaemonsBegin
<1> QED
  BY <1>1, <1>2, <1>3, <1>4, <1>5

\* A daemon that is told to end unlinks the path.
LEMMA SignalStep ==
    ASSUME IInv, NEW c \in Clients, Signal(c)
    PROVE  IInv'
<1> USE DaemonAssumption, TargetFacts
    DEF IInv, TypeOK, Signal, clientVars, Goto, Return, DaemonGoto,
        DaemonExit
<1>1. TypeOK'
  OBVIOUS
<1>2. DaemonsBegin'
  BY DEF DaemonsBegin
<1>3. OneAtATime'
  BY DEF OneAtATime, Busy, Settled, Serving, DaemonsBegin
<1>4. NamesAreKnown'
  BY DEF NamesAreKnown, DaemonsBegin
<1>5. NamesAreKept'
  BY DEF NamesAreKept, DaemonsBegin
<1> QED
  BY <1>1, <1>2, <1>3, <1>4, <1>5

\* A daemon that has ended never serves again.
LEMMA RemoveStep ==
    ASSUME IInv, NEW c \in Clients, Remove(c)
    PROVE  IInv'
<1> USE DaemonAssumption, TargetFacts
    DEF IInv, TypeOK, Remove, clientVars, Goto, Return, DaemonGoto,
        DaemonExit
<1>1. TypeOK'
  OBVIOUS
<1>2. DaemonsBegin'
  BY DEF DaemonsBegin
<1>3. OneAtATime'
  BY DEF OneAtATime, Busy, Settled, Serving, DaemonsBegin
<1>4. NamesAreKnown'
  BY DEF NamesAreKnown, DaemonsBegin
<1>5. NamesAreKept'
  BY DEF NamesAreKept, DaemonsBegin
<1> QED
  BY <1>1, <1>2, <1>3, <1>4, <1>5

\* A killed daemon leaves the path as it is and never serves again.
LEMMA KillStep ==
    ASSUME IInv, NEW c \in Clients, Kill(c)
    PROVE  IInv'
<1> USE DaemonAssumption, TargetFacts
    DEF IInv, TypeOK, Kill, clientVars, Goto, Return, DaemonGoto,
        DaemonExit
<1>1. TypeOK'
  OBVIOUS
<1>2. DaemonsBegin'
  BY DEF DaemonsBegin
<1>3. OneAtATime'
  BY DEF OneAtATime, Busy, Settled, Serving, DaemonsBegin
<1>4. NamesAreKnown'
  BY DEF NamesAreKnown, DaemonsBegin
<1>5. NamesAreKept'
  BY DEF NamesAreKept, DaemonsBegin
<1> QED
  BY <1>1, <1>2, <1>3, <1>4, <1>5

-----------------------------------------------------------------------------
(* The theorems                                                            *)

\* At first there are no daemons and nobody has a name.
LEMMA InitIInv == Init => IInv
  BY DaemonAssumption
     DEF Init, IInv, TypeOK, DaemonsBegin, OneAtATime, Busy, NamesAreKnown,
         NamesAreKept

\* No step breaks the invariant.
LEMMA NextIInv == IInv /\ [Next]_vars => IInv'
<1> SUFFICES ASSUME IInv, [Next]_vars PROVE IInv'
  OBVIOUS
<1>1. ASSUME NEW c \in Clients,
             Status(c) \/ RunServe(c) \/ Client(c) \/ Interrupt(c)
      PROVE  IInv'
  BY <1>1, StatusStep, RunServeStep, PollStep, AddRouteStep, ChildEndsStep,
     RemoveRouteStep, InterruptStep DEF Client
<1>2. ASSUME NEW c \in Clients, Serve(c) \/ Signal(c) \/ Kill(c)
      PROVE  IInv'
  BY <1>2, StartProxyStep, LstatStep, UnlinkStep, ListenStep, ChmodStep,
     SignalStep, RemoveStep, KillStep DEF Serve
<1>3. CASE UNCHANGED vars
  BY <1>3 DEF vars, IInv, TypeOK, DaemonsBegin, OneAtATime, Busy,
     NamesAreKnown, NamesAreKept
<1> QED
  BY <1>1, <1>2, <1>3 DEF Next, Terminated

\* The invariant holds in every state of every execution.
THEOREM Invariance == Spec => []IInv
  BY InitIInv, NextIInv, PTL DEF Spec

\* Clients that do not overlap with the start or the end of a daemon share one,
\* and no daemon fails because of a socket file it finds.
THEOREM OneDaemonTheorem == Spec => []OneDaemonServes
<1>1. IInv => OneDaemonServes
  BY DEF IInv, OneAtATime, Serving, OneDaemonServes
<1> QED
  BY <1>1, Invariance, PTL

\* `run` deregisters, whatever other commands and failing daemons do, unless it
\* was interrupted.
THEOREM DeregisterTheorem == Spec => []RunsDeregister
<1>1. IInv => RunsDeregister
  BY DEF IInv, NamesAreKnown, Serving, RunsDeregister
<1> QED
  BY <1>1, Invariance, PTL

\* No cleanup takes the name of a child that runs, although cleanups go by
\* name.
THEOREM KeepTheorem == Spec => []ChildrenKeepTheirNames
<1>1. IInv => ChildrenKeepTheirNames
  BY DEF IInv, NamesAreKept, ChildrenKeepTheirNames
<1> QED
  BY <1>1, Invariance, PTL
=============================================================================
