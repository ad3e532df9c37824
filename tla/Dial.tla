-------------------------------- MODULE Dial --------------------------------
(***************************************************************************)
(* The readiness loop of a dial (Registry.dialRoute, registry.go) and its  *)
(* callers DialContext, Route.Ready, Registry.Ready and the ready handler  *)
(* of the control API, while the caller's context ends, the route's ready  *)
(* timeout elapses, the backoff timer fires and Close shuts the registry.  *)
(* Time is abstracted to the order in which these things happen.           *)
(*                                                                         *)
(* A Go select is modelled as the runtime does it: a select that finds     *)
(* cases ready takes any of them; one that finds none parks, and the first *)
(* event wakes it with that event's case.                                  *)
(***************************************************************************)
EXTENDS Naturals

CONSTANTS
    Dials,          \* dials made by callers of DialContext
    Probes,         \* dials made by one Registry.Ready, one per route
    Handlers,       \* dials made by the ready handler of the control API
    HasHealth,      \* the routes have a health check
    BackendErrors   \* the errors a backend may have of its own

All == Dials \cup Probes \cup Handlers

\* Contexts a caller may pass: one that never ends, one it may cancel, one
\* with a deadline (which may be canceled before).
CtxKinds == {"background", "cancel", "deadline"}

\* An error is the set of things errors.Is and errors.As find in its chain:
\* the Retryable wrapper, ECONNREFUSED or ECONNRESET, context.Canceled,
\* context.DeadlineExceeded, a net.Error that is a timeout.  The code cannot
\* tell whose a context error is; here "own" marks that of the dial's context.
Tags == {"retryable", "refused", "canceled", "deadline", "timeout", "own"}
Errors == SUBSET Tags

\* errors.go
IsRetryable(e) ==
    \/ "retryable" \in e
    \/ "refused" \in e
    \/ e \cap {"canceled", "deadline"} = {} /\ "timeout" \in e

ASSUME DialAssumption ==
    /\ Dials # {} /\ Probes # {} /\ Handlers # {}
    /\ Dials \cap Probes = {} /\ Handlers \cap (Dials \cup Probes) = {}
    /\ HasHealth \in BOOLEAN
    /\ BackendErrors \subseteq SUBSET (Tags \ {"own"})

VARIABLES
    calls,          \* the calls that are made: Dials, Probes or Handlers
    kind,           \* the kind of context the caller passed
    mapped,         \* the requested port is in the route's port map, if any
    ctx,            \* "live", or why the dial's context has ended
    pc,             \* where the dial is
    wake,           \* the event that woke a parked select
    timer,          \* the backoff timer has fired
    err,            \* the error of the last attempt
    open,           \* connections the dial has opened and not closed
    result,         \* what the dial returned
    late,           \* attempts begun after the dial's context had ended
    reg,            \* how far Registry.Close is
    ready,          \* what Registry.Ready returned
    answer          \* the status each handler answered with

vars == <<calls, kind, mapped, ctx, pc, wake, timer, err, open, result,
          late, reg, ready, answer>>

\* The counter of attempts saturates here: the properties tell 1 from 2.
LateBound == 2

TypeOK ==
    /\ calls \in {Dials, Probes, Handlers}
    /\ kind \in [All -> CtxKinds] /\ mapped \in [All -> BOOLEAN]
    /\ ctx \in [All -> {"live", "canceled", "deadline", "readyTimeout"}]
    /\ pc \in [All -> {"idle", "dial", "health", "probe", "check", "select", "parked",
                       "close", "ret"}]
    /\ wake \in [All -> {"none", "ctx", "done", "timer"}]
    /\ timer \in [All -> BOOLEAN]
    /\ err \in [All -> Errors]
    /\ open \in [All -> 0..2]
    /\ result \in [All -> {"none", "conn", "ErrClosed", "ErrWait",
                           "ErrBackend", "ErrRouteNotFound",
                           "ErrBadTimeout", "ErrDiscard"}]
    /\ late \in [All -> 0..LateBound]
    /\ reg \in {"open", "closed", "done"}
    /\ ready \in {"none", "ok", "err"}
    /\ answer \in [Handlers -> {"none", "200", "400", "404", "502",
                                   "504"}]

Init ==
    /\ calls \in {Dials, Probes, Handlers}
    /\ kind \in [All -> CtxKinds]
    /\ \A d, e \in Probes : kind[d] = kind[e]   \* Ready has one context
    /\ mapped \in [All -> BOOLEAN]
    /\ \A d \in Handlers : kind[d] # "background" \* that of a request
    /\ \A d \in Probes \cup Handlers : mapped[d]  \* Ready picks a mapped port
    /\ \A d \in All \ calls : mapped[d] /\ kind[d] =
          IF d \in Handlers THEN "cancel" ELSE "background"
    /\ ctx = [d \in All |-> "live"]
    /\ pc = [d \in All |-> "idle"]
    /\ wake = [d \in All |-> "none"] /\ timer = [d \in All |-> FALSE]
    /\ err = [d \in All |-> {}]
    /\ open = [d \in All |-> 0]
    /\ result = [d \in All |-> "none"]
    /\ late = [d \in All |-> 0]
    /\ reg = "open" /\ ready = "none"
    /\ answer = [d \in Handlers |-> "none"]

Closing == reg # "open"             \* Registry.closed is set
Done == reg = "done"                \* Registry.done is closed
Ended(d) == ctx[d] # "live"

Goto(d, l) == pc' = [pc EXCEPT ![d] = l]

Return(d, res) ==
    /\ Goto(d, "ret")
    /\ result' = [result EXCEPT ![d] = res]

\* The dial of the loop begins another attempt.
BeginAttempt(d) ==
    /\ Goto(d, "dial")
    /\ err' = [err EXCEPT ![d] = {}]
    /\ late' = [late EXCEPT ![d] =
                   IF Ended(d) /\ @ < LateBound THEN @ + 1 ELSE @]

\* The select of d, if it is parked, wakes with the case of the event ev.
Awaken(d, ev) == IF pc[d] = "parked" /\ wake[d] = "none" THEN ev ELSE wake[d]

-----------------------------------------------------------------------------
(* The dial                                                                *)

\* DialContext and the handler look the route up, which Close has taken from
\* the map; Ready already holds its route, so its dials enter the loop even if
\* the registry has been closed since.  The handler, once it has the route,
\* refuses a timeout parameter that it cannot parse.
DialBegin(d) ==
    /\ d \in calls /\ pc[d] = "idle"
    /\ \/ /\ d \notin Probes /\ Closing
          /\ Return(d, IF d \in Dials THEN "ErrClosed" ELSE "ErrRouteNotFound")
          /\ UNCHANGED <<err, late>>
       \/ /\ d \in Handlers /\ ~Closing
          /\ Return(d, "ErrBadTimeout") /\ UNCHANGED <<err, late>>
       \/ /\ d \in Probes \/ ~Closing
          /\ BeginAttempt(d) /\ UNCHANGED result
    /\ UNCHANGED <<calls, kind, mapped, ctx, wake, timer, open, reg, ready,
                   answer>>

\* A connection that passed the health check, if there is one, is handed out.
\* Route.Ready closes it again.
Hand(d) ==
    IF d \in Dials THEN Return(d, "conn")
                   ELSE Goto(d, "close") /\ UNCHANGED result

\* The errors a call of the backend under the dial's context may return: the
\* backend's own, and once the context has ended ctx.Err(), which is
\* DeadlineExceeded for the ready timeout too.
CallErrors(d) ==
    BackendErrors \cup
        CASE ctx[d] = "live"     -> {}
          [] ctx[d] = "canceled" -> {{"own", "canceled"}}
          [] OTHER               -> {{"own", "deadline", "timeout"}}

\* rt.dial returns: a port that is not in the map fails without asking the
\* backend, which answers with a connection or any error.
Attempt(d) ==
    /\ pc[d] = "dial"
    /\ \/ /\ mapped[d]
          /\ open' = [open EXCEPT ![d] = @ + 1]
          /\ IF HasHealth THEN Goto(d, "health") /\ UNCHANGED result
                          ELSE Hand(d)
          /\ UNCHANGED err
       \/ /\ err' \in {[err EXCEPT ![d] = e] :
                          e \in IF mapped[d] THEN CallErrors(d) ELSE {{}}}
          /\ Goto(d, "check") /\ UNCHANGED <<open, result>>
    /\ UNCHANGED <<calls, kind, mapped, ctx, wake, timer, late, reg,
                   ready, answer>>

\* The health check fails: its error, which stays in the chain, is made
\* Retryable.
Unhealthy(d) ==
    /\ err' \in {[err EXCEPT ![d] = e \cup {"retryable"}] : e \in CallErrors(d)}
    /\ Goto(d, "check")
    /\ UNCHANGED result

\* The health check dials the backend once more, for a connection of its own;
\* if it cannot, the first connection is closed.
Health(d) ==
    /\ pc[d] = "health"
    /\ \/ /\ open' = [open EXCEPT ![d] = @ + 1]
          /\ Goto(d, "probe") /\ UNCHANGED <<result, err>>
       \/ /\ open' = [open EXCEPT ![d] = @ - 1]
          /\ Unhealthy(d)
    /\ UNCHANGED <<calls, kind, mapped, ctx, wake, timer, late, reg, ready,
                   answer>>

\* Mutant: a connection that fails its health check is not closed.
VerdictLeaks(d) ==
    /\ pc[d] = "probe"
    /\ open' = [open EXCEPT ![d] = @ - 1]
    /\ \/ Hand(d) /\ UNCHANGED err
       \/ Unhealthy(d)
    /\ UNCHANGED <<calls, kind, mapped, ctx, wake, timer, late, reg, ready,
                   answer>>

\* The health check closes its connection and returns; if it failed, the first
\* connection is closed too.
Verdict(d) ==
    /\ pc[d] = "probe"
    /\ \/ open' = [open EXCEPT ![d] = @ - 1] /\ Hand(d) /\ UNCHANGED err
       \/ open' = [open EXCEPT ![d] = @ - 2] /\ Unhealthy(d)
    /\ UNCHANGED <<calls, kind, mapped, ctx, wake, timer, late, reg, ready,
                   answer>>

\* Mutant: the context is left to the select.
CheckIgnoresCtx(d) ==
    /\ pc[d] = "check"
    /\ \/ /\ ~IsRetryable(err[d])
          /\ Return(d, "ErrBackend")
       \/ /\ IsRetryable(err[d])
          /\ Goto(d, "select")
          /\ UNCHANGED result
    /\ UNCHANGED <<calls, kind, mapped, ctx, wake, timer, err, open,
                   late, reg, ready, answer>>

\* Mutant: a terminal error comes first, then the context's end.
CheckTerminalFirst(d) ==
    /\ pc[d] = "check"
    /\ \/ /\ ~IsRetryable(err[d])
          /\ Return(d, "ErrBackend")
       \/ /\ IsRetryable(err[d]) /\ Ended(d)
          /\ Return(d, "ErrWait")
       \/ /\ IsRetryable(err[d]) /\ ~Ended(d)
          /\ Goto(d, "select")
          /\ UNCHANGED result
    /\ UNCHANGED <<calls, kind, mapped, ctx, wake, timer, err, open,
                   late, reg, ready, answer>>

\* A failed attempt: the context's end comes first, then a terminal error;
\* otherwise EventDialRetry is emitted and the backoff timer is started.
Check(d) ==
    /\ pc[d] = "check"
    /\ \/ /\ Ended(d)
          /\ Return(d, "ErrWait")
       \/ /\ ~Ended(d) /\ ~IsRetryable(err[d])
          /\ Return(d, "ErrBackend")
       \/ /\ ~Ended(d) /\ IsRetryable(err[d])
          /\ Goto(d, "select")
          /\ UNCHANGED result
    /\ UNCHANGED <<calls, kind, mapped, ctx, wake, timer, err, open,
                   late, reg, ready, answer>>

\* The select takes a case.
TakeCase(d, ev) ==
    \/ /\ ev = "ctx"
       /\ Return(d, "ErrWait") /\ UNCHANGED <<err, late>>
    \/ /\ ev = "done"
       /\ Return(d, "ErrClosed") /\ UNCHANGED <<err, late>>
    \/ /\ ev = "timer"
       /\ BeginAttempt(d) /\ UNCHANGED result

\* timer.Stop, or the timer has been received from: it is gone either way.
DropTimer(d) == timer' = [timer EXCEPT ![d] = FALSE]

\* Mutant: the select has no case for done.
ReadyCasesWithoutDone(d) ==
    {ev \in {"ctx", "timer"} :
        \/ ev = "ctx" /\ Ended(d)
        \/ ev = "timer" /\ timer[d]}

\* The cases a select of d finds ready.
ReadyCases(d) ==
    {ev \in {"ctx", "done", "timer"} :
        \/ ev = "ctx" /\ Ended(d)
        \/ ev = "done" /\ Done
        \/ ev = "timer" /\ timer[d]}

\* The select is entered.
Select(d) ==
    /\ pc[d] = "select"
    /\ \/ \E ev \in ReadyCases(d) : TakeCase(d, ev) /\ DropTimer(d)
       \/ /\ ReadyCases(d) = {}
          /\ Goto(d, "parked")
          /\ UNCHANGED <<result, err, late, timer>>
    /\ UNCHANGED <<calls, kind, mapped, ctx, wake, open, reg, ready, answer>>

\* A parked select has been woken.
Woken(d) ==
    /\ pc[d] = "parked" /\ wake[d] # "none"
    /\ TakeCase(d, wake[d])
    /\ wake' = [wake EXCEPT ![d] = "none"]
    /\ DropTimer(d)
    /\ UNCHANGED <<calls, kind, mapped, ctx, open, reg, ready, answer>>

\* Route.Ready discards the connection it was handed and returns the error of
\* conn.Close, if it has one (closing takes no context: it is none of Tags);
\* the connection is gone either way.
ReadyCloses(d) ==
    /\ pc[d] = "close"
    /\ open' = [open EXCEPT ![d] = @ - 1]
    /\ Return(d, "conn") \/ Return(d, "ErrDiscard")
    /\ UNCHANGED <<calls, kind, mapped, ctx, wake, timer, err, late, reg,
                   ready, answer>>

\* Registry.Ready: wg.Wait, then the errors are joined.
ReadyReturn ==
    /\ calls = Probes /\ ready = "none"
    /\ \A d \in Probes : pc[d] = "ret"
    /\ ready' = IF \A d \in Probes : result[d] = "conn" THEN "ok" ELSE "err"
    /\ UNCHANGED <<calls, kind, mapped, ctx, pc, wake, timer, err,
                   open, result, late, reg, answer>>

\* What errors.Is finds in the error of a dial: dialWaitError wraps the cause
\* of the context's end, which is an error of its own for the ready timeout,
\* and the last error of the backend.
Chain(d) ==
    CASE result[d] = "ErrWait" -> err[d] \cup ({ctx[d]} \ {"readyTimeout"})
      [] result[d] = "ErrBackend" -> err[d]
      [] OTHER -> {}

\* The status of the handler's answer.
Status(d) ==
    CASE result[d] = "conn"             -> "200"
      [] result[d] = "ErrBadTimeout"    -> "400"
      [] result[d] = "ErrRouteNotFound" -> "404"
      [] OTHER -> IF "deadline" \in Chain(d) THEN "504" ELSE "502"

HandlerAnswers(d) ==
    /\ d \in Handlers /\ pc[d] = "ret" /\ answer[d] = "none"
    /\ answer' = [answer EXCEPT ![d] = Status(d)]
    /\ UNCHANGED <<calls, kind, mapped, ctx, pc, wake, timer, err, open, result,
                   late, reg, ready>>

-----------------------------------------------------------------------------
(* The rest of the world                                                   *)

InFlight(d) == pc[d] \notin {"idle", "ret"}

\* The caller cancels its context, or its deadline passes.  The dials of one
\* Ready share theirs.
CallerCtxEnds(d) ==
    /\ InFlight(d) /\ kind[d] # "background"
    /\ LET same == IF d \in Probes THEN Probes ELSE {d}
           causes == IF kind[d] = "cancel" THEN {"canceled"}
                     ELSE {"canceled", "deadline"}
       IN /\ \E e \in same : ctx[e] = "live"
          /\ \E cause \in causes :
                ctx' = [e \in All |-> IF e \in same /\ ctx[e] = "live"
                                     THEN cause ELSE ctx[e]]
          /\ wake' = [e \in All |->
                       IF e \in same THEN Awaken(e, "ctx") ELSE wake[e]]
    /\ UNCHANGED <<calls, kind, mapped, pc, timer, err, open, result,
                   late, reg, ready, answer>>

\* Mutant: a context that never ends is taken for one with a deadline.
ReadyTimeoutCancelOnly(d) ==
    /\ InFlight(d) /\ kind[d] = "cancel" /\ ctx[d] = "live"
    /\ ctx' = [ctx EXCEPT ![d] = "readyTimeout"]
    /\ wake' = [wake EXCEPT ![d] = Awaken(d, "ctx")]
    /\ UNCHANGED <<calls, kind, mapped, pc, timer, err, open, result, late, reg,
                   ready, answer>>

\* The ready timeout passes.  The dial has one only if the caller's context
\* has no deadline.
ReadyTimeout(d) ==
    /\ InFlight(d) /\ kind[d] # "deadline" /\ ctx[d] = "live"
    /\ ctx' = [ctx EXCEPT ![d] = "readyTimeout"]
    /\ wake' = [wake EXCEPT ![d] = Awaken(d, "ctx")]
    /\ UNCHANGED <<calls, kind, mapped, pc, timer, err, open, result, late, reg,
                   ready, answer>>

TimerFires(d) ==
    /\ pc[d] \in {"select", "parked"} /\ ~timer[d]
    /\ timer' = [timer EXCEPT ![d] = TRUE]
    /\ wake' = [wake EXCEPT ![d] = Awaken(d, "timer")]
    /\ UNCHANGED <<calls, kind, mapped, ctx, pc, err, open, result,
                   late, reg, ready, answer>>

\* Close marks the registry closed, then closes done.  It stops the backends
\* after that, which answer with an error, as they may at any time.
Close ==
    /\ \/ reg = "open" /\ reg' = "closed" /\ UNCHANGED wake
       \/ /\ reg = "closed" /\ reg' = "done"
          /\ wake' = [d \in All |-> Awaken(d, "done")]
    /\ UNCHANGED <<calls, kind, mapped, ctx, pc, timer, err, open,
                   result, late, ready, answer>>

-----------------------------------------------------------------------------

Step(d) ==
    \/ Attempt(d) \/ Health(d) \/ Verdict(d) \/ Check(d) \/ Select(d) \/ Woken(d)
    \/ ReadyCloses(d) \/ HandlerAnswers(d)

Terminated ==
    /\ \A d \in calls : pc[d] = "ret"
    /\ Done /\ (calls = Probes => ready # "none")
    /\ \A d \in calls \cap Handlers : answer[d] # "none"
    /\ UNCHANGED vars

Next ==
    \/ \E d \in All : \/ DialBegin(d) \/ Step(d)
                      \/ CallerCtxEnds(d) \/ ReadyTimeout(d) \/ TimerFires(d)
    \/ ReadyReturn
    \/ Close
    \/ Terminated

Spec == Init /\ [][Next]_vars

\* Attempts return (Backend: "DialContext must respect ctx"), timers and
\* deadlines expire, and goroutines run.  Nobody need cancel or Close.
FairSpec ==
    /\ Spec
    /\ \A d \in All :
          /\ WF_vars(Step(d))
          /\ WF_vars(TimerFires(d)) /\ WF_vars(ReadyTimeout(d))
          /\ WF_vars(kind[d] = "deadline" /\ CallerCtxEnds(d))
    /\ WF_vars(ReadyReturn)
    /\ \A d \in Probes : WF_vars(DialBegin(d))

-----------------------------------------------------------------------------
(* Properties                                                              *)

\* Every connection the loop opens is handed to the caller or closed: a
\* failed dial holds none, a probe holds none, a successful dial holds one.
\* (The invariant includes TypeOK.)
ConnectionsAreAccounted ==
    /\ TypeOK
    /\ \A d \in All : pc[d] = "ret" =>
          open[d] = (IF result[d] = "conn" /\ d \in Dials THEN 1 ELSE 0)

\* A dial makes at most one attempt with a context that has ended, although
\* select may prefer the timer to ctx.Done (registry.go:344, 355-363).
OneAttemptAfterCtxEnds == \A d \in All : late[d] <= 1

\* Nobody sleeps through Close or through the end of the context: a select
\* that waits is woken by either.
NoSleepAfterWakeup ==
    \A d \in All : pc[d] = "parked" /\ wake[d] = "none" => ~Done /\ ~Ended(d)

\* A wait that fails says why it failed.  The end of the dial's own context is
\* never taken for the backend's terminal failure, although an attempt that it
\* interrupts fails with the terminal error of a context (errors.go:47-50): the
\* loop asks the context before the error (registry.go:344-349).  And the ready
\* handler answers 504 to every wait that the request's deadline ended, and
\* otherwise only to one that the ready timeout ended or to an error in which
\* the backend itself reports a deadline.  ("A deadline reached means 'still not
\* ready'; anything else (registry closed, terminal backend/config error) is
\* not a timeout", server.go:175-176.  The code goes by errors.Is, and so there
\* is no saying that the ready timeout is always 504, nor that a terminal error
\* of a backend with a deadline of its own never is.)
WaitsEndForTheirReason ==
    /\ \A d \in All :
          /\ result[d] = "ErrBackend" => ~IsRetryable(err[d]) /\ "own" \notin err[d]
          /\ result[d] = "ErrWait" => Ended(d)
          /\ result[d] = "ErrClosed" => Closing
    /\ \A d \in Handlers :
          /\ answer[d] \notin {"none", "504"} =>
                ~(result[d] = "ErrWait" /\ ctx[d] = "deadline")
          /\ answer[d] = "504" =>
                \/ result[d] = "ErrWait" /\ ctx[d] \in {"deadline", "readyTimeout"}
                \/ "deadline" \in err[d] /\ "own" \notin err[d]

\* Every dial returns, even to a backend that never comes up, in a registry
\* that is never closed and for a caller whose context never ends; and so do
\* Registry.Ready and the handler.
DialsReturn ==
    /\ \A d \in All : InFlight(d) ~> pc[d] = "ret"
    /\ calls = Probes ~> ready # "none"
    /\ \A d \in Handlers : InFlight(d) ~> answer[d] # "none"

=============================================================================
