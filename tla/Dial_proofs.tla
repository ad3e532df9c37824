---------------------------- MODULE Dial_proofs -----------------------------
(***************************************************************************)
(* Proofs, for any number of callers, that the readiness loop accounts for *)
(* the connections it opens, makes one attempt at most with a context that *)
(* has ended, never sleeps through the end of the context or of the        *)
(* registry, and reports the reason for which a wait has failed.           *)
(***************************************************************************)
EXTENDS Dial, TLAPS

-----------------------------------------------------------------------------
(* The inductive invariant                                                 *)

\* The connections a dial holds where it is.
Holds(d) ==
    CASE pc[d] = "health" -> 1
      [] pc[d] = "probe"  -> 2
      [] pc[d] = "close"  -> 1
      [] pc[d] = "ret" /\ result[d] = "conn" /\ d \in Dials -> 1
      [] OTHER -> 0

\* At every point of the loop, not only when it returns; what DialContext hands
\* out is not closed.
Accounts ==
    \A d \in All : open[d] = Holds(d) /\ (pc[d] = "close" => d \notin Dials)

\* An attempt that is late is the last one: the dial is still in it, or has
\* returned.
LateIsLast ==
    \A d \in All :
        \/ late[d] = 0
        \/ late[d] = 1 /\ Ended(d) /\
               pc[d] \in {"dial", "health", "probe", "check", "close", "ret"}

\* A dial has a result when it has returned; one that reports the end of its
\* context, or is woken by it, has one that ended, and the same for Close.
Results ==
    \A d \in All :
        /\ pc[d] = "ret" <=> result[d] # "none"
        /\ result[d] = "ErrWait" \/ wake[d] = "ctx" => Ended(d)
        /\ result[d] = "ErrClosed" \/ wake[d] = "done" => Closing

\* Only a context that has ended makes an attempt fail with its error, and an
\* error that is returned as the backend's is terminal and not of that kind.
OwnErrors ==
    \A d \in All :
        /\ "own" \in err[d] => Ended(d)
        /\ {"own", "deadline"} \subseteq err[d] =>
              ctx[d] \in {"deadline", "readyTimeout"}
        /\ result[d] = "ErrBackend" =>
              ~IsRetryable(err[d]) /\ "own" \notin err[d]

\* The handlers speak about dials that have returned, and a deadline in an
\* error has one of three origins.
Answers ==
    \A d \in Handlers : answer[d] # "none" =>
        /\ pc[d] = "ret"
        /\ answer[d] # "504" => ~(result[d] = "ErrWait" /\ ctx[d] = "deadline")
        /\ answer[d] = "504" =>
              \/ /\ result[d] = "ErrWait"
                 /\ ctx[d] \in {"deadline", "readyTimeout"}
              \/ "deadline" \in err[d] /\ "own" \notin err[d]

IInv ==
    /\ TypeOK /\ Accounts /\ LateIsLast /\ Results /\ NoSleepAfterWakeup
    /\ OwnErrors /\ Answers

\* The errors the loop itself gives to an attempt are among those there are.
LEMMA ErrorsAreTyped == {} \in Errors
  BY DEF Errors, Tags

\* An error that an attempt of d may fail with: it is of d's context only if
\* that has ended.
Fits(d, e) ==
    /\ e \in Errors
    /\ "own" \in e => Ended(d)
    /\ {"own", "deadline"} \subseteq e =>
          ctx[d] # "live" /\ ctx[d] # "canceled"

\* The errors of a call of the backend are of this kind, also when they are
\* made Retryable.
LEMMA CallErrorsFit ==
    ASSUME NEW d \in All
    PROVE  /\ Fits(d, {})
           /\ \A e \in CallErrors(d) :
                 Fits(d, e) /\ Fits(d, e \cup {"retryable"})
<1>1. Fits(d, {})
  BY DEF Fits, Errors, Tags
<1>2. ASSUME NEW e \in CallErrors(d)
      PROVE  e \in Errors /\ e \cup {"retryable"} \in Errors
  BY DialAssumption DEF CallErrors, Errors, Tags
<1>3. ASSUME NEW e \in CallErrors(d)
      PROVE  "own" \in e => Ended(d)
  BY DialAssumption DEF CallErrors, Ended
<1>4. ASSUME NEW e \in CallErrors(d), "own" \in e, "deadline" \in e
      PROVE  ctx[d] # "live" /\ ctx[d] # "canceled"
  BY <1>4, DialAssumption DEF CallErrors
<1> QED
  BY <1>1, <1>2, <1>3, <1>4 DEF Fits

\* Initially no dial has begun.
LEMMA InitIInv == Init => IInv
<1> SUFFICES ASSUME Init PROVE IInv
  OBVIOUS
<1>1. TypeOK
  BY ErrorsAreTyped, DialAssumption DEF Init, TypeOK, CtxKinds, All, LateBound
<1> QED
  BY <1>1 DEF Init, IInv, Accounts, Holds, LateIsLast, Results,
     NoSleepAfterWakeup, OwnErrors, Answers, Ended, Done, Closing, All

\* A step in which the attempt of d fails with e, if it fails, and d is not
\* told that the backend did.
LEMMA ErrStep ==
    ASSUME IInv, NEW d \in All, UNCHANGED ctx, result'[d] # "ErrBackend",
           \A x \in All \ {d} : result'[x] = result[x],
           NEW e, Fits(d, e), err' = [err EXCEPT ![d] = e]
    PROVE  err' \in [All -> Errors] /\ OwnErrors'
<1>1. err' \in [All -> Errors] /\ err'[d] = e
      /\ \A x \in All \ {d} : err'[x] = err[x]
  BY DEF IInv, TypeOK, Fits
<1>2. ASSUME NEW x \in All
      PROVE  /\ "own" \in err'[x] => Ended(x)'
             /\ {"own", "deadline"} \subseteq err'[x] =>
                   ctx'[x] \in {"deadline", "readyTimeout"}
             /\ result'[x] = "ErrBackend" =>
                   ~IsRetryable(err'[x]) /\ "own" \notin err'[x]
  <2>1. CASE x = d
    BY <1>1, <2>1 DEF IInv, TypeOK, Ended, Fits
  <2>2. CASE x # d
    BY <1>1, <2>2 DEF IInv, OwnErrors, Ended
  <2> QED
    BY <2>1, <2>2
<1> QED
  BY <1>1, <1>2 DEF OwnErrors, IsRetryable

\* A dial begins with an attempt, or finds the registry closed.
LEMMA DialBeginStep ==
    ASSUME IInv, NEW d \in All, DialBegin(d)
    PROVE  IInv'
<1> USE ErrorsAreTyped, DialAssumption DEF IInv, TypeOK, All, LateBound
<1>1. late' \in [All -> 0..LateBound]
  BY DEF DialBegin, Return, BeginAttempt, Goto
<1>2. err' \in [All -> Errors]
  <2>1. err' = err \/ \E e \in Errors : err' = [err EXCEPT ![d] = e]
    BY DEF DialBegin, BeginAttempt
  <2> QED
    BY <2>1
<1>3. /\ pc' \in [All -> {"idle", "dial", "health", "probe", "check",
                          "select", "parked", "close", "ret"}]
      /\ result' \in [All -> {"none", "conn", "ErrClosed", "ErrWait",
                              "ErrBackend", "ErrRouteNotFound",
                              "ErrBadTimeout", "ErrDiscard"}]
  BY DEF DialBegin, Return, BeginAttempt, Goto
<1>4. TypeOK'
  BY <1>1, <1>2, <1>3 DEF DialBegin, Return, BeginAttempt, Goto
<1>5. Accounts'
  BY <1>1 DEF DialBegin, Return, BeginAttempt, Goto, Accounts, Holds
<1>6. LateIsLast'
  BY DEF DialBegin, Return, BeginAttempt, Goto, LateIsLast, Ended
<1>7. Results'
  BY DEF DialBegin, Return, BeginAttempt, Goto, Results,
     Ended, Closing
<1>8. NoSleepAfterWakeup'
  BY DEF DialBegin, Return, BeginAttempt, Goto, NoSleepAfterWakeup, Ended,
     Done
<1>9. Answers'
  BY DEF DialBegin, Return, BeginAttempt, Goto, Answers, Results
<1>10. OwnErrors'
  BY DEF DialBegin, Return, BeginAttempt, Goto, OwnErrors,
     Results, Ended
<1> QED
  BY <1>4, <1>5, <1>6, <1>7, <1>8, <1>9, <1>10

\* An attempt opens a connection or fails.
LEMMA AttemptStep ==
    ASSUME IInv, NEW d \in All, Attempt(d)
    PROVE  IInv'
<1> USE ErrorsAreTyped, DialAssumption DEF IInv, TypeOK, All, LateBound
<1>1. open' \in [All -> 0..2]
  BY DEF Attempt, Hand, Return, Goto, Accounts, Holds
<1>2. \/ UNCHANGED err
      \/ \E e \in CallErrors(d) \cup {{}} : err' = [err EXCEPT ![d] = e]
  BY DEF Attempt, Unhealthy
<1>3. /\ result[d] = "none" /\ result'[d] # "ErrBackend" /\ UNCHANGED ctx
      /\ \A x \in All \ {d} : result'[x] = result[x]
  BY DEF Attempt, Hand, Return, Unhealthy, Results
<1>4. err' \in [All -> Errors] /\ OwnErrors'
  <2>1. CASE UNCHANGED err
    BY <1>3, <2>1 DEF OwnErrors, Ended
  <2>2. ASSUME NEW e \in CallErrors(d) \cup {{}}, err' = [err EXCEPT ![d] = e]
        PROVE  err' \in [All -> Errors] /\ OwnErrors'
    BY <1>3, <2>2, CallErrorsFit, ErrStep
  <2> QED
    BY <1>2, <2>1, <2>2
<1>5. /\ pc' \in [All -> {"idle", "dial", "health", "probe", "check",
                          "select", "parked", "close", "ret"}]
      /\ result' \in [All -> {"none", "conn", "ErrClosed", "ErrWait",
                              "ErrBackend", "ErrRouteNotFound",
                              "ErrBadTimeout", "ErrDiscard"}]
  BY DEF Attempt, Hand, Return, Goto
<1>6. TypeOK'
  BY <1>1, <1>4, <1>5 DEF Attempt, Hand, Return, Goto
<1>7. Accounts'
  BY <1>1 DEF Attempt, Hand, Return, Goto, Accounts, Holds
<1>8. LateIsLast'
  BY DEF Attempt, Hand, Return, Goto, LateIsLast, Ended
<1>9. Results'
  BY DEF Attempt, Hand, Return, Goto, Results, Ended, Closing
<1>10. NoSleepAfterWakeup'
  BY DEF Attempt, Hand, Return, Goto, NoSleepAfterWakeup, Ended, Done
<1>11. Answers'
  BY DEF Attempt, Hand, Return, Goto, Answers, Results
<1> QED
  BY <1>6, <1>7, <1>8, <1>9, <1>10, <1>11, <1>4

\* The health check opens its own connection, or the first one is closed.
LEMMA HealthStep ==
    ASSUME IInv, NEW d \in All, Health(d)
    PROVE  IInv'
<1> USE ErrorsAreTyped, DialAssumption DEF IInv, TypeOK, All, LateBound
<1>1. open' \in [All -> 0..2]
  BY DEF Health, Unhealthy, Goto, Accounts, Holds
<1>2. \/ UNCHANGED err
      \/ \E e \in CallErrors(d) :
            err' = [err EXCEPT ![d] = e \cup {"retryable"}]
  BY DEF Health, Unhealthy
<1>3. /\ result[d] = "none" /\ result'[d] # "ErrBackend" /\ UNCHANGED ctx
      /\ \A x \in All \ {d} : result'[x] = result[x]
  BY DEF Health, Hand, Return, Unhealthy, Results
<1>4. err' \in [All -> Errors] /\ OwnErrors'
  <2>1. CASE UNCHANGED err
    BY <1>3, <2>1 DEF OwnErrors, Ended
  <2>2. ASSUME NEW e \in CallErrors(d),
               err' = [err EXCEPT ![d] = e \cup {"retryable"}]
        PROVE  err' \in [All -> Errors] /\ OwnErrors'
    BY <1>3, <2>2, CallErrorsFit, ErrStep
  <2> QED
    BY <1>2, <2>1, <2>2
<1>5. TypeOK'
  BY <1>1, <1>4 DEF Health, Unhealthy, Goto
<1>6. Accounts'
  BY <1>1 DEF Health, Unhealthy, Goto, Accounts, Holds
<1>7. LateIsLast'
  BY DEF Health, Unhealthy, Goto, LateIsLast, Ended
<1>8. Results'
  BY DEF Health, Unhealthy, Goto, Results, Ended, Closing
<1>9. NoSleepAfterWakeup'
  BY DEF Health, Unhealthy, Goto, NoSleepAfterWakeup, Ended, Done
<1>10. Answers'
  BY DEF Health, Unhealthy, Goto, Answers, Results
<1> QED
  BY <1>5, <1>6, <1>7, <1>8, <1>9, <1>10, <1>4

\* The health check's connection is closed, and with a failure the first.
LEMMA VerdictStep ==
    ASSUME IInv, NEW d \in All, Verdict(d)
    PROVE  IInv'
<1> USE ErrorsAreTyped, DialAssumption DEF IInv, TypeOK, All, LateBound
<1>1. open' \in [All -> 0..2]
  BY DEF Verdict, Hand, Return, Unhealthy, Goto, Accounts, Holds
<1>2. \/ UNCHANGED err
      \/ \E e \in CallErrors(d) :
            err' = [err EXCEPT ![d] = e \cup {"retryable"}]
  BY DEF Verdict, Unhealthy
<1>3. /\ result[d] = "none" /\ result'[d] # "ErrBackend" /\ UNCHANGED ctx
      /\ \A x \in All \ {d} : result'[x] = result[x]
  BY DEF Verdict, Hand, Return, Unhealthy, Results
<1>4. err' \in [All -> Errors] /\ OwnErrors'
  <2>1. CASE UNCHANGED err
    BY <1>3, <2>1 DEF OwnErrors, Ended
  <2>2. ASSUME NEW e \in CallErrors(d),
               err' = [err EXCEPT ![d] = e \cup {"retryable"}]
        PROVE  err' \in [All -> Errors] /\ OwnErrors'
    BY <1>3, <2>2, CallErrorsFit, ErrStep
  <2> QED
    BY <1>2, <2>1, <2>2
<1>5. /\ pc' \in [All -> {"idle", "dial", "health", "probe", "check",
                          "select", "parked", "close", "ret"}]
      /\ result' \in [All -> {"none", "conn", "ErrClosed", "ErrWait",
                              "ErrBackend", "ErrRouteNotFound",
                              "ErrBadTimeout", "ErrDiscard"}]
  BY DEF Verdict, Hand, Return, Unhealthy, Goto
<1>6. TypeOK'
  BY <1>1, <1>4, <1>5 DEF Verdict, Hand, Return, Unhealthy, Goto
<1>7. Accounts'
  BY <1>1 DEF Verdict, Hand, Return, Unhealthy, Goto, Accounts, Holds
<1>8. LateIsLast'
  BY DEF Verdict, Hand, Return, Unhealthy, Goto, LateIsLast, Ended
<1>9. Results'
  BY DEF Verdict, Hand, Return, Unhealthy, Goto, Results, Ended, Closing
<1>10. NoSleepAfterWakeup'
  BY DEF Verdict, Hand, Return, Unhealthy, Goto, NoSleepAfterWakeup, Ended,
     Done
<1>11. Answers'
  BY DEF Verdict, Hand, Return, Unhealthy, Goto, Answers, Results
<1> QED
  BY <1>6, <1>7, <1>8, <1>9, <1>10, <1>11, <1>4

\* A failed attempt is the last one when the context has ended.
LEMMA CheckStep ==
    ASSUME IInv, NEW d \in All, Check(d)
    PROVE  IInv'
<1> USE ErrorsAreTyped, DialAssumption DEF IInv, TypeOK, All, LateBound
<1>1. TypeOK'
  BY DEF Check, Return, Goto
<1>2. Accounts'
  BY DEF Check, Return, Goto, Accounts, Holds
<1>3. LateIsLast'
  BY DEF Check, Return, Goto, LateIsLast, Ended
<1>4. Results'
  BY DEF Check, Return, Goto, Results, Ended, Closing
<1>5. NoSleepAfterWakeup'
  BY DEF Check, Return, Goto, NoSleepAfterWakeup, Ended, Done
<1>6. Answers'
  BY DEF Check, Return, Goto, Answers, Results
<1>7. OwnErrors'
  BY DEF Check, Return, Goto, OwnErrors, Results, Ended
<1> QED
  BY <1>1, <1>2, <1>3, <1>4, <1>5, <1>6, <1>7

\* A select that finds no case ready parks: nothing has ended.
LEMMA SelectStep ==
    ASSUME IInv, NEW d \in All, Select(d)
    PROVE  IInv'
<1> USE ErrorsAreTyped, DialAssumption DEF IInv, TypeOK, All, LateBound
<1>1. /\ UNCHANGED <<ctx, wake, reg>>
      /\ \E l \in {"ret", "dial", "parked"} :
            /\ pc' = [pc EXCEPT ![d] = l]
            /\ l = "parked" => ~Ended(d) /\ ~Done
  BY DEF Select, TakeCase, ReadyCases, Return, BeginAttempt, Goto
<1>2. late' \in [All -> 0..LateBound]
  BY DEF Select, TakeCase, ReadyCases, DropTimer, Return, BeginAttempt, Goto
<1>3. err' = err \/ \E e \in Errors : err' = [err EXCEPT ![d] = e]
  BY DEF Select, TakeCase, BeginAttempt
<1>4. err' \in [All -> Errors]
  BY <1>3
<1>5. /\ pc' \in [All -> {"idle", "dial", "health", "probe", "check",
                          "select", "parked", "close", "ret"}]
      /\ result' \in [All -> {"none", "conn", "ErrClosed", "ErrWait",
                              "ErrBackend", "ErrRouteNotFound",
                              "ErrBadTimeout", "ErrDiscard"}]
  BY DEF Select, TakeCase, ReadyCases, DropTimer, Return, BeginAttempt, Goto
<1>6. TypeOK'
  BY <1>2, <1>4, <1>5 DEF Select, TakeCase, ReadyCases, DropTimer, Return,
     BeginAttempt, Goto
<1>7. Accounts'
  BY <1>2 DEF Select, TakeCase, ReadyCases, DropTimer, Return, BeginAttempt,
     Goto, Accounts, Holds
<1>8. LateIsLast'
  BY DEF Select, TakeCase, ReadyCases, DropTimer, Return, BeginAttempt, Goto,
     LateIsLast, Ended
<1>9. Results'
  BY DEF Select, TakeCase, ReadyCases, DropTimer, Return, BeginAttempt, Goto,
     Results, Ended, Done, Closing
<1>10. NoSleepAfterWakeup'
  BY <1>1 DEF NoSleepAfterWakeup, Ended, Done
<1>11. Answers'
  BY DEF Select, TakeCase, ReadyCases, DropTimer, Return, BeginAttempt, Goto,
     Answers, Results
<1>12. OwnErrors'
  BY DEF Select, TakeCase, ReadyCases, DropTimer, Return, BeginAttempt, Goto,
     OwnErrors, Results, Ended
<1> QED
  BY <1>6, <1>7, <1>8, <1>9, <1>10, <1>11, <1>12

\* A select that was woken takes the case of its event.
LEMMA WokenStep ==
    ASSUME IInv, NEW d \in All, Woken(d)
    PROVE  IInv'
<1> USE ErrorsAreTyped, DialAssumption DEF IInv, TypeOK, All, LateBound
<1>1. late' \in [All -> 0..LateBound]
  BY DEF Woken, TakeCase, DropTimer, Return, BeginAttempt, Goto
<1>2. err' \in [All -> Errors]
  <2>1. err' = err \/ \E e \in Errors : err' = [err EXCEPT ![d] = e]
    BY DEF Woken, TakeCase, BeginAttempt
  <2> QED
    BY <2>1
<1>3. /\ pc' \in [All -> {"idle", "dial", "health", "probe", "check",
                          "select", "parked", "close", "ret"}]
      /\ result' \in [All -> {"none", "conn", "ErrClosed", "ErrWait",
                              "ErrBackend", "ErrRouteNotFound",
                              "ErrBadTimeout", "ErrDiscard"}]
  BY DEF Woken, TakeCase, DropTimer, Return, BeginAttempt, Goto
<1>4. TypeOK'
  BY <1>1, <1>2, <1>3 DEF Woken, TakeCase, DropTimer, Return, BeginAttempt,
     Goto
<1>5. Accounts'
  BY <1>1 DEF Woken, TakeCase, DropTimer, Return, BeginAttempt, Goto,
     Accounts, Holds
<1>6. LateIsLast'
  BY DEF Woken, TakeCase, DropTimer, Return, BeginAttempt, Goto, LateIsLast,
     Ended
<1>7. Results'
  BY DEF Woken, TakeCase, DropTimer, Return, BeginAttempt, Goto, Results,
     Ended, Closing
<1>8. NoSleepAfterWakeup'
  BY DEF Woken, TakeCase, DropTimer, Return, BeginAttempt, Goto,
     NoSleepAfterWakeup, Ended, Done
<1>9. Answers'
  BY DEF Woken, TakeCase, DropTimer, Return, BeginAttempt, Goto, Answers,
     Results
<1>10. OwnErrors'
  BY DEF Woken, TakeCase, DropTimer, Return, BeginAttempt, Goto, OwnErrors,
     Results, Ended
<1> QED
  BY <1>4, <1>5, <1>6, <1>7, <1>8, <1>9, <1>10

\* Ready discards the connection.
LEMMA ReadyClosesStep ==
    ASSUME IInv, NEW d \in All, ReadyCloses(d)
    PROVE  IInv'
<1> USE ErrorsAreTyped, DialAssumption DEF IInv, TypeOK, All, LateBound
<1>1. open' \in [All -> 0..2]
  BY DEF ReadyCloses, Return, Goto, Accounts, Holds
<1>2. TypeOK'
  BY <1>1 DEF ReadyCloses, Return, Goto
<1>3. Accounts'
  BY <1>1 DEF ReadyCloses, Return, Goto, Accounts, Holds
<1>4. LateIsLast'
  BY DEF ReadyCloses, Return, Goto, LateIsLast, Ended
<1>5. Results'
  BY DEF ReadyCloses, Return, Goto, Results, Ended, Closing
<1>6. NoSleepAfterWakeup'
  BY DEF ReadyCloses, Return, Goto, NoSleepAfterWakeup, Ended, Done
<1>7. Answers'
  BY DEF ReadyCloses, Return, Goto, Answers, Results
<1>8. OwnErrors'
  BY DEF ReadyCloses, Return, Goto, OwnErrors, Results, Ended
<1> QED
  BY <1>2, <1>3, <1>4, <1>5, <1>6, <1>7, <1>8

\* The handler answers with what the dial has returned.
LEMMA HandlerAnswersStep ==
    ASSUME IInv, NEW d \in All, HandlerAnswers(d)
    PROVE  IInv'
<1> USE ErrorsAreTyped, DialAssumption DEF IInv, TypeOK, All, LateBound
<1>1. TypeOK'
  BY DEF HandlerAnswers, Status
<1>2. Accounts'
  BY DEF HandlerAnswers, Status, Accounts, Holds
<1>3. LateIsLast'
  BY DEF HandlerAnswers, Status, LateIsLast, Ended
<1>4. Results'
  BY DEF HandlerAnswers, Status, Results, Ended, Closing
<1>5. NoSleepAfterWakeup'
  BY DEF HandlerAnswers, Status, NoSleepAfterWakeup, Ended, Done
<1>6. Answers'
  BY DEF HandlerAnswers, Status, Chain, Answers, Results, OwnErrors, Ended
<1>7. OwnErrors'
  BY DEF HandlerAnswers, Status, OwnErrors, Results, Ended
<1> QED
  BY <1>1, <1>2, <1>3, <1>4, <1>5, <1>6, <1>7

\* The end of the context wakes the selects of all who share it.
LEMMA CallerCtxEndsStep ==
    ASSUME IInv, NEW d \in All, CallerCtxEnds(d)
    PROVE  IInv'
<1> USE ErrorsAreTyped, DialAssumption DEF IInv, TypeOK, All, LateBound
<1>1. TypeOK'
  BY DEF CallerCtxEnds, InFlight, Awaken
<1>2. Accounts'
  BY DEF CallerCtxEnds, InFlight, Awaken, Accounts, Holds
<1>3. LateIsLast'
  BY DEF CallerCtxEnds, InFlight, Awaken, LateIsLast, Ended
<1>4. Results'
  BY DEF CallerCtxEnds, InFlight, Awaken, Results, Ended, Closing
<1>5. NoSleepAfterWakeup'
  BY DEF CallerCtxEnds, InFlight, Awaken, NoSleepAfterWakeup, Ended, Done
<1>6. Answers'
  BY DEF CallerCtxEnds, InFlight, Awaken, Answers, Results
<1>7. OwnErrors'
  BY DEF CallerCtxEnds, InFlight, Awaken, OwnErrors, Results, Ended
<1> QED
  BY <1>1, <1>2, <1>3, <1>4, <1>5, <1>6, <1>7

\* The ready timeout ends the context of one dial.
LEMMA ReadyTimeoutStep ==
    ASSUME IInv, NEW d \in All, ReadyTimeout(d)
    PROVE  IInv'
<1> USE ErrorsAreTyped, DialAssumption DEF IInv, TypeOK, All, LateBound
<1>1. TypeOK'
  BY DEF ReadyTimeout, InFlight, Awaken
<1>2. Accounts'
  BY DEF ReadyTimeout, InFlight, Awaken, Accounts, Holds
<1>3. LateIsLast'
  BY DEF ReadyTimeout, InFlight, Awaken, LateIsLast, Ended
<1>4. Results'
  BY DEF ReadyTimeout, InFlight, Awaken, Results, Ended, Closing
<1>5. NoSleepAfterWakeup'
  BY DEF ReadyTimeout, InFlight, Awaken, NoSleepAfterWakeup, Ended, Done
<1>6. Answers'
  BY DEF ReadyTimeout, InFlight, Awaken, Answers, Results
<1>7. OwnErrors'
  BY DEF ReadyTimeout, InFlight, Awaken, OwnErrors, Results, Ended
<1> QED
  BY <1>1, <1>2, <1>3, <1>4, <1>5, <1>6, <1>7

\* The backoff timer wakes a select that is parked.
LEMMA TimerFiresStep ==
    ASSUME IInv, NEW d \in All, TimerFires(d)
    PROVE  IInv'
<1> USE ErrorsAreTyped, DialAssumption DEF IInv, TypeOK, All, LateBound
<1>1. TypeOK'
  BY DEF TimerFires, Awaken
<1>2. Accounts'
  BY DEF TimerFires, Awaken, Accounts, Holds
<1>3. LateIsLast'
  BY DEF TimerFires, Awaken, LateIsLast, Ended
<1>4. Results'
  BY DEF TimerFires, Awaken, Results, Ended, Closing
<1>5. NoSleepAfterWakeup'
  BY DEF TimerFires, Awaken, NoSleepAfterWakeup, Ended, Done
<1>6. Answers'
  BY DEF TimerFires, Awaken, Answers, Results
<1>7. OwnErrors'
  BY DEF TimerFires, Awaken, OwnErrors, Results, Ended
<1> QED
  BY <1>1, <1>2, <1>3, <1>4, <1>5, <1>6, <1>7

\* Ready joins the results of its dials.
LEMMA ReadyReturnStep ==
    ASSUME IInv, ReadyReturn
    PROVE  IInv'
<1> USE ErrorsAreTyped, DialAssumption DEF IInv, TypeOK, All, LateBound
<1>1. TypeOK'
  BY DEF ReadyReturn
<1>2. Accounts'
  BY DEF ReadyReturn, Accounts, Holds
<1>3. LateIsLast'
  BY DEF ReadyReturn, LateIsLast, Ended
<1>4. Results'
  BY DEF ReadyReturn, Results, Ended, Closing
<1>5. NoSleepAfterWakeup'
  BY DEF ReadyReturn, NoSleepAfterWakeup, Ended, Done
<1>6. Answers'
  BY DEF ReadyReturn, Answers, Results
<1>7. OwnErrors'
  BY DEF ReadyReturn, OwnErrors, Results, Ended
<1> QED
  BY <1>1, <1>2, <1>3, <1>4, <1>5, <1>6, <1>7

\* Close wakes every select that is parked.
LEMMA CloseStep ==
    ASSUME IInv, Close
    PROVE  IInv'
<1> USE ErrorsAreTyped, DialAssumption DEF IInv, TypeOK, All, LateBound
<1>1. TypeOK'
  BY DEF Close, Awaken
<1>2. Accounts'
  BY DEF Close, Awaken, Accounts, Holds
<1>3. LateIsLast'
  BY DEF Close, Awaken, LateIsLast, Ended
<1>4. Results'
  BY DEF Close, Awaken, Results, Ended, Closing
<1>5. NoSleepAfterWakeup'
  BY DEF Close, Awaken, NoSleepAfterWakeup, Ended, Done
<1>6. Answers'
  BY DEF Close, Awaken, Answers, Results
<1>7. OwnErrors'
  BY DEF Close, Awaken, OwnErrors, Results, Ended
<1> QED
  BY <1>1, <1>2, <1>3, <1>4, <1>5, <1>6, <1>7

\* The invariant is inductive.
LEMMA NextIInv == IInv /\ [Next]_vars => IInv'
<1> SUFFICES ASSUME IInv, [Next]_vars PROVE IInv'
  OBVIOUS
<1>1. ASSUME NEW d \in All, DialBegin(d) \/ Step(d)
      PROVE  IInv'
  BY <1>1, DialBeginStep, AttemptStep, HealthStep, VerdictStep, CheckStep,
     SelectStep, WokenStep, ReadyClosesStep, HandlerAnswersStep DEF Step
<1>2. ASSUME NEW d \in All,
             CallerCtxEnds(d) \/ ReadyTimeout(d) \/ TimerFires(d)
      PROVE  IInv'
  BY <1>2, CallerCtxEndsStep, ReadyTimeoutStep, TimerFiresStep
<1>3. CASE UNCHANGED vars
  BY <1>3 DEF vars, IInv, TypeOK, Accounts, Holds, LateIsLast, Results,
     NoSleepAfterWakeup, OwnErrors, Answers, Ended, Done, Closing
<1> QED
  BY <1>1, <1>2, <1>3, ReadyReturnStep, CloseStep DEF Next, Terminated

\* The invariant holds in every state of every execution.
THEOREM Invariance == Spec => []IInv
  BY InitIInv, NextIInv, PTL DEF Spec

\* The loop hands every connection it opens to its caller or closes it.
THEOREM AccountsTheorem == Spec => []ConnectionsAreAccounted
<1>1. IInv => ConnectionsAreAccounted
  BY DEF IInv, Accounts, Holds, ConnectionsAreAccounted
<1> QED
  BY <1>1, Invariance, PTL

\* The loop asks the backend once at most after its context has ended.
THEOREM LateTheorem == Spec => []OneAttemptAfterCtxEnds
<1>1. IInv => OneAttemptAfterCtxEnds
  BY DEF IInv, LateIsLast, OneAttemptAfterCtxEnds
<1> QED
  BY <1>1, Invariance, PTL

\* A select of the loop that waits is woken by Close and by its context's end.
THEOREM WakeupTheorem == Spec => []NoSleepAfterWakeup
<1>1. IInv => NoSleepAfterWakeup
  BY DEF IInv
<1> QED
  BY <1>1, Invariance, PTL

\* A failed wait, and the status the ready handler makes of it, name the
\* reason for which it failed: the end of the dial's own context never passes
\* for a terminal failure of the backend.
THEOREM ReasonTheorem == Spec => []WaitsEndForTheirReason
<1>1. IInv => WaitsEndForTheirReason
  BY DialAssumption
     DEF IInv, Answers, Results, OwnErrors, WaitsEndForTheirReason, All
<1> QED
  BY <1>1, Invariance, PTL
=============================================================================
