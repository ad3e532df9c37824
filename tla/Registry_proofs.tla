-------------------------- MODULE Registry_proofs --------------------------
(***************************************************************************)
(* Proofs, for any number of calls, names and requests, that the safety    *)
(* properties of Registry hold.  IInv is inductive: one lemma per action   *)
(* shows that the action preserves it, conjunct by conjunct.               *)
(***************************************************************************)
EXTENDS Registry, TLAPS


\* A call that has begun works on a key of the map.
LEMMA KeyType ==
    ASSUME TypeOK, NEW c \in Calls, pc[c] # "idle"
    PROVE  /\ req[c] \in Requests /\ key(c) \in Keys
           /\ req[c].op \in Ops /\ req[c].stopper \in BOOLEAN
           /\ req[c].starter \in BOOLEAN
  BY RegistryAssumption DEF TypeOK, key

\* Stop was not called on a backend that is up.
LEMMA UnstoppedCount ==
    ASSUME IInv, NEW r \in Calls, backend[r] = "up"
    PROVE  stops[r] = 0
  BY DEF IInv, TypeOK, StoppedAtMostOnce

\* AddBegin keeps every variable in its type.
LEMMA AddBeginType ==
    ASSUME IInv, NEW c \in Calls, AddBegin(c)
    PROVE  TypeOK'
  BY KeyType, RegistryAssumption DEF IInv, TypeOK, AddBegin, table,
     closeVars, backends, events, Goto, PCs

\* AddInvalid keeps every variable in its type.
LEMMA AddInvalidType ==
    ASSUME IInv, NEW c \in Calls, AddInvalid(c)
    PROVE  TypeOK'
  BY KeyType, RegistryAssumption DEF IInv, TypeOK, AddInvalid, table,
     closeVars, backends, events, Goto, Return, PCs, Results

\* Begin keeps every variable in its type.
LEMMA BeginType ==
    ASSUME IInv, NEW c \in Calls, Begin(c)
    PROVE  TypeOK'
  BY KeyType, RegistryAssumption DEF IInv, TypeOK, Begin, table, closeVars,
     backends, events, Goto, PCs

\* AddReserve keeps every variable in its type.
LEMMA AddReserveType ==
    ASSUME IInv, NEW c \in Calls, AddReserve(c)
    PROVE  TypeOK'
<1>1. TypeOK /\ pc[c] # "idle"
  BY DEF IInv, AddReserve
<1>2. req[c] \in Requests /\ key(c) \in Keys /\ req[c].op \in Ops
  BY <1>1, KeyType
<1> USE <1>1, <1>2 DEF AddReserve, closeVars, backends, events, Goto, Return
<1>3. pc' \in [Calls -> PCs] /\ result' \in [Calls -> Results]
  BY DEF TypeOK, PCs, Results
<1>4. rt' \in [Calls -> Calls \cup {None}]
  BY DEF TypeOK
<1>5. routes' \in [Keys -> Calls \cup {Absent, Nil}]
  BY DEF TypeOK
<1>6. backend' \in [Calls -> Phases] /\ stops' \in [Calls -> Nat]
  BY DEF IInv, TypeOK
<1>7. \A d \in Calls : pc'[d] # "idle" => req'[d] \in Requests
  BY DEF TypeOK
<1> QED
  BY <1>3, <1>4, <1>5, <1>6, <1>7 DEF TypeOK

\* AddStart keeps every variable in its type.
LEMMA AddStartType ==
    ASSUME IInv, NEW c \in Calls, AddStart(c)
    PROVE  TypeOK'
  BY KeyType, RegistryAssumption DEF IInv, TypeOK, AddStart, table,
     closeVars, events, Goto, PCs, Phases

\* AddUnreserve keeps every variable in its type.
LEMMA AddUnreserveType ==
    ASSUME IInv, NEW c \in Calls, AddUnreserve(c)
    PROVE  TypeOK'
  BY KeyType, RegistryAssumption DEF IInv, TypeOK, AddUnreserve, closeVars,
     backends, events, Goto, Return, PCs, Results

\* AddPublish keeps every variable in its type.
LEMMA AddPublishType ==
    ASSUME IInv, NEW c \in Calls, AddPublish(c)
    PROVE  TypeOK'
  BY KeyType, RegistryAssumption DEF IInv, TypeOK, AddPublish, closeVars,
     backends, events, Goto, PCs

\* AddDiscard keeps every variable in its type.
LEMMA AddDiscardType ==
    ASSUME IInv, NEW c \in Calls, AddDiscard(c)
    PROVE  TypeOK'
  BY KeyType, RegistryAssumption DEF IInv, TypeOK, AddDiscard, table,
     closeVars, backends, events, Goto, Return, CallStop, PCs, Results,
     Phases

\* AddEmit keeps every variable in its type.
LEMMA AddEmitType ==
    ASSUME IInv, NEW c \in Calls, AddEmit(c)
    PROVE  TypeOK'
<1>1. TypeOK /\ pc[c] # "idle"
  BY DEF IInv, AddEmit
<1>2. req[c] \in Requests /\ key(c) \in Keys /\ req[c].op \in Ops
  BY <1>1, KeyType
<1> USE <1>1, <1>2 DEF AddEmit, table, closeVars, backends, Goto, Return
<1>3. pc' \in [Calls -> PCs] /\ result' \in [Calls -> Results]
  BY DEF TypeOK, PCs, Results
<1>4. rt' \in [Calls -> Calls \cup {None}]
  BY DEF TypeOK
<1>5. routes' \in [Keys -> Calls \cup {Absent, Nil}]
  BY DEF TypeOK
<1>6. backend' \in [Calls -> Phases] /\ stops' \in [Calls -> Nat]
  BY DEF IInv, TypeOK
<1>7. \A d \in Calls : pc'[d] # "idle" => req'[d] \in Requests
  BY DEF TypeOK
<1> QED
  BY <1>3, <1>4, <1>5, <1>6, <1>7 DEF TypeOK

\* AddReadyWait keeps every variable in its type.
LEMMA AddReadyWaitType ==
    ASSUME IInv, NEW c \in Calls, AddReadyWait(c)
    PROVE  TypeOK'
<1>1. TypeOK /\ pc[c] # "idle"
  BY DEF IInv, AddReadyWait
<1>2. req[c] \in Requests /\ key(c) \in Keys /\ req[c].op \in Ops
  BY <1>1, KeyType
<1> USE <1>1, <1>2 DEF AddReadyWait, table, closeVars, backends, events,
     Goto, Return
<1>3. pc' \in [Calls -> PCs] /\ result' \in [Calls -> Results]
  BY DEF TypeOK, PCs, Results
<1>4. rt' \in [Calls -> Calls \cup {None}]
  BY DEF TypeOK
<1>5. routes' \in [Keys -> Calls \cup {Absent, Nil}]
  BY DEF TypeOK
<1>6. backend' \in [Calls -> Phases] /\ stops' \in [Calls -> Nat]
  BY DEF IInv, TypeOK
<1>7. \A d \in Calls : pc'[d] # "idle" => req'[d] \in Requests
  BY DEF TypeOK
<1> QED
  BY <1>3, <1>4, <1>5, <1>6, <1>7 DEF TypeOK

\* RemoveTake keeps every variable in its type.
LEMMA RemoveTakeType ==
    ASSUME IInv, NEW c \in Calls, RemoveTake(c)
    PROVE  TypeOK'
<1>1. TypeOK /\ pc[c] # "idle"
  BY DEF IInv, RemoveTake
<1>2. req[c] \in Requests /\ key(c) \in Keys /\ req[c].op \in Ops
  BY <1>1, KeyType
<1> USE <1>1, <1>2 DEF RemoveTake, closeVars, backends, events, Goto, Return
<1>3. pc' \in [Calls -> PCs] /\ result' \in [Calls -> Results]
  BY DEF TypeOK, PCs, Results
<1>4. rt' \in [Calls -> Calls \cup {None}]
  BY DEF TypeOK
<1>5. routes' \in [Keys -> Calls \cup {Absent, Nil}]
  BY DEF TypeOK
<1>6. backend' \in [Calls -> Phases] /\ stops' \in [Calls -> Nat]
  BY DEF IInv, TypeOK
<1>7. \A d \in Calls : pc'[d] # "idle" => req'[d] \in Requests
  BY DEF TypeOK
<1> QED
  BY <1>3, <1>4, <1>5, <1>6, <1>7 DEF TypeOK

\* RemoveStop keeps every variable in its type.
LEMMA RemoveStopType ==
    ASSUME IInv, NEW c \in Calls, RemoveStop(c)
    PROVE  TypeOK'
<1>1. TypeOK /\ pc[c] # "idle"
  BY DEF IInv, RemoveStop
<1>2. req[c] \in Requests /\ key(c) \in Keys /\ req[c].op \in Ops
  BY <1>1, KeyType
<1> USE <1>1, <1>2 DEF RemoveStop, table, closeVars, backends, Goto, Return,
     CallStop
<1>3. pc' \in [Calls -> PCs] /\ result' \in [Calls -> Results]
  BY DEF TypeOK, PCs, Results
<1>4. rt' \in [Calls -> Calls \cup {None}]
  BY DEF TypeOK
<1>5. routes' \in [Keys -> Calls \cup {Absent, Nil}]
  BY DEF TypeOK
<1>6. backend' \in [Calls -> Phases] /\ stops' \in [Calls -> Nat]
  BY DEF IInv, TypeOK, Phases
<1>7. \A d \in Calls : pc'[d] # "idle" => req'[d] \in Requests
  BY DEF TypeOK
<1>8. withdrawn' \subseteq Calls /\ announced' \subseteq Calls
  BY DEF IInv, TypeOK, Custody
<1> QED
  BY <1>8, <1>3, <1>4, <1>5, <1>6, <1>7 DEF TypeOK

\* StopReturn keeps every variable in its type.
LEMMA StopReturnType ==
    ASSUME IInv, NEW c \in Calls, StopReturn(c)
    PROVE  TypeOK'
<1>1. TypeOK /\ pc[c] # "idle"
  BY DEF IInv, StopReturn
<1>2. req[c] \in Requests /\ key(c) \in Keys /\ req[c].op \in Ops
  BY <1>1, KeyType
<1> USE <1>1, <1>2 DEF StopReturn, table, events, Goto, Return
<1>3. pc' \in [Calls -> PCs] /\ result' \in [Calls -> Results]
  BY DEF TypeOK, PCs, Results
<1>4. rt' \in [Calls -> Calls \cup {None}]
  BY DEF TypeOK
<1>5. routes' \in [Keys -> Calls \cup {Absent, Nil}]
  BY DEF TypeOK
<1>6. backend' \in [Calls -> Phases] /\ stops' \in [Calls -> Nat]
  BY DEF IInv, TypeOK, Phases
<1>7. \A d \in Calls : pc'[d] # "idle" => req'[d] \in Requests
  BY DEF TypeOK
<1> QED
  BY <1>3, <1>4, <1>5, <1>6, <1>7 DEF TypeOK

\* Resolve keeps every variable in its type.
LEMMA ResolveType ==
    ASSUME IInv, NEW c \in Calls, Resolve(c)
    PROVE  TypeOK'
<1>1. TypeOK /\ pc[c] # "idle"
  BY DEF IInv, Resolve
<1>2. req[c] \in Requests /\ key(c) \in Keys /\ req[c].op \in Ops
  BY <1>1, KeyType
<1> USE <1>1, <1>2 DEF Resolve, table, closeVars, backends, events, Goto,
     Return
<1>3. pc' \in [Calls -> PCs] /\ result' \in [Calls -> Results]
  BY DEF TypeOK, PCs, Results
<1>4. rt' \in [Calls -> Calls \cup {None}]
  BY DEF TypeOK
<1>5. routes' \in [Keys -> Calls \cup {Absent, Nil}]
  BY DEF TypeOK
<1>6. backend' \in [Calls -> Phases] /\ stops' \in [Calls -> Nat]
  BY DEF IInv, TypeOK
<1>7. \A d \in Calls : pc'[d] # "idle" => req'[d] \in Requests
  BY DEF TypeOK
<1> QED
  BY <1>3, <1>4, <1>5, <1>6, <1>7 DEF TypeOK

\* CloseOnce keeps every variable in its type.
LEMMA CloseOnceType ==
    ASSUME IInv, NEW c \in Calls, CloseOnce(c)
    PROVE  TypeOK'
  BY KeyType, RegistryAssumption DEF IInv, TypeOK, CloseOnce, table,
     backends, events, Goto, Return, PCs, Results

\* CloseSwap keeps every variable in its type.
LEMMA CloseSwapType ==
    ASSUME IInv, NEW c \in Calls, CloseSwap(c)
    PROVE  TypeOK'
  BY KeyType, RegistryAssumption DEF IInv, TypeOK, CloseSwap, backends,
     events, Goto, PCs

\* CloseSignal keeps every variable in its type.
LEMMA CloseSignalType ==
    ASSUME IInv, NEW c \in Calls, CloseSignal(c)
    PROVE  TypeOK'
  BY KeyType, RegistryAssumption DEF IInv, TypeOK, CloseSignal, table,
     backends, events, Goto, PCs

\* CloseStopNext keeps every variable in its type.
LEMMA CloseStopNextType ==
    ASSUME IInv, NEW c \in Calls, CloseStopNext(c)
    PROVE  TypeOK'
<1>1. TypeOK /\ pc[c] # "idle"
  BY DEF IInv, CloseStopNext
<1>2. req[c] \in Requests /\ key(c) \in Keys /\ req[c].op \in Ops
  BY <1>1, KeyType
<1> USE <1>1, <1>2 DEF CloseStopNext, table, backends, events, Goto, CallStop
<1>3. pc' \in [Calls -> PCs] /\ result' \in [Calls -> Results]
  BY DEF TypeOK, PCs
<1>4. rt' \in [Calls -> Calls \cup {None}]
  BY DEF TypeOK
<1>5. routes' \in [Keys -> Calls \cup {Absent, Nil}]
  BY DEF TypeOK
<1>6. backend' \in [Calls -> Phases] /\ stops' \in [Calls -> Nat]
  BY DEF IInv, TypeOK, Phases
<1>7. \A d \in Calls : pc'[d] # "idle" => req'[d] \in Requests
  BY DEF TypeOK
<1> QED
  BY <1>3, <1>4, <1>5, <1>6, <1>7 DEF TypeOK

\* CloseReturn keeps every variable in its type.
LEMMA CloseReturnType ==
    ASSUME IInv, NEW c \in Calls, CloseReturn(c)
    PROVE  TypeOK'
  BY KeyType, RegistryAssumption DEF IInv, TypeOK, CloseReturn, table,
     backends, events, Goto, Return, PCs, Results


\* The prologue of Add changes hasRewrites and nothing the invariant reads.
LEMMA AddBeginStep ==
    ASSUME IInv, NEW c \in Calls, AddBegin(c)
    PROVE  IInv'
<1>0. TypeOK /\ TypeOK'
  BY AddBeginType DEF IInv
<1> USE <1>0, RegistryAssumption DEF TypeOK, AddBegin, table, closeVars,
     backends, events, Goto
<1>1. /\ PhaseMatchesPc' /\ ReservationsAreOwned' /\ LiveRoutesAreRunning'
      /\ ClosedRegistryIsEmpty' /\ StoppedAtMostOnce' /\ Custody'
      /\ OneCloser' /\ NoBackendLeaked'
  BY DEF IInv, PhaseMatchesPc, Custody, ReservationsAreOwned, Holding, key,
     LiveRoutesAreRunning, ClosedRegistryIsEmpty, StoppedAtMostOnce,
     OneCloser, NoBackendLeaked, Owned, Live
<1> QED
  BY <1>0, <1>1 DEF IInv

\* A rejected argument returns before anything is touched.
LEMMA AddInvalidStep ==
    ASSUME IInv, NEW c \in Calls, AddInvalid(c)
    PROVE  IInv'
<1>0. TypeOK /\ TypeOK'
  BY AddInvalidType DEF IInv
<1> USE <1>0, RegistryAssumption DEF TypeOK, AddInvalid, table, closeVars,
     backends, events, Goto, Return
<1>1. /\ PhaseMatchesPc' /\ ClosedRegistryIsEmpty' /\ StoppedAtMostOnce'
      /\ OneCloser'
  BY DEF IInv, PhaseMatchesPc, ClosedRegistryIsEmpty, StoppedAtMostOnce,
     OneCloser
<1>2. ReservationsAreOwned'
  BY DEF IInv, ReservationsAreOwned, Holding, key
<1>3. LiveRoutesAreRunning'
  BY DEF IInv, LiveRoutesAreRunning, Custody, Early, key
<1>4. Custody'
  BY DEF IInv, Custody, Early
<1>5. NoBackendLeaked'
  BY DEF IInv, NoBackendLeaked, Owned, Live, PhaseMatchesPc
<1> QED
  BY <1>0, <1>1, <1>2, <1>3, <1>4, <1>5 DEF IInv

\* A Remove, Dial or Close that has only begun.
LEMMA BeginStep ==
    ASSUME IInv, NEW c \in Calls, Begin(c)
    PROVE  IInv'
<1>0. TypeOK /\ TypeOK'
  BY BeginType DEF IInv
<1> USE <1>0, RegistryAssumption DEF TypeOK, Begin, table, closeVars,
     backends, events, Goto
<1>1. /\ PhaseMatchesPc' /\ ClosedRegistryIsEmpty' /\ StoppedAtMostOnce'
      /\ OneCloser'
  BY DEF IInv, PhaseMatchesPc, ClosedRegistryIsEmpty, StoppedAtMostOnce,
     OneCloser
<1>2. ReservationsAreOwned'
  BY DEF IInv, ReservationsAreOwned, Holding, key
<1>3. LiveRoutesAreRunning'
  BY DEF IInv, LiveRoutesAreRunning, Custody, Early, key
<1>4. Custody'
  BY DEF IInv, Custody, Early
<1>5. NoBackendLeaked'
  BY DEF IInv, NoBackendLeaked, Owned, Live, PhaseMatchesPc
<1> QED
  BY <1>0, <1>1, <1>2, <1>3, <1>4, <1>5 DEF IInv

\* Reserving a free name makes this call the name's only holder.
LEMMA AddReserveStep ==
    ASSUME IInv, NEW c \in Calls, AddReserve(c)
    PROVE  IInv'
<1>0. TypeOK /\ TypeOK'
  BY AddReserveType DEF IInv
<1>k. req[c] \in Requests /\ key(c) \in Keys /\ req[c].op \in Ops
  BY <1>0, KeyType DEF AddReserve
<1> USE <1>0, <1>k, RegistryAssumption DEF TypeOK, AddReserve, closeVars,
     backends, events, Goto, Return
<1>1. /\ PhaseMatchesPc' /\ StoppedAtMostOnce' /\ OneCloser'
  BY DEF IInv, PhaseMatchesPc, StoppedAtMostOnce, OneCloser
<1>2. ReservationsAreOwned'
  <2>1. CASE closed
    BY <2>1 DEF IInv, ReservationsAreOwned
  <2>2. CASE ~closed /\ routes[key(c)] = Absent
    BY <2>2 DEF IInv, ReservationsAreOwned, Holding, key
  <2>3. CASE ~closed /\ routes[key(c)] # Absent
    BY <2>3 DEF IInv, ReservationsAreOwned, Holding, key
  <2> QED
    BY <2>1, <2>2, <2>3
<1>3. LiveRoutesAreRunning'
  BY DEF IInv, LiveRoutesAreRunning, key
<1>4. ClosedRegistryIsEmpty'
  BY DEF IInv, ClosedRegistryIsEmpty
<1>5. Custody'
  <2>1. CASE closed
    BY <2>1 DEF IInv, Custody, Early
  <2>2. CASE ~closed /\ routes[key(c)] = Absent
    BY <2>2 DEF IInv, Custody, StoppedAtMostOnce, Early
  <2>3. CASE ~closed /\ routes[key(c)] # Absent
    BY <2>3 DEF IInv, Custody, Early
  <2> QED
    BY <2>1, <2>2, <2>3
<1>6. NoBackendLeaked'
  BY DEF IInv, NoBackendLeaked, Owned, Live
<1> QED
  BY <1>0, <1>1, <1>2, <1>3, <1>4, <1>5, <1>6 DEF IInv

\* Start changes the backend of a route that nobody else knows yet.
LEMMA AddStartStep ==
    ASSUME IInv, NEW c \in Calls, AddStart(c)
    PROVE  IInv'
<1>0. TypeOK /\ TypeOK'
  BY AddStartType DEF IInv
<1>k. req[c] \in Requests /\ key(c) \in Keys /\ req[c].op \in Ops
  BY <1>0, KeyType DEF AddStart
<1> USE <1>0, <1>k, RegistryAssumption DEF TypeOK, AddStart, table,
     closeVars, events, Goto
<1>1. /\ PhaseMatchesPc' /\ ClosedRegistryIsEmpty' /\ StoppedAtMostOnce'
      /\ OneCloser'
  BY DEF IInv, PhaseMatchesPc, ClosedRegistryIsEmpty, StoppedAtMostOnce,
     OneCloser
<1>2. ReservationsAreOwned'
  BY DEF IInv, ReservationsAreOwned, Holding, key
<1>3. LiveRoutesAreRunning'
  BY DEF IInv, LiveRoutesAreRunning, ClosedRegistryIsEmpty,
     ReservationsAreOwned, Holding, key
<1>4. Custody'
  BY DEF IInv, Custody, PhaseMatchesPc, StoppedAtMostOnce, Early
<1>5. NoBackendLeaked'
  BY DEF IInv, NoBackendLeaked, Owned, Live
<1> QED
  BY <1>0, <1>1, <1>2, <1>3, <1>4, <1>5 DEF IInv

\* After a failed Start, Add deletes its own reservation.
LEMMA AddUnreserveStep ==
    ASSUME IInv, NEW c \in Calls, AddUnreserve(c)
    PROVE  IInv'
<1>0. TypeOK /\ TypeOK'
  BY AddUnreserveType DEF IInv
<1>k. req[c] \in Requests /\ key(c) \in Keys /\ req[c].op \in Ops
  BY <1>0, KeyType DEF AddUnreserve
<1> USE <1>0, <1>k, RegistryAssumption DEF TypeOK, AddUnreserve, closeVars,
     backends, events, Goto, Return
<1>1. /\ PhaseMatchesPc' /\ ReservationsAreOwned' /\ LiveRoutesAreRunning'
      /\ ClosedRegistryIsEmpty' /\ StoppedAtMostOnce' /\ Custody'
      /\ OneCloser'
  BY DEF IInv, PhaseMatchesPc, Custody, ReservationsAreOwned, Holding, key,
     LiveRoutesAreRunning, ClosedRegistryIsEmpty, StoppedAtMostOnce,
     OneCloser
<1>2. NoBackendLeaked'
  <2>1. routes[key(c)] \notin Calls
    BY DEF IInv, ReservationsAreOwned, ClosedRegistryIsEmpty, Holding
  <2>2. Live' = Live
    BY <2>1 DEF Live
  <2> QED
    BY <2>2 DEF IInv, NoBackendLeaked, Owned
<1> QED
  BY <1>0, <1>1, <1>2 DEF IInv

\* Publishing turns a reservation into a live route, or discards it.
LEMMA AddPublishStep ==
    ASSUME IInv, NEW c \in Calls, AddPublish(c)
    PROVE  IInv'
<1>0. TypeOK /\ TypeOK'
  BY AddPublishType DEF IInv
<1>k. req[c] \in Requests /\ key(c) \in Keys /\ req[c].op \in Ops
  BY <1>0, KeyType DEF AddPublish
<1> USE <1>0, <1>k, RegistryAssumption DEF TypeOK, AddPublish, closeVars,
     backends, events, Goto
<1>1. /\ PhaseMatchesPc' /\ ClosedRegistryIsEmpty' /\ StoppedAtMostOnce'
      /\ OneCloser'
  BY DEF IInv, PhaseMatchesPc, ClosedRegistryIsEmpty, StoppedAtMostOnce,
     OneCloser
<1>2. ReservationsAreOwned'
  BY DEF IInv, ReservationsAreOwned, Holding, key
<1>3. LiveRoutesAreRunning'
  <2>1. backend[c] = "up" /\ stops[c] = 0
    BY UnstoppedCount DEF IInv, PhaseMatchesPc
  <2>2. ASSUME NEW k \in Keys, routes'[k] \in Calls
        PROVE  /\ backend[routes'[k]] = "up" /\ stops[routes'[k]] = 0
               /\ key(routes'[k]) = k
    <3>1. CASE routes'[k] = c /\ k = key(c)
      BY <2>1, <3>1
    <3>2. CASE routes'[k] = routes[k]
      BY <2>2, <3>2 DEF IInv, LiveRoutesAreRunning
    <3> QED
      BY <2>2, <3>1, <3>2
  <2> QED
    BY <2>2 DEF LiveRoutesAreRunning, key
<1>4. Custody'
  BY DEF IInv, Custody, StoppedAtMostOnce, Early, key
<1>5. NoBackendLeaked'
  <2>1. routes[key(c)] \notin Calls
    BY DEF IInv, ReservationsAreOwned, ClosedRegistryIsEmpty, Holding
  <2>2. Live \subseteq Live'
    BY <2>1 DEF Live
  <2>3. c \in Live' \/ pc'[c] = "discard"
    BY DEF Live
  <2> QED
    BY <2>2, <2>3 DEF IInv, NoBackendLeaked, Owned
<1> QED
  BY <1>0, <1>1, <1>2, <1>3, <1>4, <1>5 DEF IInv

\* The backend of a discarded route is up and stopped here only.
LEMMA AddDiscardStep ==
    ASSUME IInv, NEW c \in Calls, AddDiscard(c)
    PROVE  IInv'
<1>0. TypeOK /\ TypeOK'
  BY AddDiscardType DEF IInv
<1>k. req[c] \in Requests /\ key(c) \in Keys /\ req[c].op \in Ops
  BY <1>0, KeyType DEF AddDiscard
<1> USE <1>0, <1>k, RegistryAssumption DEF TypeOK, AddDiscard, table,
     closeVars, backends, events, Goto, Return, CallStop
<1>1. /\ PhaseMatchesPc' /\ ClosedRegistryIsEmpty' /\ OneCloser'
  BY DEF IInv, PhaseMatchesPc, ClosedRegistryIsEmpty, OneCloser
<1>2. ReservationsAreOwned'
  <2>1. CASE req[c].stopper
    BY <2>1 DEF IInv, ReservationsAreOwned, Holding, key
  <2>2. CASE ~req[c].stopper
    BY <2>2 DEF IInv, ReservationsAreOwned, Holding, key
  <2> QED
    BY <2>1, <2>2
<1>3. LiveRoutesAreRunning'
  BY DEF IInv, LiveRoutesAreRunning, Custody, Early, key
<1>4. StoppedAtMostOnce'
  <2>1. c \in Calls /\ backend[c] = "up"
    BY DEF IInv, PhaseMatchesPc
  <2>2. stops[c] = 0
    BY <2>1, UnstoppedCount
  <2>3. CASE req[c].stopper
    BY <2>1, <2>2, <2>3 DEF IInv, StoppedAtMostOnce
  <2>4. CASE ~req[c].stopper
    BY <2>4 DEF IInv, StoppedAtMostOnce
  <2> QED
    BY <2>3, <2>4
<1>5. Custody'
  BY DEF IInv, Custody, PhaseMatchesPc, StoppedAtMostOnce, Early, key
<1>6. NoBackendLeaked'
  <2>1. CASE req[c].stopper
    BY <2>1 DEF IInv, NoBackendLeaked, Owned, Live, PhaseMatchesPc
  <2>2. CASE ~req[c].stopper
    BY <2>2 DEF IInv, NoBackendLeaked, Owned, Live
  <2> QED
    BY <2>1, <2>2
<1> QED
  BY <1>0, <1>1, <1>2, <1>3, <1>4, <1>5, <1>6 DEF IInv

\* EventRouteAdded is emitted outside the lock.
LEMMA AddEmitStep ==
    ASSUME IInv, NEW c \in Calls, AddEmit(c)
    PROVE  IInv'
<1>0. TypeOK /\ TypeOK'
  BY AddEmitType DEF IInv
<1>k. req[c] \in Requests /\ key(c) \in Keys /\ req[c].op \in Ops
  BY <1>0, KeyType DEF AddEmit
<1> USE <1>0, <1>k, RegistryAssumption DEF TypeOK, AddEmit, table,
     closeVars, backends, Goto, Return
<1>1. /\ PhaseMatchesPc' /\ ReservationsAreOwned' /\ LiveRoutesAreRunning'
      /\ ClosedRegistryIsEmpty' /\ StoppedAtMostOnce' /\ Custody'
      /\ OneCloser' /\ NoBackendLeaked'
  BY DEF IInv, PhaseMatchesPc, Custody, Early, ReservationsAreOwned, Holding,
     key, LiveRoutesAreRunning, ClosedRegistryIsEmpty, StoppedAtMostOnce,
     OneCloser, NoBackendLeaked, Owned, Live
<1> QED
  BY <1>0, <1>1 DEF IInv

\* The readiness wait leaves the table alone.
LEMMA AddReadyWaitStep ==
    ASSUME IInv, NEW c \in Calls, AddReadyWait(c)
    PROVE  IInv'
<1>0. TypeOK /\ TypeOK'
  BY AddReadyWaitType DEF IInv
<1>k. req[c] \in Requests /\ key(c) \in Keys /\ req[c].op \in Ops
  BY <1>0, KeyType DEF AddReadyWait
<1> USE <1>0, <1>k, RegistryAssumption DEF TypeOK, AddReadyWait, table,
     closeVars, backends, events, Goto, Return
<1>1. /\ PhaseMatchesPc' /\ ClosedRegistryIsEmpty' /\ StoppedAtMostOnce'
      /\ OneCloser'
  BY DEF IInv, PhaseMatchesPc, ClosedRegistryIsEmpty, StoppedAtMostOnce,
     OneCloser
<1>2. ReservationsAreOwned'
  BY DEF IInv, ReservationsAreOwned, Holding, key
<1>3. LiveRoutesAreRunning'
  BY DEF IInv, LiveRoutesAreRunning, key
<1>4. Custody'
  BY DEF IInv, Custody, Early
<1>5. NoBackendLeaked'
  BY DEF IInv, NoBackendLeaked, Owned, Live
<1> QED
  BY <1>0, <1>1, <1>2, <1>3, <1>4, <1>5 DEF IInv

\* Removing hands the route from the map to this call.
LEMMA RemoveTakeStep ==
    ASSUME IInv, NEW c \in Calls, RemoveTake(c)
    PROVE  IInv'
<1>0. TypeOK /\ TypeOK'
  BY RemoveTakeType DEF IInv
<1>k. req[c] \in Requests /\ key(c) \in Keys /\ req[c].op \in Ops
  BY <1>0, KeyType DEF RemoveTake
<1> USE <1>0, <1>k, RegistryAssumption DEF TypeOK, RemoveTake, closeVars,
     backends, events, Goto, Return
<1>1. /\ PhaseMatchesPc' /\ ClosedRegistryIsEmpty' /\ StoppedAtMostOnce'
      /\ OneCloser'
  BY DEF IInv, PhaseMatchesPc, ClosedRegistryIsEmpty, StoppedAtMostOnce,
     OneCloser
<1>2. ReservationsAreOwned'
  <2>1. CASE routes[key(c)] \in Calls
    BY <2>1 DEF IInv, ReservationsAreOwned, Holding, key
  <2>2. CASE routes[key(c)] \notin Calls
    BY <2>2 DEF IInv, ReservationsAreOwned, Holding, key
  <2> QED
    BY <2>1, <2>2
<1>3. LiveRoutesAreRunning'
  BY DEF IInv, LiveRoutesAreRunning, key
<1>4. Custody'
  <2>1. CASE routes[key(c)] \in Calls
    <3>1. /\ rt' = [rt EXCEPT ![c] = routes[key(c)]]
          /\ routes' = [routes EXCEPT ![key(c)] = Absent]
          /\ pc' = [pc EXCEPT ![c] = "removed"]
          /\ UNCHANGED <<backend, snapshot>>
      BY <2>1
    <3>2. \A k \in Keys : routes'[k] # routes[key(c)]
      BY <2>1, <3>1 DEF IInv, LiveRoutesAreRunning
    <3>3. \A d \in Calls : pc[d] = "removed" => rt[d] # routes[key(c)]
      BY DEF IInv, Custody
    <3>4. /\ backend[routes[key(c)]] = "up"
          /\ routes[key(c)] \notin snapshot
          /\ pc[routes[key(c)]] \notin Early
      BY <2>1 DEF IInv, LiveRoutesAreRunning, Custody
    <3>5. \A r \in Calls : pc[r] \notin Early => pc'[r] \notin Early
      BY <3>1 DEF Early
    <3> HIDE DEF RemoveTake, key
    <3> QED
      BY <2>1, <3>1, <3>2, <3>3, <3>4, <3>5 DEF IInv, Custody
  <2>2. CASE routes[key(c)] \notin Calls
    BY <2>2 DEF IInv, Custody, Early
  <2> QED
    BY <2>1, <2>2
<1>5. NoBackendLeaked'
  BY DEF IInv, NoBackendLeaked, Owned, Live, PhaseMatchesPc
<1> QED
  BY <1>0, <1>1, <1>2, <1>3, <1>4, <1>5 DEF IInv

\* The backend of a removed route is up and stopped here only.
LEMMA RemoveStopStep ==
    ASSUME IInv, NEW c \in Calls, RemoveStop(c)
    PROVE  IInv'
<1>0. TypeOK /\ TypeOK'
  BY RemoveStopType DEF IInv
<1>k. req[c] \in Requests /\ key(c) \in Keys /\ req[c].op \in Ops
  BY <1>0, KeyType DEF RemoveStop
<1> USE <1>0, <1>k, RegistryAssumption DEF TypeOK, RemoveStop, table,
     closeVars, backends, Goto, Return, CallStop
<1>1. /\ PhaseMatchesPc' /\ ClosedRegistryIsEmpty' /\ OneCloser'
  BY DEF IInv, PhaseMatchesPc, Custody, Early, ClosedRegistryIsEmpty,
     OneCloser
<1>2. ReservationsAreOwned'
  BY DEF IInv, ReservationsAreOwned, Holding, key
<1>3. LiveRoutesAreRunning'
  BY DEF IInv, LiveRoutesAreRunning, Custody, key
<1>4. StoppedAtMostOnce'
  <2>1. rt[c] \in Calls /\ backend[rt[c]] = "up"
    BY DEF IInv, Custody
  <2>2. stops[rt[c]] = 0
    BY <2>1, UnstoppedCount
  <2>3. CASE req[rt[c]].stopper
    BY <2>1, <2>2, <2>3 DEF IInv, StoppedAtMostOnce
  <2>4. CASE ~req[rt[c]].stopper
    BY <2>4 DEF IInv, StoppedAtMostOnce
  <2> QED
    BY <2>3, <2>4
<1>5. Custody'
  BY DEF IInv, Custody, Early, key
<1>6. NoBackendLeaked'
  BY DEF IInv, NoBackendLeaked, Owned, Live
<1> QED
  BY <1>0, <1>1, <1>2, <1>3, <1>4, <1>5, <1>6 DEF IInv

\* Nobody else waits for the Stop that returns.
LEMMA StopReturnStep ==
    ASSUME IInv, NEW c \in Calls, StopReturn(c)
    PROVE  IInv'
<1>0. TypeOK /\ TypeOK'
  BY StopReturnType DEF IInv
<1>k. req[c] \in Requests /\ key(c) \in Keys /\ req[c].op \in Ops
  BY <1>0, KeyType DEF StopReturn
<1>s. /\ pc[c] = "stopping" /\ pc' = [pc EXCEPT ![c] = pc'[c]]
      /\ pc'[c] \in {"ret", "drain"}
      /\ pc'[c] = "drain" => req[c].op = "Close"
      /\ backend' = [backend EXCEPT ![rt[c]] = "stopped"]
      /\ UNCHANGED <<req, rt, routes, closed, once, snapshot, stops>>
  BY <1>0 DEF StopReturn, table, Goto, Return, TypeOK
<1> USE <1>0, <1>k, <1>s, RegistryAssumption DEF TypeOK
<1>1. /\ PhaseMatchesPc' /\ ClosedRegistryIsEmpty' /\ StoppedAtMostOnce'
      /\ OneCloser'
  BY DEF IInv, PhaseMatchesPc, Custody, ClosedRegistryIsEmpty,
     StoppedAtMostOnce, OneCloser
<1>2. ReservationsAreOwned'
  BY DEF IInv, ReservationsAreOwned, Holding, key
<1>3. LiveRoutesAreRunning'
  BY DEF IInv, LiveRoutesAreRunning, Custody, key
<1>4. Custody'
  BY DEF IInv, Custody, Early, key
<1>5. NoBackendLeaked'
  BY DEF IInv, NoBackendLeaked, Owned, Live
<1> QED
  BY <1>0, <1>1, <1>2, <1>3, <1>4, <1>5 DEF IInv

\* A lookup only reads.
LEMMA ResolveStep ==
    ASSUME IInv, NEW c \in Calls, Resolve(c)
    PROVE  IInv'
<1>0. TypeOK /\ TypeOK'
  BY ResolveType DEF IInv
<1>k. req[c] \in Requests /\ key(c) \in Keys /\ req[c].op \in Ops
  BY <1>0, KeyType DEF Resolve
<1>s. /\ pc[c] = "resolve" /\ pc' = [pc EXCEPT ![c] = "ret"]
      /\ \A d \in Calls \ {c} : rt'[d] = rt[d]
      /\ UNCHANGED <<req, routes, closed, once, snapshot, backend, stops>>
  BY <1>0 DEF Resolve, table, closeVars, backends, Goto, Return, TypeOK
<1> USE <1>0, <1>k, <1>s, RegistryAssumption DEF TypeOK
<1>1. /\ PhaseMatchesPc' /\ ReservationsAreOwned' /\ LiveRoutesAreRunning'
      /\ ClosedRegistryIsEmpty' /\ StoppedAtMostOnce' /\ Custody'
      /\ OneCloser' /\ NoBackendLeaked'
  BY DEF IInv, PhaseMatchesPc, Custody, Early, ReservationsAreOwned, Holding,
     key, LiveRoutesAreRunning, ClosedRegistryIsEmpty, StoppedAtMostOnce,
     OneCloser, NoBackendLeaked, Owned, Live
<1> QED
  BY <1>0, <1>1 DEF IInv

\* closeOnce lets one Close in.
LEMMA CloseOnceStep ==
    ASSUME IInv, NEW c \in Calls, CloseOnce(c)
    PROVE  IInv'
<1>0. TypeOK /\ TypeOK'
  BY CloseOnceType DEF IInv
<1>k. req[c] \in Requests /\ key(c) \in Keys /\ req[c].op \in Ops
  BY <1>0, KeyType DEF CloseOnce
<1> USE <1>0, <1>k, RegistryAssumption DEF TypeOK, CloseOnce, table,
     backends, events, Goto, Return
<1>1. /\ PhaseMatchesPc' /\ ClosedRegistryIsEmpty' /\ StoppedAtMostOnce'
      /\ OneCloser'
  BY DEF IInv, PhaseMatchesPc, ClosedRegistryIsEmpty, StoppedAtMostOnce,
     OneCloser
<1>2. ReservationsAreOwned'
  BY DEF IInv, ReservationsAreOwned, Holding, key
<1>3. LiveRoutesAreRunning'
  BY DEF IInv, LiveRoutesAreRunning, key
<1>4. Custody'
  BY DEF IInv, Custody, Early
<1>5. NoBackendLeaked'
  BY DEF IInv, NoBackendLeaked, Owned, Live
<1> QED
  BY <1>0, <1>1, <1>2, <1>3, <1>4, <1>5 DEF IInv

\* Close takes every live route out of the map, into the snapshot.
LEMMA CloseSwapStep ==
    ASSUME IInv, NEW c \in Calls, CloseSwap(c)
    PROVE  IInv'
<1>0. TypeOK /\ TypeOK'
  BY CloseSwapType DEF IInv
<1>k. req[c] \in Requests /\ key(c) \in Keys /\ req[c].op \in Ops
  BY <1>0, KeyType DEF CloseSwap
<1> USE <1>0, <1>k, RegistryAssumption DEF TypeOK, CloseSwap, backends,
     events, Goto
<1>1. /\ PhaseMatchesPc' /\ ReservationsAreOwned' /\ LiveRoutesAreRunning'
      /\ ClosedRegistryIsEmpty' /\ StoppedAtMostOnce' /\ Custody'
      /\ OneCloser' /\ NoBackendLeaked'
  BY DEF IInv, PhaseMatchesPc, Custody, Early, ReservationsAreOwned,
     LiveRoutesAreRunning, ClosedRegistryIsEmpty, StoppedAtMostOnce,
     OneCloser, NoBackendLeaked, Owned, Live
<1> QED
  BY <1>0, <1>1 DEF IInv

\* Closing the done channel.
LEMMA CloseSignalStep ==
    ASSUME IInv, NEW c \in Calls, CloseSignal(c)
    PROVE  IInv'
<1>0. TypeOK /\ TypeOK'
  BY CloseSignalType DEF IInv
<1>k. req[c] \in Requests /\ key(c) \in Keys /\ req[c].op \in Ops
  BY <1>0, KeyType DEF CloseSignal
<1> USE <1>0, <1>k, RegistryAssumption DEF TypeOK, CloseSignal, table,
     backends, events, Goto
<1>1. /\ PhaseMatchesPc' /\ ReservationsAreOwned' /\ LiveRoutesAreRunning'
      /\ ClosedRegistryIsEmpty' /\ StoppedAtMostOnce' /\ Custody'
      /\ OneCloser' /\ NoBackendLeaked'
  BY DEF IInv, PhaseMatchesPc, Custody, Early, ReservationsAreOwned,
     LiveRoutesAreRunning, ClosedRegistryIsEmpty, StoppedAtMostOnce,
     OneCloser, NoBackendLeaked, Owned, Live
<1> QED
  BY <1>0, <1>1 DEF IInv

\* A route of the snapshot is stopped once and leaves it.
LEMMA CloseStopNextStep ==
    ASSUME IInv, NEW c \in Calls, CloseStopNext(c)
    PROVE  IInv'
<1>0. TypeOK /\ TypeOK'
  BY CloseStopNextType DEF IInv
<1>k. req[c] \in Requests /\ key(c) \in Keys /\ req[c].op \in Ops
  BY <1>0, KeyType DEF CloseStopNext
<1> USE <1>0, <1>k, RegistryAssumption DEF TypeOK, CloseStopNext, table,
     backends, events, Goto, CallStop
<1>1. /\ PhaseMatchesPc' /\ ClosedRegistryIsEmpty' /\ OneCloser'
  BY DEF IInv, PhaseMatchesPc, Custody, Early, ClosedRegistryIsEmpty,
     OneCloser
<1>2. ReservationsAreOwned'
  BY DEF IInv, ReservationsAreOwned, Holding, key
<1>3. LiveRoutesAreRunning'
  BY DEF IInv, LiveRoutesAreRunning, ClosedRegistryIsEmpty, OneCloser
<1>4. StoppedAtMostOnce'
  <2>1. PICK r \in snapshot :
          \/ /\ stops' = [stops EXCEPT ![r] = @ + 1]
             /\ backend' = [backend EXCEPT ![r] = "stopping"]
          \/ UNCHANGED <<stops, backend>>
    OBVIOUS
  <2>2. r \in Calls /\ backend[r] = "up"
    BY DEF IInv, Custody
  <2>3. stops[r] = 0
    BY <2>2, UnstoppedCount
  <2> QED
    BY <2>1, <2>2, <2>3 DEF IInv, StoppedAtMostOnce
<1>5. Custody'
  <2>1. PICK r \in snapshot :
          /\ snapshot' = snapshot \ {r}
          /\ \/ /\ rt' = [rt EXCEPT ![c] = r]
                /\ backend' = [backend EXCEPT ![r] = "stopping"]
                /\ pc' = [pc EXCEPT ![c] = "stopping"]
             \/ UNCHANGED <<rt, pc, backend>>
    OBVIOUS
  <2>2. /\ r \in Calls /\ backend[r] = "up" /\ UNCHANGED routes
        /\ pc[c] = "drain" /\ \A k \in Keys : routes[k] \notin Calls
    BY DEF IInv, Custody, OneCloser, ClosedRegistryIsEmpty
  <2>3. /\ \A d \in Calls : pc[d] = "removed" =>
              /\ rt[d] \in Calls /\ rt[d] \notin snapshot
              /\ backend[rt[d]] = "up" /\ pc[rt[d]] \notin Early
              /\ \A k \in Keys : routes[k] # rt[d]
        /\ \A d \in Calls : pc[d] = "stopping" =>
              rt[d] \in Calls /\ backend[rt[d]] = "stopping"
        /\ \A d, e \in Calls :
              /\ pc[d] \in {"removed", "stopping"} /\ pc[e] = pc[d]
              /\ rt[d] = rt[e]
              => d = e
        /\ \A s \in snapshot : backend[s] = "up" /\ pc[s] \notin Early
    BY DEF IInv, Custody
  <2>4. CASE UNCHANGED <<rt, pc, backend>>
    BY <2>1, <2>2, <2>3, <2>4 DEF Custody
  <2>5. CASE /\ rt' = [rt EXCEPT ![c] = r]
             /\ backend' = [backend EXCEPT ![r] = "stopping"]
             /\ pc' = [pc EXCEPT ![c] = "stopping"]
    BY <2>1, <2>2, <2>3, <2>5 DEF Custody, Early
  <2> QED
    BY <2>1, <2>4, <2>5
<1>6. NoBackendLeaked'
  BY DEF IInv, NoBackendLeaked, Owned, Live, PhaseMatchesPc
<1> QED
  BY <1>0, <1>1, <1>2, <1>3, <1>4, <1>5, <1>6 DEF IInv

\* Close returns once the snapshot is empty.
LEMMA CloseReturnStep ==
    ASSUME IInv, NEW c \in Calls, CloseReturn(c)
    PROVE  IInv'
<1>0. TypeOK /\ TypeOK'
  BY CloseReturnType DEF IInv
<1>k. req[c] \in Requests /\ key(c) \in Keys /\ req[c].op \in Ops
  BY <1>0, KeyType DEF CloseReturn
<1> USE <1>0, <1>k, RegistryAssumption DEF TypeOK, CloseReturn, table,
     backends, events, Goto, Return
<1>1. /\ PhaseMatchesPc' /\ ReservationsAreOwned' /\ LiveRoutesAreRunning'
      /\ ClosedRegistryIsEmpty' /\ StoppedAtMostOnce' /\ Custody'
      /\ OneCloser' /\ NoBackendLeaked'
  BY DEF IInv, PhaseMatchesPc, Custody, Early, ReservationsAreOwned,
     LiveRoutesAreRunning, ClosedRegistryIsEmpty, StoppedAtMostOnce,
     OneCloser, NoBackendLeaked, Owned, Live
<1> QED
  BY <1>0, <1>1 DEF IInv

-----------------------------------------------------------------------------
(* Init, Next and the theorems                                             *)

\* A new registry satisfies the invariant.
LEMMA InitIInv == Init => IInv
<1> SUFFICES ASSUME Init PROVE IInv
  OBVIOUS
<1> USE RegistryAssumption DEF Init
<1>1. TypeOK
  BY DEF TypeOK, PCs, Results, Phases
<1>2. PhaseMatchesPc /\ ReservationsAreOwned /\ ClosedRegistryIsEmpty
  BY DEF PhaseMatchesPc, ReservationsAreOwned, ClosedRegistryIsEmpty, Holding
<1>3. LiveRoutesAreRunning
  BY DEF LiveRoutesAreRunning
<1>4. StoppedAtMostOnce
  BY DEF StoppedAtMostOnce
<1>5. Custody /\ OneCloser
  BY DEF Custody, OneCloser
<1>6. NoBackendLeaked
  BY DEF NoBackendLeaked
<1> QED
  BY <1>1, <1>2, <1>3, <1>4, <1>5, <1>6 DEF IInv

\* No step breaks the invariant.
LEMMA NextIInv == IInv /\ [Next]_vars => IInv'
<1> SUFFICES ASSUME IInv, [Next]_vars PROVE IInv'
  OBVIOUS
<1>1. ASSUME NEW c \in Calls, AddBegin(c) \/ AddInvalid(c) \/ Begin(c)
      PROVE  IInv'
  BY <1>1, AddBeginStep, AddInvalidStep, BeginStep
<1>2. ASSUME NEW c \in Calls, Step(c)
      PROVE  IInv'
  <2>1. CASE \/ AddReserve(c) \/ AddStart(c) \/ AddUnreserve(c)
             \/ AddPublish(c) \/ AddDiscard(c) \/ AddEmit(c)
             \/ AddReadyWait(c)
    BY <2>1, AddReserveStep, AddStartStep, AddUnreserveStep, AddPublishStep,
       AddDiscardStep, AddEmitStep, AddReadyWaitStep
  <2>2. CASE \/ RemoveTake(c) \/ RemoveStop(c) \/ StopReturn(c) \/ Resolve(c)
    BY <2>2, RemoveTakeStep, RemoveStopStep, StopReturnStep, ResolveStep
  <2>3. CASE \/ CloseOnce(c) \/ CloseSwap(c) \/ CloseSignal(c)
             \/ CloseStopNext(c) \/ CloseReturn(c)
    BY <2>3, CloseOnceStep, CloseSwapStep, CloseSignalStep,
       CloseStopNextStep, CloseReturnStep
  <2> QED
    BY <1>2, <2>1, <2>2, <2>3 DEF Step
<1>3. CASE UNCHANGED vars
  BY <1>3 DEF vars, IInv, TypeOK, PhaseMatchesPc, ReservationsAreOwned,
     LiveRoutesAreRunning, ClosedRegistryIsEmpty, StoppedAtMostOnce, Custody,
     OneCloser, NoBackendLeaked, Holding, Owned, Live, key
<1> QED
  BY <1>1, <1>2, <1>3 DEF Next, Terminated

\* The invariant holds in every state of every execution.
THEOREM Invariance == Spec => []IInv
  BY InitIInv, NextIInv, PTL DEF Spec

\* Type correctness of the registry and its calls.
THEOREM TypeCorrect == Spec => []TypeOK
<1>1. IInv => TypeOK
  BY DEF IInv
<1> QED
  BY <1>1, Invariance, PTL

\* A reserved name belongs to exactly one Add in progress, and is given back:
\* the two critical sections of Add fit together however calls interleave.
THEOREM ReservationTheorem == Spec => []ReservationsAreOwned
<1>1. IInv => ReservationsAreOwned
  BY DEF IInv
<1> QED
  BY <1>1, Invariance, PTL

\* A lookup returns only routes whose backend was started and not stopped.
THEOREM RunningTheorem == Spec => []LiveRoutesAreRunning
<1>1. IInv => LiveRoutesAreRunning
  BY DEF IInv
<1> QED
  BY <1>1, Invariance, PTL

\* A closed registry is empty and stays empty.
THEOREM ClosedTheorem == Spec => []ClosedRegistryIsEmpty
<1>1. IInv => ClosedRegistryIsEmpty
  BY DEF IInv
<1> QED
  BY <1>1, Invariance, PTL

\* Remove, AddReady, a late Add and Close never stop one backend twice.
THEOREM StopTheorem == Spec => []StoppedAtMostOnce
<1>1. IInv => StoppedAtMostOnce
  BY DEF IInv
<1> QED
  BY <1>1, Invariance, PTL

\* Some call, or the map, is always responsible for a running backend.
THEOREM NoLeakTheorem == Spec => []NoBackendLeaked
<1>1. IInv => NoBackendLeaked
  BY DEF IInv
<1> QED
  BY <1>1, Invariance, PTL

-----------------------------------------------------------------------------
(* What calls report, and what observers hear                              *)

\* A route is in the table only while its Add has not failed: its call is still
\* inside AddReady, or has returned it.
OutcomeMatchesTable ==
    \A c \in Calls :
        /\ pc[c] # "ret" => result[c] = "none"
        /\ c \in Live =>
              \/ pc[c] \in {"added", "ready", "remove"}
              \/ pc[c] = "ret" /\ result[c] = "ok"

\* The Add of r has published it, whether it has emitted its event or not.
Published(r) == r \in announced \/ pc[r] = "added"

\* The events lag behind the table by what is on its way: EventRouteAdded of a
\* call in "added", EventRouteRemoved of a call in "removed".
EventsFollowTable ==
    /\ \A r \in announced : pc[r] \notin Early \cup {"added"}
    /\ \A r \in withdrawn : Published(r)
    /\ \A c \in Calls : pc[c] = "removed" => Published(rt[c])
    /\ \A r \in Live : Published(r) /\ r \notin withdrawn
    /\ ~closed => \A r \in Calls :
          Published(r) /\ r \notin withdrawn =>
             r \in Live \/ \E c \in Calls : pc[c] = "removed" /\ rt[c] = r

Reports == OutcomeMatchesTable /\ EventsFollowTable

\* A new registry has reported nothing.
LEMMA InitReports == Init => Reports
  BY RegistryAssumption
     DEF Init, Reports, OutcomeMatchesTable, EventsFollowTable, Live, Published

\* The routes of the map after a step that only moves its call.
LEMMA LiveUnchanged ==
    ASSUME UNCHANGED routes
    PROVE  Live' = Live
  BY DEF Live

\* No step makes a report wrong.
LEMMA NextReports ==
    ASSUME IInv, Reports, [Next]_vars
    PROVE  Reports'
<1> USE RegistryAssumption
<1>1. /\ TypeOK /\ Live \subseteq Calls
      /\ \A r \in Live : pc[r] \notin Early
      /\ \A c \in Calls : pc[c] = "removed" =>
            rt[c] \in Calls /\ rt[c] \notin Live
  BY DEF IInv, Live, Custody
<1>2. ASSUME NEW c \in Calls, AddBegin(c) PROVE Reports'
  <2>1. Live' = Live
    BY <1>2, LiveUnchanged DEF AddBegin, table
  <2>2. OutcomeMatchesTable'
    BY <1>1, <1>2, <2>1
       DEF AddBegin, table, closeVars, backends, events, Goto, TypeOK,
          Reports, OutcomeMatchesTable, Early
  <2>3. EventsFollowTable'
    BY <1>1, <1>2, <2>1
       DEF AddBegin, table, closeVars, backends, events, Goto, TypeOK,
          Reports, OutcomeMatchesTable, EventsFollowTable, Published, Early
  <2> QED
    BY <2>2, <2>3 DEF Reports
<1>3. ASSUME NEW c \in Calls, AddInvalid(c) PROVE Reports'
  <2>1. Live' = Live
    BY <1>3, LiveUnchanged DEF AddInvalid, table
  <2>2. OutcomeMatchesTable'
    BY <1>1, <1>3, <2>1
       DEF AddInvalid, table, closeVars, backends, events, Goto, Return,
          TypeOK, Reports, OutcomeMatchesTable, Early
  <2>3. EventsFollowTable'
    BY <1>1, <1>3, <2>1
       DEF AddInvalid, table, closeVars, backends, events, Goto, Return,
          TypeOK, Reports, OutcomeMatchesTable, EventsFollowTable, Published,
          Early
  <2> QED
    BY <2>2, <2>3 DEF Reports
<1>4. ASSUME NEW c \in Calls, Begin(c) PROVE Reports'
  <2>1. Live' = Live
    BY <1>4, LiveUnchanged DEF Begin, table
  <2>2. OutcomeMatchesTable'
    BY <1>1, <1>4, <2>1
       DEF Begin, table, closeVars, backends, events, Goto, TypeOK, Reports,
          OutcomeMatchesTable, Early
  <2>3. EventsFollowTable'
    BY <1>1, <1>4, <2>1
       DEF Begin, table, closeVars, backends, events, Goto, TypeOK, Reports,
          OutcomeMatchesTable, EventsFollowTable, Published, Early
  <2> QED
    BY <2>2, <2>3 DEF Reports
<1>5. ASSUME NEW c \in Calls, AddReserve(c) PROVE Reports'
  <2>1. key(c) \in Keys
    BY <1>1, <1>5, KeyType DEF AddReserve
  <2>2. Live' = Live
    BY <1>1, <1>5, <2>1
       DEF AddReserve, TypeOK, Live, Goto, Return
  <2>3. OutcomeMatchesTable'
    BY <1>1, <1>5, <2>2
       DEF AddReserve, closeVars, backends, events, Goto, Return, TypeOK,
          Reports, OutcomeMatchesTable, Early
  <2>4. EventsFollowTable'
    BY <1>1, <1>5, <2>2
       DEF AddReserve, closeVars, backends, events, Goto, Return, TypeOK,
          Reports, OutcomeMatchesTable, EventsFollowTable, Published, Early
  <2> QED
    BY <2>3, <2>4 DEF Reports
<1>6. ASSUME NEW c \in Calls, AddStart(c) PROVE Reports'
  <2>1. Live' = Live
    BY <1>6, LiveUnchanged DEF AddStart, table
  <2>2. OutcomeMatchesTable'
    BY <1>1, <1>6, <2>1
       DEF AddStart, table, closeVars, events, Goto, TypeOK, Reports,
          OutcomeMatchesTable, Early
  <2>3. EventsFollowTable'
    BY <1>1, <1>6, <2>1
       DEF AddStart, table, closeVars, events, Goto, TypeOK, Reports,
          OutcomeMatchesTable, EventsFollowTable, Published, Early
  <2> QED
    BY <2>2, <2>3 DEF Reports
<1>7. ASSUME NEW c \in Calls, AddUnreserve(c) PROVE Reports'
  <2>1. key(c) \in Keys
    BY <1>1, <1>7, KeyType DEF AddUnreserve
  <2>2. Live' = Live
    BY <1>1, <1>7, <2>1
       DEF AddUnreserve, TypeOK, Live, IInv, ReservationsAreOwned, Holding,
          ClosedRegistryIsEmpty
  <2>3. OutcomeMatchesTable'
    BY <1>1, <1>7, <2>2
       DEF AddUnreserve, closeVars, backends, events, Goto, Return, TypeOK,
          Reports, OutcomeMatchesTable, Early
  <2>4. EventsFollowTable'
    BY <1>1, <1>7, <2>2
       DEF AddUnreserve, closeVars, backends, events, Goto, Return, TypeOK,
          Reports, OutcomeMatchesTable, EventsFollowTable, Published, Early
  <2> QED
    BY <2>3, <2>4 DEF Reports
<1>8. ASSUME NEW c \in Calls, AddPublish(c) PROVE Reports'
  <2>1. key(c) \in Keys
    BY <1>1, <1>8, KeyType DEF AddPublish
  <2>2. /\ closed => Live' = Live /\ pc'[c] = "discard"
        /\ ~closed => Live' = Live \cup {c} /\ pc'[c] = "added"
    BY <1>1, <1>8, <2>1
       DEF AddPublish, Goto, TypeOK, Live, IInv, ReservationsAreOwned,
          Holding, ClosedRegistryIsEmpty
  <2>3. OutcomeMatchesTable'
    BY <1>1, <1>8, <2>2
       DEF AddPublish, closeVars, backends, events, Goto, TypeOK, Reports,
          OutcomeMatchesTable, Early
  <2>4. EventsFollowTable'
    BY <1>1, <1>8, <2>2
       DEF AddPublish, closeVars, backends, events, Goto, TypeOK, Reports,
          OutcomeMatchesTable, EventsFollowTable, Published, Early
  <2> QED
    BY <2>3, <2>4 DEF Reports
<1>9. ASSUME NEW c \in Calls, AddDiscard(c) PROVE Reports'
  <2>1. Live' = Live
    BY <1>9, LiveUnchanged DEF AddDiscard, table
  <2>2. OutcomeMatchesTable'
    BY <1>1, <1>9, <2>1
       DEF AddDiscard, table, closeVars, backends, events, Goto, Return,
          CallStop, TypeOK, Reports, OutcomeMatchesTable, Early
  <2>3. EventsFollowTable'
    BY <1>1, <1>9, <2>1
       DEF AddDiscard, table, closeVars, backends, events, Goto, Return,
          CallStop, TypeOK, Reports, OutcomeMatchesTable, EventsFollowTable,
          Published, Early
  <2> QED
    BY <2>2, <2>3 DEF Reports
<1>10. ASSUME NEW c \in Calls, AddEmit(c) PROVE Reports'
  <2>1. Live' = Live
    BY <1>10, LiveUnchanged DEF AddEmit, table
  <2>2. OutcomeMatchesTable'
    BY <1>1, <1>10, <2>1
       DEF AddEmit, table, closeVars, backends, Goto, Return, TypeOK, Reports,
          OutcomeMatchesTable, Early
  <2>3. EventsFollowTable'
    BY <1>1, <1>10, <2>1
       DEF AddEmit, table, closeVars, backends, Goto, Return, TypeOK, Reports,
          OutcomeMatchesTable, EventsFollowTable, Published, Early
  <2> QED
    BY <2>2, <2>3 DEF Reports
<1>11. ASSUME NEW c \in Calls, AddReadyWait(c) PROVE Reports'
  <2>1. Live' = Live
    BY <1>11, LiveUnchanged DEF AddReadyWait, table
  <2>2. OutcomeMatchesTable'
    BY <1>1, <1>11, <2>1
       DEF AddReadyWait, table, closeVars, backends, events, Goto, Return,
          TypeOK, Reports, OutcomeMatchesTable, Early
  <2>3. EventsFollowTable'
    BY <1>1, <1>11, <2>1
       DEF AddReadyWait, table, closeVars, backends, events, Goto, Return,
          TypeOK, Reports, OutcomeMatchesTable, EventsFollowTable, Published,
          Early
  <2> QED
    BY <2>2, <2>3 DEF Reports
<1>12. ASSUME NEW c \in Calls, RemoveTake(c) PROVE Reports'
  <2>1. key(c) \in Keys
    BY <1>1, <1>12, KeyType DEF RemoveTake
  <2>2. /\ routes[key(c)] \in Calls =>
              /\ routes[key(c)] \in Live /\ Live' = Live \ {routes[key(c)]}
        /\ routes[key(c)] \notin Calls => Live' = Live
    BY <1>1, <1>12, <2>1
       DEF RemoveTake, TypeOK, Live, IInv, LiveRoutesAreRunning
  <2>3. c \in Live => routes[key(c)] = c
    BY <1>1 DEF Live, TypeOK, IInv, LiveRoutesAreRunning
  <2>4. OutcomeMatchesTable'
    BY <1>1, <1>12, <2>2, <2>3
       DEF RemoveTake, closeVars, backends, events, Goto, Return, TypeOK,
          Reports, OutcomeMatchesTable, Early
  <2>5. EventsFollowTable'
    BY <1>1, <1>12, <2>2
       DEF RemoveTake, closeVars, backends, events, Goto, Return, TypeOK,
          Reports, OutcomeMatchesTable, EventsFollowTable, Published, Early
  <2> QED
    BY <2>4, <2>5 DEF Reports
<1>13. ASSUME NEW c \in Calls, RemoveStop(c) PROVE Reports'
  <2>1. Live' = Live
    BY <1>13, LiveUnchanged DEF RemoveStop, table
  <2>2. OutcomeMatchesTable'
    BY <1>1, <1>13, <2>1
       DEF RemoveStop, table, closeVars, backends, Goto, Return, CallStop,
          TypeOK, Reports, OutcomeMatchesTable, Early
  <2>3. EventsFollowTable'
    BY <1>1, <1>13, <2>1
       DEF RemoveStop, table, closeVars, backends, Goto, Return, CallStop,
          TypeOK, Reports, OutcomeMatchesTable, EventsFollowTable, Published,
          Early
  <2> QED
    BY <2>2, <2>3 DEF Reports
<1>14. ASSUME NEW c \in Calls, StopReturn(c) PROVE Reports'
  <2>1. Live' = Live
    BY <1>14, LiveUnchanged DEF StopReturn, table
  <2>2. OutcomeMatchesTable'
    BY <1>1, <1>14, <2>1
       DEF StopReturn, table, events, Goto, Return, TypeOK, Reports,
          OutcomeMatchesTable, Early
  <2>3. \/ pc' = [pc EXCEPT ![c] = "ret"]
        \/ pc' = [pc EXCEPT ![c] = "drain"]
    BY <1>14 DEF StopReturn, Goto, Return
  <2>4. EventsFollowTable'
    BY <1>1, <2>1, <2>3, <1>14
       DEF StopReturn, table, events, TypeOK, Reports, EventsFollowTable,
          Published, Early
  <2> QED
    BY <2>2, <2>4 DEF Reports
<1>15. ASSUME NEW c \in Calls, Resolve(c) PROVE Reports'
  <2>1. Live' = Live
    BY <1>15, LiveUnchanged DEF Resolve, table
  <2>2. OutcomeMatchesTable'
    BY <1>1, <1>15, <2>1
       DEF Resolve, table, closeVars, backends, events, Goto, Return, TypeOK,
          Reports, OutcomeMatchesTable, Early
  <2>3. EventsFollowTable'
    BY <1>1, <1>15, <2>1
       DEF Resolve, table, closeVars, backends, events, Goto, Return, TypeOK,
          Reports, OutcomeMatchesTable, EventsFollowTable, Published, Early
  <2> QED
    BY <2>2, <2>3 DEF Reports
<1>16. ASSUME NEW c \in Calls, CloseOnce(c) PROVE Reports'
  <2>1. Live' = Live
    BY <1>16, LiveUnchanged DEF CloseOnce, table
  <2>2. OutcomeMatchesTable'
    BY <1>1, <1>16, <2>1
       DEF CloseOnce, table, backends, events, Goto, Return, TypeOK, Reports,
          OutcomeMatchesTable, Early
  <2>3. EventsFollowTable'
    BY <1>1, <1>16, <2>1
       DEF CloseOnce, table, backends, events, Goto, Return, TypeOK, Reports,
          OutcomeMatchesTable, EventsFollowTable, Published, Early
  <2> QED
    BY <2>2, <2>3 DEF Reports
<1>17. ASSUME NEW c \in Calls, CloseSwap(c) PROVE Reports'
  <2>1. Live' = {}
    BY <1>1, <1>17
       DEF CloseSwap, Live
  <2>2. OutcomeMatchesTable'
    BY <1>1, <1>17, <2>1
       DEF CloseSwap, backends, events, Goto, TypeOK, Reports,
          OutcomeMatchesTable, Early
  <2>3. EventsFollowTable'
    BY <1>1, <1>17, <2>1
       DEF CloseSwap, backends, events, Goto, TypeOK, Reports,
          OutcomeMatchesTable, EventsFollowTable, Published, Early
  <2> QED
    BY <2>2, <2>3 DEF Reports
<1>18. ASSUME NEW c \in Calls, CloseSignal(c) PROVE Reports'
  <2>1. Live' = Live
    BY <1>18, LiveUnchanged DEF CloseSignal, table
  <2>2. OutcomeMatchesTable'
    BY <1>1, <1>18, <2>1
       DEF CloseSignal, table, backends, events, Goto, TypeOK, Reports,
          OutcomeMatchesTable, Early
  <2>3. EventsFollowTable'
    BY <1>1, <1>18, <2>1
       DEF CloseSignal, table, backends, events, Goto, TypeOK, Reports,
          OutcomeMatchesTable, EventsFollowTable, Published, Early
  <2> QED
    BY <2>2, <2>3 DEF Reports
<1>19. ASSUME NEW c \in Calls, CloseStopNext(c) PROVE Reports'
  <2>1. Live' = Live
    BY <1>19, LiveUnchanged DEF CloseStopNext, table
  <2>2. OutcomeMatchesTable'
    BY <1>1, <1>19, <2>1
       DEF CloseStopNext, table, backends, events, Goto, CallStop, TypeOK,
          Reports, OutcomeMatchesTable, Early
  <2>3. EventsFollowTable'
    BY <1>1, <1>19, <2>1
       DEF CloseStopNext, table, backends, events, Goto, CallStop, TypeOK,
          Reports, OutcomeMatchesTable, EventsFollowTable, Published, Early
  <2> QED
    BY <2>2, <2>3 DEF Reports
<1>20. ASSUME NEW c \in Calls, CloseReturn(c) PROVE Reports'
  <2>1. Live' = Live
    BY <1>20, LiveUnchanged DEF CloseReturn, table
  <2>2. OutcomeMatchesTable'
    BY <1>1, <1>20, <2>1
       DEF CloseReturn, table, backends, events, Goto, Return, TypeOK,
          Reports, OutcomeMatchesTable, Early
  <2>3. EventsFollowTable'
    BY <1>1, <1>20, <2>1
       DEF CloseReturn, table, backends, events, Goto, Return, TypeOK,
          Reports, OutcomeMatchesTable, EventsFollowTable, Published, Early
  <2> QED
    BY <2>2, <2>3 DEF Reports
<1>21. CASE UNCHANGED vars
  BY <1>21 DEF vars, Reports, OutcomeMatchesTable, EventsFollowTable,
     Published, Live
<1> QED
  BY <1>2, <1>3, <1>4, <1>5, <1>6, <1>7, <1>8, <1>9, <1>10, <1>11, <1>12,
     <1>13, <1>14, <1>15, <1>16, <1>17, <1>18, <1>19, <1>20, <1>21 DEF Next,
     Step, Terminated

\* What calls report and what observers hear agrees with the table, always.
THEOREM ReportsInvariance == Spec => []Reports
<1>1. Init => IInv /\ Reports
  BY InitIInv, InitReports
<1>2. IInv /\ Reports /\ [Next]_vars => (IInv /\ Reports)'
  BY NextIInv, NextReports
<1> QED
  BY <1>1, <1>2, PTL DEF Spec

\* A failed Add or AddReady leaves nothing in the table, whoever removed what
\* it had put there.
THEOREM FailedAddTheorem == Spec => []FailedAddIsUndone
<1>1. Reports => FailedAddIsUndone
  BY DEF Reports, OutcomeMatchesTable, FailedAddIsUndone
<1> QED
  BY <1>1, ReportsInvariance, PTL

\* Whoever counts EventRouteAdded and EventRouteRemoved knows the table of an
\* open registry as soon as no call is under way.
THEOREM EventsTheorem == Spec => []EventsMatchTable
<1>1. IInv /\ Reports => EventsMatchTable
  BY DEF IInv, TypeOK, Reports, EventsFollowTable, Published, Quiescent,
     EventsMatchTable, Live
<1> QED
  BY <1>1, Invariance, ReportsInvariance, PTL

-----------------------------------------------------------------------------
(* The registry implements RouteTable                                      *)

\* A step that leaves the table alone and moves no route from one phase of its
\* life to another is invisible in RouteTable.
LEMMA InvisibleStep ==
    ASSUME UNCHANGED <<routes, closed>>,
           \A r \in Calls : PhaseOf(r)' = PhaseOf(r),
           \A r \in Calls : PhaseOf(r) # "new" => key(r)' = key(r)
    PROVE  UNCHANGED AbstractTable!vars
  BY DEF AbstractTable!vars

\* What the phases of RouteTable stand for.
LEMMA PhaseFacts ==
    ASSUME IInv
    PROVE  /\ Live \subseteq Calls
           /\ \A r \in Live : backend[r] = "up" /\ pc[r] \notin Early
           /\ \A r \in Live : key(r) \in Keys /\ routes[key(r)] = r
           /\ \A k \in Keys : routes[k] \in Calls => key(routes[k]) = k
           /\ closed => Live = {}
  BY RegistryAssumption DEF IInv, TypeOK, Live, LiveRoutesAreRunning,
     Custody, ClosedRegistryIsEmpty

\* Every step of the registry is a step of RouteTable, or invisible there.
LEMMA RefinementStep ==
    ASSUME IInv, [Next]_vars
    PROVE  [AbstractTable!Next]_AbstractTable!vars
<1> USE RegistryAssumption
<1>1. TypeOK /\ PhaseMatchesPc
  BY DEF IInv
<1>2. ASSUME NEW c \in Calls, AddBegin(c)
      PROVE  [AbstractTable!Next]_AbstractTable!vars
  <2>1. Live' = Live
    BY <1>2, LiveUnchanged DEF AddBegin, table
  <2>2. \A r \in Calls : PhaseOf(r)' = PhaseOf(r)
    BY <1>1, <1>2, <2>1, PhaseFacts
       DEF AddBegin, table, closeVars, backends, events, Goto, TypeOK,
          PhaseOf, Holding, PhaseMatchesPc, Early
  <2>3. \A r \in Calls : PhaseOf(r) # "new" => key(r)' = key(r)
    BY <1>1, <1>2, PhaseFacts
       DEF AddBegin, Goto, TypeOK, PhaseOf, Holding, PhaseMatchesPc,
          Early, key
  <2>4. UNCHANGED <<routes, closed>>
    BY <1>2 DEF AddBegin, table
  <2> QED
    BY <2>2, <2>4, <2>3, InvisibleStep
<1>3. ASSUME NEW c \in Calls, AddInvalid(c)
      PROVE  [AbstractTable!Next]_AbstractTable!vars
  <2>1. Live' = Live
    BY <1>3, LiveUnchanged DEF AddInvalid, table
  <2>2. \A r \in Calls : PhaseOf(r)' = PhaseOf(r)
    BY <1>1, <1>3, <2>1, PhaseFacts
       DEF AddInvalid, table, closeVars, backends, events, Goto, Return,
          TypeOK, PhaseOf, Holding, PhaseMatchesPc, Early
  <2>3. \A r \in Calls : PhaseOf(r) # "new" => key(r)' = key(r)
    BY <1>1, <1>3, PhaseFacts
       DEF AddInvalid, Goto, TypeOK, PhaseOf, Holding, PhaseMatchesPc,
          Early, key
  <2>4. UNCHANGED <<routes, closed>>
    BY <1>3 DEF AddInvalid, table
  <2> QED
    BY <2>2, <2>4, <2>3, InvisibleStep
<1>4. ASSUME NEW c \in Calls, Begin(c)
      PROVE  [AbstractTable!Next]_AbstractTable!vars
  <2>1. Live' = Live
    BY <1>4, LiveUnchanged DEF Begin, table
  <2>2. \A r \in Calls : PhaseOf(r)' = PhaseOf(r)
    BY <1>1, <1>4, <2>1, PhaseFacts
       DEF Begin, table, closeVars, backends, events, Goto, TypeOK, PhaseOf,
          Holding, PhaseMatchesPc, Early
  <2>3. \A r \in Calls : PhaseOf(r) # "new" => key(r)' = key(r)
    BY <1>1, <1>4, PhaseFacts
       DEF Begin, Goto, TypeOK, PhaseOf, Holding, PhaseMatchesPc,
          Early, key
  <2>4. UNCHANGED <<routes, closed>>
    BY <1>4 DEF Begin, table
  <2> QED
    BY <2>2, <2>4, <2>3, InvisibleStep
<1>5. ASSUME NEW c \in Calls, AddReserve(c)
      PROVE  [AbstractTable!Next]_AbstractTable!vars
  <2>1. key(c) \in Keys
    BY <1>1, <1>5, KeyType DEF AddReserve
  <2>2. \A r \in Calls : key(r)' = key(r)
    BY <1>5 DEF AddReserve, key
  <2>3. Live' = Live
    BY <1>1, <1>5, <2>1 DEF AddReserve, TypeOK, Live
  <2>4. CASE closed \/ routes[key(c)] # Absent
    <3>1. \A r \in Calls : PhaseOf(r)' = PhaseOf(r)
      BY <1>1, <1>5, <2>3, <2>4
         DEF AddReserve, backends, Goto, Return, TypeOK, PhaseOf, Holding
    <3> QED
      BY <1>5, <2>4, <2>2, <3>1, InvisibleStep DEF AddReserve
  <2>5. CASE ~closed /\ routes[key(c)] = Absent
    <3>1. /\ PhaseOf(c) = "new" /\ PhaseOf(c)' = "held"
          /\ \A s \in Calls \ {c} : PhaseOf(s)' = PhaseOf(s)
      BY <1>1, <1>5, <2>3, <2>5, PhaseFacts
         DEF AddReserve, backends, Goto, TypeOK, PhaseOf, Holding,
             PhaseMatchesPc, Early
    <3>2. AbstractTable!Hold(c, key(c))
      BY <1>5, <2>2, <2>5, <3>1 DEF AbstractTable!Hold, AddReserve
    <3> QED
      BY <2>1, <3>2 DEF AbstractTable!Next
  <2> QED
    BY <2>4, <2>5
<1>6. ASSUME NEW c \in Calls, AddStart(c)
      PROVE  [AbstractTable!Next]_AbstractTable!vars
  <2>1. Live' = Live
    BY <1>6, LiveUnchanged DEF AddStart, table
  <2>2. \A r \in Calls : PhaseOf(r)' = PhaseOf(r)
    BY <1>1, <1>6, <2>1, PhaseFacts
       DEF AddStart, table, closeVars, events, Goto, TypeOK, PhaseOf, Holding,
          PhaseMatchesPc, Early
  <2>3. \A r \in Calls : PhaseOf(r) # "new" => key(r)' = key(r)
    BY <1>1, <1>6, PhaseFacts
       DEF AddStart, Goto, TypeOK, PhaseOf, Holding, PhaseMatchesPc,
          Early, key
  <2>4. UNCHANGED <<routes, closed>>
    BY <1>6 DEF AddStart, table
  <2> QED
    BY <2>2, <2>4, <2>3, InvisibleStep
<1>7. ASSUME NEW c \in Calls, AddUnreserve(c)
      PROVE  [AbstractTable!Next]_AbstractTable!vars
  <2>1. key(c) \in Keys
    BY <1>1, <1>7, KeyType DEF AddUnreserve
  <2>2. \A r \in Calls : key(r)' = key(r)
    BY <1>7 DEF AddUnreserve, key
  <2>3. CASE closed
    <3>1. UNCHANGED <<routes, closed>> /\ Live' = Live
      BY <1>1, <1>7, <2>3, <2>1, LiveUnchanged
         DEF IInv, TypeOK, ClosedRegistryIsEmpty, AddUnreserve
    <3>2. \A r \in Calls : PhaseOf(r)' = PhaseOf(r)
      BY <1>1, <1>7, <2>3, <3>1, PhaseFacts
         DEF AddUnreserve, backends, Goto, Return, TypeOK, PhaseOf, Holding,
             PhaseMatchesPc
    <3> QED
      BY <2>2, <3>1, <3>2, InvisibleStep
  <2>4. CASE ~closed
    <3>1. Live' = Live /\ routes[key(c)] = Nil
      BY <1>1, <1>7, <2>4, <2>1
         DEF IInv, TypeOK, ReservationsAreOwned, Holding, AddUnreserve, Live
    <3>2. /\ PhaseOf(c) = "held" /\ PhaseOf(c)' = "gone"
          /\ \A s \in Calls \ {c} : PhaseOf(s)' = PhaseOf(s)
      BY <1>1, <1>7, <2>4, <3>1, PhaseFacts
         DEF AddUnreserve, backends, Goto, Return, TypeOK, PhaseOf, Holding,
             PhaseMatchesPc, Early
    <3>3. AbstractTable!Drop(c)
      BY <1>7, <2>4, <2>2, <3>1, <3>2
         DEF AbstractTable!Drop, AddUnreserve
    <3> QED
      BY <3>3 DEF AbstractTable!Next
  <2> QED
    BY <2>3, <2>4
<1>8. ASSUME NEW c \in Calls, AddPublish(c)
      PROVE  [AbstractTable!Next]_AbstractTable!vars
  <2>1. key(c) \in Keys
    BY <1>1, <1>8, KeyType DEF AddPublish
  <2>2. \A r \in Calls : key(r)' = key(r)
    BY <1>8 DEF AddPublish, key
  <2>3. CASE closed
    <3>1. UNCHANGED <<routes, closed>> /\ Live' = Live
      BY <1>1, <1>8, <2>3, <2>1, LiveUnchanged
         DEF IInv, TypeOK, ClosedRegistryIsEmpty, AddPublish
    <3>2. \A r \in Calls : PhaseOf(r)' = PhaseOf(r)
      BY <1>1, <1>8, <2>3, <3>1, PhaseFacts
         DEF AddPublish, backends, Goto, Return, TypeOK, PhaseOf, Holding,
             PhaseMatchesPc
    <3> QED
      BY <2>2, <3>1, <3>2, InvisibleStep
  <2>4. CASE ~closed
    <3>1. Live' = Live \cup {c} /\ routes[key(c)] = Nil
      BY <1>1, <1>8, <2>4, <2>1
         DEF IInv, TypeOK, ReservationsAreOwned, Holding, AddPublish, Live
    <3>2. /\ PhaseOf(c) = "held" /\ PhaseOf(c)' = "live"
          /\ \A s \in Calls \ {c} : PhaseOf(s)' = PhaseOf(s)
      BY <1>1, <1>8, <2>4, <3>1, PhaseFacts
         DEF AddPublish, backends, Goto, Return, TypeOK, PhaseOf, Holding,
             PhaseMatchesPc, Early
    <3>3. AbstractTable!Bind(c)
      BY <1>8, <2>4, <2>2, <3>1, <3>2
         DEF AbstractTable!Bind, AddPublish
    <3> QED
      BY <3>3 DEF AbstractTable!Next
  <2> QED
    BY <2>3, <2>4
<1>9. ASSUME NEW c \in Calls, AddDiscard(c)
      PROVE  [AbstractTable!Next]_AbstractTable!vars
  <2>1. Live' = Live
    BY <1>9, LiveUnchanged DEF AddDiscard, table
  <2>2. \A r \in Calls : PhaseOf(r)' = PhaseOf(r)
    BY <1>1, <1>9, <2>1, PhaseFacts
       DEF AddDiscard, table, closeVars, backends, events, Goto, Return,
          CallStop, TypeOK, PhaseOf, Holding, PhaseMatchesPc, Early
  <2>3. \A r \in Calls : PhaseOf(r) # "new" => key(r)' = key(r)
    BY <1>1, <1>9, PhaseFacts
       DEF AddDiscard, Goto, TypeOK, PhaseOf, Holding, PhaseMatchesPc,
          Early, key
  <2>4. UNCHANGED <<routes, closed>>
    BY <1>9 DEF AddDiscard, table
  <2> QED
    BY <2>2, <2>4, <2>3, InvisibleStep
<1>10. ASSUME NEW c \in Calls, AddEmit(c)
      PROVE  [AbstractTable!Next]_AbstractTable!vars
  <2>1. Live' = Live
    BY <1>10, LiveUnchanged DEF AddEmit, table
  <2>2. \A r \in Calls : PhaseOf(r)' = PhaseOf(r)
    BY <1>1, <1>10, <2>1, PhaseFacts
       DEF AddEmit, table, closeVars, backends, Goto, Return, TypeOK, PhaseOf,
          Holding, PhaseMatchesPc, Early
  <2>3. \A r \in Calls : PhaseOf(r) # "new" => key(r)' = key(r)
    BY <1>1, <1>10, PhaseFacts
       DEF AddEmit, Goto, TypeOK, PhaseOf, Holding, PhaseMatchesPc,
          Early, key
  <2>4. UNCHANGED <<routes, closed>>
    BY <1>10 DEF AddEmit, table
  <2> QED
    BY <2>2, <2>4, <2>3, InvisibleStep
<1>11. ASSUME NEW c \in Calls, AddReadyWait(c)
      PROVE  [AbstractTable!Next]_AbstractTable!vars
  <2>1. Live' = Live
    BY <1>11, LiveUnchanged DEF AddReadyWait, table
  <2>2. \A r \in Calls : PhaseOf(r)' = PhaseOf(r)
    BY <1>1, <1>11, <2>1, PhaseFacts
       DEF AddReadyWait, table, closeVars, backends, events, Goto, Return,
          TypeOK, PhaseOf, Holding, PhaseMatchesPc, Early
  <2>3. \A r \in Calls : PhaseOf(r) # "new" => key(r)' = key(r)
    BY <1>1, <1>11, PhaseFacts
       DEF AddReadyWait, Goto, TypeOK, PhaseOf, Holding, PhaseMatchesPc,
          Early, key
  <2>4. UNCHANGED <<routes, closed>>
    BY <1>11 DEF AddReadyWait, table
  <2> QED
    BY <2>2, <2>4, <2>3, InvisibleStep
<1>12. ASSUME NEW c \in Calls, RemoveTake(c)
      PROVE  [AbstractTable!Next]_AbstractTable!vars
  <2>1. key(c) \in Keys
    BY <1>1, <1>12, KeyType DEF RemoveTake
  <2>2. \A r \in Calls : key(r)' = key(r)
    BY <1>12 DEF RemoveTake, key
  <2>3. CASE routes[key(c)] \notin Calls
    <3>1. UNCHANGED routes /\ Live' = Live
      BY <1>12, <2>3, LiveUnchanged DEF RemoveTake
    <3>2. \A r \in Calls : PhaseOf(r)' = PhaseOf(r)
      BY <1>1, <1>12, <2>3, <3>1
         DEF RemoveTake, backends, Goto, Return, TypeOK, PhaseOf, Holding
    <3> QED
      BY <1>12, <2>2, <3>1, <3>2, InvisibleStep DEF RemoveTake
  <2>4. CASE routes[key(c)] \in Calls
    <3>1. PICK r \in Calls : routes[key(c)] = r
      BY <2>4
    <3>2. /\ r \in Live /\ Live' = Live \ {r} /\ key(r) = key(c)
          /\ routes' = [routes EXCEPT ![key(c)] = Absent] /\ ~closed
          /\ pc' = [pc EXCEPT ![c] = "removed"] /\ routes[key(c)] = r
          /\ UNCHANGED <<closed, backend>> /\ pc[c] = "remove" /\ r \in Calls
      BY <1>1, <1>12, <2>1, <3>1, PhaseFacts DEF RemoveTake, TypeOK, Live,
         backends,
         Goto
    <3>3. /\ PhaseOf(r) = "live" /\ PhaseOf(r)' = "gone"
          /\ \A s \in Calls \ {r} : PhaseOf(s)' = PhaseOf(s)
      BY <1>1, <3>2, PhaseFacts DEF TypeOK, PhaseOf, Holding, Early
    <3>4. AbstractTable!Retire(r)
      BY <2>1, <2>2, <3>2, <3>3 DEF AbstractTable!Retire
    <3> QED
      BY <3>2, <3>4, PhaseFacts DEF AbstractTable!Next
  <2> QED
    BY <2>3, <2>4
<1>13. ASSUME NEW c \in Calls, RemoveStop(c)
      PROVE  [AbstractTable!Next]_AbstractTable!vars
  <2>1. Live' = Live
    BY <1>13, LiveUnchanged DEF RemoveStop, table
  <2>2. \A r \in Calls : backend'[r] = "new" <=> backend[r] = "new"
    BY <1>1, <1>13 DEF RemoveStop, backends, CallStop, TypeOK, IInv, Custody
  <2>3. \A r \in Calls : /\ Holding(r)' <=> Holding(r)
                         /\ pc'[r] = "start" <=> pc[r] = "start"
    BY <1>1, <1>13 DEF RemoveStop, Goto, Return, CallStop, TypeOK, Holding
  <2>4. UNCHANGED <<routes, closed>>
    BY <1>13 DEF RemoveStop, table
  <2>5. \A r \in Calls : PhaseOf(r)' = PhaseOf(r)
    BY <2>1, <2>4, <2>2, <2>3 DEF PhaseOf, Holding
  <2>6. \A r \in Calls : PhaseOf(r) # "new" => key(r)' = key(r)
    BY <1>13 DEF RemoveStop, key
  <2> QED
    BY <2>5, <2>4, <2>6, InvisibleStep
<1>14. ASSUME NEW c \in Calls, StopReturn(c)
      PROVE  [AbstractTable!Next]_AbstractTable!vars
  <2>1. Live' = Live
    BY <1>14, LiveUnchanged DEF StopReturn, table
  <2>2. \A r \in Calls : backend'[r] = "new" <=> backend[r] = "new"
    BY <1>1, <1>14 DEF StopReturn, TypeOK, IInv, Custody
  <2>3. \A r \in Calls : /\ Holding(r)' <=> Holding(r)
                         /\ pc'[r] = "start" <=> pc[r] = "start"
    BY <1>1, <1>14 DEF StopReturn, Goto, Return, TypeOK, Holding
  <2>4. UNCHANGED <<routes, closed>>
    BY <1>14 DEF StopReturn, table
  <2>5. \A r \in Calls : PhaseOf(r)' = PhaseOf(r)
    BY <2>1, <2>4, <2>2, <2>3 DEF PhaseOf, Holding
  <2>6. \A r \in Calls : PhaseOf(r) # "new" => key(r)' = key(r)
    BY <1>14 DEF StopReturn, key
  <2> QED
    BY <2>5, <2>4, <2>6, InvisibleStep
<1>15. ASSUME NEW c \in Calls, Resolve(c)
      PROVE  [AbstractTable!Next]_AbstractTable!vars
  <2>1. Live' = Live
    BY <1>15, LiveUnchanged DEF Resolve, table
  <2>2. \A r \in Calls : PhaseOf(r)' = PhaseOf(r)
    BY <1>1, <1>15, <2>1, PhaseFacts
       DEF Resolve, table, closeVars, backends, events, Goto, Return, TypeOK,
          PhaseOf, Holding, PhaseMatchesPc, Early
  <2>3. \A r \in Calls : PhaseOf(r) # "new" => key(r)' = key(r)
    BY <1>1, <1>15, PhaseFacts
       DEF Resolve, Goto, TypeOK, PhaseOf, Holding, PhaseMatchesPc,
          Early, key
  <2>4. UNCHANGED <<routes, closed>>
    BY <1>15 DEF Resolve, table
  <2> QED
    BY <2>2, <2>4, <2>3, InvisibleStep
<1>16. ASSUME NEW c \in Calls, CloseOnce(c)
      PROVE  [AbstractTable!Next]_AbstractTable!vars
  <2>1. Live' = Live
    BY <1>16, LiveUnchanged DEF CloseOnce, table
  <2>2. \A r \in Calls : PhaseOf(r)' = PhaseOf(r)
    BY <1>1, <1>16, <2>1, PhaseFacts
       DEF CloseOnce, table, backends, events, Goto, Return, TypeOK, PhaseOf,
          Holding, PhaseMatchesPc, Early
  <2>3. \A r \in Calls : PhaseOf(r) # "new" => key(r)' = key(r)
    BY <1>1, <1>16, PhaseFacts
       DEF CloseOnce, Goto, TypeOK, PhaseOf, Holding, PhaseMatchesPc,
          Early, key
  <2>4. UNCHANGED <<routes, closed>>
    BY <1>16 DEF CloseOnce, table
  <2> QED
    BY <2>2, <2>4, <2>3, InvisibleStep
<1>17. ASSUME NEW c \in Calls, CloseSwap(c)
      PROVE  [AbstractTable!Next]_AbstractTable!vars
  <2>1. Live' = {} /\ ~closed /\ closed'
    BY <1>17 DEF IInv, OneCloser, CloseSwap, Live
  <2>2. \A r \in Calls :
           PhaseOf(r)' = IF PhaseOf(r) = "new" THEN "new" ELSE "gone"
    BY <1>1, <1>17, <2>1, PhaseFacts
       DEF CloseSwap, backends, Goto, TypeOK, PhaseOf, Holding, PhaseMatchesPc
  <2>3. \A r \in Calls : key(r)' = key(r)
    BY <1>17 DEF CloseSwap, key
  <2>4. AbstractTable!Shut
    BY <1>17, <2>1, <2>2, <2>3 DEF AbstractTable!Shut, CloseSwap
  <2> QED
    BY <2>4 DEF AbstractTable!Next
<1>18. ASSUME NEW c \in Calls, CloseSignal(c)
      PROVE  [AbstractTable!Next]_AbstractTable!vars
  <2>1. Live' = Live
    BY <1>18, LiveUnchanged DEF CloseSignal, table
  <2>2. \A r \in Calls : PhaseOf(r)' = PhaseOf(r)
    BY <1>1, <1>18, <2>1, PhaseFacts
       DEF CloseSignal, table, backends, events, Goto, TypeOK, PhaseOf,
          Holding, PhaseMatchesPc, Early
  <2>3. \A r \in Calls : PhaseOf(r) # "new" => key(r)' = key(r)
    BY <1>1, <1>18, PhaseFacts
       DEF CloseSignal, Goto, TypeOK, PhaseOf, Holding, PhaseMatchesPc,
          Early, key
  <2>4. UNCHANGED <<routes, closed>>
    BY <1>18 DEF CloseSignal, table
  <2> QED
    BY <2>2, <2>4, <2>3, InvisibleStep
<1>19. ASSUME NEW c \in Calls, CloseStopNext(c)
      PROVE  [AbstractTable!Next]_AbstractTable!vars
  <2>1. Live' = Live
    BY <1>19, LiveUnchanged DEF CloseStopNext, table
  <2>2. \A r \in Calls : backend'[r] = "new" <=> backend[r] = "new"
    BY <1>1, <1>19 DEF CloseStopNext, backends, CallStop, TypeOK, IInv,
       Custody
  <2>3. \A r \in Calls : /\ Holding(r)' <=> Holding(r)
                         /\ pc'[r] = "start" <=> pc[r] = "start"
    BY <1>1, <1>19 DEF CloseStopNext, Goto, CallStop, TypeOK, Holding
  <2>4. UNCHANGED <<routes, closed>>
    BY <1>19 DEF CloseStopNext, table
  <2>5. \A r \in Calls : PhaseOf(r)' = PhaseOf(r)
    BY <2>1, <2>4, <2>2, <2>3 DEF PhaseOf, Holding
  <2>6. \A r \in Calls : PhaseOf(r) # "new" => key(r)' = key(r)
    BY <1>19 DEF CloseStopNext, key
  <2> QED
    BY <2>5, <2>4, <2>6, InvisibleStep
<1>20. ASSUME NEW c \in Calls, CloseReturn(c)
      PROVE  [AbstractTable!Next]_AbstractTable!vars
  <2>1. Live' = Live
    BY <1>20, LiveUnchanged DEF CloseReturn, table
  <2>2. \A r \in Calls : PhaseOf(r)' = PhaseOf(r)
    BY <1>1, <1>20, <2>1, PhaseFacts
       DEF CloseReturn, table, backends, events, Goto, Return, TypeOK,
          PhaseOf, Holding, PhaseMatchesPc, Early
  <2>3. \A r \in Calls : PhaseOf(r) # "new" => key(r)' = key(r)
    BY <1>1, <1>20, PhaseFacts
       DEF CloseReturn, Goto, TypeOK, PhaseOf, Holding, PhaseMatchesPc,
          Early, key
  <2>4. UNCHANGED <<routes, closed>>
    BY <1>20 DEF CloseReturn, table
  <2> QED
    BY <2>2, <2>4, <2>3, InvisibleStep
<1>21. CASE UNCHANGED vars
  BY <1>21 DEF vars, AbstractTable!vars, PhaseOf, Live, Holding, key
<1> QED
  BY <1>2, <1>3, <1>4, <1>5, <1>6, <1>7, <1>8, <1>9, <1>10, <1>11, <1>12,
     <1>13, <1>14, <1>15, <1>16, <1>17, <1>18, <1>19, <1>20, <1>21 DEF Next,
     Step, Terminated

\* A new registry is an empty, open table whose routes are all new.
LEMMA RefinementInit == Init => AbstractTable!Init
  BY RegistryAssumption
     DEF Init, AbstractTable!Init, PhaseOf, Live, Holding

\* Whatever the locks, goroutines and backends do, callers see RouteTable: no
\* name is bound to two routes, none is taken over, no route comes back.
THEOREM Refinement == Spec => ImplementsRouteTable
  BY RefinementInit, RefinementStep, Invariance, PTL
     DEF Spec, ImplementsRouteTable, AbstractTable!Spec
=============================================================================
