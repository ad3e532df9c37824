--------------------------- MODULE Control_proofs ---------------------------
(***************************************************************************)
(* Proofs, for any number of requests and names, that the answers of the   *)
(* control API account for the registry's table, however the requests      *)
(* interleave, and that in calm times the server's specs match it.         *)
(***************************************************************************)
EXTENDS Control, FiniteSetTheorems, TLAPS

-----------------------------------------------------------------------------
(* The inductive invariant                                                 *)

\* A handler in between two steps: what it asked for, and the name it has
\* reserved, which nobody else has reserved too.
Stages ==
    /\ \A r \in Requests :
          /\ pc[r] = "start" => /\ op[r] \in {"add", "libadd"}
                                /\ reg[key[r]] = Held
          /\ pc[r] = "record" => op[r] = "add"
          /\ pc[r] = "forget" => op[r] = "remove"
    /\ \A r, s \in Requests :
          pc[r] = "start" /\ pc[s] = "start" /\ key[r] = key[s] => r = s
    /\ \A k \in Keys : reg[k] = Held =>
          \E r \in Requests : pc[r] = "start" /\ key[r] = k

\* The requests that have added a route of the name k, and those that have
\* taken one away, whether they have answered yet or not.
Added(k) ==
    {r \in Requests : /\ key[r] = k /\ op[r] \in {"add", "libadd"}
                      /\ status[r] \in {"201", "added"} \/ pc[r] = "record"}

Removed(k) ==
    {r \in Requests : /\ key[r] = k /\ op[r] \in {"remove", "libremove"}
                      /\ \/ status[r] \in {"204", "500", "removed"}
                         \/ pc[r] = "forget"}

\* They account for the table at every moment.
Balance(k) ==
    /\ IsFiniteSet(Added(k)) /\ IsFiniteSet(Removed(k))
    /\ Cardinality(Added(k)) - Cardinality(Removed(k)) =
          IF Visible(k) = None THEN 0 ELSE 1

\* The spec that Server.specs should hold for k.
Wanted(k) ==
    IF reg[k] \in Requests /\ op[reg[k]] = "add" THEN reg[k] ELSE None

\* In calm times one handler at most is at work, and the specs differ from the
\* table only while it still has to record or forget one.
CalmSpecs ==
    calm =>
        /\ \A r \in Requests : op[r] # "libremove"
        /\ \A r, s \in Requests :
              ~(pc[r] \in {"idle", "ret"}) /\ ~(pc[s] \in {"idle", "ret"})
                  => r = s
        /\ \A r \in Requests :
              /\ pc[r] = "record" => reg[key[r]] = r
              /\ pc[r] = "forget" => reg[key[r]] = None
        /\ \A k \in Keys :
              \/ specs[k] = Wanted(k)
              \/ \E r \in Requests :
                    key[r] = k /\ pc[r] \in {"record", "forget"}

\* In calm times the table is still what a listing has read when it reads the
\* specs, and one that has answered has shown each route with its own.
Listings ==
    calm => \A r \in Requests, k \in Keys :
        IF pc[r] = "show"
        THEN snapshot[r][k] = Visible(k)
        ELSE shown[r][k] = IF snapshot[r][k] \in Requests
                                 /\ op[snapshot[r][k]] = "add"
                           THEN snapshot[r][k] ELSE None

IInv == /\ TypeOK /\ Stages /\ (\A k \in Keys : Balance(k))
        /\ CalmSpecs /\ Listings

-----------------------------------------------------------------------------
(* Counting                                                                *)

\* One more request is counted, in a finite set of them.
LEMMA OneMore ==
    ASSUME NEW S, NEW x, x \notin S, IsFiniteSet(S)
    PROVE  /\ IsFiniteSet(S \cup {x}) /\ Cardinality(S) \in Nat
           /\ Cardinality(S \cup {x}) = Cardinality(S) + 1
  BY FS_AddElement, FS_CardinalityType

\* A step after which the same requests have added and removed, and the same
\* names are bound, keeps the balance.
LEMMA SameBalance ==
    ASSUME NEW k \in Keys, Balance(k),
           Added(k)' = Added(k), Removed(k)' = Removed(k),
           Visible(k)' = None <=> Visible(k) = None
    PROVE  Balance(k)'
  BY DEF Balance

\* Initially there is nothing to account for.
LEMMA InitIInv == Init => IInv
<1> SUFFICES ASSUME Init PROVE IInv
  OBVIOUS
<1>1. TypeOK
  BY DEF Init, TypeOK, Entry, Empty, Ops, Statuses
<1>2. ASSUME NEW k \in Keys
      PROVE  Balance(k)
  <2>1. Added(k) = {} /\ Removed(k) = {} /\ Visible(k) = None
    BY ControlAssumption DEF Init, Added, Removed, Visible, Empty
  <2> QED
    BY <2>1, FS_EmptySet DEF Balance
<1>3. Stages
  BY ControlAssumption DEF Init, Stages, Empty
<1>4. CalmSpecs
  BY ControlAssumption DEF Init, CalmSpecs, Wanted, Empty, Ops
<1>5. Listings
  BY ControlAssumption DEF Init, Listings, Empty
<1> QED
  BY <1>1, <1>2, <1>3, <1>4, <1>5 DEF IInv

\* An Add reserves its name or is refused.
LEMMA AddRouteStep ==
    ASSUME IInv, NEW r \in Requests, AddRoute(r)
    PROVE  IInv'
<1> USE ControlAssumption DEF IInv, TypeOK
<1>1. reg' \in [Keys -> Requests \cup {None, Held}]
  BY DEF AddRoute, Reserve
<1>2. TypeOK'
  BY <1>1 DEF AddRoute, Begins, Quiescent, Reserve, Answer, Goto, Ops,
     Statuses, Entry
<1>3. Stages'
  BY DEF AddRoute, Begins, Quiescent, Reserve, Answer, Goto, Stages
<1>4. ASSUME NEW k \in Keys
      PROVE  Balance(k)'
  <2>1. Added(k)' = Added(k)
    BY DEF AddRoute, Begins, Quiescent, Reserve, Answer, Goto, Stages, Added
  <2>2. Removed(k)' = Removed(k)
    BY DEF AddRoute, Begins, Quiescent, Reserve, Answer, Goto, Stages,
       Removed
  <2>3. Visible(k)' = None <=> Visible(k) = None
    BY DEF AddRoute, Begins, Quiescent, Reserve, Answer, Goto, Visible
  <2> QED
    BY <2>1, <2>2, <2>3, SameBalance
<1>5. CalmSpecs'
  BY DEF AddRoute, Begins, Quiescent, Reserve, Answer, Goto, Stages,
     CalmSpecs, Wanted
<1>6. Listings'
  BY DEF AddRoute, Begins, Quiescent, Reserve, Answer, Goto, Listings
<1> QED
  BY <1>2, <1>3, <1>4, <1>5, <1>6

\* An Add publishes its route, which is one more that was added, or gives up.
LEMMA AddReturnsStep ==
    ASSUME IInv, NEW r \in Requests, AddReturns(r)
    PROVE  IInv'
<1> USE ControlAssumption DEF IInv, TypeOK
<1>1. reg' \in [Keys -> Requests \cup {None, Held}]
  BY DEF AddReturns
<1>2. TypeOK'
  BY <1>1 DEF AddReturns, Answer, Goto, Ops, Statuses, Entry
<1>3. Stages'
  BY DEF AddReturns, Answer, Goto, Stages
<1>4. ASSUME NEW k \in Keys
      PROVE  Balance(k)'
  <2>1. Removed(k)' = Removed(k)
    BY DEF AddReturns, Answer, Goto, Stages, Removed
  <2>2. CASE reg' = [reg EXCEPT ![key[r]] = r] /\ k = key[r]
    <3>1. Added(k)' = Added(k) \cup {r} /\ r \notin Added(k)
      BY <2>2 DEF AddReturns, Answer, Goto, Stages, Added
    <3>2. Visible(k) = None /\ Visible(k)' # None
      BY <2>2 DEF AddReturns, Stages, Visible
    <3>3. IsFiniteSet(Added(k)) /\ Cardinality(Removed(k)) \in Nat
      BY FS_CardinalityType DEF Balance
    <3>4. /\ IsFiniteSet(Added(k) \cup {r}) /\ Cardinality(Added(k)) \in Nat
          /\ Cardinality(Added(k) \cup {r}) = Cardinality(Added(k)) + 1
      BY <3>1, <3>3, OneMore
    <3> HIDE DEF IInv, TypeOK
    <3>5. Balance(k)
      BY DEF IInv
    <3> QED
      BY <2>1, <3>1, <3>2, <3>3, <3>4, <3>5 DEF Balance
  <2>3. CASE reg' # [reg EXCEPT ![key[r]] = r] \/ k # key[r]
    <3>1. Added(k)' = Added(k)
      BY <2>3 DEF AddReturns, Answer, Goto, Stages, Added
    <3>2. Visible(k)' = None <=> Visible(k) = None
      BY <2>3 DEF AddReturns, Stages, Visible
    <3> QED
      BY <2>1, <3>1, <3>2, SameBalance
  <2> QED
    BY <2>2, <2>3
<1>5. CalmSpecs'
  BY DEF AddReturns, Answer, Goto, Stages, CalmSpecs, Wanted
<1>6. Listings'
  BY DEF AddReturns, Answer, Goto, CalmSpecs, Listings
<1> QED
  BY <1>2, <1>3, <1>4, <1>5, <1>6

\* The spec of a route that was added is recorded, and the answer given.
LEMMA RecordSpecStep ==
    ASSUME IInv, NEW r \in Requests, RecordSpec(r)
    PROVE  IInv'
<1> USE ControlAssumption DEF IInv, TypeOK
<1>1. TypeOK'
  BY DEF RecordSpec, Answer, Goto, Ops, Statuses, Entry
<1>2. Stages'
  BY DEF RecordSpec, Answer, Goto, Stages
<1>3. ASSUME NEW k \in Keys
      PROVE  Balance(k)'
  <2>1. Added(k)' = Added(k)
    BY DEF RecordSpec, Answer, Goto, Stages, Added
  <2>2. Removed(k)' = Removed(k)
    BY DEF RecordSpec, Answer, Goto, Stages, Removed
  <2>3. Visible(k)' = None <=> Visible(k) = None
    BY DEF RecordSpec, Answer, Goto, Visible
  <2> QED
    BY <2>1, <2>2, <2>3, SameBalance
<1>4. CalmSpecs'
  <2>1. calm => /\ pc[r] = "record" /\ reg[key[r]] = r
                /\ \A s \in Requests : pc[s] \in {"idle", "ret"} \/ s = r
    BY DEF RecordSpec, CalmSpecs
  <2>2. calm => Wanted(key[r]) = r
    BY <2>1 DEF Stages, Wanted
  <2>3. ASSUME calm', NEW k \in Keys
        PROVE  specs'[k] = Wanted(k)'
    <3>1. Wanted(k)' = Wanted(k)
      BY DEF RecordSpec, Wanted
    <3>2. CASE k = key[r]
      BY <2>1, <2>2, <2>3, <3>1, <3>2 DEF RecordSpec, Entry
    <3>3. CASE k # key[r]
      BY <2>1, <2>3, <3>1, <3>3 DEF RecordSpec, CalmSpecs
    <3> QED
      BY <3>2, <3>3
  <2> QED
    BY <2>1, <2>3 DEF RecordSpec, Answer, Goto, CalmSpecs
<1>5. Listings'
  BY DEF RecordSpec, Answer, Goto, Visible, Listings
<1> QED
  BY <1>1, <1>2, <1>3, <1>4, <1>5

\* A removal takes a route that is there, one more that was taken away.
LEMMA RemoveRouteStep ==
    ASSUME IInv, NEW r \in Requests, RemoveRoute(r)
    PROVE  IInv'
<1> USE ControlAssumption DEF IInv, TypeOK
<1>1. reg' \in [Keys -> Requests \cup {None, Held}]
  BY DEF RemoveRoute
<1>2. TypeOK'
  BY <1>1 DEF RemoveRoute, Begins, Quiescent, Visible, Answer, Goto, Ops,
     Statuses, Entry
<1>3. Stages'
  BY DEF RemoveRoute, Begins, Quiescent, Visible, Answer, Goto, Stages
<1>4. ASSUME NEW k \in Keys
      PROVE  Balance(k)'
  <2>1. Added(k)' = Added(k)
    BY DEF RemoveRoute, Begins, Answer, Goto, Added
  <2>2. CASE Visible(key[r]) # None /\ k = key[r]
    <3>1. Removed(k)' = Removed(k) \cup {r} /\ r \notin Removed(k)
      BY <2>2 DEF RemoveRoute, Begins, Answer, Goto, Removed
    <3>2. Visible(k) # None /\ Visible(k)' = None
      BY <2>2 DEF RemoveRoute, Visible
    <3>3. IsFiniteSet(Removed(k)) /\ Cardinality(Added(k)) \in Nat
      BY FS_CardinalityType DEF Balance
    <3>4. /\ IsFiniteSet(Removed(k) \cup {r})
          /\ Cardinality(Removed(k)) \in Nat
          /\ Cardinality(Removed(k) \cup {r}) = Cardinality(Removed(k)) + 1
      BY <3>1, <3>3, OneMore
    <3> HIDE DEF IInv, TypeOK
    <3>5. Balance(k)
      BY DEF IInv
    <3> QED
      BY <2>1, <3>1, <3>2, <3>3, <3>4, <3>5 DEF Balance
  <2>3. CASE Visible(key[r]) = None \/ k # key[r]
    <3>1. Removed(k)' = Removed(k)
      BY <2>3 DEF RemoveRoute, Begins, Answer, Goto, Removed
    <3>2. Visible(k)' = None <=> Visible(k) = None
      BY <2>3 DEF RemoveRoute, Visible
    <3> QED
      BY <2>1, <3>1, <3>2, SameBalance
  <2> QED
    BY <2>2, <2>3
<1>5. CalmSpecs'
  BY DEF RemoveRoute, Begins, Quiescent, Visible, Answer, Goto, Stages,
     CalmSpecs, Wanted
<1>6. Listings'
  BY DEF RemoveRoute, Begins, Quiescent, Answer, Goto, Listings
<1> QED
  BY <1>2, <1>3, <1>4, <1>5, <1>6

\* The spec of a route that was removed is forgotten, and the answer given.
LEMMA ForgetSpecStep ==
    ASSUME IInv, NEW r \in Requests, ForgetSpec(r)
    PROVE  IInv'
<1> USE ControlAssumption DEF IInv, TypeOK
<1>1. TypeOK'
  BY DEF ForgetSpec, Answer, Goto, Ops, Statuses, Entry
<1>2. Stages'
  BY DEF ForgetSpec, Answer, Goto, Stages
<1>3. ASSUME NEW k \in Keys
      PROVE  Balance(k)'
  <2>1. Added(k)' = Added(k)
    BY DEF ForgetSpec, Answer, Goto, Stages, Added
  <2>2. Removed(k)' = Removed(k)
    BY DEF ForgetSpec, Answer, Goto, Stages, Removed
  <2>3. Visible(k)' = None <=> Visible(k) = None
    BY DEF ForgetSpec, Answer, Goto, Visible
  <2> QED
    BY <2>1, <2>2, <2>3, SameBalance
<1>4. CalmSpecs'
  <2>1. calm => /\ pc[r] = "forget" /\ reg[key[r]] = None
                /\ \A s \in Requests : pc[s] \in {"idle", "ret"} \/ s = r
    BY DEF ForgetSpec, CalmSpecs
  <2>2. calm => Wanted(key[r]) = None
    BY <2>1 DEF Stages, Wanted
  <2>3. ASSUME calm', NEW k \in Keys
        PROVE  specs'[k] = Wanted(k)'
    <3>1. Wanted(k)' = Wanted(k)
      BY DEF ForgetSpec, Wanted
    <3>2. CASE k = key[r]
      BY <2>1, <2>2, <2>3, <3>1, <3>2 DEF ForgetSpec, Entry
    <3>3. CASE k # key[r]
      BY <2>1, <2>3, <3>1, <3>3 DEF ForgetSpec, CalmSpecs
    <3> QED
      BY <3>2, <3>3
  <2> QED
    BY <2>1, <2>3 DEF ForgetSpec, Answer, Goto, CalmSpecs
<1>5. Listings'
  BY DEF ForgetSpec, Answer, Goto, Visible, Listings
<1> QED
  BY <1>1, <1>2, <1>3, <1>4, <1>5

\* Listing reads the table.
LEMMA ListRoutesStep ==
    ASSUME IInv, NEW r \in Requests, ListRoutes(r)
    PROVE  IInv'
<1> USE ControlAssumption DEF IInv, TypeOK
<1>1. TypeOK'
  BY DEF ListRoutes, Begins, Quiescent, Goto, Ops, Statuses, Entry, Visible
<1>2. Stages'
  BY DEF ListRoutes, Begins, Quiescent, Goto, Stages
<1>3. ASSUME NEW k \in Keys
      PROVE  Balance(k)'
  <2>1. Added(k)' = Added(k)
    BY DEF ListRoutes, Begins, Quiescent, Goto, Stages, Added
  <2>2. Removed(k)' = Removed(k)
    BY DEF ListRoutes, Begins, Quiescent, Goto, Stages, Removed
  <2>3. Visible(k)' = None <=> Visible(k) = None
    BY DEF ListRoutes, Begins, Quiescent, Goto, Visible
  <2> QED
    BY <2>1, <2>2, <2>3, SameBalance
<1>4. CalmSpecs'
  BY DEF ListRoutes, Begins, Quiescent, Goto, Stages, CalmSpecs, Wanted
<1>5. Listings'
  BY DEF ListRoutes, Begins, Quiescent, Goto, Visible, Listings
<1> QED
  BY <1>1, <1>2, <1>3, <1>4, <1>5

\* Listing shows the specs.
LEMMA ShowRoutesStep ==
    ASSUME IInv, NEW r \in Requests, ShowRoutes(r)
    PROVE  IInv'
<1> USE ControlAssumption DEF IInv, TypeOK
<1>1. TypeOK'
  BY DEF ShowRoutes, Answer, Goto, Ops, Statuses, Entry
<1>2. Stages'
  BY DEF ShowRoutes, Answer, Goto, Stages
<1>3. ASSUME NEW k \in Keys
      PROVE  Balance(k)'
  <2>1. Added(k)' = Added(k)
    BY DEF ShowRoutes, Answer, Goto, Stages, Added
  <2>2. Removed(k)' = Removed(k)
    BY DEF ShowRoutes, Answer, Goto, Stages, Removed
  <2>3. Visible(k)' = None <=> Visible(k) = None
    BY DEF ShowRoutes, Answer, Goto, Visible
  <2> QED
    BY <2>1, <2>2, <2>3, SameBalance
<1>4. CalmSpecs'
  BY DEF ShowRoutes, Answer, Goto, Stages, CalmSpecs, Wanted
<1>5. Listings'
  <2>1. calm => \A s \in Requests : pc[s] \in {"idle", "ret"} \/ s = r
    BY DEF ShowRoutes, CalmSpecs
  <2>2. calm => \A k \in Keys : specs[k] = Wanted(k) /\ reg[k] # Held
    BY <2>1 DEF ShowRoutes, CalmSpecs, Stages
  <2>3. calm => \A k \in Keys : snapshot[r][k] = reg[k]
    BY <2>2 DEF ShowRoutes, Listings, Visible
  <2> QED
    BY <2>1, <2>2, <2>3 DEF ShowRoutes, Answer, Goto, Wanted, Listings, Entry
<1> QED
  BY <1>1, <1>2, <1>3, <1>4, <1>5

\* The invariant is inductive.
LEMMA NextIInv == IInv /\ [Next]_vars => IInv'
<1> SUFFICES ASSUME IInv, [Next]_vars PROVE IInv'
  OBVIOUS
<1>1. CASE UNCHANGED vars
  <2>1. TypeOK' /\ Stages' /\ CalmSpecs' /\ Listings'
    BY <1>1 DEF vars, IInv, TypeOK, Stages, CalmSpecs, Wanted, Listings, Visible
  <2>2. ASSUME NEW k \in Keys
        PROVE  Balance(k)'
    BY <1>1, SameBalance DEF vars, IInv, Added, Removed, Visible
  <2> QED
    BY <2>1, <2>2 DEF IInv
<1> QED
  BY <1>1, AddRouteStep, AddReturnsStep, RecordSpecStep, RemoveRouteStep,
     ForgetSpecStep, ListRoutesStep, ShowRoutesStep DEF Next, Terminated

\* The invariant holds in every state of every execution.
THEOREM Invariance == Spec => []IInv
  BY InitIInv, NextIInv, PTL DEF Spec

\* Of the requests for a name, those that were told that they added a route
\* outnumber those that took one away by one when the name is bound, and not at
\* all when it is free.
THEOREM AccountTheorem == Spec => []AnswersAccountForRoutes
<1>1. IInv => AnswersAccountForRoutes
  <2> SUFFICES ASSUME IInv, Quiescent, NEW k \in Keys
               PROVE  Cardinality({r \in Requests :
                          /\ key[r] = k /\ op[r] \in {"add", "libadd"}
                          /\ status[r] \in {"201", "added"}})
                      - Cardinality({r \in Requests :
                          /\ key[r] = k /\ op[r] \in {"remove", "libremove"}
                          /\ status[r] \in {"204", "500", "removed"}})
                      = IF reg[k] = None THEN 0 ELSE 1
    BY DEF IInv, AnswersAccountForRoutes
  <2>1. Added(k) = {r \in Requests :
                       /\ key[r] = k /\ op[r] \in {"add", "libadd"}
                       /\ status[r] \in {"201", "added"}}
    BY DEF Quiescent, Added
  <2>2. Removed(k) = {r \in Requests :
                         /\ key[r] = k /\ op[r] \in {"remove", "libremove"}
                         /\ status[r] \in {"204", "500", "removed"}}
    BY DEF Quiescent, Removed
  <2>3. Visible(k) = reg[k]
    BY DEF IInv, Quiescent, Stages, Visible
  <2> QED
    BY <2>1, <2>2, <2>3 DEF IInv, Balance
<1> QED
  BY <1>1, Invariance, PTL

\* Without overlap, failing Stops and removals behind the server's back, the
\* specs are those of the routes added through the API, and every listing shows
\* each route with its own.
THEOREM SpecsTheorem == Spec => []SpecsMatchRoutes
<1>1. IInv => SpecsMatchRoutes
  <2> SUFFICES ASSUME IInv, calm PROVE SpecsMatchRoutes
    BY DEF SpecsMatchRoutes
  <2>1. ASSUME Quiescent, NEW k \in Keys
        PROVE  specs[k] = IF reg[k] # None /\ op[reg[k]] = "add" THEN reg[k]
                                                                 ELSE None
    BY <2>1, ControlAssumption DEF IInv, TypeOK, Stages, CalmSpecs, Wanted,
       Quiescent
  <2>2. ASSUME NEW r \in Requests, NEW k \in Keys, pc[r] = "ret"
        PROVE  shown[r][k] = IF snapshot[r][k] # None
                                   /\ op[snapshot[r][k]] = "add"
                             THEN snapshot[r][k] ELSE None
    BY <2>2, ControlAssumption DEF IInv, TypeOK, Entry, Listings
  <2> QED
    BY <2>1, <2>2 DEF SpecsMatchRoutes
<1> QED
  BY <1>1, Invariance, PTL
=============================================================================
