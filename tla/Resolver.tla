------------------------------ MODULE Resolver ------------------------------
(***************************************************************************)
(* The choice of a pod and a port by the k8s backend (src/k8s/resolve.go). *)
(*                                                                         *)
(* A dial asks the API server for the pod, or for the Service and then for *)
(* the pods its selector matches, while the cluster changes between the    *)
(* two requests.  Every error goes back to the readiness loop, which asks  *)
(* again (src/k8s/portforward.go:162 makes it Retryable), and a later dial *)
(* resolves anew.  The one namespace of the options is the whole cluster;  *)
(* a pod's name is its place in the API server's listing; labels and       *)
(* selectors are sets of key=value pairs.                                  *)
(***************************************************************************)
EXTENDS Naturals, Sequences, SequencesExt

CONSTANTS
  N,          \* pods are named 1..N
  Labels,     \* the key=value pairs
  Specs,      \* pod specs: [init, main], sequences of containers
  Statuses,   \* pod statuses: [phase, ready]
  Services,   \* the Service objects: [selector, ports]
  Options,    \* the options of the backend
  MaxChanges, \* bound: changes of the cluster and failed API requests
  None

ASSUME ResolverAssumption ==
  /\ None \notin Services
  /\ N \in Nat /\ MaxChanges \in Nat
  /\ \A o \in Options : o.kind \in {"pod", "service", "selector"}

VARIABLES
  opts,     \* resolver.opts
  pods,     \* the pods that exist
  svc,      \* the Service the options name, or None
  at,       \* where the resolve is
  got,      \* the Service object GetService has returned
  out,      \* what resolve has returned, or Nothing
  present,  \* history: the target has existed ever since the resolve began, and
            \* its Service is the same
  changes

resolverVars == <<opts, pods, svc, at, got, out, present, changes>>

(***************************************************************************)
(* intstr.IntOrString; both zero values mean "unset".                      *)
(***************************************************************************)
FromInt(n) == [type |-> "Int", int |-> n]
FromString(s) == [type |-> "String", str |-> s]
Unset(tp) == tp \in {FromInt(0), FromString("")}

Pod == [labels : SUBSET Labels, spec : Specs, status : Statuses]

Port(n) == [ok |-> TRUE, port |-> n]
NoPort(why) == [ok |-> FALSE, why |-> why]

Target(p, n) == [kind |-> "target", pod |-> p, port |-> n]
Error(why) == [kind |-> "error", why |-> why]
NotFound == Error("not found")  \* ErrTargetNotFound
Nothing == [kind |-> "none"]

podReady(pod) == pod.status.phase = "Running" /\ pod.status.ready = "True"

\* Mutant: init containers that have ended count too.
servingContainersAllInit(pod) == pod.spec.init \o pod.spec.main

\* Regular containers, after the init containers that keep running.
servingContainers(pod) ==
  SelectSeq(pod.spec.init, LAMBDA c : c.always) \o pod.spec.main

PortsOf(containers) == FlattenSeq([i \in DOMAIN containers |-> containers[i].ports])

inferredContainerPort(pod) ==
  LET ports == PortsOf(servingContainers(pod))
  IN  IF Len(ports) = 1 THEN Port(ports[1].port) ELSE NoPort("ambiguous")

\* The first declaration of a name wins.
namedPort(pod, name) ==
  LET named == SelectSeq(PortsOf(servingContainers(pod)), LAMBDA q : q.name = name)
  IN  IF named = <<>> THEN NoPort("no such name") ELSE Port(named[1].port)

containerPort(pod, tp, infer) ==
  CASE Unset(tp) /\ infer       -> inferredContainerPort(pod)
    [] Unset(tp) /\ ~infer      -> NoPort("unset")
    [] ~Unset(tp) /\ tp.type = "Int" -> Port(tp.int)
    [] OTHER                      -> namedPort(pod, tp.str)

\* The port a Service with one port forwards to.
servicePort(s) ==
  LET sp == s.ports[1]
  IN  IF Unset(sp.targetPort) THEN FromInt(sp.port) ELSE sp.targetPort

matching(selector) == {p \in DOMAIN pods : selector \subseteq pods[p].labels}

\* The pod of the answer, with its port or the reason it has none.
Answer(p, tp, infer) ==
  LET c == containerPort(pods[p], tp, infer)
  IN  IF c.ok THEN Target(p, c.port) ELSE Error(c.why)

\* Mutant: pods that are not ready are taken for no pods.
resolveSelectorNoneReady(selector, tp, infer) ==
  LET ready == {p \in matching(selector) : podReady(pods[p])}
  IN  IF ready # {}
      THEN Answer(CHOOSE p \in ready : \A q \in ready : p <= q, tp, infer)
      ELSE NotFound

\* Mutant: the first pod decides, ready or not.
resolveSelectorFirstOnly(selector, tp, infer) ==
  LET all == matching(selector)
      p   == CHOOSE q \in all : \A r \in all : q <= r
  IN  IF all = {} THEN NotFound
      ELSE IF podReady(pods[p]) THEN Answer(p, tp, infer) ELSE Error("not ready")

\* The answer to a listing of the pods.
resolveSelector(selector, tp, infer) ==
  LET ready == {p \in matching(selector) : podReady(pods[p])}
  IN  IF ready # {}
      THEN Answer(CHOOSE p \in ready : \A q \in ready : p <= q, tp, infer)
      ELSE IF matching(selector) = {} THEN NotFound ELSE Error("not ready")

(***************************************************************************)
(* The target exists: the named pod, or the Service and a pod behind it,   *)
(* or a pod the selector matches.                                          *)
(***************************************************************************)
Exists ==
  CASE opts.kind = "pod"      -> opts.pod \in DOMAIN pods
    [] opts.kind = "service"  -> svc # None /\ matching(svc.selector) # {}
    [] opts.kind = "selector" -> matching(opts.selector) # {}

ResolverTypeOK ==
  /\ opts \in Options
  /\ DOMAIN pods \subseteq 1..N /\ \A p \in DOMAIN pods : pods[p] \in Pod
  /\ svc \in Services \cup {None} /\ got \in Services \cup {None}
  /\ at \in {"get", "list", "done"}
  /\ present \in BOOLEAN /\ changes \in 0..MaxChanges
  /\ at = "done" <=> out # Nothing
  \* Only a selector lists pods, and never the empty one of a Service.
  /\ at = "list" => /\ opts.kind # "pod"
                    /\ opts.kind = "service" => got # None /\ got.selector # {}

ResolverInit ==
  /\ opts \in Options
  /\ pods \in UNION {[S -> Pod] : S \in SUBSET (1..N)}
  /\ svc \in IF opts.kind = "service" THEN Services \cup {None} ELSE {None}
  /\ at = "get" /\ got = None /\ out = Nothing
  /\ present = Exists /\ changes = 0

Returns(r) == at' = "done" /\ out' = r

\* resolvePod: one request, for the named pod.
GetPod ==
  /\ at = "get" /\ opts.kind = "pod"
  /\ Returns(CASE opts.pod \notin DOMAIN pods -> NotFound
              [] opts.pod \in DOMAIN pods /\ ~podReady(pods[opts.pod]) -> Error("not ready")
              [] opts.pod \in DOMAIN pods /\ podReady(pods[opts.pod]) ->
                   Answer(opts.pod, opts.targetPort, ~opts.hasTarget))
  /\ UNCHANGED <<opts, pods, svc, got, present, changes>>

ServiceError(s) ==
  CASE s = None -> NotFound
    [] s # None /\ s.selector = {} -> Error("no selector")
    [] s # None /\ s.selector # {} /\ ~opts.hasTarget /\ Len(s.ports) # 1 -> Error("ports")
    [] OTHER -> Nothing

\* resolveService up to its call of resolveSelector.
GetService ==
  /\ at = "get" /\ opts.kind = "service"
  /\ got' = svc
  /\ IF ServiceError(svc) = Nothing THEN at' = "list" /\ UNCHANGED out
                                    ELSE Returns(ServiceError(svc))
  /\ UNCHANGED <<opts, pods, svc, present, changes>>

\* resolve with a selector of its own: nothing to get first.
UseSelector ==
  /\ at = "get" /\ opts.kind = "selector"
  /\ IF opts.selector # {} THEN at' = "list" /\ UNCHANGED out
                           ELSE Returns(Error("empty selector"))
  /\ UNCHANGED <<opts, pods, svc, got, present, changes>>

\* A Service's pods are never asked to infer a port.
ListPods ==
  /\ at = "list"
  /\ Returns(IF opts.kind = "selector"
            THEN resolveSelector(opts.selector, opts.targetPort, ~opts.hasTarget)
            ELSE resolveSelector(got.selector,
                                 IF opts.hasTarget THEN opts.targetPort ELSE servicePort(got),
                                 FALSE))
  /\ UNCHANGED <<opts, pods, svc, got, present, changes>>

\* An API request fails for another reason than "not found".
ApiFails ==
  /\ at \in {"get", "list"} /\ changes < MaxChanges
  /\ at = "get" => opts.kind # "selector"
  /\ Returns(Error("api"))
  /\ changes' = changes + 1
  /\ UNCHANGED <<opts, pods, svc, got, present>>

Restart == /\ at' = "get" /\ got' = None /\ out' = Nothing /\ present' = Exists
           /\ UNCHANGED <<opts, pods, svc, changes>>

\* The readiness loop dials again.
Retry == at = "done" /\ out.kind = "error" /\ Restart

\* The connection to the pod is lost and a later dial resolves anew.
DialAnew == at = "done" /\ out.kind = "target" /\ Restart

(***************************************************************************)
(* The cluster.                                                            *)
(***************************************************************************)
Changed ==
  /\ changes < MaxChanges /\ changes' = changes + 1
  /\ present' = (present /\ Exists' /\ svc' = svc)

PodChanges(p) ==
  /\ \/ pods' = [q \in DOMAIN pods \ {p} |-> pods[q]]
     \/ \E r \in Pod : pods' = [q \in DOMAIN pods \cup {p} |-> IF q = p THEN r ELSE pods[q]]
  /\ pods' # pods
  /\ UNCHANGED <<opts, svc, at, got, out>>
  /\ Changed

ServiceChanges ==
  /\ opts.kind = "service"
  /\ svc' \in (Services \cup {None}) \ {svc}
  /\ UNCHANGED <<opts, pods, at, got, out>>
  /\ Changed

ResolverStep == GetPod \/ GetService \/ UseSelector \/ ListPods \/ Retry

ResolverNext ==
  ResolverStep \/ ApiFails \/ DialAnew \/ ServiceChanges \/ \E p \in 1..N : PodChanges(p)

(***************************************************************************)
(* The readiness loop goes on until the dial's context ends.  Nothing is   *)
(* assumed of the cluster, nor that a successful dial is followed by       *)
(* another.                                                                *)
(***************************************************************************)
ResolverSpec == ResolverInit /\ [][ResolverNext]_resolverVars /\ WF_resolverVars(ResolverStep)

(***************************************************************************)
(* Reference: what a port means, without saying how it is searched.        *)
(***************************************************************************)
Serves(pod, q) ==
  \/ \E i \in DOMAIN pod.spec.main : q \in ToSet(pod.spec.main[i].ports)
  \/ \E i \in DOMAIN pod.spec.init : /\ pod.spec.init[i].always
                                     /\ q \in ToSet(pod.spec.init[i].ports)

\* The port numbers that tp may stand for on pod.
Means(pod, tp) ==
  IF Unset(tp) THEN {}
  ELSE IF tp.type = "Int" THEN {tp.int}
  ELSE {q.port : q \in {r \in UNION {ToSet(c.ports) : c \in ToSet(pod.spec.main \o pod.spec.init)} :
                          r.name = tp.str /\ Serves(pod, r)}}

\* A port of a Service that does not say otherwise is its targetPort, or the port itself.
Meant(pod, s) ==
  IF opts.hasTarget THEN Means(pod, opts.targetPort)
  ELSE IF opts.kind = "service"
       THEN UNION {Means(pod, IF Unset(q.targetPort) THEN FromInt(q.port) ELSE q.targetPort) :
                     q \in ToSet(s.ports)}
       ELSE {q.port : q \in {r \in UNION {ToSet(c.ports) : c \in ToSet(pod.spec.main \o pod.spec.init)} :
                               Serves(pod, r)}}

\* Pod p is what the options ask for, given the Service s.
Wanted(p, s) ==
  CASE opts.kind = "pod"      -> p = opts.pod
    [] opts.kind = "service"  -> s.selector # {} /\ s.selector \subseteq pods[p].labels
    [] opts.kind = "selector" -> opts.selector # {} /\ opts.selector \subseteq pods[p].labels

\* p is wanted and ready, and no pod before it is.
FirstReady(p, s) ==
  /\ p \in DOMAIN pods /\ Wanted(p, s) /\ podReady(pods[p])
  /\ \A q \in DOMAIN pods : q < p => ~(Wanted(q, s) /\ podReady(pods[q]))

(***************************************************************************)
(* A resolve that succeeds returns a pod that is wanted and ready at that  *)
(* moment, the first such pod ("the FIRST ready one wins",                 *)
(* src/k8s/portforward.go:44), and a port that the options or the Service  *)
(* mean and, when it goes by a name or by inference, that a container      *)
(* which is running declares.                                              *)
(***************************************************************************)
TargetsAreServing ==
  [][(at # "done" /\ at' = "done" /\ out'.kind = "target") =>
       /\ FirstReady(out'.pod, got)
       /\ out'.port \in Meant(pods[out'.pod], got)]_resolverVars

(***************************************************************************)
(* ErrTargetNotFound is only returned when the target was absent at some   *)
(* moment of the resolve: "the Service or pod is absent, or no pod matches *)
(* the selector" (src/k8s/resolve.go:15-16).  A Service that is switched   *)
(* between the two requests is the exception: its new pods are not asked   *)
(* for.  (The invariant includes ResolverTypeOK.)                           *)
(***************************************************************************)
NotFoundMeansAbsent ==
  /\ ResolverTypeOK
  /\ out = NotFound => ~present

\* There is a pod to forward to, and no ready pod of the target lacks the port.
Servable ==
  /\ opts.kind = "service" => svc # None /\ (opts.hasTarget \/ Len(svc.ports) = 1)
  /\ \E p \in DOMAIN pods : Wanted(p, svc) /\ podReady(pods[p])
  /\ \A p \in DOMAIN pods : Wanted(p, svc) /\ podReady(pods[p]) =>
       /\ Meant(pods[p], svc) # {}
       /\ (~opts.hasTarget /\ opts.kind # "service") => Len(PortsOf(servingContainers(pods[p]))) = 1

(***************************************************************************)
(* "A target created later self-heals" (src/k8s/resolve.go:17): once the   *)
(* target is there to stay, every dial gets it, whatever was missing or    *)
(* failed before.                                                          *)
(***************************************************************************)
ResolvesInTheEnd == <>[]Servable => []<>(at = "done" /\ out.kind = "target")
=============================================================================
