----------------------------- MODULE MCResolver -----------------------------
(***************************************************************************)
(* A small cluster: one label, pods with a sidecar that serves, and pods   *)
(* with an init container whose declaration must be ignored.               *)
(***************************************************************************)
EXTENDS Resolver

NamedPort(name, n) == [name |-> name, port |-> n]
Main(ports) == [always |-> FALSE, ports |-> ports]

Sidecar == [init |-> <<[always |-> TRUE, ports |-> <<NamedPort("metrics", 3)>>]>>,
            main |-> <<Main(<<NamedPort("http", 2)>>)>>]
Setup   == [init |-> <<Main(<<NamedPort("http", 4)>>)>>,
            main |-> <<Main(<<>>), Main(<<NamedPort("http", 1)>>)>>]

MCSpecs == {Sidecar, Setup}

MCStatuses ==
  {[phase |-> "Running", ready |-> "True"], [phase |-> "Running", ready |-> "False"],
   [phase |-> "Pending", ready |-> "none"]}

OnePort(n, tp) == <<[port |-> n, targetPort |-> tp]>>
MCServices ==
  [selector : {{"blue"}, {}},
   ports : {OnePort(2, FromInt(0)), OnePort(9, FromString("http")),
            OnePort(9, FromString("http")) \o OnePort(8, FromInt(3))}]

\* Options without a target port, and with one that is a name, unset, a number.
Opts(kind, p, sel) ==
  [kind : {kind}, pod : {p}, selector : {sel}, hasTarget : {TRUE},
   targetPort : {FromString("http"), FromInt(0), FromInt(3)}]
  \cup [kind : {kind}, pod : {p}, selector : {sel}, hasTarget : {FALSE},
        targetPort : {FromInt(0)}]

MCOptions ==
  Opts("pod", 1, {}) \cup Opts("service", 0, {})
  \cup Opts("selector", 0, {"blue"}) \cup Opts("selector", 0, {})
=============================================================================
