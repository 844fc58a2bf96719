----------------------------- MODULE NetworkView -----------------------------
(***************************************************************************)
(* The Network screen (src-tauri/src/network.rs): the services of a        *)
(* namespace with the endpoints behind them, its ingresses route by route, *)
(* policies, and the findings.  Without the services there is no screen.   *)
(***************************************************************************)
EXTENDS Reads, FiniteSetsExt

\* A slice: [name, service, ends], how many of its endpoints say ready, not
\* ready, or nothing.
Ends == [ready : Nat, unsaid : Nat, unready : Nat]

ASSUME SlicesAssumption ==
    \A i \in DOMAIN Answers : \A a \in Answers[i] :
        a["slices"] = Refused \/ \A s \in a["slices"] : s.ends \in Ends

\* "An absent `ready` means ready."
SliceReady(s) == s.ends.ready + s.ends.unsaid
SliceTotal(s) == SliceReady(s) + s.ends.unready

SliceHealth(s) ==
    IF SliceTotal(s) = 0 THEN "warning"
    ELSE IF SliceReady(s) = 0 THEN "critical"
    ELSE IF SliceReady(s) < SliceTotal(s) THEN "serious"
    ELSE "good"

\* The slices that carry the service as their label, together.
SlicesOf(svc) == {s \in Got("slices") : s.service = svc.name}
ReadyEndpoints(svc) == MapThenSumSet(SliceReady, SlicesOf(svc))
TotalEndpoints(svc) == MapThenSumSet(SliceTotal, SlicesOf(svc))

\* A service: [name, type, selects, ports, address].
ServiceHealth(svc) ==
    IF svc.type = "ExternalName" THEN "good"
    ELSE IF ~svc.selects THEN (IF TotalEndpoints(svc) > 0 THEN "good" ELSE "warning")
    ELSE IF ReadyEndpoints(svc) = 0 THEN "critical"
    ELSE IF ReadyEndpoints(svc) < TotalEndpoints(svc) THEN "serious"
    ELSE IF svc.type = "LoadBalancer" /\ ~svc.address THEN "warning"
    ELSE "good"

\* "A rule may reference a port by name or by number, and both must resolve."
Exposes(svc, port) == \E p \in svc.ports : port \in {p.name, p.number}

Problem_Faulty(rule) ==
    ~ \E svc \in Got("services") :
        /\ svc.name = rule.service
        /\ Exposes(svc, rule.port) \/ svc.type = "ExternalName"
        /\ ReadyEndpoints(svc) > 0 \/ svc.type = "ExternalName"

\* A rule of an ingress: [name, service, port].  It serves if its service is
\* there, exposes the port and has something ready, or is a name in the DNS.
Problem(rule) ==
    ~ \E svc \in Got("services") :
        /\ svc.name = rule.service
        /\ Exposes(svc, rule.port)
        /\ ReadyEndpoints(svc) > 0 \/ svc.type = "ExternalName"

\* An ingress: [name, address, rules].
Broken(i) == {r \in i.rules : Problem(r)}

IngressHealth(i) ==
    IF Broken(i) # {} THEN "critical"
    ELSE IF ~i.address \/ i.rules = {} THEN "warning"
    ELSE "good"

\* A policy: [types, rules, selector].  A direction it declares and has no
\* rule for is denied; without labels it is for every pod.
Denies(p) == {d \in p.types : p.rules[d] = 0}
AppliesToAll(p) == p.selector = {}

---------------------------------------------------------------------------
WithHealth(h) == {svc \in Got("services") : ServiceHealth(svc) = h}

\* What the findings say.
NothingReady == "Services with nothing ready behind them"
ReducedCapacity == "Services serving on reduced capacity"
NoBalancer == "Load balancers without an address"
RouteBroken == "Ingress routes that cannot serve"
NoAddress == "Ingresses with no address"
AllClear == "Every route reaches something"

NetworkFaults ==
    UNION {
      Finding("critical", NothingReady,
              Names(WithHealth("critical"))),
      Finding("serious", ReducedCapacity,
              Names(WithHealth("serious"))),
      Finding("warning", NoBalancer,
              Names({svc \in Got("services") :
                        svc.type = "LoadBalancer" /\ ~svc.address})),
      Finding("critical", RouteBroken,
              Names(UNION {Broken(i) : i \in Got("ingresses")})),
      Finding("warning", NoAddress,
              Names({i \in Got("ingresses") : ~i.address})) }

\* With nothing to say, the screen says that every route reaches something.
NetworkFindings ==
    IF ~Known("services") THEN {}
    ELSE IF NetworkFaults # {} THEN NetworkFaults
    ELSE {[severity |-> "good", title |-> AllClear, targets |-> {}]}

NetworkHealthOK ==
    /\ \A s \in Got("slices") : SliceHealth(s) \in Severities
    /\ \A svc \in Got("services") :
          /\ ServiceHealth(svc) \in Severities
          /\ ReadyEndpoints(svc) <= TotalEndpoints(svc)
    /\ \A i \in Got("ingresses") : IngressHealth(i) \in Severities
    /\ \A p \in Got("policies") : Denies(p) \subseteq p.types /\ AppliesToAll(p) \in BOOLEAN
    /\ \A f \in NetworkFindings : f.severity \in Severities

---------------------------------------------------------------------------
\* The all-clear is not given over an outage: then no ingress that was listed
\* sends a request to a service that is not listed, does not expose the port
\* by that name or number, or has no slice with an endpoint that may serve,
\* and no service with a selector has an endpoint missing.  What says it is
\* several lists: the services, the slices by their label, the ingresses.
AllClearServes ==
    AllClear \in {f.title : f \in NetworkFindings} =>
        /\ \A i \in Got("ingresses") : \A r \in i.rules :
              \E svc \in seen["services"], p \in UNION {s.ports : s \in seen["services"]} :
                  /\ svc.name = r.service
                  /\ p \in svc.ports /\ (r.port = p.name \/ r.port = p.number)
                  /\ \/ svc.type = "ExternalName"
                     \/ \E s \in Got("slices") :
                           s.service = svc.name /\ s.ends.ready + s.ends.unsaid > 0
        /\ \A svc \in seen["services"] : svc.selects /\ svc.type # "ExternalName" =>
              /\ \E s \in Got("slices") : s.service = svc.name /\ SliceReady(s) > 0
              /\ \A s \in Got("slices") : s.service = svc.name => s.ends.unready = 0

\* "Each Service has ready endpoints and each Ingress rule points at a Service
\* that exposes the port it references" (network.rs:703, the text of the
\* all-clear).
AllClearIsTrue ==
    AllClear \in {f.title : f \in NetworkFindings} =>
        /\ Known("ingresses")
        /\ \A svc \in seen["services"] :
              svc.type # "ExternalName" => ReadyEndpoints(svc) > 0
=============================================================================
