------------------------------- MODULE MCViews -------------------------------
(***************************************************************************)
(* The screens and reports on small clusters: a behaviour is one answer of *)
(* the cluster to the lists, chosen so that one screen has much to judge   *)
(* and the others nothing, or the history of one deployment.               *)
(***************************************************************************)
EXTENDS Views, TLC

VARIABLE view

viewVars == <<view, seen, trailVars>>

Empty == [l \in Lists |-> {}]

---------------------------------------------------------------------------
\* A pod with nothing to say, and the ways it differs from it.
Plain ==
    [name |-> 1, ns |-> 1, node |-> 1, phase |-> "Running", ready |-> TRUE,
     states |-> <<"Running">>, reason |-> Nobody, restarts |-> 0,
     main |-> <<[cpu |-> 1, memory |-> 1]>>, inits |-> <<>>,
     uses |-> {}, owner |-> "set", hostPath |-> FALSE, host |-> {},
     token |-> FALSE, nonRoot |-> "yes", containers |-> {}]

Use(kind, name, place) == [kind |-> kind, name |-> name, place |-> place]

\* What pods use and what there is to be used.
PodLists ==
    {Refused} \cup
    {{[Plain EXCEPT !.uses = {Use("map", "m1", place), Use("claim", "c1", "volume")}],
      [Plain EXCEPT !.name = 2, !.uses = {Use("secret", "s1", other)}]} :
        place \in Places \ {"pull secret", "driver"},
        other \in {"pull secret", "driver", "init", "ephemeral"}}

Claims ==
    {Refused} \cup
    {{[name |-> "c1", phase |-> p1, class |-> "k1", asked |-> 10, given |-> g],
      [name |-> "c2", phase |-> p2, class |-> Nobody, asked |-> 10, given |-> 10]} :
        p1 \in {"Bound", "Pending"}, p2 \in {"Bound", "Lost", "Unknown"}, g \in {0, 11}}

UseAnswers ==
    {[Empty EXCEPT !["pods"] = pods, !["claims"] = claims, !["maps"] = maps,
                   !["secrets"] = secrets] :
        pods \in PodLists, claims \in Claims,
        maps \in {Refused, {[name |-> "m1"], [name |-> "m2"], [name |-> "kube-root-ca.crt"]}},
        secrets \in {Refused, {[name |-> "s1", type |-> "Opaque"],
                               [name |-> "s2", type |-> HelmRelease]}}}

Volume(p, r, c) == [name |-> "v1", phase |-> p, reclaim |-> r, claim |-> c]

VolumeAnswers ==
    {[Empty EXCEPT !["volumes"] = {Volume(p, r, c)}, !["everyClaim"] = e,
                   !["classes"] = k] :
        p \in {"Released", "Failed", "Available", "Bound", "Unknown"},
        r \in {"Retain", "Delete"},
        c \in {Nobody, <<"here", "c1">>, <<"elsewhere", "c1">>},
        e \in {Refused, {}, {<<"here", "c1">>}},
        k \in {Refused, {[name |-> "k1", default |-> TRUE, mode |-> "Immediate"]},
               {[name |-> "k1", default |-> FALSE, mode |-> "WaitForFirstConsumer"]}}}

Hook(n, s, p) == [name |-> n, service |-> s, policy |-> p]
Quantities == {[number |-> n, suffix |-> x] : n \in {0, 1, 4}, x \in {"one", "k", "odd"}}

HookAnswers ==
    {[Empty EXCEPT !["mutating"] = {Hook("h1", s1, p1)}, !["validating"] = {Hook("h2", s2, "Fail")},
                   !["everyService"] = e] :
        s1 \in {Nobody, <<"ops", "w1">>}, s2 \in {Nobody, <<"ops", "w2">>},
        p1 \in {"Fail", "Ignore"},
        e \in {Refused, {}, {<<"ops", "w1">>}, {<<"ops", "w1">>, <<"ops", "w2">>}}}

LimitAnswers ==
    {[Empty EXCEPT !["quotas"] = {[entries |-> {[name |-> "q1/cpu", used |-> u, hard |-> h]}]},
                   !["budgets"] = b] :
        u \in Quantities, h \in Quantities,
        b \in {Refused, {}, {[name |-> "b1", allowed |-> 0, healthy |-> 1, desired |-> 2]},
               {[name |-> "b1", allowed |-> 1, healthy |-> 1, desired |-> 2]}}}
    \cup
    {[Empty EXCEPT !["autoscalers"] =
                       {[name |-> "a1", current |-> c, desired |-> d, max |-> 2, active |-> a]},
                   !["leases"] = {[stated |-> s, elapsed |-> t, seconds |-> 5]}] :
        c \in 0 .. 2, d \in 0 .. 2, a \in BOOLEAN, s \in BOOLEAN, t \in {15, 16}}

---------------------------------------------------------------------------
Workload(n, replicas, ready) ==
    [name |-> n, replicas |-> replicas, ready |-> ready, recent |-> TRUE]

DrainAnswers ==
    {[Empty EXCEPT !["pods"] = {[Plain EXCEPT !.owner = o, !.hostPath = h]},
                   !["deployments"] = d, !["statefulSets"] = {Workload(2, s, s)},
                   !["budgets"] = b,
                   !["nodes"] = {}] :
        o \in {"set", Nobody}, h \in BOOLEAN,
        d \in {Refused} \cup {{Workload(1, n, r)} : n \in 0 .. 2, r \in 0 .. 2},
        s \in 0 .. 2,
        b \in {Refused, {}, {[name |-> 7, allowed |-> 0, healthy |-> 1, desired |-> 2]}}}
    \cup
    {[Empty EXCEPT
        !["jobs"] = {[name |-> 1, finished |-> f, days |-> d, recent |-> TRUE, byCron |-> c,
                      failed |-> x, succeeded |-> y, wanted |-> 1]},
        !["cronJobs"] = {[name |-> 2, recent |-> TRUE, suspended |-> s]},
        !["workflows"] = {[name |-> 3, recent |-> TRUE, phase |-> p]}] :
        f \in BOOLEAN, d \in {6, 7}, c \in BOOLEAN, x \in 0 .. 1, y \in 0 .. 1,
        s \in BOOLEAN, p \in {"Succeeded", "Running", "Failed"}}

Img(r, p, t) == [registry |-> r, port |-> p, path |-> "app", tag |-> t]

ContainerAnswers ==
    {[Empty EXCEPT
        !["pods"] =
            {[Plain EXCEPT !.nonRoot = n, !.token = v, !.host = h, !.containers =
                 {[name |-> 11, image |-> i, privileged |-> v, escalates |-> ~v,
                   nonRoot |-> m, adds |-> IF v THEN {"NET_ADMIN"} ELSE {}]}],
             [Plain EXCEPT !.name = 2, !.containers =
                 {[name |-> 12, image |-> Img("", FALSE, "1"), privileged |-> FALSE,
                   escalates |-> FALSE, nonRoot |-> "yes", adds |-> {}]}]},
        !["policies"] = q] :
        n \in {"unset", "yes"}, m \in {"unset", "yes", "no"}, v \in BOOLEAN,
        h \in {{}, {"network"}, {"pid", "ipc"}},
        i \in {Img("registry", FALSE, x) : x \in {"", "latest", "latest-alpine", "1"}}
              \cup {Img("docker.io", FALSE, "1"), Img("", FALSE, "latest-alpine")}
              \cup {Img("registry", TRUE, x) : x \in {"", "latest", "1"}},
        q \in {Refused, {},
               {[types |-> {"Ingress", "Egress"}, rules |-> [Ingress |-> 0, Egress |-> 1],
                 selector |-> {}]}}}

---------------------------------------------------------------------------
EndsOf(r, u, n) == [ready |-> r, unsaid |-> u, unready |-> n]

Service(n, t, s, a) ==
    [name |-> n, type |-> t, selects |-> s, address |-> a,
     ports |-> {[name |-> "http", number |-> "80"]}]

NetworkAnswers ==
    {[Empty EXCEPT !["services"] = s, !["slices"] = x, !["ingresses"] = i] :
        s \in {Refused, {}, {Service("a", "ExternalName", FALSE, FALSE)}}
              \cup {{Service("a", "ClusterIP", c, FALSE)} : c \in BOOLEAN}
              \cup {{Service("a", "LoadBalancer", TRUE, b)} : b \in BOOLEAN}
              \cup {{Service("a", "ClusterIP", TRUE, FALSE), Service("b", "ClusterIP", c, FALSE)} :
                      c \in BOOLEAN},
        x \in {Refused} \cup
              {{[name |-> "x1", service |-> "a", ends |-> e],
                [name |-> "x2", service |-> o, ends |-> EndsOf(0, 1, 0)]} :
                  e \in {EndsOf(0, 0, 0), EndsOf(1, 0, 0), EndsOf(0, 0, 1), EndsOf(1, 0, 1)},
                  o \in {"a", "b"}},
        i \in {Refused, {}, {[name |-> "i1", address |-> FALSE, rules |-> {}]}} \cup
              {{[name |-> "i1", address |-> TRUE,
                 rules |-> {[name |-> "i1/", service |-> r, port |-> p],
                            [name |-> "i1/b", service |-> t, port |-> "http"]}]} :
                  r \in {"a", "b"}, t \in {"a", "b"}, p \in {"http", "80", "443"}}}

---------------------------------------------------------------------------
Ask(c, m) == [cpu |-> c, memory |-> m]
Init1(s, c) == [sidecar |-> s, asks |-> Ask(c, 1)]

InitLists ==
    {<<>>, <<Init1(FALSE, 3)>>, <<Init1(TRUE, 1), Init1(FALSE, 3)>>,
     <<Init1(FALSE, 3), Init1(TRUE, 1)>>, <<Init1(FALSE, 1), Init1(FALSE, 3), Init1(TRUE, 2)>>}

Looping ==
    [Plain EXCEPT !.ready = FALSE, !.states = <<"CrashLoopBackOff">>, !.restarts = 5]
Gone ==
    [Plain EXCEPT !.node = 3, !.phase = "Failed", !.ready = FALSE, !.reason = "Evicted"]

\* The kinds of pod the overview tells apart.
PodKinds ==
    {[Plain EXCEPT !.inits = i] : i \in InitLists}
    \cup {[Plain EXCEPT !.phase = p, !.ready = FALSE, !.states = <<"Waiting">>] :
             p \in {"Pending", "Succeeded", "Failed"}}
    \cup {[Plain EXCEPT !.ready = FALSE, !.states = <<s, t>>, !.restarts = r] :
             s \in {"Running", "Error"}, t \in {"CrashLoopBackOff", "FailedMount"}, r \in {0, 5}}
    \cup {Gone}

NodeKinds ==
    {[name |-> 1, ready |-> TRUE, cordoned |-> FALSE, pressure |-> {}, zone |-> 1,
      has |-> Ask(10, 10), minor |-> "same", spot |-> FALSE],
     [name |-> 1, ready |-> FALSE, cordoned |-> FALSE, pressure |-> {}, zone |-> 1,
      has |-> Ask(4, 10), minor |-> "other", spot |-> TRUE],
     [name |-> 1, ready |-> TRUE, cordoned |-> TRUE, pressure |-> {"Memory"}, zone |-> 2,
      has |-> Ask(0, 10), minor |-> "unknown", spot |-> TRUE]}

Numbered(kind, n) == [kind EXCEPT !.name = n]

ClusterAnswers ==
    {[Empty EXCEPT
        !["nodes"] = {Numbered(n1, 1), Numbered(n2, 2)},
        !["pods"] = {Numbered(p1, 1), [Numbered(p2, 2) EXCEPT !.node = 2, !.ns = 2],
                     [Numbered(p3, 3) EXCEPT !.ns = 3]},
        !["deployments"] = {Workload(1, 2, 2)}] :
        n1 \in NodeKinds, n2 \in NodeKinds,
        p1 \in PodKinds, p2 \in {Plain, Looping, [Plain EXCEPT !.inits = <<Init1(FALSE, 3)>>]},
        p3 \in {Plain, Looping, Gone}}
    \cup
    {[Empty EXCEPT
        !["nodes"] = n, !["pods"] = p, !["version"] = v, !["nodeMetrics"] = m, !["events"] = e] :
        n \in {Refused, {}} \cup {{k} : k \in NodeKinds}, 
        p \in {Refused, {}, {Plain}, {[Plain EXCEPT !.ready = FALSE]}},
        v \in {Refused, {}}, m \in {Refused, {[name |-> 1, cpu |-> 9]}},
        e \in {Refused, {[id |-> 1, reason |-> 1, count |-> 0], [id |-> 2, reason |-> 2, count |-> 3]}}}

---------------------------------------------------------------------------
MCAnswers ==
    <<UseAnswers, VolumeAnswers, HookAnswers, LimitAnswers, DrainAnswers,
      ContainerAnswers, NetworkAnswers, ClusterAnswers>>

MCImages ==
    [t \in Templates |->
        CASE t = "t1" -> [app |-> [path |-> "r", tail |-> "app:1"]]
          [] t = "t2" -> [app |-> [path |-> "r", tail |-> "app:2"],
                          side |-> [path |-> "r", tail |-> "side:1"]]
          [] OTHER -> [app |-> [path |-> "q", tail |-> "app:1"]]]

TrailRest ==
    /\ sets = [t \in Templates |->
                  IF t = "t1" THEN [revision |-> 1, created |-> 0] ELSE Unmade]
    /\ clock = 0
    /\ ran = [now |-> "t1", before |-> "t1", at |-> 0]

MCInit ==
    \/ view = "lists" /\ ReadsInit /\ TrailRest
    \/ view = "trail" /\ ReadsInit /\ TrailInit

MCNext ==
    \/ view = "lists" /\ Load /\ UNCHANGED <<view, trailVars>>
    \/ view = "lists" /\ Harm /\ view' = "harmed" /\ UNCHANGED trailVars
    \/ view = "trail" /\ TrailNext /\ UNCHANGED <<view, seen>>

MCSpec == MCInit /\ [][MCNext]_viewVars
=============================================================================
