------------------------------ MODULE MCHealth ------------------------------
(***************************************************************************)
(* Sample objects for the health checks: a Helm release with two           *)
(* deployments, a daemon set and a stateful set, a stateful set of its     *)
(* own, an instrumentation; and on the host executables, an endpoint and a *)
(* file.                                                                   *)
(***************************************************************************)
EXTENDS Naturals, Sequences, TLC

Object(kind, name, release) == [kind |-> kind, name |-> name, release |-> release]
Pods(want, ready, unavailable) ==
    [want |-> want, ready |-> ready, unavailable |-> unavailable]
Ready(want, ready) == [want |-> want, ready |-> ready]
Rolling(want, ready, unavailable, updated) ==
    Pods(want, ready, unavailable) @@ [updated |-> updated, rolling |-> TRUE]
Conditions(s) == [conditions |-> s]
Condition(t, s) == [type |-> t, status |-> s]
Injected(m, i, h, u, n) ==
    [matching |-> m, injected |-> i, healthy |-> h, unhealthy |-> u, notReady |-> n]

SampleObjects ==
    {Object("HelmRelease", "r", "none"), Object("Deployment", "d", "r"),
     Object("Deployment", "e", "r"), Object("DaemonSet", "s", "r"),
     Object("StatefulSet", "t", "r"), Object("StatefulSet", "u", "none"),
     Object("Instrumentation", "i", "none"), Object("exec", "x", "none"),
     Object("http", "x", "none"), Object("file", "x", "none")}

SampleContents(absent, noStatus) ==
    "HelmRelease" :>
        {absent, noStatus, Conditions(<<>>),
         Conditions(<<Condition("Released", "True"), Condition("Ready", "Unknown")>>),
         Conditions(<<Condition("Ready", "True")>>)}
    @@ "Deployment" :>
        {absent, Pods(1, 1, 0), Pods(2, 1, 0), Pods(2, 1, 1), Pods(1, 1, 1)}
    @@ "DaemonSet" :>
        {absent, noStatus, Rolling(2, 1, 1, 1), Rolling(2, 2, 0, 1),
         Rolling(2, 2, 1, 2), Rolling(2, 2, 0, 2),
         [Rolling(2, 2, 0, 1) EXCEPT !.rolling = FALSE]}
    @@ "StatefulSet" :>
        {absent, Ready(0, 0), Ready(1, 0), Ready(1, 1), Ready(1, 2)}
    @@ "Instrumentation" :>
        {absent, Injected(2, 2, 1, 0, 0), Injected(2, 1, 1, 0, 0),
         Injected(1, 1, 0, 1, 0), Injected(1, 1, 1, 0, 1), Injected(0, 0, 0, 0, 0)}
    @@ "exec" :> {[failed |-> {}], [failed |-> {"one"}]}
    @@ "http" :> {absent, [code |-> 200], [code |-> 404], [code |-> 503]}
    @@ "file" :>
        {absent, [says |-> "healthy"], [says |-> "unhealthy"], [says |-> "malformed"]}

(* Nothing is there yet, and everything is there and well.                 *)
Nowhere(absent) ==
    [o \in SampleObjects |->
        IF o.kind = "exec" THEN [failed |-> {}] ELSE absent]

Well ==
    [o \in SampleObjects |->
        CASE o.kind = "HelmRelease" -> Conditions(<<Condition("Ready", "True")>>)
          [] o.kind = "Deployment" -> Pods(1, 1, 0)
          [] o.kind = "StatefulSet" -> Ready(1, 1)
          [] o.kind = "DaemonSet" -> Rolling(2, 2, 0, 2)
          [] o.kind = "Instrumentation" -> Injected(2, 2, 1, 0, 0)
          [] o.kind = "exec" -> [failed |-> {}]
          [] o.kind = "http" -> [code |-> 503]
          [] o.kind = "file" -> [says |-> "healthy"]]

Definition(kind, name) == [kind |-> kind, name |-> name]
SamplePlans ==
    {<<Definition("HelmReleaseWorkload", "r"), Definition("Instrumentation", "i")>>,
     <<Definition("StatefulSet", "u"), Definition("Deployment", "d")>>,
     <<Definition("exec", "x"), Definition("http", "x")>>,
     <<Definition("exec", "x"), Definition("file", "x")>>}
=============================================================================
