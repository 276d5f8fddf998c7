-------------------------------- MODULE Health --------------------------------
(***************************************************************************)
(* The health checks of an agent: on the host its executables and an HTTP  *)
(* endpoint or a file, on Kubernetes a list of objects.  A thread runs the *)
(* checkers one after the other, again and again, and publishes what it    *)
(* found; the installer on Kubernetes runs them until they pass or its     *)
(* attempts are spent.  What is looked at changes meanwhile.               *)
(*                                                                         *)
(* Objects are as the reflectors cache them.  A workload has the pods it   *)
(* wants, those ready (of a Deployment: available), those its controller   *)
(* calls unavailable, which a ready pod may be, and those of the latest    *)
(* version.  The controller may be behind with its counts.  The API server *)
(* leaves a count of zero out.                                             *)
(***************************************************************************)
EXTENDS Naturals, Sequences
LOCAL INSTANCE SequencesExt

CONSTANTS
    Objects,       \* [kind, name, release]: what may exist
    Contents,      \* what an object of a kind may contain
    Starts,        \* the contents to start from
    Plans,         \* the lists of definitions to check
    HealthyCodes,  \* HTTP codes declared healthy
    Limits,        \* how often the installer may try
    Absent, NoStatus, None,
    MaxChanges     \* bound on the changes of objects

VARIABLES
    content,       \* the content of each object, or Absent
    changes,
    plan,          \* the checkers, in order
    limit,         \* the attempts of the installer, or None for the thread
    attempt,
    next,          \* the checker to run next; 0 between rounds
    health,        \* the outcome of the last round, or None
    (* History. *)
    up, down,      \* objects that were up, and down, at a moment of the round
    unread         \* a read failed in the round

world == <<content, changes>>
history == <<up, down, unread>>
vars == <<world, plan, limit, attempt, next, health, history>>

-----------------------------------------------------------------------------
(* Is one object healthy?  A status that lacks a field is an error, which  *)
(* ends as unhealthy too.                                                  *)

DeploymentOk(w) ==
    /\ w.unavailable = 0
    /\ w.ready >= w.want

(* Mutant: pods that are ready and not available yet are not looked at.    *)
DaemonSetOk_NoUnavailable(w) ==
    /\ w.ready >= w.want
    /\ w.rolling => w.updated >= w.want

DaemonSetOk(w) ==
    /\ w.ready >= w.want
    /\ w.unavailable = 0
    /\ w.rolling => w.updated >= w.want

StatefulSetOk(w) ==
    /\ w.ready # 0                   \* else readyReplicas is missing
    /\ w.ready = w.want

(* The status of the first condition of type Ready.                        *)
HelmReleaseOk(s) ==
    LET i == SelectInSeq(s.conditions, LAMBDA c : c.type = "Ready")
    IN  i # 0 /\ s.conditions[i].status = "True"

InstrumentationOk(s) ==
    /\ s.notReady = 0 /\ s.unhealthy = 0
    /\ s.healthy > 0
    /\ s.matching > 0 /\ s.injected = s.matching

(* An answer of success, or with one of the declared codes.                *)
HttpOk(answer) == answer.code \in 200..299 \cup HealthyCodes

(* The file parses and says so.                                            *)
FileOk(file) == file.says = "healthy"

(* No executable has an error.                                             *)
ExecOk(execs) == execs.failed = {}

Ok(kind, c) ==
    /\ c # NoStatus
    /\ CASE kind = "Deployment" -> DeploymentOk(c)
         [] kind = "DaemonSet" -> DaemonSetOk(c)
         [] kind = "StatefulSet" -> StatefulSetOk(c)
         [] kind = "HelmRelease" -> HelmReleaseOk(c)
         [] kind = "Instrumentation" -> InstrumentationOk(c)
         [] kind = "http" -> HttpOk(c)
         [] kind = "file" -> FileOk(c)
         [] kind = "exec" -> ExecOk(c)

-----------------------------------------------------------------------------
Workloads == {"StatefulSet", "DaemonSet", "Deployment"}

(* The checkers of a definition: a Helm release stands for itself and for  *)
(* the workloads that carry its label.                                     *)
CheckersFor(def) ==
    LET Checker(kind, by) == [kind |-> kind, by |-> by, name |-> def.name]
    IN  IF def.kind = "HelmReleaseWorkload"
        THEN <<Checker("HelmRelease", "name"), Checker("StatefulSet", "label"),
               Checker("DaemonSet", "label"), Checker("Deployment", "label")>>
        ELSE <<Checker(def.kind, "name")>>

Selects(checker, o) ==
    /\ o.kind = checker.kind
    /\ checker.name = IF checker.by = "name" THEN o.name ELSE o.release

Selected(checker) == {o \in Objects : Selects(checker, o)}

(* The checkers of the definitions of a plan, in order.                    *)
Checkers(p) == FlattenSeq([i \in DOMAIN p |-> CheckersFor(p[i])])

(* A count is a number, and there is something to check.                   *)
Assumptions ==
    /\ None \notin {"healthy", "unhealthy"}
    /\ \A s \in Starts :
         s = [o \in Objects |-> s[o]] /\ \A o \in Objects : s[o] \in Contents[o.kind]
    /\ \A k \in Workloads : \A c \in Contents[k] \ {Absent, NoStatus} :
         /\ c.want \in Nat /\ c.ready \in Nat
         /\ k # "StatefulSet" => c.unavailable \in Nat
         /\ k = "DaemonSet" => c.updated \in Nat
    /\ \A p \in Plans :
         Checkers(p) \in Seq([kind : STRING, by : STRING, name : STRING]) \ {<<>>}

(* The workloads that the filter selects are all healthy, if there are     *)
(* any; whatever is read by its name must be there.                        *)
Passes(o, c) == IF c = Absent THEN o.kind \in Workloads ELSE Ok(o.kind, c)

CheckOk(checker) == \A o \in Selected(checker) : Passes(o, content[o])

-----------------------------------------------------------------------------
(* History: what was up and what was down.  A workload is up when all the  *)
(* pods it wants are ready, none is unavailable, and a rolling update has  *)
(* reached them all.  One that does not exist is up: nothing says that     *)
(* there should be one.                                                    *)
Up(o, c) ==
    IF c = Absent THEN o.kind \in Workloads
    ELSE IF o.kind \in Workloads
    THEN /\ c # NoStatus
         /\ c.ready >= c.want
         /\ o.kind # "StatefulSet" => c.unavailable = 0
         /\ o.kind = "DaemonSet" /\ c.rolling => c.updated >= c.want
    ELSE Ok(o.kind, c)

(* Down, or not settled yet: a StatefulSet with more pods ready than it    *)
(* wants, or scaled to zero.                                               *)
Down(o, c) ==
    \/ ~ Up(o, c)
    \/ /\ o.kind = "StatefulSet" /\ c # Absent
       /\ c.ready # c.want \/ c.ready = 0

UpNow == {o \in Objects : Up(o, content[o])}
DownNow == {o \in Objects : Down(o, content[o])}

Init ==
    /\ content \in Starts
    /\ changes = 0
    /\ \E p \in Plans : plan = Checkers(p)
    /\ limit \in Limits \cup {None}
    /\ attempt = 0 /\ next = 0 /\ health = None
    /\ up = {} /\ down = {} /\ unread = FALSE

(* Something happens to one object.                                        *)
Change(o, c) ==
    /\ changes < MaxChanges /\ changes' = changes + 1
    /\ c # content[o] /\ content' = [content EXCEPT ![o] = c]
    /\ up' = IF next # 0 /\ Up(o, c) THEN up \cup {o} ELSE up
    /\ down' = IF next # 0 /\ Down(o, c) THEN down \cup {o} ELSE down
    /\ UNCHANGED <<plan, limit, attempt, next, health, unread>>

(* The thread checks again after its interval; the installer as long as it *)
(* found no healthy state and has attempts left.                           *)
Begin ==
    /\ next = 0
    /\ limit # None => health # "healthy" /\ attempt < limit
    /\ attempt' = IF limit = None THEN 0 ELSE attempt + 1
    /\ next' = 1
    /\ up' = UpNow /\ down' = DownNow /\ unread' = FALSE
    /\ UNCHANGED <<world, plan, limit, health>>

EndRound(h) == next' = 0 /\ health' = h

(* One checker; the first that is not healthy ends the round.              *)
Check ==
    /\ next # 0
    /\ \/ /\ CheckOk(plan[next])
          /\ IF next = Len(plan) THEN EndRound("healthy")
             ELSE next' = next + 1 /\ UNCHANGED health
          /\ UNCHANGED unread
       \/ ~ CheckOk(plan[next]) /\ EndRound("unhealthy") /\ UNCHANGED unread
       \/ EndRound("unhealthy") /\ unread' = TRUE       \* the read failed
    /\ UNCHANGED <<world, plan, limit, attempt, up, down>>

Next ==
    \/ \E o \in Objects : \E c \in Contents[o.kind] : Change(o, c)
    \/ Begin \/ Check

Spec == Init /\ [][Next]_vars

-----------------------------------------------------------------------------
InScope == UNION {Selected(plan[i]) : i \in DOMAIN plan}

(* What the thread publishes and the installer concludes from rests on     *)
(* what was there.  Healthy: at some moment of the round, not necessarily  *)
(* the same one, each object in scope had all the pods it wants ready,     *)
(* none unavailable and, in a rolling update, all of the latest version.   *)
(* Unhealthy: a read failed, or some object in scope was down or unsettled *)
(* at a moment of the round.                                               *)
HealthJustified ==
    next = 0 =>
        /\ health = "healthy" => InScope \subseteq up
        /\ health = "unhealthy" => unread \/ InScope \cap down # {}
=============================================================================
