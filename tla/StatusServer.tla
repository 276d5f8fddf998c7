---------------------------- MODULE StatusServer ----------------------------
(***************************************************************************)
(* The status server and the events it is fed with.  Agent Control and its *)
(* sub-agents broadcast events on two channels; a bridge thread forwards   *)
(* them to two asynchronous channels; the event processor takes from       *)
(* either and updates the status that the /status endpoint serves.         *)
(*                                                                         *)
(* Source: agent-control/src/agent_control/http_server, event/broadcaster, *)
(* and the calls of broadcast in agent_control.rs, sub_agent.rs,           *)
(* sub_agent/on_host/builder.rs and sub_agent/event_handler/on_health.rs.  *)
(*                                                                         *)
(* Times are abstracted to whether they were set, attributes to the names  *)
(* of those that were.                                                     *)
(***************************************************************************)
EXTENDS Naturals, Sequences, Functions

CONSTANTS
    Agents,
    Types,
    NoType,
    MaxEvents   \* bound on the events broadcast

Healths == {"healthy", "unhealthy"}

VARIABLES
    (* Agent Control. *)
    type,         \* type of each agent that is configured, or NoType
    phase,        \* of each agent: "absent", "built", "running"
    main,         \* the main thread: "run", "stopping", "dropped"
    (* The server. *)
    bridge,       \* the bridge thread: "run", "ended"
    processor,    \* the event processor: "run", "ended"
    http,         \* the endpoint: "up", "down"
    queue,        \* crossbeam channel of each kind of event
    async,        \* tokio channel of each kind of event
    status,       \* [health, reachable, attributes, agents]
    (* History. *)
    n,            \* events broadcast
    said,         \* what was broadcast last, as a status
    overtaken     \* agents of which two events were processed out of order

control == <<type, phase, main>>
server == <<bridge, processor, http, queue, async, status>>
vars == <<control, server, n, said, overtaken>>

Kinds == {"control", "agent"}
NoHealth == "unknown"
NoEntry == [type |-> NoType, start |-> FALSE, health |-> NoHealth, attributes |-> {}]
Silent == [known |-> FALSE, health |-> NoHealth, attributes |-> {}]

Init ==
    /\ type = [a \in Agents |-> NoType]
    /\ phase = [a \in Agents |-> "absent"]
    /\ main = "run"
    /\ bridge = "run" /\ processor = "run" /\ http = "up"
    /\ queue = [k \in Kinds |-> <<>>]
    /\ async = [k \in Kinds |-> <<>>]
    /\ status = [health |-> NoHealth, reachable |-> FALSE, attributes |-> {},
                 agents |-> [a \in Agents |-> NoEntry]]
    /\ n = 0
    /\ said = [health |-> NoHealth, reachable |-> FALSE, attributes |-> {},
               agents |-> [a \in Agents |-> Silent]]
    /\ overtaken = {}

-----------------------------------------------------------------------------
(* What an event does to the entry of an agent it is about: an unknown     *)
(* agent gets an entry, a known one keeps the type and the start time of   *)
(* its entry.                                                              *)
WithIdentity(e, start) == [NoEntry EXCEPT !.type = e.type, !.start = start]

OrInsert(entry, e, start) == IF entry = NoEntry THEN WithIdentity(e, start) ELSE entry

(* Mutant: a new start replaces the entry.                                 *)
Started_Replaces(entry, e) == WithIdentity(e, TRUE)

Started(entry, e) == OrInsert(entry, e, TRUE)

UpdateEntry(entry, e) ==
    CASE e.is = "SubAgentRemoved" -> NoEntry
      [] e.is = "SubAgentStarted" -> Started(entry, e)
      [] e.is = "SubAgentHealth" ->
           [OrInsert(entry, e, TRUE) EXCEPT !.health = e.health]
      [] e.is = "AgentDescriptionUpdated" ->
           [OrInsert(entry, e, FALSE) EXCEPT !.attributes = @ \cup e.attributes]

(* And to the status: update_agent_control_status and                      *)
(* update_sub_agent_status.                                                *)
UpdateStatus(s, e) ==
    [health |-> IF e.is = "HealthUpdated" THEN e.health ELSE s.health,
     reachable |-> IF e.is \in {"OpAMPConnected", "OpAMPConnectFailed"}
                   THEN e.is = "OpAMPConnected" ELSE s.reachable,
     attributes |-> IF e.is = "ControlDescriptionUpdated"
                    THEN s.attributes \cup e.attributes ELSE s.attributes,
     agents |-> [a \in Agents |-> IF a \in e.about THEN UpdateEntry(s.agents[a], e)
                                  ELSE s.agents[a]]]

-----------------------------------------------------------------------------
(* An event: what it is, the agents it is about, and what it carries.      *)
Event(is) == [is |-> is, about |-> {}, type |-> NoType, health |-> NoHealth,
              attributes |-> {}]
About(e, a, t) == [is |-> e.is, about |-> {a}, type |-> t, health |-> e.health,
                   attributes |-> e.attributes]

(* broadcast: one message to the channel of each subscriber that is still  *)
(* there.  Each channel keeps the order in which messages were sent.       *)
Broadcast(kind, e) ==
    /\ n < MaxEvents
    /\ n' = n + 1
    /\ queue' = IF bridge = "run"
                THEN [queue EXCEPT ![kind] = Append(@, [n |-> n, event |-> e])]
                ELSE queue
    /\ UNCHANGED <<bridge, processor, http, async, status, overtaken>>

(* An event of agent a, and an event of Agent Control itself.              *)
AgentEvent(a, e) ==
    /\ Broadcast("agent", About(e, a, type'[a]))
    /\ said' = [said EXCEPT !.agents[a] =
                  [known |-> TRUE,
                   health |-> IF e.is = "SubAgentHealth" THEN e.health ELSE @.health,
                   attributes |-> @.attributes \cup e.attributes]]

ControlEvent(e) == Broadcast("control", e)

-----------------------------------------------------------------------------
(* The main thread.  A build starts by broadcasting the description, and   *)
(* may fail after that.  An agent whose type changed is built again once   *)
(* its old threads were joined: nothing tells the status server.           *)
Build(a, t) ==
    /\ main = "run"
    /\ type[a] # t
    /\ type' = [type EXCEPT ![a] = t]
    /\ \E p \in {"absent", "built"} : phase' = [phase EXCEPT ![a] = p]
    /\ AgentEvent(a, [Event("AgentDescriptionUpdated") EXCEPT !.attributes = {"host"}])
    /\ UNCHANGED main

(* The agent is no longer configured: stopped, cleaned up, announced.      *)
RemoveSubAgent(a) ==
    /\ main = "run"
    /\ type[a] # NoType
    /\ type' = [type EXCEPT ![a] = NoType]
    /\ phase' = [phase EXCEPT ![a] = "absent"]
    /\ ControlEvent([Event("SubAgentRemoved") EXCEPT !.about = {a}])
    /\ said' = [said EXCEPT !.agents[a] = Silent]
    /\ UNCHANGED main

ReportHealth(h) ==
    /\ main = "run"
    /\ ControlEvent([Event("HealthUpdated") EXCEPT !.health = h])
    /\ said' = [said EXCEPT !.health = h]
    /\ UNCHANGED control

Connection(up) ==
    /\ main = "run"
    /\ ControlEvent(Event(IF up THEN "OpAMPConnected" ELSE "OpAMPConnectFailed"))
    /\ said' = [said EXCEPT !.reachable = up]
    /\ UNCHANGED control

(* The description of Agent Control is updated.                            *)
ControlAttributes ==
    /\ main = "run"
    /\ ControlEvent([Event("ControlDescriptionUpdated") EXCEPT !.attributes = {"version"}])
    /\ said' = [said EXCEPT !.attributes = @ \cup {"version"}]
    /\ UNCHANGED control

(* AgentControlStopped goes out before the sub-agents are stopped.         *)
StopAgentControl ==
    /\ main = "run"
    /\ main' = "stopping"
    /\ ControlEvent(Event("AgentControlStopped"))
    /\ UNCHANGED <<type, phase, said>>

(* The sub-agents are joined, and the server is dropped: the bridge is     *)
(* told to stop.                                                           *)
DropServer ==
    /\ main = "stopping"
    /\ main' = "dropped"
    /\ phase' = [a \in Agents |-> "absent"]
    /\ UNCHANGED <<type, server, n, said, overtaken>>

(* The runtime of a sub-agent.                                             *)
RuntimeStarts(a) ==
    /\ phase[a] = "built"
    /\ phase' = [phase EXCEPT ![a] = "running"]
    /\ UNCHANGED <<type, main>>
    /\ AgentEvent(a, Event("SubAgentStarted"))

OnHealth(a, h) ==
    /\ phase[a] = "running"
    /\ UNCHANGED control
    /\ AgentEvent(a, [Event("SubAgentHealth") EXCEPT !.health = h])

AttributesUpdated(a) ==
    /\ phase[a] = "running"
    /\ UNCHANGED control
    /\ AgentEvent(a, [Event("AgentDescriptionUpdated") EXCEPT !.attributes = {"version"}])

-----------------------------------------------------------------------------
(* The bridge forwards from whichever channel has a message; nothing is    *)
(* received once the processor has ended.  It ends when told to, whatever  *)
(* else is waiting.                                                        *)
Forward(kind) ==
    /\ bridge = "run"
    /\ queue[kind] # <<>>
    /\ queue' = [queue EXCEPT ![kind] = Tail(@)]
    /\ async' = IF processor = "run"
                THEN [async EXCEPT ![kind] = Append(@, Head(queue[kind]))]
                ELSE async
    /\ UNCHANGED <<control, bridge, processor, http, status, n, said, overtaken>>

BridgeStops ==
    /\ bridge = "run"
    /\ main = "dropped"
    /\ bridge' = "ended"
    /\ queue' = [k \in Kinds |-> <<>>]
    /\ UNCHANGED <<control, processor, http, async, status, n, said, overtaken>>

(* Messages broadcast and not processed yet.                               *)
Pending == UNION {Range(queue[k]) \cup Range(async[k]) : k \in Kinds}

(* The processor takes from whichever channel has a message.               *)
Process(kind) ==
    /\ processor = "run"
    /\ async[kind] # <<>>
    /\ LET m == Head(async[kind])
       IN IF m.event.is = "AgentControlStopped"
          THEN processor' = "ended" /\ async' = [k \in Kinds |-> <<>>]
                 /\ UNCHANGED <<status, overtaken>>
          ELSE /\ status' = UpdateStatus(status, m.event)
               /\ async' = [async EXCEPT ![kind] = Tail(@)]
               /\ overtaken' = overtaken \cup
                    {a \in m.event.about :
                       \E f \in Pending : f.n < m.n /\ a \in f.event.about}
               /\ UNCHANGED processor
    /\ UNCHANGED <<control, bridge, http, queue, n, said>>

(* A channel of which the bridge is gone and nothing is left ends the      *)
(* processor too, whatever waits in the other.                             *)
Disconnected(kind) ==
    /\ processor = "run"
    /\ bridge = "ended" /\ async[kind] = <<>>
    /\ processor' = "ended"
    /\ async' = [k \in Kinds |-> <<>>]
    /\ UNCHANGED <<control, bridge, http, queue, status, n, said, overtaken>>

(* The endpoint is stopped once the processor has ended.                   *)
StopHttp ==
    /\ http = "up"
    /\ processor = "ended"
    /\ http' = "down"
    /\ UNCHANGED <<control, bridge, processor, queue, async, status, n, said, overtaken>>

Next ==
    \/ \E a \in Agents :
         \/ \E t \in Types : Build(a, t)
         \/ RemoveSubAgent(a) \/ RuntimeStarts(a) \/ AttributesUpdated(a)
         \/ \E h \in Healths : OnHealth(a, h)
    \/ \E h \in Healths : ReportHealth(h)
    \/ \E up \in BOOLEAN : Connection(up)
    \/ ControlAttributes
    \/ StopAgentControl \/ DropServer
    \/ \E k \in Kinds : Forward(k) \/ Process(k) \/ Disconnected(k)
    \/ BridgeStops \/ StopHttp

Spec == Init /\ [][Next]_vars

-----------------------------------------------------------------------------
(* Once the processor has caught up, /status shows what was broadcast      *)
(* last: the health and attributes of Agent Control, the state of the      *)
(* connection, and of every agent, built, failed to build, recreated or    *)
(* removed, its entry, health and attributes - unless an event of the      *)
(* agent and its removal, which travel on different channels, were         *)
(* processed out of order.                                                 *)
StatusCurrent ==
    (processor = "run" /\ bridge = "run" /\ Pending = {}) =>
        /\ status.health = said.health
        /\ status.reachable = said.reachable
        /\ status.attributes = said.attributes
        /\ \A a \in Agents \ overtaken :
             /\ (status.agents[a] # NoEntry) = said.agents[a].known
             /\ status.agents[a].health = said.agents[a].health
             /\ status.agents[a].attributes = said.agents[a].attributes
=============================================================================
