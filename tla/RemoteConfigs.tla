---------------------------- MODULE RemoteConfigs ----------------------------
(***************************************************************************)
(* The way of a remote configuration from the message of the OpAMP server  *)
(* to the values a sub-agent works with: the callback of the OpAMP client  *)
(* decodes it and publishes an event, the runtime of the agent validates   *)
(* its signatures and its content, and merges its entries.                 *)
(*                                                                         *)
(* The agents share one verifier, which caches the public key of Fleet and *)
(* fetches it again when a signature names another one.                    *)
(*                                                                         *)
(* Source: agent-control/src/opamp/callbacks.rs, opamp/remote_config,      *)
(* opamp/remote_config/validators, signature, values/yaml_config.rs,       *)
(* sub_agent/remote_config_parser.rs.                                      *)
(*                                                                         *)
(* A message is a record: does its `hash` decode; its `entries`, from name *)
(* to body, or Missing; its `signatures`, from name to a sequence of       *)
(* signatures, or NotSigned if the custom message is absent or of another  *)
(* kind.  A body is NotUtf8, Malformed or a function from keys to values.  *)
(* Entries whose name has neither prefix are verified and then left out.   *)
(* A signature names a key, and is `genuine` if that key made it.          *)
(***************************************************************************)
EXTENDS Naturals, Sequences

CONSTANTS
    Agents,
    Restricted,      \* agents whose type has rules of denied content
    Messages,
    Missing, NotSigned, NotUtf8, Malformed,
    AgentEntries,    \* names that start with agentConfig
    OverrideEntries, \* names that start with override.agentConfig
    DeniedKeys,      \* keys that a rule denies
    MaxKeys,         \* bound on the keys that Fleet uses one after the other
    MaxMessages      \* bound on the messages received by each agent

VARIABLES
    latest,     \* the key at the head of the list the key server returns
    verifier,   \* the key cached by the verifier
    channel,    \* events published to each agent and not consumed yet
    parsing,    \* the event each agent is parsing, how far it got, and the
                \* entries left to look at
    received,   \* messages received by each agent
    (* History. *)
    outcome     \* how the last parse of each agent ended

Signature == [supported : BOOLEAN, key : Nat, genuine : BOOLEAN]

(* The signatures of an entry come as a list.                              *)
Assumptions ==
    \A m \in Messages : m.signatures # NotSigned =>
        \A c \in DOMAIN m.signatures : m.signatures[c] \in Seq(Signature)

vars == <<latest, verifier, channel, parsing, received, outcome>>

Nothing == [busy |-> FALSE]
Idle(a) == ~ parsing[a].busy

Init ==
    /\ latest = 1
    /\ verifier = 1
    /\ channel = [a \in Agents |-> <<>>]
    /\ parsing = [a \in Agents |-> Nothing]
    /\ received = [a \in Agents |-> 0]
    /\ outcome = [a \in Agents |-> Nothing]

-----------------------------------------------------------------------------
(* parse_first_valid: the first signature with a supported algorithm.      *)
FirstValid(list) ==
    LET valid == {i \in DOMAIN list : list[i].supported}
    IN  IF valid = {} THEN 0 ELSE CHOOSE i \in valid : \A j \in valid : i <= j

SignaturesParse(m) ==
    m.signatures # NotSigned => \A c \in DOMAIN m.signatures : FirstValid(m.signatures[c]) # 0

EntriesDecode(m) ==
    m.entries # Missing /\ \A c \in DOMAIN m.entries : m.entries[c] # NotUtf8

Supported(m) ==
    [c \in DOMAIN m.signatures |-> m.signatures[c][FirstValid(m.signatures[c])]]

(* process_remote_config: whatever cannot be decoded marks the event as    *)
(* failed, and the event is published all the same.                        *)
ProcessRemoteConfig(m) ==
    LET signed == m.signatures # NotSigned /\ SignaturesParse(m)
    IN [failed |-> ~ m.hash \/ ~ EntriesDecode(m) \/ ~ SignaturesParse(m),
        entries |-> IF EntriesDecode(m) THEN m.entries ELSE <<>>,
        signed |-> signed,
        signatures |-> IF signed THEN Supported(m) ELSE <<>>,
        message |-> m]

(* The server signs with keys it has.                                      *)
KeysKnown(m) ==
    m.signatures # NotSigned =>
        \A c \in DOMAIN m.signatures : \A i \in DOMAIN m.signatures[c] :
            m.signatures[c][i].key <= latest

(* on_message                                                              *)
OnMessage(a, m) ==
    /\ received[a] < MaxMessages
    /\ KeysKnown(m)
    /\ received' = [received EXCEPT ![a] = @ + 1]
    /\ channel' = [channel EXCEPT ![a] = Append(@, ProcessRemoteConfig(m))]
    /\ UNCHANGED <<latest, verifier, parsing, outcome>>

(* Fleet starts to sign with a new key.                                    *)
Rotate ==
    /\ latest < MaxKeys
    /\ latest' = latest + 1
    /\ parsing' = [a \in Agents |->
                     IF Idle(a) THEN Nothing
                     ELSE [parsing[a] EXCEPT !.latest = @ \cup {latest + 1}]]
    /\ UNCHANGED <<verifier, channel, received, outcome>>

-----------------------------------------------------------------------------
(* How the parse p ends, with the values it found, if any.                 *)
Result(p, accepted, values, offline) ==
    [busy |-> TRUE, message |-> p.event.message, latest |-> p.latest,
     accepted |-> accepted, values |-> values, offline |-> offline]

Finish(a, result) ==
    /\ outcome' = [outcome EXCEPT ![a] = result]
    /\ parsing' = [parsing EXCEPT ![a] = Nothing]
Reject(a, offline) == Finish(a, Result(parsing[a], FALSE, <<>>, offline))

(* A parse that got to a stage, with the entries that are left, the values *)
(* collected and the keys that Fleet used meanwhile.                       *)
Parsing(stage, event, left, keys, values) ==
    [busy |-> TRUE, stage |-> stage, event |-> event, left |-> left,
     latest |-> keys, values |-> values]

At(a, stage) == ~ Idle(a) /\ parsing[a].stage = stage
Left(a) == IF Idle(a) THEN {} ELSE parsing[a].left

(* The runtime takes the next event.                                       *)
Take(a) ==
    /\ Idle(a)
    /\ channel[a] # <<>>
    /\ parsing' = [parsing EXCEPT ![a] =
                     Parsing("verify", Head(channel[a]),
                             DOMAIN Head(channel[a]).entries, {latest}, <<>>)]
    /\ channel' = [channel EXCEPT ![a] = Tail(@)]
    /\ UNCHANGED <<latest, verifier, received, outcome>>

(* An event that is marked as failed is not looked at any further.         *)
Failed(a) ==
    /\ At(a, "verify")
    /\ parsing[a].event.failed
    /\ Reject(a, FALSE)
    /\ UNCHANGED <<latest, verifier, channel, received>>

(* Mutant: the cached key is not fetched again.                            *)
Fetches_Never(s) == FALSE

(* verify_signature: the key is fetched when it is not the one cached.     *)
Fetches(s) == s.key # verifier

(* The signature validator verifies the entries in any order, under the    *)
(* lock of the verifier one by one.  The key that was fetched stays, even  *)
(* if it is not the one that the signature names.                          *)
Verify(a, c) ==
    /\ At(a, "verify") /\ ~ parsing[a].event.failed
    /\ c \in parsing[a].left
    /\ LET event == parsing[a].event
           signed == event.signed /\ c \in DOMAIN event.signatures
           s == event.signatures[c]
           Check == IF s.key = verifier' /\ s.genuine
                    THEN /\ parsing' = [parsing EXCEPT ![a].left = @ \ {c}]
                         /\ UNCHANGED outcome
                    ELSE Reject(a, FALSE)
       IN \/ ~ signed /\ UNCHANGED verifier /\ Reject(a, FALSE)
          \/ signed /\ ~ Fetches(s) /\ UNCHANGED verifier /\ Check
          \/ signed /\ Fetches(s) /\ verifier' = latest /\ Check
          \/ signed /\ Fetches(s) /\ UNCHANGED verifier /\ Reject(a, TRUE)
    /\ UNCHANGED <<latest, channel, received>>

(* validate_regex_rules, for the types that have rules.  It goes over      *)
(* agent_configs_iter: an override is not among the entries it looks at.   *)
Denied(a, entries) ==
    /\ a \in Restricted
    /\ \E c \in DOMAIN entries \cap AgentEntries :
         entries[c] # Malformed /\ DOMAIN entries[c] \cap DeniedKeys # {}

(* The content is looked at once the signatures are verified, and then the *)
(* values are extracted.                                                   *)
Validate(a) ==
    /\ At(a, "verify") /\ ~ parsing[a].event.failed
    /\ parsing[a].left = {}
    /\ LET p == parsing[a]
       IN IF Denied(a, p.event.entries)
          THEN Reject(a, FALSE)
          ELSE /\ parsing' = [parsing EXCEPT ![a] =
                                Parsing("extract", p.event, DOMAIN p.event.entries
                                          \cap AgentEntries, p.latest, <<>>)]
               /\ UNCHANGED outcome
    /\ UNCHANGED <<latest, verifier, channel, received>>

(* merge_override: the values of y replace those of x.                     *)
MergeOverride(x, y) ==
    [k \in DOMAIN x \cup DOMAIN y |-> IF k \in DOMAIN y THEN y[k] ELSE x[k]]

(* extract_remote_config_values appends the agent entries in any order;    *)
(* one that is no YAML, or repeats a key, is an error of try_append.       *)
TryAppend(a, c) ==
    /\ At(a, "extract")
    /\ c \in parsing[a].left
    /\ LET p == parsing[a]
           body == p.event.entries[c]
       IN IF body = Malformed \/ DOMAIN body \cap DOMAIN p.values # {}
          THEN Reject(a, FALSE)
          ELSE /\ parsing' = [parsing EXCEPT ![a] =
                                Parsing("extract", p.event, p.left \ {c}, p.latest,
                                        MergeOverride(p.values, body))]
               /\ UNCHANGED outcome
    /\ UNCHANGED <<latest, verifier, channel, received>>

(* ... and then lets at most one override replace keys.                    *)
Extract(a) ==
    /\ At(a, "extract")
    /\ parsing[a].left = {}
    /\ LET p == parsing[a]
           entries == p.event.entries
           overrides == DOMAIN entries \cap OverrideEntries
       IN \/ /\ overrides = {}
             /\ Finish(a, Result(p, TRUE, p.values, FALSE))
          \/ \E c \in overrides :
               IF overrides # {c} \/ entries[c] = Malformed
               THEN Reject(a, FALSE)
               ELSE Finish(a, Result(p, TRUE, MergeOverride(p.values, entries[c]), FALSE))
    /\ UNCHANGED <<latest, verifier, channel, received>>

Next ==
    \/ Rotate
    \/ \E a \in Agents :
         \/ \E m \in Messages : OnMessage(a, m)
         \/ Take(a) \/ Failed(a) \/ Validate(a) \/ Extract(a)
         \/ \E c \in Left(a) : Verify(a, c) \/ TryAppend(a, c)

Spec == Init /\ [][Next]_vars

-----------------------------------------------------------------------------
(* The entries that hold values, and a message whose values can be read.   *)
Valued(m) == DOMAIN m.entries \cap (AgentEntries \cup OverrideEntries)

Readable(m) ==
    /\ m.hash
    /\ m.entries # Missing
    /\ \A c \in DOMAIN m.entries : m.entries[c] # NotUtf8
    /\ \A c \in Valued(m) : m.entries[c] # Malformed
    /\ \A c, d \in DOMAIN m.entries \cap AgentEntries :
         c # d => DOMAIN m.entries[c] \cap DOMAIN m.entries[d] = {}
    /\ \A c, d \in DOMAIN m.entries \cap OverrideEntries : c = d

(* Entry c of message m is signed with key k: so says the first signature  *)
(* of a supported kind, and it is genuine.                                 *)
SignedWith(m, c, k) ==
    /\ m.signatures # NotSigned /\ c \in DOMAIN m.signatures
    /\ \E i \in DOMAIN m.signatures[c] :
         /\ m.signatures[c][i].supported
         /\ \A j \in 1..(i - 1) : ~ m.signatures[c][j].supported
         /\ m.signatures[c][i].genuine
         /\ m.signatures[c][i].key = k

Signed(m, keys) == \A c \in DOMAIN m.entries : \E k \in keys : SignedWith(m, c, k)

(* Key k has value v: the override's, if it has one.                       *)
HasValue(m, k, v) ==
    LET Holds(c) == c \in DOMAIN m.entries /\ k \in DOMAIN m.entries[c]
    IN IF \E c \in OverrideEntries : Holds(c)
       THEN \E c \in OverrideEntries : Holds(c) /\ v = m.entries[c][k]
       ELSE \E c \in AgentEntries : Holds(c) /\ v = m.entries[c][k]

(* No agent entry has content that is denied to agent a.                   *)
Allowed(a, m) ==
    a \in Restricted =>
        \A c \in DOMAIN m.entries \cap AgentEntries : DOMAIN m.entries[c] \cap DeniedKeys = {}

AcceptedRight(a, o) ==
    /\ Readable(o.message)
    /\ Allowed(a, o.message)
    /\ Signed(o.message, 1..latest)
    /\ DOMAIN o.values = UNION {DOMAIN o.message.entries[c] : c \in Valued(o.message)}
    /\ \A k \in DOMAIN o.values : HasValue(o.message, k, o.values[k])

RejectedRight(a, o) ==
    \/ ~ Readable(o.message) \/ o.offline \/ Denied(a, o.message.entries)
    \/ o.message.signatures = NotSigned \/ ~ SignaturesParse(o.message)
    \/ \E k \in o.latest : ~ Signed(o.message, {k})

(* What the runtime works with is what Fleet signed and the rules allow: a *)
(* configuration that was accepted is readable, each of its entries bears  *)
(* a genuine signature, none of its agent entries has content denied to    *)
(* the agent, and its values are those of its entries, the override's      *)
(* first; and one whose entries are all signed with the current key is not *)
(* rejected unless its content is at fault or the key server could not be  *)
(* reached - whatever key was cached, and whatever the other agents verify *)
(* at the same time.  The content of an override may be denied content:    *)
(* the comments of RegexValidator say that it "rejects remote configs      *)
(* containing denied patterns", the code lets those of an override pass.   *)
VerdictRight ==
    \A a \in Agents : outcome[a].busy =>
        IF outcome[a].accepted THEN AcceptedRight(a, outcome[a])
        ELSE RejectedRight(a, outcome[a])
=============================================================================
