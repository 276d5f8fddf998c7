------------------------------ MODULE MCParts ------------------------------
(***************************************************************************)
(* One run for the file store, the agent types and the modules of Parts:   *)
(* the initial state chooses a part, and only that part moves.             *)
(***************************************************************************)
EXTENDS FileStore, Parts, MCAgentTypes, MCHealth

VARIABLES part

-----------------------------------------------------------------------------
(* The rendered files of an agent: a directory with two files, whose       *)
(* persistence, content and kind vary.                                     *)
File(t, p) == [kind |-> "file", persistent |-> p, text |-> t]
Dir(p) == [kind |-> "dir", persistent |-> p, text |-> "none"]

SampleTrees ==
    {<<"d">> :> Dir(TRUE) @@ <<"d", "g">> :> File("one", FALSE)
       @@ <<"d", "h">> :> File("one", TRUE),
     <<"d">> :> Dir(TRUE) @@ <<"d", "g">> :> File("two", TRUE)
       @@ <<"f">> :> File("one", TRUE),
     <<"d">> :> Dir(FALSE) @@ <<"d", "h">> :> File("two", TRUE),
     <<"f">> :> Dir(TRUE)}
SampleOwnFiles == {<<"own">>, <<"d", "own">>}

-----------------------------------------------------------------------------
(* Remote configurations: with one, two and no entries, an override, keys  *)
(* in common, signed with either key; and one fault of each kind.          *)
Sig(k) == [supported |-> TRUE, key |-> k, genuine |-> TRUE]
Unsupported == [supported |-> FALSE, key |-> 1, genuine |-> TRUE]
NotGenuine(k) == [supported |-> TRUE, key |-> k, genuine |-> FALSE]
Message(entries, signatures) ==
    [hash |-> TRUE, entries |-> entries, signatures |-> signatures]
One == "agentConfig"
Two == "agentConfig-2"
Over == "override.agentConfig"
Other == "another"
Body(k, v) == k :> v

SampleMessages ==
    UNION {{Message(One :> Body("k", 1) @@ Two :> Body("j", 1),
                    One :> <<Sig(k)>> @@ Two :> <<Unsupported, Sig(k)>>),
            Message(One :> Body("k", 1) @@ Over :> Body("k", 2),
                    One :> <<Sig(k)>> @@ Over :> <<Sig(k)>>),
            Message(One :> Body("k", 1) @@ Two :> Body("k", 2),
                    One :> <<Sig(k)>> @@ Two :> <<Sig(k)>>)} : k \in 1..2}
    \cup
    {Message(One :> Body("k", 1), One :> <<NotGenuine(1), Sig(1)>>),
     Message(One :> Body("k", 1), NotSigned),
     Message(One :> Body("k", 1), One :> <<Unsupported>>),
     Message(One :> Body("k", 1) @@ Two :> <<>>, One :> <<Sig(1)>>),
     Message(One :> Body("exec", 1) @@ Other :> Malformed,
             One :> <<Sig(1)>> @@ Other :> <<Sig(1)>>),
     Message(One :> Body("k", 1) @@ Over :> Body("exec", 2),
             One :> <<Sig(1)>> @@ Over :> <<Sig(1)>>),
     Message(One :> <<>>, One :> <<Sig(1)>>),
     Message(One :> NotUtf8, One :> <<Sig(1)>>),
     Message(One :> Body("k", 1) @@ Over :> Malformed,
             One :> <<Sig(1)>> @@ Over :> <<Sig(1)>>),
     Message(Missing, One :> <<Sig(1)>>),
     [Message(One :> Body("k", 1), One :> <<Sig(1)>>) EXCEPT !.hash = FALSE]}

-----------------------------------------------------------------------------
(* A repository: packages and agent types, with one layer that counts, two *)
(* of them, or one that is too large; signatures by a known key or not, of *)
(* their own digest or not.                                                *)
Layer(d, media) == [digest |-> d, media |-> media, size |-> 1, files |-> 1]
Manifest(t, layers) == [type |-> t, layers |-> layers]
Signature(d, k) ==
    [media |-> "simplesigning", annotated |-> TRUE, claims |-> d,
     base64 |-> TRUE, key |-> k]

SampleManifests ==
    "d1" :> Manifest("package", <<Layer("l1", "package.zip"), Layer("l0", "other")>>)
    @@ "d2" :> Manifest("package", <<Layer("l2", "package.tar.gz")>>)
    @@ "d3" :> Manifest("type", <<Layer("l3", "type.tar.gz"), Layer("l2", "package.zip")>>)
    @@ "d4" :> Manifest("type", <<[Layer("l4", "type.tar.gz") EXCEPT !.size = 3]>>)
    @@ "d5" :> Manifest("package", <<Layer("l1", "package.zip"), Layer("l2", "package.zip")>>)

SampleSignatures ==
    "d1" :> <<Signature("d2", "k1"),
              [Signature("d1", "k1") EXCEPT !.annotated = FALSE],
              Signature("d1", "k1")>>
    @@ "d2" :> <<Signature("d1", "k1"), Signature("d2", "other")>>
    @@ "d3" :> <<Signature("d3", "k2")>>
    @@ "d4" :> <<Signature("d4", "k1")>>
    @@ "d5" :> <<Signature("d5", "k1")>>

SampleContentsByKind == SampleContents(Absent, NoStatus)
SampleStarts == {Nowhere(Absent), Well}

-----------------------------------------------------------------------------
PartNames == {"store", "rendered", "restart", "status", "remote", "types", "oci",
              "health"}

(* A part that is not chosen has one initial state.                        *)
MCInit ==
    /\ part \in PartNames
    /\ Init /\ (part # "store" => ident = CHOOSE i \in Idents : TRUE)
    /\ RF!Init /\ (part # "rendered" => DOMAIN tree = {<<"f">>})
    /\ RP!Init /\ (part # "restart" => strategy = "fixed" /\ maxRetries = 0)
    /\ SS!Init
    /\ RC!Init
    /\ AT!Init /\ (part # "types" => running = "k8s")
    /\ OF!Init /\ (part # "oci" => tag = "d1")
    /\ HC!Init /\ (part # "health" =>
                    limit = NoResult /\ content = Well /\ plan[1].kind = "StatefulSet")

MCNext ==
    /\ UNCHANGED part
    /\ part # "store" => UNCHANGED vars
    /\ part # "rendered" => UNCHANGED rfVars
    /\ part # "restart" => UNCHANGED rpVars
    /\ part # "status" => UNCHANGED ssVars
    /\ part # "remote" => UNCHANGED rcVars
    /\ part # "types" => UNCHANGED atVars
    /\ part # "oci" => UNCHANGED ofVars
    /\ part # "health" => UNCHANGED hcVars
    /\ \/ part = "store" /\ Next
       \/ part = "rendered" /\ RF!Next
       \/ part = "restart" /\ RP!Next
       \/ part = "status" /\ SS!Next
       \/ part = "remote" /\ RC!Next
       \/ part = "types" /\ AT!Next
       \/ part = "oci" /\ OF!Next
       \/ part = "health" /\ HC!Next

MCSpec ==
    MCInit /\ [][MCNext]_<<part, vars, rfVars, rpVars, ssVars, rcVars, atVars, ofVars,
                            hcVars>>

=============================================================================
