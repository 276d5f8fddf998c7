---------------------------- MODULE MCAgentTypes ----------------------------
(* Agent types, values and secrets small enough to enumerate.              *)
EXTENDS Parts, Sequences, TLC

Text(t) == <<[text |-> t]>>
Ref(ns, p) == <<[ref |-> <<ns, p>>, fns |-> <<>>]>>
RefIndented(ns, p, k) ==
    <<[ref |-> <<ns, p>>, fns |-> <<[name |-> "indent", n |-> k]>>]>>

(* Trees: functions from paths to nodes.                                   *)
Str(s) == <<>> :> [str |-> s]
Num(i) == <<>> :> [num |-> i]
Nothing == <<>>
Under(k, t) == [p \in {<<k>> \o q : q \in DOMAIN t} |-> t[Tail(p)]]
ObjectOf(t) == <<>> :> [obj |-> TRUE] @@ t
VariableMap(t) == <<>> :> [map |-> TRUE] @@ t

Leaf(t, default) ==
    <<>> :> [end |-> [type |-> t, required |-> default = Nothing /\ t # "yaml",
                      default |-> default, acField |-> "none", variants |-> {}]]
Id(namespace, name) == [namespace |-> namespace, name |-> name, version |-> 1]

(* A port, a level whose variants Agent Control constrains, a nested name  *)
(* without default and a free YAML value.                                  *)
SampleVariables ==
    VariableMap(
        Under("port", Leaf("number", Num(80)))
        @@ <<"level">> :> [end |-> [type |-> "string", required |-> FALSE,
                                    default |-> Str(Text("info")), acField |-> "levels",
                                    variants |-> {Text("any")}]]
        @@ Under("db", VariableMap(Under("name", Leaf("string", Nothing))))
        @@ Under("extra", Leaf("yaml", Nothing)))

SampleHost ==
    [packages |-> "p" :> Text("repo/") \o Ref("var", <<"db", "name">>),
     executables |-> <<"x">>,
     fields |->
        "path" :> [type |-> "string", template |->
                     Ref("sub", <<"packages", "p", "dir">>) \o Text("/bin")]
        @@ "args" :> [type |-> "string", template |->
                     Ref("var", <<"level">>) \o Text("-")
                     \o Ref("var", <<"level">>) \o Ref("env", <<"HOME">>)
                     \o RefIndented("var", <<"extra">>, 2)]
        @@ "port" :> [type |-> "number", template |-> Ref("var", <<"port">>)]]

SampleK8s ==
    [names |-> "o" :> Ref("sub", <<"agent_id">>),
     objects |-> "o" :> ObjectOf(
        Under("port", Str(Ref("var", <<"port">>)))
        @@ Under("extra", Str(Ref("var", <<"extra">>)))
        @@ Under("db", Str(Text("x") \o Ref("var", <<"db", "name">>))))]

Doc(id, platform, os, deployment) ==
    [protocol |-> <<1, 0>>, id |-> id, platform |-> platform, os |-> os,
     variables |-> SampleVariables, deployment |-> deployment]
HostDoc(id, os) == Doc(id, "host", os, SampleHost)

(* "a" is embedded and overridden by a file, "b" is remote only, under a   *)
(* tag that the type of another namespace shares, and "c" is remote, too   *)
(* new for this Agent Control.                                             *)
SampleCustom ==
    LET a == HostDoc(Id("ns", "a"), "linux")
    IN  <<a, NotYaml,
          [a EXCEPT !.variables = Under("port", Leaf("number", Num(81))) @@ @],
          [a EXCEPT !.protocol = <<1, 1>>],
          [a EXCEPT !.protocol = <<>>],
          [a EXCEPT !.variables[<<"port">>].end.required = TRUE],
          [a EXCEPT !.deployment.executables = <<"x", "x">>],
          HostDoc(Id("ns", "a"), "windows"), HostDoc(Id("ns", "a"), NoResult)>>

SampleEmbedded ==
    {HostDoc(Id("ns", "a"), "linux"),
     Doc(Id("ns", "k"), "kubernetes", NoResult, SampleK8s)}

SampleArtifacts ==
    <<"linux", "b", 1>> :> HostDoc(Id("ns", "b"), "linux")
    @@ <<"linux", "c", 1>> :>
         [HostDoc(Id("ns", "c"), "linux") EXCEPT !.protocol = <<2, 0>>]
    @@ <<"k8s", "b", 1>> :> HostDoc(Id("ns", "b"), "linux")

SampleConstraints == "levels" :> {Text("info"), Text("debug")}
SampleSecrets == <<"env", <<"KEY">>>> :> Text("secret")
SampleEnvVars ==
    <<"env", <<"HOME">>>> :> [type |-> "string", value |-> Str(Text("/home"))]
SampleAcVars ==
    <<"ac", <<"host_id">>>> :> [type |-> "string", value |-> Str(Text("h"))]
SampleBadReferences == {Text("repo/") \o Text("bad")}
SampleSupported == <<1, 0>>

(* From a sound configuration, other values for two of the variables.      *)
SampleValues ==
    LET Pick(k, vs) == {<<>>} \cup {Under(k, v) : v \in vs}
        names == {Str(Text("n")), Str(Text("bad")), Num(1),
                  Str(Ref("env", <<"KEY">>)), Str(Ref("vault", <<"KEY">>)),
                  Str(Ref("env", <<"OTHER">>)), Str(Ref("var", <<"port">>))}
        ports == Pick("port", {Num(8), Str(Text("8")), Str(Ref("env", <<"KEY">>))})
        levels == Pick("level", {Str(Text("info")), Str(Text("debug")),
                                 Str(Text("any"))})
        dbs == Pick("db", {ObjectOf(Under("name", v)) : v \in names}
                          \cup {Str(Text("n"))})
        extras == Pick("extra", {ObjectOf(Under("y", Str(Ref("env", <<"KEY">>)))),
                                 Str(RefIndented("env", <<"KEY">>, 2))})
                  \cup {Under("unknown", Num(1))}
        sound == Under("db", ObjectOf(Under("name", Str(Text("n")))))
    IN  {ObjectOf(p @@ l @@ sound) : p \in ports, l \in levels}
        \cup {ObjectOf(d @@ x) : d \in dbs, x \in extras}

SampleRequests ==
    [agent : {"x"},
     type : {Id("ns", "a"), Id("ns", "b"), Id("other", "b"), Id("ns", "c"),
             Id("ns", "k")},
     values : SampleValues]
=============================================================================
