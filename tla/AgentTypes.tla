----------------------------- MODULE AgentTypes -----------------------------
(***************************************************************************)
(* From a sub-agent's values to what its supervisor runs: the registry of  *)
(* agent types (local definitions first, then the remote OCI registry),    *)
(* the definition's variables, the constraints of Agent Control on them,   *)
(* the secrets the values refer to, and the templates of the deployment.   *)
(*                                                                         *)
(* A text is a sequence of pieces: [text |-> t] is literal, [shown |-> v]  *)
(* the printed form of a value, [ref |-> <<namespace, path>>, fns |-> fs]  *)
(* a placeholder "${nr-namespace:path|f1|f2}".                             *)
(*                                                                         *)
(* A tree is a function from the paths of its nodes to the nodes, with the *)
(* root at <<>>.  The nodes of a YAML value are records with one field     *)
(* that names its kind: str, num, bool, null or obj, which has children;   *)
(* the arrays of a document are objects here.  In the variables of a       *)
(* definition a node is [end |-> leaf] or [map |-> TRUE].                  *)
(*                                                                         *)
(* What may fail returns [ok |-> result] or Fail.                          *)
(***************************************************************************)
EXTENDS Naturals, Sequences, Functions

CONSTANTS
    Environments, \* the environments Agent Control may run in
    Supported,    \* the newest protocol version it understands
    Custom,       \* the files of the dynamic agent types directory, sorted
    Embedded,     \* the definitions embedded in the binary
    Artifacts,    \* the artifacts of the remote registry, by tag
    Constraints,  \* accepted variants, by the field of the configuration
    Providers,    \* the namespaces with a secrets provider
    Secrets,      \* what the providers hold, by reference
    EnvVars,      \* the environment of the process
    AcVars,       \* the variables of Agent Control
    BadReferences,\* texts that are not an OCI repository or version
    Requests,     \* the agents to assemble: [agent, type, values]
    NotYaml, None

VARIABLES
    running,      \* the environment Agent Control runs in
    published,    \* the tags that are in the remote registry so far
    request,      \* the agent being validated and assembled
    pc,           \* "idle", "accepted", "done" or "refused"
    found,        \* the definition its assembly took from the registry
    outcome       \* the rendered deployment, or Fail

vars == <<running, published, request, pc, found, outcome>>

-----------------------------------------------------------------------------
(* Results.                                                                *)
Fail == [err |-> TRUE]
Ok(r) == "ok" \in DOMAIN r

(* A collection of results is a result: the first failure is returned.     *)
Collect(f) ==
    IF \A k \in DOMAIN f : Ok(f[k])
    THEN [ok |-> [k \in DOMAIN f |-> f[k].ok]]
    ELSE Fail

Is(kind, node) == kind \in DOMAIN node

-----------------------------------------------------------------------------
(* Texts and trees.                                                        *)
IsRef(piece) == Is("ref", piece)
IsText(s) == s \in Seq(Range(s))
RefsOf(s) == {s[i].ref : i \in {j \in DOMAIN s : IsRef(s[j])}}

(* The texts of a sequence, one after the other, up to each of them.       *)
JoinedUpTo(texts) ==
    LET upTo[i \in 0..Len(texts)] ==
            IF i = 0 THEN <<>> ELSE upTo[i - 1] \o texts[i]
    IN  upTo

Concat(texts) == JoinedUpTo(texts)[Len(texts)]

Scalar(node) == [p \in {<<>>} |-> node]
NoValue == [p \in {} |-> p]
IsKind(kind, v) == <<>> \in DOMAIN v /\ Is(kind, v[<<>>])

(* The tree below a path, NoValue if there is none.                        *)
Below(v, path) ==
    LET passing == {p \in DOMAIN v : Len(path) <= Len(p) /\ SubSeq(p, 1, Len(path)) = path}
    IN  [q \in {SubSeq(p, Len(path) + 1, Len(p)) : p \in passing} |-> v[path \o q]]

(* The tree that has a tree t[p] at each path p.                           *)
Graft(t) ==
    LET Splits(r) == {p \in DOMAIN t : \E q \in DOMAIN t[p] : r = p \o q}
    IN  [r \in UNION {{p \o q : q \in DOMAIN t[p]} : p \in DOMAIN t} |->
            LET p == CHOOSE p \in Splits(r) : TRUE
            IN  t[p][CHOOSE q \in DOMAIN t[p] : r = p \o q]]

(* The placeholders in the strings of a YAML value.                        *)
RefsIn(v) == UNION {RefsOf(v[p].str) : p \in {p \in DOMAIN v : Is("str", v[p])}}

-----------------------------------------------------------------------------
(* Parsing a definition.                                                   *)

(* A protocol version is <<major, minor>>; a missing or malformed one <<>>.*)
ProtocolSupported(p) ==
    /\ p # <<>>
    /\ \/ p[1] < Supported[1]
       \/ p[1] = Supported[1] /\ p[2] <= Supported[2]

(* A host type names its operating system, a Kubernetes type has none.     *)
EnvironmentOf(doc) ==
    IF doc.platform = "host" THEN doc.os
    ELSE IF doc.os = None THEN "k8s" ELSE None

Fits(type, v) ==
    CASE type = "string" -> IsKind("str", v)
      [] type = "bool" -> IsKind("bool", v)
      [] type = "number" -> IsKind("num", v)
      [] type = "map" -> IsKind("obj", v)
      [] type = "yaml" -> TRUE

(* A required variable has no default, any other has one; the missing      *)
(* default of a yaml variable is null.                                     *)
LeafValid(leaf) ==
    IF leaf.required THEN leaf.default = NoValue
    ELSE IF leaf.default = NoValue THEN leaf.type = "yaml"
    ELSE Fits(leaf.type, leaf.default)

(* A variable without a value yet.                                         *)
Variable(leaf, default, final) ==
    [type |-> leaf.type, required |-> leaf.required, default |-> default,
     acField |-> leaf.acField, variants |-> leaf.variants, final |-> final]

WithDefault(leaf) ==
    IF ~leaf.required /\ leaf.default = NoValue
    THEN Variable(leaf, Scalar([null |-> TRUE]), NoValue)
    ELSE Variable(leaf, leaf.default, NoValue)

Leaves(tree) == {p \in DOMAIN tree : Is("end", tree[p])}

Parsed(tree) ==
    [p \in DOMAIN tree |->
        IF Is("end", tree[p]) THEN [end |-> WithDefault(tree[p].end)] ELSE tree[p]]

DistinctExecutables(d) ==
    \A i, j \in DOMAIN d.executables :
        d.executables[i] = d.executables[j] => i = j

FromSlice(doc) ==
    IF /\ doc # NotYaml
       /\ ProtocolSupported(doc.protocol)
       /\ EnvironmentOf(doc) # None
       /\ \A p \in Leaves(doc.variables) : LeafValid(doc.variables[p].end)
       /\ doc.platform = "host" => DistinctExecutables(doc.deployment)
    THEN [ok |-> [id |-> doc.id, environment |-> EnvironmentOf(doc),
                  variables |-> Parsed(doc.variables),
                  deployment |-> doc.deployment]]
    ELSE Fail

-----------------------------------------------------------------------------
(* The registry.                                                           *)

(* Definitions for another environment are left out; a custom definition   *)
(* replaces an embedded one, and the last file one of an earlier file.     *)
Usable(doc, id) ==
    Ok(FromSlice(doc)) /\ EnvironmentOf(doc) = running /\ doc.id = id

LocalRegistry(id) ==
    LET custom == {i \in DOMAIN Custom : Usable(Custom[i], id)}
        embedded == {d \in Embedded : Usable(d, id)}
    IN  IF custom # {}
        THEN FromSlice(Custom[CHOOSE i \in custom : \A j \in custom : j <= i])
        ELSE IF embedded # {} THEN FromSlice(CHOOSE d \in embedded : TRUE)
        ELSE Fail

(* The tag of an artifact leaves the namespace of the type out.            *)
AgentTypeTag(id) == <<running, id.name, id.version>>

CheckMetadata(def, id) == def.environment = running /\ def.id = id

(* The download fails when the registry cannot be reached.                 *)
RemoteRegistry(id, reachable) ==
    LET tag == AgentTypeTag(id)
    IN  IF ~reachable \/ tag \notin published THEN Fail
        ELSE LET def == FromSlice(Artifacts[tag])
             IN  IF Ok(def) /\ CheckMetadata(def.ok, id) THEN def ELSE Fail

(* The first layer with a definition wins; an error of a layer is logged   *)
(* and the walk goes on.                                                   *)
RegistryGet(id, reachable) ==
    LET local == LocalRegistry(id)
    IN  IF Ok(local) THEN local ELSE RemoteRegistry(id, reachable)

-----------------------------------------------------------------------------
(* Templates.                                                              *)

(* Only "indent n" is known, with n an unsigned byte.                      *)
FunctionSupported(f) == f.name = "indent" /\ f.n \in 0..255
Indent(piece, fns) == IF IsRef(piece) THEN piece ELSE [indented |-> piece, by |-> fns]
ApplyFunctions(text, fns) ==
    IF fns = <<>> THEN text ELSE [i \in DOMAIN text |-> Indent(text[i], fns)]

TextOf(v) == IF IsKind("str", v) THEN v[<<>>].str ELSE <<[shown |-> v]>>
StringVariable(text) == [type |-> "string", value |-> Scalar([str |-> text])]

(* Replaces a placeholder wherever it stands in the text, also where an    *)
(* earlier replacement has brought it.                                     *)
Replace(text, piece, by) ==
    Concat([i \in DOMAIN text |-> IF text[i] = piece THEN by ELSE <<text[i]>>])

Renders(c, variables) ==
    /\ c.ref \in DOMAIN variables
    /\ \A i \in DOMAIN c.fns : FunctionSupported(c.fns[i])

Value(c, variables) == ApplyFunctions(TextOf(variables[c.ref].value), c.fns)

(* The text after each of its placeholders was replaced.                   *)
Replaced(s, variables) ==
    LET upTo[i \in 0..Len(s)] ==
            IF i = 0 THEN s
            ELSE IF IsRef(s[i]) THEN Replace(upTo[i - 1], s[i], Value(s[i], variables))
            ELSE upTo[i - 1]
    IN  upTo

TemplateString(s, variables) ==
    IF \A i \in DOMAIN s : IsRef(s[i]) => Renders(s[i], variables)
    THEN [ok |-> Replaced(s, variables)[Len(s)]]
    ELSE Fail

(* A string that is one placeholder takes the type of its variable.  Its   *)
(* functions count as part of the name here, and no variable has it.       *)
TemplateYamlString(s, variables) ==
    IF ~(Len(s) = 1 /\ IsRef(s[1]))
    THEN LET r == TemplateString(s, variables)
         IN  IF Ok(r) THEN [ok |-> Scalar([str |-> r.ok])] ELSE Fail
    ELSE IF s[1].fns # <<>> \/ s[1].ref \notin DOMAIN variables THEN Fail
    ELSE LET v == variables[s[1].ref]
         IN  [ok |-> IF v.type \in {"yaml", "bool", "number"} THEN v.value
                     ELSE Scalar([str |-> TextOf(v.value)])]

TemplateYaml(v, variables) ==
    LET nodes == Collect([p \in DOMAIN v |->
                    IF Is("str", v[p]) THEN TemplateYamlString(v[p].str, variables)
                    ELSE [ok |-> Scalar(v[p])]])
    IN  IF Ok(nodes) THEN [ok |-> Graft(nodes.ok)] ELSE Fail

(* A field of a host deployment: an empty text is the default of its type. *)
TemplateValue(field, variables) ==
    LET r == TemplateString(field.template, variables)
    IN  IF ~Ok(r) THEN Fail
        ELSE IF field.type = "string" \/ r.ok = <<>> THEN r
        ELSE IF Len(r.ok) = 1 /\ Is("shown", r.ok[1])
                  /\ Fits(field.type, r.ok[1].shown) THEN r
        ELSE Fail

-----------------------------------------------------------------------------
(* Secrets.                                                                *)
SecretNamespaces == {"env", "vault", "file", "kubesec"}

(* Every secret the values name is asked of the provider of its namespace; *)
(* a namespace without provider is left to the expansion, which fails.     *)
LoadSecrets(values) ==
    LET asked == {r \in RefsIn(values) :
                    r[1] \in SecretNamespaces \cap Providers}
    IN  IF asked \subseteq DOMAIN Secrets
        THEN [ok |-> [r \in asked |-> StringVariable(Secrets[r])]]
        ELSE Fail

-----------------------------------------------------------------------------
(* Variables.                                                              *)

(* The variants of the type, unless the configuration of Agent Control     *)
(* sets the field the type points to.                                      *)
BuildVariants(leaf) ==
    IF leaf.acField \in DOMAIN Constraints THEN Constraints[leaf.acField]
    ELSE leaf.variants

Merge(leaf, v) ==
    LET variants == BuildVariants(leaf)
    IN  IF /\ Fits(leaf.type, v)
           /\ leaf.type = "string" => variants = {} \/ TextOf(v) \in variants
        THEN [ok |-> [end |-> Variable(leaf, leaf.default, v)]]
        ELSE Fail

(* A value without variable is left out, as is what is below it.           *)
UpdateSpecs(tree, values) ==
    Collect([p \in DOMAIN tree |->
        IF p \notin DOMAIN values THEN [ok |-> tree[p]]
        ELSE IF Is("end", tree[p]) THEN Merge(tree[p].end, Below(values, p))
        ELSE IF Is("obj", values[p]) THEN [ok |-> tree[p]] ELSE Fail])

(* Mutant: the default of the type comes before the value given.           *)
GetFinalValue_DefaultFirst(leaf) ==
    IF leaf.default # NoValue THEN leaf.default ELSE leaf.final

(* The value given, or else the default.                                   *)
GetFinalValue(leaf) ==
    IF leaf.final # NoValue THEN leaf.final ELSE leaf.default

AllPopulated(tree) ==
    \A p \in Leaves(tree) : GetFinalValue(tree[p].end) # NoValue

SubAgentVariables(agent) ==
    [r \in {<<"sub", <<a>>>> : a \in {"agent_id", "filesystem_agent_dir",
                                      "shared_filesystem_dir", "remote_dir"}} |->
        StringVariable(<<[text |-> r[2][1], of |-> agent]>>)]

Flatten(tree) ==
    [r \in {<<"var", p>> : p \in Leaves(tree)} |->
        [type |-> tree[r[2]].end.type, value |-> GetFinalValue(tree[r[2]].end)]]

(* The entries of f and, for other keys, those of g.                       *)
Over(f, g) == [x \in DOMAIN f \cup DOMAIN g |-> IF x \in DOMAIN f THEN f[x] ELSE g[x]]

NamespacedVariables(tree, agent) ==
    Over(AcVars, Over(EnvVars, Over(SubAgentVariables(agent), Flatten(tree))))

(* The directory of each package is a variable of its own.                 *)
IncludePackagesVariables(variables, packages, agent) ==
    Over([r \in {<<"sub", <<"packages", p, "dir">>>> : p \in DOMAIN packages} |->
            StringVariable(<<[dir |-> <<agent, r[2][2], packages[r[2][2]]>>]>>)],
         variables)

-----------------------------------------------------------------------------
(* The deployment.                                                         *)
TemplateOci(package, variables) ==
    LET r == TemplateString(package, variables)
    IN  IF Ok(r) /\ r.ok \notin BadReferences THEN r ELSE Fail

(* Packages first: their directories are variables for the rest.           *)
RenderHost(d, variables, agent) ==
    LET packages == Collect([p \in DOMAIN d.packages |->
                               TemplateOci(d.packages[p], variables)])
    IN  IF ~Ok(packages) THEN Fail
        ELSE LET all == IncludePackagesVariables(variables, packages.ok, agent)
                 fields == Collect([f \in DOMAIN d.fields |->
                                      TemplateValue(d.fields[f], all)])
             IN  IF Ok(fields)
                 THEN [ok |-> [packages |-> packages.ok, fields |-> fields.ok]]
                 ELSE Fail

(* The names of the objects are texts, their fields YAML values.           *)
RenderK8s(d, variables) ==
    LET names == Collect([o \in DOMAIN d.names |->
                            TemplateString(d.names[o], variables)])
        objects == Collect([o \in DOMAIN d.objects |->
                              TemplateYaml(d.objects[o], variables)])
    IN  IF Ok(names) /\ Ok(objects)
        THEN [ok |-> [names |-> names.ok, objects |-> objects.ok]]
        ELSE Fail

RenderDeployment(def, variables, agent) ==
    IF def.environment = "k8s" THEN RenderK8s(def.deployment, variables)
    ELSE RenderHost(def.deployment, variables, agent)

Render(def, values, secrets, agent) ==
    LET expanded == TemplateYaml(values, secrets)
    IN  IF ~Ok(expanded) THEN Fail
        ELSE LET filled == UpdateSpecs(def.variables, expanded.ok)
             IN  IF ~Ok(filled) \/ ~AllPopulated(filled.ok) THEN Fail
                 ELSE RenderDeployment(def,
                        NamespacedVariables(filled.ok, agent), agent)

-----------------------------------------------------------------------------
(* What the constants are.                                                 *)
IsTree(v) ==
    /\ DOMAIN v \subseteq Seq(STRING)
    /\ \A p \in DOMAIN v : \A i \in 0..Len(p) : SubSeq(p, 1, i) \in DOMAIN v

(* The strings of a value are texts.                                       *)
IsValue(v) ==
    /\ IsTree(v)
    /\ \A p \in DOMAIN v : Is("str", v[p]) => IsText(v[p].str)

HostTyped(d) ==
    /\ \A p \in DOMAIN d.packages : IsText(d.packages[p])
    /\ \A f \in DOMAIN d.fields : IsText(d.fields[f].template)

K8sTyped(d) == \A o \in DOMAIN d.objects : IsValue(d.objects[o])

DocTyped(doc) ==
    /\ IsTree(doc.variables)
    /\ \A p \in Leaves(doc.variables) : IsValue(doc.variables[p].end.default)
    /\ IF doc.platform = "host" THEN doc.os # "k8s" /\ HostTyped(doc.deployment)
       ELSE K8sTyped(doc.deployment)

(* The definitions embedded in the binary are valid: it would not start    *)
(* with one that is not.                                                   *)
Assumptions ==
    /\ Custom \in Seq(Range(Custom))
    /\ \A doc \in Range(Custom) \cup Embedded \cup Range(Artifacts) :
         doc # NotYaml => DocTyped(doc)
    /\ \A doc \in Embedded : Ok(FromSlice(doc))
    /\ \A r \in Requests : IsValue(r.values)
    /\ \A ref \in DOMAIN Secrets : IsText(Secrets[ref])
    /\ \A ref \in DOMAIN EnvVars : ref[1] = "env" /\ IsValue(EnvVars[ref].value)
    /\ \A ref \in DOMAIN AcVars : ref[1] = "ac" /\ IsValue(AcVars[ref].value)

-----------------------------------------------------------------------------
Init ==
    /\ running \in Environments
    /\ published = {} /\ request = None /\ pc = "idle"
    /\ found = None /\ outcome = None

(* An artifact appears in the remote registry and stays as it is.          *)
Publish(tag) ==
    /\ tag \notin published
    /\ published' = published \cup {tag}
    /\ UNCHANGED <<running, request, pc, found, outcome>>

(* Agent Control validates a configuration with the agent: its type must   *)
(* be in the registry.                                                     *)
Validate(r, reachable) ==
    /\ pc = "idle"
    /\ request' = r
    /\ pc' = IF Ok(RegistryGet(r.type, reachable)) THEN "accepted" ELSE "refused"
    /\ UNCHANGED <<running, published, found, outcome>>

(* The sub-agent assembles itself: the registry is asked again.            *)
AssembleAgent(reachable) ==
    /\ pc = "accepted" /\ pc' = "done"
    /\ LET def == RegistryGet(request.type, reachable)
           secrets == LoadSecrets(request.values)
       IN  /\ found' = IF Ok(def) THEN def.ok ELSE None
           /\ outcome' = IF Ok(def) /\ Ok(secrets)
                         THEN Render(def.ok, request.values, secrets.ok,
                                     request.agent)
                         ELSE Fail
    /\ UNCHANGED <<running, published, request>>

Next ==
    \/ \E tag \in DOMAIN Artifacts : Publish(tag)
    \/ \E r \in Requests, reachable \in BOOLEAN : Validate(r, reachable)
    \/ \E reachable \in BOOLEAN : AssembleAgent(reachable)

Spec == Init /\ [][Next]_vars

-----------------------------------------------------------------------------
(* The reference.  All the placeholders of a text are replaced at once; a  *)
(* secret in a value stands for its text.                                  *)
Substituted(s, meaning) ==
    Concat([i \in DOMAIN s |->
        IF IsRef(s[i]) THEN ApplyFunctions(meaning[s[i].ref], s[i].fns)
        ELSE <<s[i]>>])

Revealed(v) ==
    [p \in DOMAIN v |->
        IF Is("str", v[p])
        THEN [str |-> Substituted(v[p].str, [r \in RefsOf(v[p].str) |-> Secrets[r]])]
        ELSE v[p]]

(* What a reference in the deployment of an agent stands for: the value    *)
(* given for a variable, or else its default.                              *)
Meaning(def, r, packages, ref) ==
    LET given == Below(r.values, ref[2])
    IN  CASE ref[1] = "var" -> IF given # NoValue THEN Revealed(given)
                               ELSE def.variables[ref[2]].end.default
          [] ref[1] = "env" -> EnvVars[ref].value
          [] ref[1] = "ac" -> AcVars[ref].value
          [] ref[1] = "sub" /\ Len(ref[2]) = 1 ->
                Scalar([str |-> <<[text |-> ref[2][1], of |-> r.agent]>>])
          [] OTHER ->
                Scalar([str |-> <<[dir |-> <<r.agent, ref[2][2], packages[ref[2][2]]>>]>>])

(* No text that replaces one of these references has placeholders itself.  *)
Plain(refs, def, r, packages) ==
    \A ref \in refs : RefsIn(Meaning(def, r, packages, ref)) = {}

RenderedAs(text, template, def, r, packages) ==
    Plain(RefsOf(template), def, r, packages) =>
        text = Substituted(template,
                 [ref \in RefsOf(template) |-> TextOf(Meaning(def, r, packages, ref))])

(* Whatever the registries answer and in whatever order they are filled,   *)
(* an agent is assembled from the definition it names, for the running     *)
(* environment, and from the last usable file of the dynamic directory if  *)
(* there is one; an artifact of another namespace with the same tag is     *)
(* never taken for it.                                                     *)
TypeAsRequested ==
    pc = "done" /\ found # None =>
        /\ found.id = request.type /\ found.environment = running
        /\ \A i \in DOMAIN Custom :
             /\ Usable(Custom[i], request.type)
             /\ \A j \in i+1..Len(Custom) : ~ Usable(Custom[j], request.type)
             => found = FromSlice(Custom[i]).ok

(* A value that does not fit its variable, is not an accepted variant, or  *)
(* is missing though required, gives no agent at all.                      *)
ValueAccepted(leaf, given) ==
    IF given = NoValue THEN ~leaf.required
    ELSE /\ Fits(leaf.type, given)
         /\ leaf.type = "string" /\ BuildVariants(leaf) # {} =>
              TextOf(given) \in BuildVariants(leaf)

(* An assembled agent is what its type and its values say: in the packages *)
(* and fields of a host deployment every reference is replaced, all at     *)
(* once, by the value given for it or else by its default, secrets by      *)
(* their text, and no placeholder is left in a Kubernetes object - as long *)
(* as the texts that replace placeholders have none themselves.            *)
RenderedRight ==
    /\ pc = "done" /\ found # None /\ Ok(outcome)
    /\ \A r \in RefsIn(request.values) : r \in DOMAIN Secrets => RefsOf(Secrets[r]) = {}
    =>  LET got == outcome.ok
            d == found.deployment
        IN  /\ \A p \in Leaves(found.variables) :
                 ValueAccepted(found.variables[p].end, Revealed(Below(request.values, p)))
            /\ running = "k8s" =>
                 \A o \in DOMAIN got.objects :
                    Plain(RefsIn(d.objects[o]), found, request, <<>>) =>
                        RefsIn(got.objects[o]) = {}
            /\ running # "k8s" =>
                 /\ \A f \in DOMAIN got.fields :
                      RenderedAs(got.fields[f], d.fields[f].template, found, request,
                                 got.packages)
                 /\ \A p \in DOMAIN got.packages :
                      RenderedAs(got.packages[p], d.packages[p], found, request,
                                 got.packages)

(* Both of the above: the agent that is assembled is the one that was      *)
(* asked for, rendered as its definition and its values say.               *)
AssembledRight == TypeAsRequested /\ RenderedRight
=============================================================================
