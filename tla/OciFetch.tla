------------------------------- MODULE OciFetch -------------------------------
(***************************************************************************)
(* The download of an artifact (an agent package or an agent type) from an *)
(* OCI registry: OciArtifactFetcher with its retries, the verification of  *)
(* the Cosign signature, the choice of the layer and the pull of its blob. *)
(* The registry is shared: while a download goes on, the tag may be moved  *)
(* to another manifest and signatures may be pushed.                       *)
(***************************************************************************)
EXTENDS Naturals, Sequences

CONSTANTS
    Manifests,    \* the manifests of the repository, by digest
    Signatures,   \* the layers of the signature manifest of a digest
    Keys,         \* the public keys at the URL of the configuration
    TagRef,       \* a reference by tag (the others are digests)
    None,
    MaxAttempts,  \* BackoffPolicy::max_attempts
    MaxBlob,      \* the largest blob accepted for an agent type
    MaxMoves      \* bound: how often the registry changes

VARIABLES
    tag,          \* the digest the tag points to
    signed,       \* the digests whose signature manifest has been pushed
    moves,
    request,      \* [kind, base, enabled, url]
    pc, attempt,
    reference,    \* what verified_reference returned
    digest,       \* the digest being verified, then the manifest pulled
    files,        \* the blobs on disk, by digest: "partial" or "complete"
    result        \* the [manifest, layer] downloaded, or None

vars == <<tag, signed, moves, request, pc, attempt, reference, digest, files,
          result>>

Digests == DOMAIN Manifests

Assumptions == TagRef \notin Digests

-----------------------------------------------------------------------------
(* What names a key URL is verified; packages only if that is enabled.     *)
ShouldVerifySignature(r) == r.url /\ (r.kind = "package" => r.enabled)

(* The layer has the media type and the annotation, and its payload claims *)
(* the digest; other layers are skipped.                                   *)
SignatureData(layer, d) ==
    /\ layer.media = "simplesigning" /\ layer.annotated
    /\ layer.claims = d /\ layer.base64

ValidSignature(d) ==
    \E i \in DOMAIN Signatures[d] :
        SignatureData(Signatures[d][i], d) /\ Signatures[d][i].key \in Keys

(* Mutant: the reference asked for is used again.                          *)
VerifiedReference_Base(d) == request.base

(* The reference of what has been verified is pinned to its digest.        *)
VerifiedReference(d) == d

PackageMedia == {"package.tar.gz", "package.zip"}
TypeMedia == {"type.tar.gz"}

(* Exactly one layer of a manifest of the right type is supported.         *)
GetLayer(kind, m) ==
    LET media == IF kind = "package" THEN PackageMedia ELSE TypeMedia
        supported == {i \in DOMAIN m.layers : m.layers[i].media \in media}
    IN  IF m.type = kind /\ \E i \in supported : supported = {i}
        THEN m.layers[CHOOSE i \in supported : TRUE] ELSE None

(* An agent type is one file.                                              *)
ExtractDefinition(layer) == layer.files = 1

-----------------------------------------------------------------------------
Init ==
    /\ tag \in Digests /\ signed = {} /\ moves = 0
    /\ request = None /\ pc = "idle" /\ attempt = 0
    /\ reference = None /\ digest = None /\ files = <<>> /\ result = None

First(r) == IF ShouldVerifySignature(r) THEN "keys" ELSE "manifest"

Download(r) ==
    /\ pc = "idle"
    /\ request' = r /\ attempt' = 1
    /\ pc' = First(r) /\ reference' = r.base
    /\ UNCHANGED <<tag, signed, moves, digest, files, result>>

(* An error ends the attempt: the whole operation is tried again.          *)
Retry ==
    /\ IF attempt < MaxAttempts
       THEN attempt' = attempt + 1 /\ pc' = First(request)
       ELSE pc' = "failed" /\ UNCHANGED attempt
    /\ reference' = request.base /\ digest' = None /\ UNCHANGED result

Calm == UNCHANGED <<tag, signed, moves, request>>

FetchKeys ==
    /\ pc = "keys"
    /\ \/ pc' = "digest" /\ UNCHANGED <<attempt, reference, digest, result>>
       \/ Retry
    /\ Calm /\ UNCHANGED files

ResolveDigest ==
    /\ pc = "digest"
    /\ \/ /\ digest' = IF request.base = TagRef THEN tag ELSE request.base
          /\ pc' = "signatures" /\ UNCHANGED <<attempt, reference, result>>
       \/ request.base = TagRef /\ Retry
    /\ Calm /\ UNCHANGED files

(* The signature manifest, and the blobs of its layers up to a valid one.  *)
VerifySignature ==
    /\ pc = "signatures"
    /\ \/ /\ digest \in signed /\ ValidSignature(digest)
          /\ reference' = VerifiedReference(digest)
          /\ pc' = "manifest" /\ digest' = None
          /\ UNCHANGED <<attempt, result>>
       \/ Retry
    /\ Calm /\ UNCHANGED files

PullManifest ==
    /\ pc = "manifest"
    /\ \/ /\ digest' = IF reference = TagRef THEN tag ELSE reference
          /\ GetLayer(request.kind, Manifests[digest']) # None
          /\ pc' = "blob" /\ UNCHANGED <<attempt, reference, result>>
       \/ Retry
    /\ Calm /\ UNCHANGED files

(* A package goes to a file named after the layer, created anew each time; *)
(* an agent type stays in memory, and only up to a size.                   *)
PullBlob ==
    /\ pc = "blob"
    /\ LET layer == GetLayer(request.kind, Manifests[digest])
           inMemory == request.kind = "type"
           Stored(s) ==
               files' = IF inMemory THEN files
                        ELSE [l \in DOMAIN files \cup {layer.digest} |->
                                IF l = layer.digest THEN s ELSE files[l]]
       IN  \/ /\ inMemory => layer.size <= MaxBlob /\ ExtractDefinition(layer)
              /\ Stored("complete")
              /\ pc' = "done" /\ result' = [manifest |-> digest, layer |-> layer]
              /\ UNCHANGED <<attempt, reference, digest>>
           \/ Stored("partial") /\ Retry
    /\ Calm

(* The registry changes under the download.                                *)
MoveTag(d) ==
    /\ moves < MaxMoves /\ moves' = moves + 1
    /\ d # tag /\ tag' = d
    /\ UNCHANGED <<signed, request, pc, attempt, reference, digest, files, result>>

PushSignature(d) ==
    /\ d \notin signed /\ signed' = signed \cup {d}
    /\ UNCHANGED <<tag, moves, request, pc, attempt, reference, digest, files,
                   result>>

Requests ==
    {r \in [kind : {"package", "type"}, base : Digests \cup {TagRef},
            enabled : BOOLEAN, url : BOOLEAN] :
        \* an agent type is asked for by its tag
        r.kind = "type" => r.base = TagRef}

Next ==
    \/ \E r \in Requests : Download(r)
    \/ FetchKeys \/ ResolveDigest \/ VerifySignature \/ PullManifest \/ PullBlob
    \/ \E d \in Digests : MoveTag(d) \/ PushSignature(d)

Spec == Init /\ [][Next]_vars

-----------------------------------------------------------------------------
(* What a download returns, with signatures required, is the artifact that *)
(* was verified: a manifest that carries a valid signature for its own     *)
(* digest, wherever the tag points by then and whatever earlier attempts   *)
(* did; a download asked for by digest returns that manifest; and its blob *)
(* is the manifest's one layer, complete on disk.                          *)
VerifiedIsDownloaded ==
    pc = "done" =>
        /\ ShouldVerifySignature(request) =>
             result.manifest \in signed /\ ValidSignature(result.manifest)
        /\ request.base # TagRef => result.manifest = request.base
        /\ \E i \in DOMAIN Manifests[result.manifest].layers :
             Manifests[result.manifest].layers[i] = result.layer
        /\ request.kind = "package" => files[result.layer.digest] = "complete"
=============================================================================
