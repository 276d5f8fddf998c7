-------------------------------- MODULE Parts --------------------------------
(***************************************************************************)
(* The parts of Agent Control that share no state with the others, side by *)
(* side: each is an instance with variables of its own, whose names carry  *)
(* the part's initials where they would clash.                             *)
(***************************************************************************)
EXTENDS Integers

(* RenderedFiles: the files that an agent type declares.                   *)
CONSTANTS Trees, OwnFiles, MaxFileFaults
VARIABLES disk_, manifest, rfPc, tree, written, lost, rfFaults

RF == INSTANCE RenderedFiles WITH
    disk <- disk_, pc <- rfPc, faults <- rfFaults, MaxFaults <- MaxFileFaults
rfVars == <<disk_, manifest, rfPc, tree, written, lost, rfFaults>>

(* RestartPolicy: when a process is launched again.                        *)
CONSTANTS InitialDelay, RetryLimits, Interval, PowWidth, MaxRun, MaxTries
VARIABLES strategy, maxRetries, rpPc, tries, elapsed, delay, shortRuns

RP == INSTANCE RestartPolicy WITH pc <- rpPc, Limits <- RetryLimits
rpVars == <<strategy, maxRetries, rpPc, tries, elapsed, delay, shortRuns>>

(* StatusServer: what /status says.                                        *)
CONSTANTS StatusAgents, Types, NoType, MaxEvents
VARIABLES type, phase, main, bridge, processor, http, queue, async, status, n, said,
          overtaken

SS == INSTANCE StatusServer WITH Agents <- StatusAgents
ssVars == <<type, phase, main, bridge, processor, http, queue, async, status, n,
            said, overtaken>>

(* RemoteConfigs: from a message of Fleet to the values of an agent.       *)
CONSTANTS RemoteAgents, Restricted, Messages, Missing, NotSigned, NotUtf8,
          Malformed, AgentEntries, OverrideEntries, DeniedKeys, MaxKeys, MaxMessages
VARIABLES latest, verifier, channel, parsing, received, rcOutcome

RC == INSTANCE RemoteConfigs WITH Agents <- RemoteAgents, outcome <- rcOutcome
rcVars == <<latest, verifier, channel, parsing, received, rcOutcome>>

(* OciFetch: the download of an artifact.                                  *)
CONSTANTS Manifests, Signatures, PublicKeys, TagRef, NoResult, MaxAttempts,
          MaxBlob, MaxMoves
VARIABLES tag, signed, moves, ofRequest, ofPc, attempt, reference, digest, files,
          result

OF == INSTANCE OciFetch WITH
    request <- ofRequest, pc <- ofPc, Keys <- PublicKeys, None <- NoResult
ofVars == <<tag, signed, moves, ofRequest, ofPc, attempt, reference, digest,
            files, result>>

(* Health: the rounds of the health checks.                                *)
CONSTANTS Objects, Contents, Starts, Plans, HealthyCodes, HealthLimits, Absent,
          NoStatus, MaxChanges
VARIABLES content, changes, plan, limit, hcAttempt, next, health, up, down, unread

HC == INSTANCE Health WITH
    attempt <- hcAttempt, Limits <- HealthLimits, None <- NoResult
hcVars == <<content, changes, plan, limit, hcAttempt, next, health, up, down, unread>>

(* AgentTypes: from an agent type and values to a deployment.              *)
CONSTANTS Environments, SupportedProtocol, Custom, Embedded, Artifacts, Constraints,
          Providers, Secrets, EnvVars, AcVars, BadReferences, AgentRequests, NotYaml
VARIABLES running, published, atRequest, atPc, found, atOutcome

AT == INSTANCE AgentTypes WITH
    Supported <- SupportedProtocol, Requests <- AgentRequests,
    request <- atRequest, pc <- atPc, outcome <- atOutcome, None <- NoResult
atVars == <<running, published, atRequest, atPc, found, atOutcome>>

-----------------------------------------------------------------------------
ASSUME RenderedFilesAssumption == RF!Assumptions
ASSUME RestartPolicyAssumption == RP!Assumptions
ASSUME RemoteConfigsAssumption == RC!Assumptions
ASSUME OciFetchAssumption == OF!Assumptions
ASSUME HealthAssumption == HC!Assumptions
ASSUME AgentTypesAssumption == AT!Assumptions

-----------------------------------------------------------------------------
(* A supervisor that started finds exactly the files its tree declares.    *)
FilesAsDeclared == RF!FilesAsDeclared

(* Files of the agent's process stay below persistent directories.         *)
OwnFilesStay == RF!OwnFilesStay

(* Short runs end after max_retries + 1 launches.                          *)
ShortRunsBounded == RP!ShortRunsBounded

(* In a sequence of retries the delay never shrinks.                       *)
DelaysGrow == RP!DelaysGrow

(* /status catches up with what was broadcast.                             *)
StatusCurrent == SS!StatusCurrent

(* What is accepted was signed by Fleet, is allowed outside the override   *)
(* and was read rightly, and what was signed by Fleet is accepted.         *)
VerdictRight == RC!VerdictRight

(* What a download returns is what was verified.                           *)
VerifiedIsDownloaded == OF!VerifiedIsDownloaded

(* A published health rests on what was there during the round.            *)
HealthJustified == HC!HealthJustified

(* The deployment assembled is the one the agent type and its values mean. *)
AssembledRight == AT!AssembledRight
=============================================================================
