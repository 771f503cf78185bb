------------------------------- MODULE Tooling ------------------------------
(***************************************************************************)
(* What prepares, checks and starts a deployment: repo-tools, the platform *)
(* generators, the platform validators and the bootstrap of web-bff.  They *)
(* work on different files, so a behaviour exercises one of them, chosen   *)
(* at the start; the others stay in an initial state.                      *)
(***************************************************************************)
EXTENDS GeneratedArtifacts, DevWorkers, OpsCommands, DeployableSecrets,
        PlatformValidators, RepoGates, AgentRouting, BffBootstrap

VARIABLE part  \* the part in use

vars == <<artifactVars, workerVars, opsVars, secretVars, modelVars, gateVars, routingVars,
          bootVars, part>>

Parts == {"artifacts", "workers", "ops", "secrets", "model", "gates", "routing", "boot"}

Init ==
  /\ part \in Parts
  /\ ArtifactsInit /\ WorkersInit /\ OpsInit /\ SecretsInit /\ ModelInit /\ GateInit
  /\ RoutingInit /\ BootInit
  /\ part # "artifacts" => generated["contracts"][2] = 0
  /\ part # "model" => services = {}
  /\ part # "boot" => setting = Default /\ schema["remote"] = {}

Next ==
  /\ \/ part = "artifacts" /\ ArtifactsNext
          /\ UNCHANGED <<workerVars, opsVars, secretVars, modelVars, gateVars, routingVars, bootVars>>
     \/ part = "workers" /\ WorkersNext
          /\ UNCHANGED <<artifactVars, opsVars, secretVars, modelVars, gateVars, routingVars, bootVars>>
     \/ part = "ops" /\ OpsNext
          /\ UNCHANGED <<artifactVars, workerVars, secretVars, modelVars, gateVars, routingVars, bootVars>>
     \/ part = "secrets" /\ SecretsNext
          /\ UNCHANGED <<artifactVars, workerVars, opsVars, modelVars, gateVars, routingVars, bootVars>>
     \/ part = "model" /\ ModelNext
          /\ UNCHANGED <<artifactVars, workerVars, opsVars, secretVars, gateVars, routingVars, bootVars>>
     \/ part = "gates" /\ GateNext
          /\ UNCHANGED <<artifactVars, workerVars, opsVars, secretVars, modelVars, routingVars, bootVars>>
     \/ part = "routing" /\ RoutingNext
          /\ UNCHANGED <<artifactVars, workerVars, opsVars, secretVars, modelVars, gateVars, bootVars>>
     \/ part = "boot" /\ BootNext
          /\ UNCHANGED <<artifactVars, workerVars, opsVars, secretVars, modelVars, gateVars, routingVars>>
  /\ UNCHANGED part

Spec == Init /\ [][Next]_vars /\ BootFairness

\* Every part's state has its type.
TypeOK ==
  /\ ArtifactsTypeOK /\ WorkersTypeOK /\ OpsTypeOK /\ SecretsTypeOK
  /\ ModelTypeOK /\ GateTypeOK /\ RoutingTypeOK /\ BootTypeOK
=============================================================================
