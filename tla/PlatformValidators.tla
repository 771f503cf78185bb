------------------------- MODULE PlatformValidators -------------------------
(***************************************************************************)
(* The validators of platform/validators over one draft of the platform    *)
(* model.  `model` is what the files under platform/model say, reduced to  *)
(* the keys the validators read; every step is one edit of one file.  Each *)
(* validator is the pair of sets it reports: what it calls an error (the   *)
(* process exits non-zero) and what it calls a warning (it does not).      *)
(* platform-doctor runs them in a row and stops at the first failure.      *)
(***************************************************************************)
EXTENDS FiniteSets, Naturals

CONSTANTS
  ServiceNames,      \* names a service file can have
  LongNames,         \* those of 30 characters or more
  DeployableNames,   \* names a deployable file can have
  CounterDeployable, \* the one called "counter-service"
  MaxModelEdits      \* bound: edits of the model

ASSUME ModelAssumption == IsFiniteSet(ServiceNames)

VARIABLES
  model,             \* the files under platform/model
  modelEdits         \* edits so far

modelVars == <<model, modelEdits>>

(* A service's crate, a deployable's package and its entry point are in    *)
(* the repository ("there"), are named but missing ("gone"), or not named. *)
Places == {"none", "gone", "there"}
ResourceNames == {"database", "telemetry"}
Sensitive == {"database"}
Forms == {"name", "services/", "packages/"}
Statuses == {"none", "implemented", "embedded", "stub", "planned"}
States == {"local", "external"}
Keys == {"own", "foreign"}            \* "database.x", or without the prefix

ServiceFiles ==
  [dependencies: SUBSET (Forms \X ServiceNames), logical: SUBSET ServiceNames,
   deployable: DeployableNames, auth: {"methods", "no_methods"},
   observability: {"full", "partial", "none"}, crate: BOOLEAN]
DeployableFiles ==
  [current: Statuses, target: {"none", "independent", "embedded"},
   planned: {"none", "empty", "some"}, independent: BOOLEAN, embeddedIn: BOOLEAN,
   package: Places, entry: Places, services: SUBSET ServiceNames,
   resources: SUBSET ResourceNames,
   observability: {"none", "no_health", "no_endpoint", "no_readiness", "full"}]
ResourceFiles == [encryption: {"on", "off", "none"}]
Topologies ==
  [deployables: SUBSET DeployableNames, overrides: SUBSET ResourceNames,
   capability: {"database", "cache"}, state: States \cup {"unknown", "none"},
   provider: Keys \cup {"none"}, adapter: Keys \cup {"none"},
   resource: {"plain", "reserved", "none"},
   secret: {"none", "plain", "state", "topology", "provider"}, tested: BOOLEAN]
Capabilities ==
  [files: SUBSET {"database", "cache"}, supported: SUBSET States,
   providers: SUBSET Keys, adapters: SUBSET Keys, default: Keys \cup {"none"},
   resources: SUBSET {"plain", "reserved"}]

(* The model directory stays a set of files, each with the keys above.     *)
ModelTypeOK ==
  /\ \E names \in SUBSET ServiceNames : model.services \in [names -> ServiceFiles]
  /\ \E names \in SUBSET DeployableNames :
       model.deployables \in [names -> DeployableFiles]
  /\ \E names \in SUBSET ResourceNames : model.resources \in [names -> ResourceFiles]
  /\ model.topology \in Topologies /\ model.capabilities \in Capabilities
  /\ modelEdits \in 0..MaxModelEdits

services == DOMAIN model.services
deployables == DOMAIN model.deployables
resources == DOMAIN model.resources

-----------------------------------------------------------------------------
(* dependency-graph                                                        *)

(* Edges by the exact name only, of services that have a file.             *)
BuildGraph ==
  {edge \in services \X services : <<"name", edge[2]>> \in model.services[edge[1]].dependencies}

(* What a service depends on, directly or through others: the least set    *)
(* with its own dependencies and those of every member.                    *)
Follows(set, s) == {t \in services : <<s, t>> \in BuildGraph} \subseteq set
Reaches(s) ==
  {t \in services : \A set \in SUBSET services :
     Follows(set, s) /\ (\A u \in set : Follows(set, u)) => t \in set}

(* Services in a strongly connected component of more than one node        *)
(* (tarjan_scc), and those with a self-loop.                               *)
DetectCycles ==
  {s \in services : \/ \E t \in services \ {s} : t \in Reaches(s) /\ s \in Reaches(t)
                    \/ <<s, s>> \in BuildGraph}

(* A reference to a package is no service reference, and a name of 30      *)
(* characters or more is not looked up.                                    *)
CheckBrokenReferences ==
  {s \in services : \E ref \in model.services[s].dependencies :
     /\ ref[1] \in {"name", "services/"}
     /\ ref[2] \notin services \cup LongNames}

CheckTopologyRefs == model.topology.deployables \ deployables

CheckDeployableServiceRefs ==
  {d \in deployables : ~(model.deployables[d].services \subseteq services)}

DependencyGraphPasses ==
  DetectCycles = {} /\ CheckBrokenReferences = {} /\ CheckDeployableServiceRefs = {}

-----------------------------------------------------------------------------
(* topology-check                                                          *)

IsCriticalDeployable(d) ==
  model.deployables[d].current = "implemented" /\ model.deployables[d].independent

(* An override names a resource its deployable lists or one with a file.   *)
UnknownOverrides ==
  {d \in model.topology.deployables \cap deployables :
     ~(model.topology.overrides \subseteq model.deployables[d].resources \cup resources)}

TopologyPasses == model.topology.deployables \subseteq deployables
TopologyWarns ==
  \/ UnknownOverrides # {}
  \/ model.topology.deployables = {}
  \/ \E d \in deployables \ model.topology.deployables : IsCriticalDeployable(d)
  \/ ~model.topology.tested

-----------------------------------------------------------------------------
(* model-lint                                                              *)

(* The JSON schemas of platform/schema: a service file has the key         *)
(* logical_dependencies and no other dependency key.                       *)
SchemaValid == \A s \in services : model.services[s].dependencies = {}

CheckServiceDeployableRefs ==
  {s \in services : model.services[s].deployable \notin deployables}

CheckResourceRefs ==
  {d \in deployables : ~(model.deployables[d].resources \subseteq resources)}

(* Mutant: the statuses are not held against each other.                   *)
MutStatusConsistent(d) ==
  LET file == model.deployables[d] IN
  /\ file.current # "none" /\ file.target # "none" /\ file.planned # "none"
  /\ file.independent => file.package = "there"

StatusConsistent(d) ==
  LET file == model.deployables[d]
      future == file.current \in {"embedded", "stub", "planned"} IN
  /\ file.current # "none" /\ file.target # "none" /\ file.planned # "none"
  /\ file.current = "embedded" => file.embeddedIn
  /\ future => ~file.independent
  /\ future /\ file.target = "independent" => file.planned = "some"
  /\ file.current = "implemented" => file.independent
  /\ file.independent => file.package = "there" /\ file.entry = "there"
  /\ d = CounterDeployable => file.current = "embedded"

CapabilityNaming ==
  LET capability == model.capabilities IN
  "database" \in capability.files =>
    /\ capability.providers \subseteq {"own"} /\ capability.adapters \subseteq {"own"}
    /\ "reserved" \notin capability.resources
    /\ capability.default \in capability.providers \cup {"none"}

SecretBindingNameError(name) == name \in {"state", "topology", "provider"}

(* Without a single capability file the bindings are not looked at, and a  *)
(* key a binding leaves out is not missed.                                 *)
CapabilityBindings ==
  LET capability == model.capabilities
      binding == model.topology IN
  \/ capability.files = {}
  \/ /\ binding.capability \in capability.files
     /\ binding.capability = "database" =>
          /\ binding.state \in capability.supported \cup {"none"}
          /\ binding.provider \in (capability.providers \cap {"own"}) \cup {"none"}
          /\ binding.adapter \in (capability.adapters \cap {"own"}) \cup {"none"}
          /\ binding.resource \in (capability.resources \cap {"plain"}) \cup {"none"}
          /\ ~SecretBindingNameError(binding.secret)

ModelLintPasses ==
  /\ SchemaValid /\ CapabilityNaming /\ CapabilityBindings
  /\ \A d \in deployables : StatusConsistent(d)
ModelLintWarns == CheckServiceDeployableRefs # {} \/ CheckResourceRefs # {}

-----------------------------------------------------------------------------
(* contract-drift, security-check and observability-check                  *)

(* Services without a crate, and crates without a service: never fatal.    *)
CheckServiceCrateDrift == {s \in services : ~model.services[s].crate}

CheckServiceSecurity == {s \in services : model.services[s].auth = "no_methods"}

CheckResourceSecurity ==
  {r \in resources \cap Sensitive : model.resources[r].encryption = "off"}

SecurityPasses == CheckResourceSecurity = {}
SecurityWarns ==
  \/ CheckServiceSecurity # {}
  \/ \E r \in resources \cap Sensitive : model.resources[r].encryption = "none"

CheckServiceObservability ==
  {s \in services : model.services[s].observability # "full"}

CheckDeployableObservability ==
  {d \in deployables :
     model.deployables[d].observability \in {"no_health", "no_endpoint"}}

(* A resource of type observability is the tracing, the metrics and the    *)
(* logging resource in one.                                                *)
CheckObservabilityResources == "telemetry" \in resources

ObservabilityPasses == CheckDeployableObservability = {}
ObservabilityWarns ==
  \/ CheckServiceObservability # {}
  \/ \E d \in deployables :
       model.deployables[d].observability \in {"none", "no_readiness"}
  \/ ~CheckObservabilityResources

(* The steps of platform-doctor that can stop it and read these models;    *)
(* the contract drift step never does.                                     *)
PlatformDoctorPasses ==
  /\ ModelLintPasses /\ DependencyGraphPasses /\ TopologyPasses
  /\ SecurityPasses /\ ObservabilityPasses

NoWarnings ==
  /\ ~ModelLintWarns /\ CheckTopologyRefs = {} /\ CheckServiceCrateDrift = {}
  /\ ~TopologyWarns /\ ~SecurityWarns /\ ~ObservabilityWarns

-----------------------------------------------------------------------------
(* Edits of the model: one key of one file, or a whole file.               *)

ServiceEdits(file) ==
  {[file EXCEPT !.dependencies = @ \cup {ref}] : ref \in Forms \X ServiceNames} \cup
  {[file EXCEPT !.logical = @ \cup {s}] : s \in ServiceNames} \cup
  {[file EXCEPT !.deployable = d] : d \in DeployableNames} \cup
  {[file EXCEPT !.auth = "no_methods"], [file EXCEPT !.observability = "partial"],
   [file EXCEPT !.crate = FALSE]}

DeployableEdits(file) ==
  {[file EXCEPT !.current = status] : status \in Statuses} \cup
  {[file EXCEPT !.target = status] : status \in {"none", "independent", "embedded"}} \cup
  {[file EXCEPT !.planned = list] : list \in {"none", "empty", "some"}} \cup
  {[file EXCEPT !.independent = ~@], [file EXCEPT !.embeddedIn = ~@]} \cup
  {[file EXCEPT !.package = place] : place \in Places} \cup
  {[file EXCEPT !.entry = place] : place \in Places} \cup
  {[file EXCEPT !.services = @ \cup {s}] : s \in ServiceNames} \cup
  {[file EXCEPT !.resources = @ \cup {r}] : r \in ResourceNames} \cup
  {[file EXCEPT !.observability = probe] :
     probe \in {"none", "no_health", "no_endpoint", "no_readiness"}}

TopologyEdits(file) ==
  {[file EXCEPT !.deployables = names] : names \in SUBSET DeployableNames} \cup
  {[file EXCEPT !.overrides = names] : names \in SUBSET ResourceNames} \cup
  {[file EXCEPT !.state = state] : state \in States \cup {"unknown", "none"}} \cup
  {[file EXCEPT !.secret = name] :
     name \in {"none", "state", "topology", "provider"}} \cup
  {[file EXCEPT !.provider = key] : key \in {"foreign", "none"}} \cup
  {[file EXCEPT !.adapter = key] : key \in {"foreign", "none"}} \cup
  {[file EXCEPT !.resource = key] : key \in {"reserved", "none"}} \cup
  {[file EXCEPT !.capability = "cache"], [file EXCEPT !.tested = FALSE]}

CapabilityEdits(file) ==
  {[file EXCEPT !.files = keys] : keys \in SUBSET {"database", "cache"}} \cup
  {[file EXCEPT !.supported = states] : states \in SUBSET States} \cup
  {[file EXCEPT !.providers = keys] : keys \in SUBSET Keys} \cup
  {[file EXCEPT !.adapters = keys] : keys \in SUBSET Keys} \cup
  {[file EXCEPT !.default = key] : key \in {"foreign", "none"}} \cup
  {[file EXCEPT !.resources = {"plain", "reserved"}]}

Without(files, name) == [n \in DOMAIN files \ {name} |-> files[n]]

EditService ==
  \E s \in services :
    \/ \E file \in ServiceEdits(model.services[s]) : model' = [model EXCEPT !.services[s] = file]
    \/ model' = [model EXCEPT !.services = Without(@, s)]

EditDeployable ==
  \E d \in deployables :
    \/ \E file \in DeployableEdits(model.deployables[d]) :
         model' = [model EXCEPT !.deployables[d] = file]
    \/ model' = [model EXCEPT !.deployables = Without(@, d)]

EditResource ==
  \E r \in resources :
    \/ \E enc \in {"on", "off", "none"} : model' = [model EXCEPT !.resources[r].encryption = enc]
    \/ model' = [model EXCEPT !.resources = Without(@, r)]

EditTopology == \E file \in TopologyEdits(model.topology) : model' = [model EXCEPT !.topology = file]

EditCapability ==
  \E file \in CapabilityEdits(model.capabilities) : model' = [model EXCEPT !.capabilities = file]

ModelNext ==
  /\ modelEdits < MaxModelEdits
  /\ modelEdits' = modelEdits + 1
  /\ EditService \/ EditDeployable \/ EditResource \/ EditTopology \/ EditCapability

(* The files of a model in order: one deployable is implemented, the       *)
(* counter embedded in it; a short named service may depend by name, under *)
(* the old dependency key, on the long named ones.                         *)
ServiceInOrder(s, legacy) ==
  [dependencies |-> IF s \in LongNames THEN {} ELSE legacy, logical |-> {},
   deployable |-> CounterDeployable, auth |-> "methods",
   observability |-> "full", crate |-> TRUE]

DeployableInOrder(d) ==
  [current |-> IF d = CounterDeployable THEN "embedded" ELSE "implemented",
   target |-> "independent", planned |-> "some",
   independent |-> d # CounterDeployable, embeddedIn |-> d = CounterDeployable,
   package |-> "there", entry |-> "there", services |-> ServiceNames,
   resources |-> {"database"}, observability |-> "full"]

(* A model in order, or one for which no service and deployable has been   *)
(* written yet.                                                            *)
ModelInit ==
  \E legacy \in {{}, {<<"name", s>> : s \in LongNames}}, full \in BOOLEAN :
  /\ modelEdits = 0
  /\ model =
       [services |-> [s \in (IF full THEN ServiceNames ELSE {}) |-> ServiceInOrder(s, legacy)],
        deployables |-> [d \in (IF full THEN DeployableNames ELSE {}) |-> DeployableInOrder(d)],
        resources |-> [r \in (IF full THEN ResourceNames ELSE {}) |-> [encryption |-> "on"]],
        topology |->
          [deployables |-> IF full THEN DeployableNames ELSE {}, overrides |-> {}, capability |-> "database",
           state |-> "local", provider |-> "own", adapter |-> "own",
           resource |-> "plain", secret |-> "plain", tested |-> TRUE],
        capabilities |->
          [files |-> {"database", "cache"}, supported |-> States,
           providers |-> {"own"}, adapters |-> {"own"}, default |-> "own",
           resources |-> {"plain"}]]

-----------------------------------------------------------------------------
(* What validate-deps promises for the key it reads (dependency-graph's    *)
(* detect_cycles): a model it passes can be layered: the services have a   *)
(* rank, and every dependency written by name points down.                 *)
PassedGraphIsLayered ==
  DependencyGraphPasses =>
    \E rank \in [services -> 1..Cardinality(ServiceNames)] :
      \A s, t \in services : <<s, t>> \in BuildGraph => rank[t] < rank[s]

(* What the doctor's verdict is worth to a deployment, which no validator  *)
(* checks alone: in a model it passes, whatever a topology lists resolves  *)
(* to a deployable, that deployable's services have files, the critical    *)
(* ones have a package and an entry point to build, a deployable marked    *)
(* embedded, stub or planned is not shipped on its own, and the bound      *)
(* capability supports the state and has the providers that are named      *)
(* (when capability files exist).                                          *)
PassedModelResolves ==
  PlatformDoctorPasses =>
    /\ \A d \in model.topology.deployables :
         LET file == model.deployables[d] IN
         /\ d \in deployables /\ file.services \subseteq services
         /\ file.independent <=> IsCriticalDeployable(d)
         /\ IsCriticalDeployable(d) => {file.package, file.entry} = {"there"}
    /\ model.capabilities.files # {} /\ model.topology.capability = "database" =>
         /\ model.topology.state \in model.capabilities.supported \cup {"none"}
         /\ {model.topology.provider, model.capabilities.default}
              \subseteq model.capabilities.providers \cup {"none"}

(* A doctor run that prints no warning either has nothing left dangling:   *)
(* every resource and deployable that some file names is there and every   *)
(* implemented deployable is part of the topology.                         *)
SilentDoctorIsComplete ==
  PlatformDoctorPasses /\ NoWarnings =>
    /\ \A s \in services : model.services[s].deployable \in deployables
    /\ \A d \in deployables :
         /\ model.deployables[d].resources \subseteq resources
         /\ model.deployables[d].current = "implemented" => d \in model.topology.deployables
    /\ model.topology.deployables # {} => model.topology.overrides \subseteq resources

(* A model the platform doctor and validate-deps pass can be deployed as   *)
(* it is written.                                                          *)
DoctorVouches ==
  PassedGraphIsLayered /\ PassedModelResolves /\ SilentDoctorIsComplete
=============================================================================
