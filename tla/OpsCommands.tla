---------------------------- MODULE OpsCommands -----------------------------
(***************************************************************************)
(* The commands of repo-tools that change something outside the            *)
(* repository or the working tree as a whole: secrets (commands/           *)
(* secrets.rs), infra (infra.rs), ops (ops.rs), template (template.rs) and *)
(* the development helpers (devx.rs).                                      *)
(* Each is a straight-line program: checks of the environment, calls to    *)
(* other programs, and effects, every one of which ends the command when   *)
(* it fails.  A command is modelled as its script, the sequence of these   *)
(* steps for its options, and one interpreter runs them.                   *)
(*                                                                         *)
(*   check f    a precondition the command tests itself (a tool, a file)   *)
(*   call       a program that changes nothing and may fail                *)
(*   try        the same, with its failure only reported                   *)
(*   effect t   a program or write that brings t to the current release;   *)
(*              when it fails, t may have been changed or not              *)
(***************************************************************************)
EXTENDS Naturals, Sequences

CONSTANTS
    MaxReleases,    \* bound: versions of what is deployed
    MaxCommands     \* bound: commands run

ASSUME OpsAssumption == MaxReleases \in Nat \ {0} /\ MaxCommands \in Nat

VARIABLES
    release,    \* version of the secrets, manifests and units in the repository
    target,     \* release each outside target was last brought to
    script,     \* the steps the running command still has to take
    command,    \* the command running or run last: its name and options
    missing,    \* the preconditions that do not hold while it runs
    touched,    \* the targets it has changed, or may have changed
    outcome,    \* "none", "running", "ok", "refused" by a check, or "failed"
    ran         \* commands started so far

opsVars == <<release, target, script, command, missing, touched, outcome, ran>>

Check(f) == <<[do |-> "check", on |-> f]>>
Call == <<[do |-> "call", on |-> "-"]>>
Try == <<[do |-> "try", on |-> "-"]>>
Effect(t) == <<[do |-> "effect", on |-> t]>>
If(c, steps) == IF c THEN steps ELSE <<>>

-----------------------------------------------------------------------------
(* secrets.rs *)

\* decrypt_plain: sops must be there and may fail to decrypt.
Decrypt == Check("sops") \o Call

\* kubectl_apply
KubectlApply(t) == Effect(t)

\* reconcile: the encrypted files of the environment are decrypted and applied
\* in sorted order; a dry run needs no kubectl and applies none of them.
Reconcile(dry) ==
    Check("sops") \o If(~dry, Check("kubectl")) \o Check("sops_dir")
        \o Decrypt \o If(~dry, KubectlApply("secret1"))
        \o Decrypt \o If(~dry, KubectlApply("secret2"))

\* setup_flux_secret: the manifest is rendered client side, then applied.
SetupFluxSecret ==
    Check("kubectl") \o Check("age_key") \o Call \o KubectlApply("flux_secret")

\* encrypt: sops output is written over the encrypted secret.
Encrypt == Check("sops") \o Check("template") \o Call \o Effect("enc_file")

\* edit: sops edits the encrypted file in place.
Edit == Check("sops") \o Check("enc_file") \o Effect("enc_file")

\* validate: configuration, key and one sample are only read.
ValidateSecrets ==
    Check("sops_yaml") \o Check("age_key") \o Check("key_listed") \o Check("sops")
        \o Decrypt

-----------------------------------------------------------------------------
(* infra.rs *)

\* A runtime that was asked for, docker, or else podman.
ResolveRuntime == Check("runtime")

\* run_local_compose: the compose file is required, then one command runs.
LocalCompose(step) == Check("compose_file") \o step
LocalUp == ResolveRuntime \o LocalCompose(Effect("local_stack"))
LocalDown == ResolveRuntime \o LocalCompose(Effect("local_stack"))
LocalStatus == ResolveRuntime \o LocalCompose(Call)
LocalLogs == ResolveRuntime \o LocalCompose(Call)

\* observability_up asks podman for its socket first and does without it.
PodmanSocket == Try
ObservabilityCompose(step) == Check("obs_compose_file") \o step
ObservabilityUp ==
    ResolveRuntime \o PodmanSocket \o ObservabilityCompose(Effect("obs_stack"))
ObservabilityDown == ResolveRuntime \o ObservabilityCompose(Effect("obs_stack"))
ObservabilityStatus == ResolveRuntime \o ObservabilityCompose(Call)

\* An environment is a directory of overlays.
K3sOverlay == Check("overlay")

\* kubectl_apply_manifest: the rendered manifest goes through kubectl's stdin.
KubectlApplyManifest == Effect("cluster")

\* preflight_k3s_deploy: a client dry run does without the cluster.
PreflightK3sDeploy(dryRun) ==
    Check("kubectl") \o Check("kustomize") \o Check("kustomization")
        \o If(dryRun # "client", Check("cluster"))

\* verify_k3s_deploy: a deployment that is not available is only reported.
VerifyK3sDeploy == Try \o Call \o Call

\* k3s_deploy: overlay, preflight, render; a client dry run ends here, a
\* server dry run only asks the API server, a real run applies and verifies.
K3sDeploy(dryRun, skipVerify) ==
    K3sOverlay \o PreflightK3sDeploy(dryRun) \o Call
        \o (CASE dryRun = "client" -> <<>>
              [] dryRun = "server" -> Call
              [] dryRun = "none"   -> KubectlApplyManifest
                                      \o If(~skipVerify, VerifyK3sDeploy))

\* k3s_bootstrap: the preflight reads the host; applying is refused.
K3sBootstrapPreflight == Check("architecture") \o Try
K3sBootstrap(apply) == K3sBootstrapPreflight \o If(apply, Check("implemented"))

\* run_auth creates its directories before anything is checked.
EnsureAuthDirs == Effect("auth_dirs")
AuthCompose(step) == Check("podman") \o Check("auth_compose_file") \o step
RunAuth(step) == EnsureAuthDirs \o AuthCompose(step)

\* wait_http: a port that does not open in time ends the command.
WaitHttp == Call

\* bootstrap_openfga: a new store, its model, then the two state files.
BootstrapOpenfga ==
    Check("model_file") \o Effect("fga_store") \o Effect("fga_model")
        \o Effect("store_id_file") \o Effect("model_id_file")
WriteRauthyState == Effect("rauthy_issuer") \o Effect("rauthy_introspection")
WriteAuthEnv == Effect("auth_env")

\* auth_bootstrap: the stack is started and waited for before the OpenFGA
\* model file is looked at; auth.env is written last.
AuthBootstrap ==
    EnsureAuthDirs \o Check("podman") \o AuthCompose(Effect("auth_stack"))
        \o WaitHttp \o WaitHttp \o BootstrapOpenfga \o WriteRauthyState \o WriteAuthEnv

-----------------------------------------------------------------------------
(* ops.rs *)

\* migrate: the plan lists the services' files in order; down and reset are
\* refused with apply.
DatabaseTarget == Check("known_environment")
Migrate(direction, apply) ==
    Check("one_mode") \o DatabaseTarget
        \o If(direction \in {"down", "reset"} /\ apply, Check("implemented"))

\* migrate_up: a dry run only lists; apply pipes every migration into an
\* in-memory sqlite3 and touches no database.
MigrateUp(apply) == Migrate("up", apply) \o If(apply, Check("sqlite3") \o Call \o Call)

\* bootstrap_vps: applying needs a confirmed host and is then refused.
VpsPreflight == Try
BootstrapVps(apply) ==
    Check("one_mode") \o VpsPreflight \o If(apply, Check("confirm") \o Check("implemented"))

RequireSystemctl == Check("systemctl") \o Check("sudo")
RunSystemctl(t) == Effect(t)

\* deploy_service: is-active is only printed; daemon-reload, enable and restart
\* follow in this order, then the status.
DeployService ==
    RequireSystemctl \o Try \o RunSystemctl("daemon") \o RunSystemctl("enabled")
        \o RunSystemctl("unit") \o Call

StopService == RequireSystemctl \o RunSystemctl("unit")
ServiceLogs == Check("journalctl") \o Check("sudo") \o Call

-----------------------------------------------------------------------------
(* template.rs *)

\* Only the backend-core profile has candidates for removal.
TemplatePlan(profile) == IF profile = "backend_core" THEN <<"path1", "path2">> ELSE <<>>
EnsureSafeToApply == Check("clean_worktree")
RemovePathPattern(path) == Effect(path)
RemoveReleaseAnchor(anchored) == If(anchored, Effect("cargo_toml"))

\* template_init: without apply the plan is printed; with it, the worktree
\* must be clean, then every candidate path is removed and the release anchor
\* is cut out of Cargo.toml, which is left alone when it has none.
TemplateInit(profile, apply, anchored) ==
    LET plan == TemplatePlan(profile) IN
    If(apply, EnsureSafeToApply
                \o If(plan # <<>>, RemovePathPattern("path1") \o RemovePathPattern("path2")
                                     \o RemoveReleaseAnchor(anchored)))

-----------------------------------------------------------------------------
(* devx.rs *)

\* An existing key is kept unless it may be overwritten.
GenerateAgeKey == Check("age_keygen") \o Check("no_key_or_overwrite") \o Effect("age_key_file") \o Call
CreateMigration == Call \o Check("new_name") \o Effect("migration")
ScanVuln == Check("trivy") \o Call
GenSbom == Check("syft") \o Effect("sbom")
SignImage == Check("cosign") \o Effect("signature")
VerifyImage == Check("cosign") \o Call

\* The setup commands install what is not there, then configure it.
SetupHakari(installed) ==
    If(~installed, Effect("hakari")) \o Effect("workspace_hack") \o Effect("manifests")
SetupCoverage(installed) ==
    If(~installed, Effect("llvm_cov")) \o If(~installed, Effect("sweep")) \o Effect("llvm_tools")
CleanSweep == Check("cargo_sweep") \o Effect("target_dir")
K6Baseline == Check("k6") \o Call

-----------------------------------------------------------------------------
\* The commands with their options: name, whether it only plans, and script.
Cmd(n, d, s) == [name |-> n, dry |-> d, steps |-> s]
Changes(n, s) == Cmd(n, FALSE, s)
Reads(n, s) == Cmd(n, TRUE, s)
Commands ==
    {Cmd("reconcile", d, Reconcile(d)) : d \in BOOLEAN}
    \cup {Changes("flux", SetupFluxSecret), Changes("encrypt", Encrypt),
          Changes("edit", Edit), Reads("validate", ValidateSecrets)}
    \cup {Changes("local_up", LocalUp), Changes("local_down", LocalDown),
          Reads("local_status", LocalStatus), Reads("local_logs", LocalLogs),
          Changes("observability_up", ObservabilityUp),
          Changes("observability_down", ObservabilityDown),
          Reads("observability_status", ObservabilityStatus)}
    \cup {Cmd("k3s_deploy", d # "none", K3sDeploy(d, v)) :
              d \in {"none", "client", "server"}, v \in BOOLEAN}
    \cup {Cmd("k3s_bootstrap", ~a, K3sBootstrap(a)) : a \in BOOLEAN}
    \cup {Changes("auth", RunAuth(Effect("auth_stack"))), Changes("auth", AuthBootstrap)}
    \cup {Cmd("migrate", ~a, MigrateUp(a)) : a \in BOOLEAN}
    \cup {Cmd("migrate", ~a, Migrate(d, a)) : a \in BOOLEAN, d \in {"down", "reset", "status"}}
    \cup {Cmd("bootstrap_vps", ~a, BootstrapVps(a)) : a \in BOOLEAN}
    \cup {Changes("deploy_service", DeployService), Changes("stop_service", StopService),
          Reads("service_logs", ServiceLogs)}
    \cup {Cmd("template_init", ~a, TemplateInit(p, a, b)) :
              a, b \in BOOLEAN, p \in {"backend_core", "full_research"}}
    \cup {Changes("age_key", GenerateAgeKey), Changes("migration", CreateMigration),
          Reads("scan_vuln", ScanVuln), Changes("gen_sbom", GenSbom),
          Changes("sign_image", SignImage), Reads("verify_image", VerifyImage),
          Changes("clean_sweep", CleanSweep), Reads("k6_baseline", K6Baseline)}
    \cup {Changes("setup", SetupHakari(i)) : i \in BOOLEAN}
    \cup {Changes("setup", SetupCoverage(i)) : i \in BOOLEAN}

On(steps, kind) ==
    {steps[i].on : i \in {j \in 1..Len(steps) : steps[j].do = kind}}
Targets == UNION {On(c.steps, "effect") : c \in Commands}
Checks == UNION {On(c.steps, "check") : c \in Commands}
Untouched == [t \in Targets |-> 0]

OpsTypeOK ==
    /\ release \in 1..MaxReleases
    /\ target \in [Targets -> 0..MaxReleases]
    /\ missing \subseteq Checks /\ touched \subseteq Targets
    /\ outcome \in {"none", "running", "ok", "refused", "failed"}
    /\ ran \in 0..MaxCommands

OpsInit ==
    /\ release = 1 /\ target = Untouched /\ script = <<>>
    /\ command = Cmd("none", TRUE, <<>>) /\ missing = {} /\ touched = {}
    /\ outcome = "none" /\ ran = 0

\* Somebody changes the secrets, manifests or units between two commands.
NewRelease ==
    /\ outcome # "running" /\ release < MaxReleases
    /\ release' = release + 1
    /\ outcome' = "none"
    /\ UNCHANGED <<target, script, command, missing, touched, ran>>

\* A command starts; at most one precondition does not hold.  That applying is
\* not implemented is one that never does.
Begin(c, m) ==
    /\ outcome # "running" /\ ran < MaxCommands
    /\ command' = c /\ script' = c.steps
    /\ missing' = m \cup {"implemented"}
    /\ touched' = {} /\ outcome' = "running" /\ ran' = ran + 1
    /\ UNCHANGED <<release, target>>

\* The step at the head of the script succeeds: checks that hold, calls, and
\* effects, which bring their target to the current release.
StepSucceeds ==
    /\ outcome = "running" /\ script # <<>>
    /\ LET s == Head(script) IN
       /\ s.do = "check" => s.on \notin missing
       /\ target' = IF s.do = "effect" THEN [target EXCEPT ![s.on] = release] ELSE target
       /\ touched' = IF s.do = "effect" THEN touched \cup {s.on} ELSE touched
    /\ script' = Tail(script)
    /\ UNCHANGED <<release, command, missing, outcome, ran>>

\* Mutant: a failed effect is passed over.
MutStepFails ==
    /\ outcome = "running" /\ script # <<>>
    /\ Head(script).do = "effect"
    /\ script' = Tail(script)
    /\ UNCHANGED <<release, target, command, missing, touched, outcome, ran>>

\* The step fails and `?` or bail! ends the command.  An effect that failed may
\* have changed its target all the same.
StepFails ==
    /\ outcome = "running" /\ script # <<>>
    /\ LET s == Head(script) IN
       /\ s.do # "try"
       /\ s.do = "check" => s.on \in missing
       /\ outcome' = IF s.do = "check" THEN "refused" ELSE "failed"
       /\ IF s.do = "effect"
          THEN /\ target' \in {target, [target EXCEPT ![s.on] = release]}
               /\ touched' = touched \cup {s.on}
          ELSE UNCHANGED <<target, touched>>
    /\ script' = <<>>
    /\ UNCHANGED <<release, command, missing, ran>>

Finish ==
    /\ outcome = "running" /\ script = <<>>
    /\ outcome' = "ok"
    /\ UNCHANGED <<release, target, script, command, missing, touched, ran>>

OpsNext ==
    \/ NewRelease
    \/ \E c \in Commands :
          \E m \in {{}} \cup {{f} : f \in On(c.steps, "check")} : Begin(c, m)
    \/ StepSucceeds \/ StepFails \/ Finish

-----------------------------------------------------------------------------
\* A command run as a plan or a dry run (reconcile --dry-run, k3s deploy
\* --dry-run, k3s and VPS bootstrap without apply, migrate without apply,
\* template init without apply) changes nothing outside, wherever it stops.
DryRunTouchesNothing == command.dry => touched = {}

\* The checks of a command come before its effects: a command that refuses
\* because a tool, file, cluster or confirmation is missing has changed nothing
\* yet.  The auth commands are the exception: they create their directories
\* first, and auth_bootstrap looks for the OpenFGA model file after it has
\* started the containers.
RefusalTouchesNothing ==
    outcome = "refused" /\ command.name # "auth" => touched = {}

\* A command that returns success has brought every target of its script to the
\* current release, whatever earlier runs that failed half way left behind:
\* rerunning until it succeeds repairs a partial reconcile, deploy, bootstrap
\* or cleanup.
SuccessIsComplete ==
    outcome = "ok" => \A t \in On(command.steps, "effect") : target[t] = release

\* How a command ended tells what it has changed: all of its targets, or none.
OutcomeTellsEffects ==
  DryRunTouchesNothing /\ RefusalTouchesNothing /\ SuccessIsComplete
=============================================================================
