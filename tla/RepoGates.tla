------------------------------ MODULE RepoGates -----------------------------
(***************************************************************************)
(* The gates of repo-tools (gate local, prepush, ci, release) over a       *)
(* working tree that can be edited while a gate runs.  `tree` holds what   *)
(* the repo-tools validators look at; a validator is the issues it reports *)
(* for a tree, an error or a warning each, and its exit code depends on    *)
(* them and on the mode it is called with.  A gate runs its steps one      *)
(* after the other, each reading the tree as it is at that moment; the     *)
(* recipe platform-doctor and the nested ci gate are steps that run        *)
(* several checks and stop at the first that fails.                        *)
(***************************************************************************)
EXTENDS FiniteSets, Naturals, Sequences, Reports

CONSTANTS
  MaxTreeEdits        \* bound: edits of the tree

VARIABLES
  tree,               \* the working tree
  treeEdits,          \* edits so far
  gate,               \* the running or last gate, "none" before the first
  mode,               \* its mode
  position,           \* <<step, check>> the gate is about to run
  failures,           \* steps that failed
  verdict,            \* what the last gate said, "none" while it runs
  editedDuring        \* the tree was edited since the gate began

gateVars == <<tree, treeEdits, gate, mode, position, failures, verdict, editedDuring>>

Entities == {"counter", "tenant"}
OwnerServices == {"counter-service", "tenant-service"}
Strategies == {"dedupe", "checkpoint", "dedupe_or_resume"}
Tags == {<<0, 9, 0>>, <<0, 10, 0>>, <<1, 0, 0>>, <<1, 0, 0, 1>>}   \* the last is v1.0.0-rc.1

(* What the validators look at.                                            *)
Trees ==
  [worker: [declared: {"no", "planned", "active"}, dir: BOOLEAN, src: BOOLEAN,
            files: BOOLEAN, evidence: SUBSET {"dedupe", "checkpoint"},
            mustHave: SUBSET Strategies],
   import: {"package", "same_module", "excepted", "server", "third_party"},
   publish: {"false", "registry", "unset"},
   owns: [OwnerServices -> SUBSET Entities],
   ownership: [Entities -> OwnerServices \cup {"nobody"}],
   workflow: SUBSET {"section", "step"}, replay: {"found", "no_file", "no_match"},
   delivery: {"found", "no_file", "no_match", "bad_secret"},
   crate: {"allowed", "own", "dev", "other_service"},
   generated: {"clean", "modified", "renamed"}, frontend: BOOLEAN,
   tags: SUBSET Tags, broken: SUBSET Tags,
   tools: BOOLEAN]

-----------------------------------------------------------------------------
ValidateExistence(m) ==
  LET w == tree.worker IN
  UNION {When(w.declared = "active" /\ ~w.dir, <<IssueSeverity(m), "directory">>),
         When(w.declared = "active" /\ w.dir /\ ~w.files, <<IssueSeverity(m), "required">>),
         When(w.declared = "no" /\ w.dir, <<"warn", "undeclared">>)}

(* A rule that disallows servers/** and allows packages/** to services.    *)
ValidateImports(m) ==
  IF tree.import \in {"same_module", "excepted"} THEN NoIssues
  ELSE IF tree.import = "server" THEN Issues(m, {"forbidden"})
  ELSE When(tree.import = "third_party", <<IssueSeverity(m), "allowlist">>)

ValidatePublishIntent(m) == When(tree.publish # "false", <<IssueSeverity(m), "publish">>)

(* dedupe_or_resume is met by either of the two it names.                  *)
DetectStrategy(s) ==
  IF s = "dedupe_or_resume" THEN tree.worker.evidence # {} ELSE s \in tree.worker.evidence

ValidateResilience(m) ==
  LET w == tree.worker IN
  IF w.declared # "active" THEN NoIssues
  ELSE IF ~w.dir \/ ~w.src THEN Issues(m, {"directory"})
  ELSE Issues(m, {s \in w.mustHave : ~DetectStrategy(s)})

(* Mutant: contradicting owners are not reported.                          *)
MutValidateState(m) ==
  Issues(m, {s \in OwnerServices : tree.owns[s] = {}}) \cup
  Issues(m, {e \in Entities : tree.ownership[e] = "nobody"
                                /\ \E s \in OwnerServices : e \in tree.owns[s]})

(* Two services that declare one entity, or a service the ownership map    *)
(* contradicts, is an error in either mode; a gap is one in strict mode.   *)
ValidateState(m) ==
  LET declares(e) == {s \in OwnerServices : e \in tree.owns[s]} IN
  UNION {Issues(m, {s \in OwnerServices : tree.owns[s] = {}}),
         Issues("strict", {e \in Entities : Cardinality(declares(e)) > 1}),
         Issues(m, {e \in Entities : declares(e) # {} /\ tree.ownership[e] = "nobody"}),
         Issues("strict", {e \in Entities :
           tree.ownership[e] # "nobody" /\ declares(e) \ {tree.ownership[e]} # {}})}

ValidateWorkflows(m) == Issues(m, tree.workflow)

(* Evidence that is missing is a warning in either mode.                   *)
VerifyReplay == When(tree.replay # "found", <<"warn", tree.replay>>)
VerifyCounterDelivery == When(tree.delivery # "found", <<"warn", tree.delivery>>)

-----------------------------------------------------------------------------
(* Checks without a report.                                                *)

(* Normal dependencies outside the allowed names that match the pattern.   *)
BoundaryCheck == tree.crate # "other_service"

DriftCheck == tree.generated = "clean"

AuditBackendCore(m) == m = "strict" => ~tree.frontend

(* Tags order by their numeric components, a prefix before the longer tag. *)
Precedes(left, right) ==
  \E n \in 0..Len(left) :
    /\ n < Len(right) /\ SubSeq(left, 1, n) = SubSeq(right, 1, n)
    /\ n = Len(left) \/ left[n + 1] < right[n + 1]

LatestTag == CHOOSE t \in tree.tags : \A u \in tree.tags \ {t} : Precedes(u, t)

(* Nothing to compare with before the first tag.                           *)
SemverCheck == tree.tags = {} \/ LatestTag \notin tree.broken

Passes(check) ==
  CASE check = "existence warn"   -> StatusOk("warn", ValidateExistence("warn"))
    [] check = "imports strict"   -> StatusOk("strict", ValidateImports("strict"))
    [] check = "publish strict"   -> StatusOk("strict", ValidatePublishIntent("strict"))
    [] check = "state strict"     -> StatusOk("strict", ValidateState("strict"))
    [] check = "workflows strict" -> StatusOk("strict", ValidateWorkflows("strict"))
    [] check = "replay strict"    -> StatusOk("strict", VerifyReplay)
    [] check = "delivery strict"  -> StatusOk("strict", VerifyCounterDelivery)
    [] check = "boundaries"       -> BoundaryCheck
    [] check = "drift"            -> DriftCheck
    [] check = "audit strict"     -> AuditBackendCore("strict")
    [] check = "semver"           -> SemverCheck
    [] check = "tools"            -> tree.tools

-----------------------------------------------------------------------------
(* The gate catalog: a gate is a sequence of steps, a step a sequence of   *)
(* checks.  "tools" stands for the steps that run the Rust toolchain.      *)

PlatformDoctor ==
  <<"tools", "state strict", "workflows strict", "replay strict", "delivery strict">>
LocalSteps == <<<<"tools">>>>
PrepushSteps ==
  <<<<"existence warn">>, <<"imports strict">>, <<"publish strict">>, <<"tools">>>>
CiSteps ==
  <<<<"tools">>, PlatformDoctor, <<"state strict">>, <<"boundaries">>, <<"publish strict">>>>
ReleaseSteps ==
  <<<<"semver">>, <<"drift">>, <<"audit strict">>,
    <<"tools">> \o PlatformDoctor \o <<"state strict", "boundaries", "publish strict">>,
    <<"tools">>>>

Gates == {"local", "prepush", "ci", "release"}
FindGate(name) ==
  CASE name = "local"   -> [steps |-> LocalSteps, default |-> "warn"]
    [] name = "prepush" -> [steps |-> PrepushSteps, default |-> "warn"]
    [] name = "ci"      -> [steps |-> CiSteps, default |-> "strict"]
    [] name = "release" -> [steps |-> ReleaseSteps, default |-> "strict"]

(* A gate starts with the mode asked for, or its default.                  *)
BeginGate ==
  /\ gate = "none" \/ verdict # "none"
  /\ \E name \in Gates : \E m \in {"warn", "strict", FindGate(name).default} :
       gate' = name /\ mode' = m
  /\ position' = <<1, 1>>
  /\ failures' = 0 /\ verdict' = "none" /\ editedDuring' = FALSE
  /\ UNCHANGED <<tree, treeEdits>>

(* One check of the current step; the step fails with its first failing    *)
(* check, which blocks a strict gate and is counted by the other.          *)
RunCheck ==
  /\ gate # "none" /\ verdict = "none"
  /\ LET steps == FindGate(gate).steps
         step == steps[position[1]]
         ok == Passes(step[position[2]])
         ends == ~ok \/ position[2] = Len(step)
         failed == failures + (IF ok THEN 0 ELSE 1) IN
     /\ failures' = failed
     /\ position' = IF ends THEN <<position[1] + 1, 1>> ELSE <<position[1], position[2] + 1>>
     /\ verdict' = CASE ~ok /\ mode = "strict"                 -> "blocked"
                     [] ends /\ position[1] = Len(steps)
                          /\ (ok \/ mode # "strict")           ->
                            IF failed = 0 THEN "passed" ELSE "warned"
                     [] OTHER                                  -> "none"
  /\ UNCHANGED <<tree, treeEdits, gate, mode, editedDuring>>

(* Someone edits one thing in the tree.                                    *)
WorkerEdits(w) ==
  {[w EXCEPT !.declared = status] : status \in {"no", "planned", "active"}} \cup
  {[w EXCEPT !.dir = FALSE], [w EXCEPT !.src = FALSE], [w EXCEPT !.files = FALSE]} \cup
  {[w EXCEPT !.evidence = found] : found \in SUBSET {"dedupe", "checkpoint"}} \cup
  {[w EXCEPT !.mustHave = wanted] : wanted \in {{s} : s \in Strategies}}

EditTree ==
  /\ treeEdits < MaxTreeEdits
  /\ treeEdits' = treeEdits + 1
  /\ editedDuring' = TRUE
  /\ \/ \E w \in WorkerEdits(tree.worker) : tree' = [tree EXCEPT !.worker = w]
     \/ \E to \in {"same_module", "excepted", "server", "third_party"} :
          tree' = [tree EXCEPT !.import = to]
     \/ \E s \in OwnerServices, set \in SUBSET Entities : tree' = [tree EXCEPT !.owns[s] = set]
     \/ \E e \in Entities, s \in OwnerServices \cup {"nobody"} :
          tree' = [tree EXCEPT !.ownership[e] = s]
     \/ \E p \in {"registry", "unset"} : tree' = [tree EXCEPT !.publish = p]
     \/ \E gap \in {"section", "step"} : tree' = [tree EXCEPT !.workflow = {gap}]
     \/ \E r \in {"no_file", "no_match"} : tree' = [tree EXCEPT !.replay = r]
     \/ \E d \in {"no_file", "bad_secret"} : tree' = [tree EXCEPT !.delivery = d]
     \/ \E c \in {"own", "dev", "other_service"} : tree' = [tree EXCEPT !.crate = c]
     \/ \E g \in {"clean", "modified", "renamed"} : tree' = [tree EXCEPT !.generated = g]
     \/ \E t \in Tags : tree' = [tree EXCEPT !.tags = @ \cup {t}]
     \/ tree' = [tree EXCEPT !.broken = @ \cup tree.tags]
     \/ tree' = [tree EXCEPT !.frontend = TRUE]
     \/ tree' = [tree EXCEPT !.tools = FALSE]
  /\ UNCHANGED <<gate, mode, position, failures, verdict>>

GateInit ==
  /\ tree =
       [worker |-> [declared |-> "active", dir |-> TRUE, src |-> TRUE, files |-> TRUE,
                    evidence |-> {"dedupe"}, mustHave |-> {"dedupe_or_resume"}],
        import |-> "package", publish |-> "false",
        owns |-> [s \in OwnerServices |->
          IF s = "counter-service" THEN {"counter"} ELSE {"tenant"}],
        ownership |-> [e \in Entities |->
          IF e = "counter" THEN "counter-service" ELSE "tenant-service"],
        workflow |-> {}, replay |-> "found", delivery |-> "found", crate |-> "allowed",
        generated |-> "clean", frontend |-> FALSE, tags |-> {}, broken |-> {},
        tools |-> TRUE]
  /\ treeEdits = 0
  /\ gate = "none" /\ mode = "warn" /\ position = <<1, 1>> /\ failures = 0
  /\ verdict = "none" /\ editedDuring = FALSE

GateNext == BeginGate \/ RunCheck \/ EditTree

-----------------------------------------------------------------------------
(* The tree stays a tree, and the gate within its steps.                   *)
GateTypeOK ==
  /\ tree \in Trees /\ treeEdits \in 0..MaxTreeEdits
  /\ gate \in Gates \cup {"none"} /\ mode \in {"warn", "strict"}
  /\ failures \in 0..5 /\ verdict \in {"none", "passed", "warned", "blocked"}
  /\ editedDuring \in BOOLEAN

(* Every entity has one owner, the one the platform's map names.           *)
OneOwner ==
  \A e \in Entities, s \in OwnerServices : e \in tree.owns[s] => tree.ownership[e] = s

(* "gate-ci passed" and "gate-release passed" (gate.rs) mean something for *)
(* the tree they ran on: if nobody edited it meanwhile, every entity has   *)
(* the one owner the map names, no service crate depends on another, no    *)
(* package can be published, the delivery and replay evidence is there,    *)
(* and a release besides has clean generated contracts and no frontend     *)
(* reference.  A gate during whose run the tree was edited vouches for     *)
(* nothing, as its steps have read different trees.                        *)
PassedGateVouches ==
  verdict = "passed" /\ ~editedDuring =>
    /\ gate # "local" =>
         tree.publish = "false" /\ tree.tools
    /\ gate = "prepush" => tree.import \notin {"server", "third_party"}
    /\ gate \in {"ci", "release"} =>
         /\ OneOwner /\ tree.crate # "other_service"
         /\ tree.workflow = {} /\ {tree.replay, tree.delivery} = {"found"}
    /\ gate = "release" => tree.generated = "clean" /\ ~tree.frontend

(* A strict report without a failure leaves nothing to report (report.rs   *)
(* status_code and the severity each validator chooses): what is declared  *)
(* active exists with its required files and every resilience strategy it  *)
(* must have, nothing undeclared lies in the tree, and warn mode passes.   *)
StrictPassIsClean ==
  LET w == tree.worker IN
  /\ StatusOk("strict", ValidateExistence("strict")) =>
       IF w.declared = "active" THEN w.dir /\ w.files ELSE w.declared = "planned" \/ ~w.dir
  /\ StatusOk("strict", ValidateResilience("strict")) /\ w.declared = "active" =>
       /\ w.dir /\ w.src /\ w.mustHave \cap {"dedupe", "checkpoint"} \subseteq w.evidence
       /\ "dedupe_or_resume" \in w.mustHave => w.evidence # {}
  /\ StatusOk("strict", ValidateState("strict")) => StatusOk("warn", ValidateState("warn"))

(* The SemVer baseline (template.rs latest_tag) is the newest tag up to    *)
(* its minor number: no tag has a larger major, or the same major and a    *)
(* larger minor.  Beyond that it need not be: compare_version_tags takes   *)
(* the digit of a pre-release for a fourth number, so v1.0.0-rc.1 beats    *)
(* v1.0.0.                                                                 *)
BaselineIsNewest ==
  tree.tags # {} =>
    \A t \in tree.tags : 1000 * t[1] + t[2] <= 1000 * LatestTag[1] + LatestTag[2]

(* A passed gate, a strict report and the SemVer baseline say of the tree  *)
(* what they are read as saying.                                           *)
GatesVouch ==
  PassedGateVouches /\ StrictPassIsClean /\ BaselineIsNewest

=============================================================================
