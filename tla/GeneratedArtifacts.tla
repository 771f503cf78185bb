------------------------- MODULE GeneratedArtifacts -------------------------
(***************************************************************************)
(* The generated artifacts of the repository and their golden baselines:   *)
(* the platform catalog generator (platform/generators), `typegen`         *)
(* (commands/contracts.rs) and the two commands of commands/platform.rs    *)
(* that keep verification/golden/ in step with them,                       *)
(* `commit-golden-baseline` and `verify-generated-artifacts`.              *)
(*                                                                         *)
(* A file is abstracted to the version of the sources it was produced      *)
(* from, 0 when it does not exist.  Commands run one at a time; a command  *)
(* may be interrupted between any two file operations.                     *)
(***************************************************************************)
EXTENDS Naturals

CONSTANTS
    CatalogSize,    \* outputs of the catalog generator (6 in the code)
    MaxEdits        \* bound: edits of the sources, all sources together

ASSUME ArtifactsAssumption == CatalogSize \in Nat \ {0} /\ MaxEdits \in Nat

VARIABLES
    sources,    \* version of each source: platform models, contracts, SDK
    unparsable, \* the catalog output whose model does not parse, 0 if none
    generated,  \* the generated directories of the working tree
    golden,     \* the directories of verification/golden/
    commitStep, \* where commit-golden-baseline is
    committed   \* history: directories of the last commit, if it completed and
                \*   nothing changed since

artifactVars ==
    <<sources, unparsable, generated, golden, commitStep, committed>>

(***************************************************************************)
(* The directories, in the order commit_golden_baseline visits them.  The  *)
(* contract directory holds the OpenAPI file (1) and, in older checkouts,  *)
(* the retired TypeScript bindings (2).                                    *)
(***************************************************************************)
Directories == <<"platform", "contracts", "sdk">>
Files(d) == CASE d = "platform"  -> 1..CatalogSize
              [] d = "contracts" -> 1..2
              [] d = "sdk"       -> 1..1
Dirs == {Directories[i] : i \in 1..3}

\* count_non_gitkeep_files(dir) = 0
EmptyDir(dir) == \A f \in DOMAIN dir : dir[f] = 0

\* main of the generator: the outputs are written in order and the first
\* error ends the run, so the first n are new and the others as they were.
WriteCatalog(dir, n) ==
    [f \in DOMAIN dir |-> IF f <= n THEN sources["platform"] ELSE dir[f]]

\* load_yaml_models: the output that reads the unparsable model, and those
\* after it, cannot be written.
Writable == IF unparsable = 0 THEN CatalogSize ELSE unparsable - 1

\* typegen: the retired bindings are removed, then the OpenAPI is exported;
\* the export fails when the contracts do not compile.
Typegen(dir, exported) ==
    [dir EXCEPT ![2] = 0, ![1] = IF exported THEN sources["contracts"] ELSE @]

-----------------------------------------------------------------------------
\* Mutant: a generated file missing from the baseline is no drift.
MutCompareTree(source, gold) ==
    \E f \in DOMAIN gold : gold[f] # 0 /\ source[f] # gold[f]

\* compare_tree: a baseline file that is missing or differs, or a generated
\* file that is not in the baseline, is drift.
CompareTree(source, gold) ==
    \/ \E f \in DOMAIN gold : gold[f] # 0 /\ source[f] # gold[f]
    \/ \E f \in DOMAIN source : source[f] # 0 /\ gold[f] = 0

\* check_directory: an empty side skips the comparison.
CheckDirectory(d) ==
    ~EmptyDir(golden[d]) /\ ~EmptyDir(generated[d])
        /\ CompareTree(generated[d], golden[d])

\* check_directory_with_regen: the catalog is regenerated into an empty
\* directory; a failed regeneration skips the comparison.
CheckDirectoryWithRegen ==
    /\ ~EmptyDir(golden["platform"])
    /\ unparsable = 0
    /\ CompareTree(WriteCatalog([f \in Files("platform") |-> 0], CatalogSize),
                   golden["platform"])

\* verify_generated_artifacts: the command reports no drift.
Drifts(d) == IF d = "platform" THEN CheckDirectoryWithRegen ELSE CheckDirectory(d)
VerifyPasses == \A d \in Dirs : ~Drifts(d)

-----------------------------------------------------------------------------
ArtifactsTypeOK ==
    /\ sources \in [Dirs -> 1..MaxEdits + 1]
    /\ unparsable \in 0..CatalogSize
    /\ \A d \in Dirs : /\ generated[d] \in [Files(d) -> 0..MaxEdits + 1]
                       /\ golden[d] \in [Files(d) -> 0..MaxEdits + 1]
    /\ commitStep \in {<<"idle", 0, 0>>} \cup
                      ({"generate", "clear", "copy"} \X (1..3) \X (0..CatalogSize + 2))
    /\ committed \subseteq Dirs

\* A checkout whose artifacts and baselines agree, with the retired bindings
\* still on disk or not.
ArtifactsInit ==
    /\ sources = [d \in Dirs |-> 1]
    /\ unparsable = 0
    /\ generated \in {[d \in Dirs |-> [f \in Files(d) |->
                          IF d = "contracts" /\ f = 2 THEN b ELSE 1]] : b \in 0..1}
    /\ golden = generated
    /\ commitStep = <<"idle", 0, 0>>
    /\ committed = {}

NoCommand == commitStep[1] = "idle"
Edits == sources["platform"] + sources["contracts"] + sources["sdk"] - 3

\* An author edits a source; a platform model may stop parsing or parse again.
EditSource(d, b) ==
    /\ NoCommand /\ Edits < MaxEdits
    /\ sources' = [sources EXCEPT ![d] = @ + 1]
    /\ unparsable' = IF d = "platform" THEN b ELSE unparsable
    /\ generated' = IF d = "sdk" THEN [generated EXCEPT ![d][1] = sources'[d]]
                                 ELSE generated
    /\ committed' = {}
    /\ UNCHANGED <<golden, commitStep>>

\* generate-platform-catalog on its own, finished or stopped after n outputs.
GenerateCatalog(n) ==
    /\ NoCommand
    /\ n <= Writable
    /\ generated' = [generated EXCEPT !["platform"] = WriteCatalog(@, n)]
    /\ UNCHANGED <<sources, unparsable, golden, commitStep, committed>>

\* typegen on its own, with a successful or a failing export.
RunTypegen(exported) ==
    /\ NoCommand
    /\ generated' = [generated EXCEPT !["contracts"] = Typegen(@, exported)]
    /\ committed' = IF generated' = generated THEN committed ELSE {}
    /\ UNCHANGED <<sources, unparsable, golden, commitStep>>

BeginCommit ==
    /\ NoCommand
    /\ commitStep' = <<"generate", 1, 0>>
    /\ committed' = {}
    /\ UNCHANGED <<sources, unparsable, generated, golden>>

\* The generation that precedes a copy: the catalog generator, typegen, or
\* gen-sdk, which writes no file.  A failure ends the command.
CommitGenerate(succeeds) ==
    /\ commitStep[1] = "generate"
    /\ LET d == Directories[commitStep[2]] IN
       /\ d = "platform" => (succeeds <=> unparsable = 0)
       /\ d = "sdk" => succeeds
       /\ generated' = [generated EXCEPT ![d] =
              CASE d = "platform"  -> WriteCatalog(@, Writable)
                [] d = "contracts" -> Typegen(@, succeeds)
                [] d = "sdk"       -> @]
       /\ commitStep' = IF ~succeeds THEN <<"idle", 0, 0>>
                        ELSE <<"clear", commitStep[2], 1>>
    /\ UNCHANGED <<sources, unparsable, golden, committed>>

\* gen-sdk is not in the list of recipes, or there is no list: the SDKs are
\* skipped, only their directories are made.
SkipSdk ==
    /\ commitStep[1] = "generate" /\ Directories[commitStep[2]] = "sdk"
    /\ commitStep' = <<"idle", 0, 0>>
    /\ committed' = Dirs \ {"sdk"}
    /\ UNCHANGED <<sources, unparsable, generated, golden>>

NextDirectory ==
    IF commitStep[2] = 3 THEN <<"idle", 0, 0>>
                         ELSE <<"generate", commitStep[2] + 1, 0>>

\* copy_to_golden: nothing to copy leaves the baseline alone; otherwise its
\* files are removed one by one before the copy.
ClearGolden ==
    /\ commitStep[1] = "clear"
    /\ LET i == commitStep[2]  d == Directories[i]  f == commitStep[3] IN
       IF EmptyDir(generated[d])
       THEN /\ commitStep' = NextDirectory
            /\ committed' = IF i = 3 THEN Dirs ELSE committed
            /\ UNCHANGED golden
       ELSE /\ golden' = [golden EXCEPT ![d][f] = 0]
            /\ commitStep' = IF f + 1 \in Files(d) THEN <<"clear", i, f + 1>>
                                                   ELSE <<"copy", i, 1>>
            /\ UNCHANGED committed
    /\ UNCHANGED <<sources, unparsable, generated>>

\* copy_dir_contents, one file per step.
CopyToGolden ==
    /\ commitStep[1] = "copy"
    /\ LET i == commitStep[2]  d == Directories[i]  f == commitStep[3] IN
       /\ golden' = [golden EXCEPT ![d][f] = IF generated[d][f] = 0 THEN @
                                             ELSE generated[d][f]]
       /\ IF f + 1 \in Files(d)
          THEN commitStep' = <<"copy", i, f + 1>> /\ UNCHANGED committed
          ELSE commitStep' = NextDirectory /\ committed' = IF i = 3 THEN Dirs ELSE committed
    /\ UNCHANGED <<sources, unparsable, generated>>

\* The command is interrupted between two file operations.
InterruptCommit ==
    /\ ~NoCommand
    /\ commitStep' = <<"idle", 0, 0>>
    /\ UNCHANGED <<sources, unparsable, generated, golden, committed>>

ArtifactsNext ==
    \/ \E d \in Dirs, b \in 0..CatalogSize : EditSource(d, b)
    \/ \E n \in 0..CatalogSize : GenerateCatalog(n)
    \/ \E b \in BOOLEAN : RunTypegen(b) \/ CommitGenerate(b)
    \/ BeginCommit \/ SkipSdk \/ ClearGolden \/ CopyToGolden \/ InterruptCommit

-----------------------------------------------------------------------------
\* What commit-golden-baseline promises: once it has completed, and until a
\* source or a generated file changes, verify-generated-artifacts reports no
\* drift in the directories it committed (all, or all but the SDKs) - whatever
\* interrupted commits, failed generations and retired files came before it.
CommitMakesVerifyPass == NoCommand => \A d \in committed : ~Drifts(d)

\* A commit interrupted inside copy_to_golden never leaves a baseline that is
\* partly copied and unnoticed: whenever verify reports no drift and the
\* catalog can be regenerated, the platform baseline is either empty or exactly
\* what the current models generate, and the contract and SDK baselines are
\* empty or exactly the files on disk.
NoTornBaseline ==
    NoCommand /\ unparsable = 0 /\ VerifyPasses =>
        /\ \/ EmptyDir(golden["platform"])
           \/ \A f \in Files("platform") : golden["platform"][f] = sources["platform"]
        /\ \A d \in {"contracts", "sdk"} :
              EmptyDir(golden[d]) \/ EmptyDir(generated[d]) \/ golden[d] = generated[d]

\* verify-generated-artifacts is right both ways: it accepts a committed
\* baseline and no torn one.
DriftVerdictIsTrue ==
  CommitMakesVerifyPass /\ NoTornBaseline
=============================================================================
