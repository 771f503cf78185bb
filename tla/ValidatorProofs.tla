-------------------------- MODULE ValidatorProofs ---------------------------
(***************************************************************************)
(* Proofs about what guards the repository: the baselines of the generated *)
(* artifacts, its gates and the validators of the platform model, for any  *)
(* number of files, artifacts, services and edits.                         *)
(***************************************************************************)
EXTENDS GeneratedArtifacts, RepoGates, PlatformValidators, FiniteSetTheorems, TLAPS

-----------------------------------------------------------------------------
(* The generated artifacts and their baselines. *)

\* verify-generated-artifacts finds no drift in a directory: the platform
\* baseline is what the current models generate, the others are the files on
\* disk, unless there are none.
Settled(d) ==
  IF d = "platform" THEN \A f \in Files(d) : golden[d][f] = sources[d]
  ELSE EmptyDir(generated[d]) \/ \A f \in Files(d) : golden[d][f] = generated[d][f]

\* How far a commit has come in the directory it is at: the catalog is freshly
\* generated, the files before the current one are removed or copied, and in the
\* copy those after it are gone.
CopyInHand(phase, d, f) ==
  phase \in {"clear", "copy"} =>
    /\ f \in Files(d)
    /\ d = "platform" => \A g \in Files(d) : generated[d][g] = sources[d]
    /\ phase = "clear" => \A g \in Files(d) : g < f => golden[d][g] = 0
    /\ phase = "copy" => \A g \in Files(d) : golden[d][g] = IF g < f THEN generated[d][g] ELSE 0

\* commit-golden-baseline settles the directories in order, and those it has
\* committed when it ends are settled.
ArtifactsInv ==
  /\ ArtifactsTypeOK
  /\ DOMAIN generated = Dirs /\ DOMAIN golden = Dirs
  /\ \A d \in committed : Settled(d)
  /\ ~NoCommand =>
       /\ committed = {}
       /\ \A j \in 1..3 : j < commitStep[2] => Settled(Directories[j])
       /\ CopyInHand(commitStep[1], Directories[commitStep[2]], commitStep[3])

\* The three directories and the files each may hold.
LEMMA DirectoriesFact ==
  /\ Dirs = {"platform", "contracts", "sdk"}
  /\ Directories[1] = "platform" /\ Directories[2] = "contracts" /\ Directories[3] = "sdk"
  /\ \A i \in 1..3 : Directories[i] \in Dirs
  /\ \A i, j \in 1..3 : Directories[i] = Directories[j] => i = j
  /\ \A d \in Dirs : \E i \in 1..3 : d = Directories[i]
  /\ \A d \in Dirs : \E n \in 1..CatalogSize + 2 : Files(d) = 1..n
  /\ Files("platform") = 1..CatalogSize /\ Files("contracts") = 1..2 /\ Files("sdk") = 1..1
<1>0. CatalogSize \in Nat \ {0}
  BY Zenon, ArtifactsAssumption
<1>1. Directories[1] = "platform" /\ Directories[2] = "contracts" /\ Directories[3] = "sdk"
  BY Zenon DEF Directories
<1>2. 1..3 = {1, 2, 3}
  OBVIOUS
<1>3. Dirs = {"platform", "contracts", "sdk"}
  BY <1>1, <1>2, Zenon DEF Dirs
<1>4. Files("platform") = 1..CatalogSize /\ Files("contracts") = 1..2 /\ Files("sdk") = 1..1
  BY Zenon DEF Files
<1>5. \A d \in Dirs : \E n \in 1..CatalogSize + 2 : Files(d) = 1..n
  <2>1. CatalogSize \in 1..CatalogSize + 2 /\ 2 \in 1..CatalogSize + 2 /\ 1 \in 1..CatalogSize + 2
    BY <1>0
  <2>. QED
    BY <1>3, <1>4, <2>1, Zenon
<1>6. \A i, j \in 1..3 : Directories[i] = Directories[j] => i = j
  BY <1>1
<1>7. /\ \A i \in 1..3 : Directories[i] \in Dirs
      /\ \A d \in Dirs : \E i \in 1..3 : d = Directories[i]
  BY <1>1, <1>2, <1>3, Zenon
<1>. QED
  BY <1>1, <1>3, <1>4, <1>5, <1>6, <1>7, Zenon

\* Settled directories leave verify-generated-artifacts nothing to report, and
\* a verdict of no drift is about whole directories.
LEMMA VerdictFact == ArtifactsInv => DriftVerdictIsTrue
<1>. SUFFICES ASSUME ArtifactsInv PROVE DriftVerdictIsTrue
  BY Zenon
<1>1. \A d \in Dirs : /\ generated[d] \in [Files(d) -> 0..MaxEdits + 1]
                      /\ golden[d] \in [Files(d) -> 0..MaxEdits + 1]
  BY Zenon DEF ArtifactsInv, ArtifactsTypeOK
<1>2. "platform" \in Dirs /\ "contracts" \in Dirs /\ "sdk" \in Dirs
  BY Zenon, DirectoriesFact
<1>3. sources["platform"] # 0
  BY <1>2 DEF ArtifactsInv, ArtifactsTypeOK
<1>4. \A d \in {"contracts", "sdk"} : Settled(d) => ~CheckDirectory(d)
  BY Zenon, <1>1, <1>2 DEF Settled, CheckDirectory, CompareTree, EmptyDir
<1>5. LET fresh == WriteCatalog([f \in Files("platform") |-> 0], CatalogSize) IN
      DOMAIN fresh = Files("platform") /\ \A f \in Files("platform") : fresh[f] = sources["platform"]
  BY DirectoriesFact, ArtifactsAssumption DEF WriteCatalog
<1>6. Settled("platform") => ~CheckDirectoryWithRegen
  BY Zenon, <1>1, <1>2, <1>3, <1>5 DEF Settled, CheckDirectoryWithRegen, CompareTree
<1>7. CommitMakesVerifyPass
  <2>1. \A d \in Dirs : Settled(d) => ~Drifts(d)
    BY Zenon, <1>4, <1>6, DirectoriesFact DEF Drifts
  <2>. QED
    BY Zenon, <2>1 DEF CommitMakesVerifyPass, ArtifactsInv, ArtifactsTypeOK
<1>8. ASSUME unparsable = 0, VerifyPasses, ~EmptyDir(golden["platform"])
      PROVE  \A f \in Files("platform") : golden["platform"][f] = sources["platform"]
  BY Zenon, <1>1, <1>2, <1>3, <1>5, <1>8 DEF VerifyPasses, Drifts, CheckDirectoryWithRegen, CompareTree
<1>9. ASSUME VerifyPasses, NEW d \in {"contracts", "sdk"}, ~EmptyDir(golden[d]), ~EmptyDir(generated[d])
      PROVE  golden[d] = generated[d]
  <2>1. ~CompareTree(generated[d], golden[d])
    <3>1. d \in Dirs /\ d # "platform"
      BY <1>2, <1>9
    <3>. QED
      BY Zenon, <1>9, <3>1 DEF VerifyPasses, Drifts, CheckDirectory
  <2>2. \A f \in Files(d) : golden[d][f] = generated[d][f]
    BY Zenon, <1>1, <1>2, <2>1 DEF CompareTree
  <2>. QED
    BY <1>1, <1>2, <2>2
<1>. QED
  BY Zenon, <1>7, <1>8, <1>9 DEF DriftVerdictIsTrue, NoTornBaseline

Versions == 0..MaxEdits + 1

\* Replacing the files of one directory keeps the types of a tree.
LEMMA TreeFact ==
  ASSUME NEW dirs, DOMAIN dirs = Dirs, NEW d \in Dirs, NEW files \in [Files(d) -> Versions],
         \A e \in Dirs : dirs[e] \in [Files(e) -> Versions]
  PROVE  LET new == [dirs EXCEPT ![d] = files] IN
         /\ DOMAIN new = Dirs
         /\ new[d] = files
         /\ \A e \in Dirs : e # d => new[e] = dirs[e]
         /\ \A e \in Dirs : new[e] \in [Files(e) -> Versions]
BY Zenon

\* An edit of a source withdraws what the last commit said.
LEMMA EditStep ==
  ASSUME ArtifactsInv, NEW d \in Dirs, NEW b \in 0..CatalogSize, EditSource(d, b)
  PROVE  ArtifactsInv'
<1>0. /\ \A e \in Dirs : generated[e] \in [Files(e) -> Versions]
      /\ DOMAIN generated = Dirs /\ sources \in [Dirs -> 1..MaxEdits + 1] /\ MaxEdits \in Nat
  BY Zenon, ArtifactsAssumption DEF ArtifactsInv, ArtifactsTypeOK, Versions
<1>1. sources[d] + 1 \in 1..MaxEdits + 1
  <2>1. "platform" \in Dirs /\ "contracts" \in Dirs /\ "sdk" \in Dirs /\ d \in {"platform", "contracts", "sdk"}
    BY Zenon, DirectoriesFact
  <2>. QED
    BY <1>0, <2>1 DEF EditSource, Edits
<1>2. sources' \in [Dirs -> 1..MaxEdits + 1] /\ sources'[d] \in Versions
  BY <1>0, <1>1 DEF EditSource, Versions
<1>3. unparsable' \in 0..CatalogSize
  BY Zenon DEF EditSource, ArtifactsInv, ArtifactsTypeOK
<1>4. DOMAIN generated' = Dirs /\ \A e \in Dirs : generated'[e] \in [Files(e) -> Versions]
  <2>1. CASE d = "sdk"
    <3>1. [generated[d] EXCEPT ![1] = sources'[d]] \in [Files(d) -> Versions]
      BY Zenon, <1>0, <1>2
    <3>. QED
      BY Zenon, <1>0, <2>1, <3>1, TreeFact DEF EditSource
  <2>2. CASE d # "sdk"
    BY Zenon, <1>0, <2>2 DEF EditSource
  <2>. QED
    BY Zenon, <2>1, <2>2
<1>. QED
  BY Zenon, <1>2, <1>3, <1>4 DEF EditSource, ArtifactsInv, ArtifactsTypeOK, Versions, NoCommand

\* The catalog generator on its own, stopped anywhere, touches no baseline and
\* nothing the platform comparison reads.
LEMMA GenerateStep ==
  ASSUME ArtifactsInv, NEW n \in 0..CatalogSize, GenerateCatalog(n)
  PROVE  ArtifactsInv'
<1>0. /\ \A e \in Dirs : generated[e] \in [Files(e) -> Versions]
      /\ DOMAIN generated = Dirs /\ sources \in [Dirs -> 1..MaxEdits + 1] /\ MaxEdits \in Nat
      /\ "platform" \in Dirs
  BY Zenon, ArtifactsAssumption, DirectoriesFact DEF ArtifactsInv, ArtifactsTypeOK, Versions
<1>1. WriteCatalog(generated["platform"], n) \in [Files("platform") -> Versions]
  BY <1>0 DEF WriteCatalog, Versions
<1>2. /\ DOMAIN generated' = Dirs /\ \A e \in Dirs : generated'[e] \in [Files(e) -> Versions]
      /\ \A e \in Dirs : e # "platform" => generated'[e] = generated[e]
  BY Zenon, <1>0, <1>1, TreeFact DEF GenerateCatalog
<1>3. \A e \in Dirs : Settled(e) => Settled(e)'
  BY Zenon, <1>2 DEF Settled, GenerateCatalog, EmptyDir
<1>. QED
  BY Zenon, <1>2, <1>3 DEF GenerateCatalog, ArtifactsInv, ArtifactsTypeOK, Versions, NoCommand

\* What typegen leaves is a contract directory.
LEMMA TypegenFact ==
  ASSUME ArtifactsInv, NEW exported \in BOOLEAN
  PROVE  Typegen(generated["contracts"], exported) \in [Files("contracts") -> Versions]
<1>1. /\ generated["contracts"] \in [1..2 -> Versions] /\ sources["contracts"] \in Versions
      /\ 0 \in Versions /\ Files("contracts") = 1..2
  <2>1. "contracts" \in Dirs /\ Files("contracts") = 1..2
    BY Zenon, DirectoriesFact
  <2>2. generated["contracts"] \in [Files("contracts") -> Versions] /\ sources["contracts"] \in 1..MaxEdits + 1
    BY Zenon, <2>1 DEF ArtifactsInv, ArtifactsTypeOK, Versions
  <2>. QED
    BY <2>1, <2>2, ArtifactsAssumption DEF Versions
<1>. QED
  BY Zenon, <1>1 DEF Typegen

\* typegen on its own withdraws what the last commit said when it changes a file.
LEMMA TypegenStep ==
  ASSUME ArtifactsInv, NEW exported \in BOOLEAN, RunTypegen(exported)
  PROVE  ArtifactsInv'
<1>0. /\ \A e \in Dirs : generated[e] \in [Files(e) -> Versions]
      /\ DOMAIN generated = Dirs /\ "contracts" \in Dirs
  BY Zenon, DirectoriesFact DEF ArtifactsInv, ArtifactsTypeOK, Versions
<1>1. DOMAIN generated' = Dirs /\ \A e \in Dirs : generated'[e] \in [Files(e) -> Versions]
  BY Zenon, <1>0, TypegenFact, TreeFact DEF RunTypegen
<1>2. generated' = generated => \A e \in Dirs : Settled(e) => Settled(e)'
  BY Zenon DEF Settled, RunTypegen, EmptyDir
<1>. QED
  BY Zenon, <1>1, <1>2 DEF RunTypegen, ArtifactsInv, ArtifactsTypeOK, Versions, NoCommand

CommitSteps ==
  {<<"idle", 0, 0>>} \cup ({"generate", "clear", "copy"} \X (1..3) \X (0..CatalogSize + 2))

\* Where a command can be, and the steps it can take from there.
LEMMA CommitStepFact ==
  /\ \A step \in CommitSteps : step[1] # "idle" =>
       step[1] \in {"generate", "clear", "copy"} /\ step[2] \in 1..3
  /\ <<"idle", 0, 0>> \in CommitSteps
  /\ \A i \in 1..3 : <<"generate", i, 0>> \in CommitSteps
  /\ \A i \in 1..3 : \A f \in Files(Directories[i]) :
       <<"clear", i, f>> \in CommitSteps /\ <<"copy", i, f>> \in CommitSteps
<1>1. \A step \in CommitSteps : step[1] # "idle" =>
        step[1] \in {"generate", "clear", "copy"} /\ step[2] \in 1..3
  BY DEF CommitSteps
<1>2. \A i \in 1..3 : <<"generate", i, 0>> \in CommitSteps
  BY ArtifactsAssumption DEF CommitSteps
<1>3. \A i \in 1..3 : Files(Directories[i]) \subseteq 0..CatalogSize + 2
  <2>1. \A n \in 1..CatalogSize + 2 : 1..n \subseteq 0..CatalogSize + 2
    BY ArtifactsAssumption
  <2>. QED
    BY Zenon, <2>1, DirectoriesFact
<1>. QED
  BY Zenon, <1>1, <1>2, <1>3 DEF CommitSteps

\* The generation that precedes a copy leaves the directories already settled
\* as they are, and a fresh catalog where it succeeds.
LEMMA CommitGenerateStep ==
  ASSUME ArtifactsInv, NEW succeeds \in BOOLEAN, CommitGenerate(succeeds)
  PROVE  ArtifactsInv'
<1>. DEFINE i == commitStep[2]
            d == Directories[i]
            files == CASE d = "platform"  -> WriteCatalog(generated[d], Writable)
                       [] d = "contracts" -> Typegen(generated[d], succeeds)
                       [] d = "sdk"       -> generated[d]
<1>0. /\ \A e \in Dirs : generated[e] \in [Files(e) -> Versions]
      /\ DOMAIN generated = Dirs /\ commitStep \in CommitSteps
  BY Zenon DEF ArtifactsInv, ArtifactsTypeOK, Versions, CommitSteps
<1>1. commitStep[1] = "generate" /\ i \in 1..3 /\ d \in Dirs /\ committed = {}
  BY Zenon, <1>0, CommitStepFact, DirectoriesFact DEF CommitGenerate, ArtifactsInv, NoCommand
<1>2. files \in [Files(d) -> Versions]
  <2>1. CASE d = "platform"
    <3>1. sources[d] \in Versions
      BY <1>1, ArtifactsAssumption DEF ArtifactsInv, ArtifactsTypeOK, Versions
    <3>2. WriteCatalog(generated[d], Writable) \in [Files(d) -> Versions]
      BY Zenon, <1>0, <1>1, <2>1, <3>1 DEF WriteCatalog
    <3>. QED
      BY Zenon, <2>1, <3>2
  <2>2. CASE d = "contracts"
    BY Zenon, <2>2, TypegenFact
  <2>3. CASE d = "sdk"
    BY Zenon, <1>0, <1>1, <2>3
  <2>. QED
    BY Zenon, <1>1, <2>1, <2>2, <2>3, DirectoriesFact
<1>3. generated' = [generated EXCEPT ![d] = files]
  BY Zenon DEF CommitGenerate
<1>4. /\ DOMAIN generated' = Dirs /\ generated'[d] = files
      /\ \A e \in Dirs : e # d => generated'[e] = generated[e]
      /\ \A e \in Dirs : generated'[e] \in [Files(e) -> Versions]
  BY Zenon, <1>0, <1>1, <1>2, <1>3, TreeFact
<1>5. \A j \in 1..3 : j < i => Settled(Directories[j])'
  <2>. SUFFICES ASSUME NEW j \in 1..3, j < i PROVE Settled(Directories[j])'
    BY Zenon
  <2>1. Directories[j] # d /\ Directories[j] \in Dirs
    <3>1. j # i
      BY <1>1
    <3>. QED
      BY Zenon, <1>1, <3>1, DirectoriesFact
  <2>2. Settled(Directories[j])
    BY Zenon, <1>1 DEF ArtifactsInv, NoCommand
  <2>. QED
    BY Zenon, <1>4, <2>1, <2>2 DEF Settled, EmptyDir, CommitGenerate
<1>6. CASE ~succeeds
  <2>1. commitStep' = <<"idle", 0, 0>>
    BY Zenon, <1>6 DEF CommitGenerate
  <2>2. commitStep'[1] = "idle"
    BY Zenon, <2>1
  <2>. QED
    BY Zenon, <1>1, <1>4, <2>1, <2>2, CommitStepFact
       DEF CommitGenerate, ArtifactsInv, ArtifactsTypeOK, Versions, NoCommand, CommitSteps
<1>7. CASE succeeds
  <2>1. commitStep' = <<"clear", i, 1>>
    BY Zenon, <1>7 DEF CommitGenerate
  <2>2. commitStep'[1] = "clear" /\ commitStep'[2] = i /\ commitStep'[3] = 1
    BY Zenon, <2>1
  <2>3. 1 \in Files(d) /\ Files(d) \subseteq Nat
    <3>1. \A n \in 1..CatalogSize + 2 : 1 \in 1..n /\ 1..n \subseteq Nat
      BY ArtifactsAssumption
    <3>. QED
      BY Zenon, <1>1, <3>1, DirectoriesFact
  <2>4. \A g \in Files(d) : ~(g < 1)
    <3>1. \A n \in 1..CatalogSize + 2 : \A g \in 1..n : ~(g < 1)
      BY ArtifactsAssumption
    <3>. QED
      BY Zenon, <1>1, <3>1, DirectoriesFact
  <2>5. d = "platform" => \A g \in Files(d) : generated'[d][g] = sources[d]
    <3>. SUFFICES ASSUME d = "platform", NEW g \in Files(d) PROVE files[g] = sources[d]
      BY Zenon, <1>4
    <3>1. Writable = CatalogSize
      BY Zenon, <1>7 DEF CommitGenerate, Writable
    <3>2. g <= CatalogSize
      BY DirectoriesFact, ArtifactsAssumption
    <3>3. WriteCatalog(generated[d], Writable)[g] = sources[d]
      BY Zenon, <1>0, <1>1, <3>1, <3>2 DEF WriteCatalog
    <3>. QED
      BY Zenon, <3>3
  <2>6. CopyInHand(commitStep[1], Directories[commitStep[2]], commitStep[3])'
    BY Zenon, <2>2, <2>3, <2>4, <2>5 DEF CopyInHand, CommitGenerate
  <2>7. commitStep' \in CommitSteps
    BY Zenon, <1>1, <2>1, <2>3, CommitStepFact
  <2>. QED
    BY Zenon, <1>1, <1>4, <1>5, <2>2, <2>6, <2>7
       DEF CommitGenerate, ArtifactsInv, ArtifactsTypeOK, Versions, NoCommand, CommitSteps
<1>. QED
  BY Zenon, <1>6, <1>7

\* A directory is settled and the command goes on to the next one, or ends.
LEMMA NextDirectoryStep ==
  ASSUME ArtifactsInv, ~NoCommand, NEW i \in 1..3, i = commitStep[2],
         commitStep' = NextDirectory, committed' = IF i = 3 THEN Dirs ELSE committed,
         \A e \in Dirs : golden'[e] \in [Files(e) -> Versions], DOMAIN golden' = Dirs,
         \A e \in Dirs : e # Directories[i] => golden'[e] = golden[e],
         Settled(Directories[i])',
         sources' = sources, unparsable' = unparsable, generated' = generated
  PROVE  ArtifactsInv'
<1>1. \A j \in 1..3 : j < i => Settled(Directories[j])'
  <2>. SUFFICES ASSUME NEW j \in 1..3, j < i PROVE Settled(Directories[j])'
    BY Zenon
  <2>1. j # i
    OBVIOUS
  <2>2. Directories[j] # Directories[i] /\ Directories[j] \in Dirs /\ Settled(Directories[j])
    BY Zenon, <2>1, DirectoriesFact DEF ArtifactsInv
  <2>3. golden'[Directories[j]] = golden[Directories[j]]
    BY Zenon, <2>2
  <2>. QED
    BY <2>2, <2>3 DEF Settled, EmptyDir
<1>2. CASE i = 3
  <2>1. commitStep' = <<"idle", 0, 0>> /\ committed' = Dirs
    BY Zenon, <1>2 DEF NextDirectory
  <2>2. commitStep'[1] = "idle"
    BY <2>1
  <2>3. \A j \in 1..3 : Settled(Directories[j])'
    <3>1. \A j \in 1..3 : j < i \/ j = i
      BY <1>2
    <3>. QED
      BY Zenon, <1>1, <3>1
  <2>4. \A e \in Dirs : Settled(e)'
    <3>. SUFFICES ASSUME NEW e \in Dirs PROVE Settled(e)'
      BY Zenon
    <3>1. PICK j \in 1..3 : e = Directories[j]
      BY Zenon, DirectoriesFact
    <3>. QED
      BY Zenon, <2>3, <3>1
  <2>. QED
    BY Zenon, <2>1, <2>2, <2>4, CommitStepFact
       DEF ArtifactsInv, ArtifactsTypeOK, Versions, NoCommand, CommitSteps
<1>3. CASE i # 3
  <2>1. commitStep' = <<"generate", i + 1, 0>> /\ committed' = {}
    BY Zenon, <1>3 DEF NextDirectory, ArtifactsInv
  <2>2. commitStep'[1] = "generate" /\ commitStep'[2] = i + 1 /\ i + 1 \in 1..3
    BY <1>3, <2>1
  <2>3. \A j \in 1..3 : j < i + 1 => Settled(Directories[j])'
    <3>1. \A j \in 1..3 : j < i + 1 => j < i \/ j = i
      OBVIOUS
    <3>. QED
      BY Zenon, <1>1, <3>1
  <2>4. CopyInHand(commitStep[1], Directories[commitStep[2]], commitStep[3])'
    BY Zenon, <2>2 DEF CopyInHand
  <2>5. commitStep' \in CommitSteps
    BY Zenon, <2>1, <2>2, CommitStepFact
  <2>. QED
    BY Zenon, <2>1, <2>2, <2>3, <2>4, <2>5
       DEF ArtifactsInv, ArtifactsTypeOK, Versions, NoCommand, CommitSteps
<1>. QED
  BY Zenon, <1>2, <1>3

\* copy_to_golden removes the files of a baseline one by one, or passes over a
\* directory with nothing to copy, which is settled.
LEMMA ClearStep ==
  ASSUME ArtifactsInv, ClearGolden
  PROVE  ArtifactsInv'
<1>0. commitStep \in CommitSteps /\ commitStep[1] = "clear" /\ ~NoCommand
  BY Zenon DEF ArtifactsInv, ArtifactsTypeOK, CommitSteps, ClearGolden, NoCommand
<1>. PICK i \in 1..3 : i = commitStep[2]
  BY Zenon, <1>0, CommitStepFact
<1>. PICK d \in Dirs : d = Directories[i]
  BY Zenon, DirectoriesFact
<1>. PICK f \in Files(d) : f = commitStep[3]
  BY Zenon, <1>0 DEF ArtifactsInv, CopyInHand
<1>1. /\ \A e \in Dirs : generated[e] \in [Files(e) -> Versions]
      /\ \A e \in Dirs : golden[e] \in [Files(e) -> Versions]
      /\ DOMAIN generated = Dirs /\ DOMAIN golden = Dirs
  BY Zenon DEF ArtifactsInv, ArtifactsTypeOK, Versions
<1>2. PICK n \in Nat : Files(d) = 1..n
  BY Zenon, DirectoriesFact, ArtifactsAssumption
<1>3. /\ d = "platform" => \A g \in Files(d) : generated[d][g] = sources[d]
      /\ \A g \in Files(d) : g < f => golden[d][g] = 0
  BY Zenon, <1>0 DEF ArtifactsInv, CopyInHand
<1>4. CASE EmptyDir(generated[d])
  <2>1. /\ commitStep' = NextDirectory /\ committed' = IF i = 3 THEN Dirs ELSE committed
        /\ golden' = golden /\ UNCHANGED <<sources, unparsable, generated>>
    BY Zenon, <1>4 DEF ClearGolden
  <2>2. d # "platform"
    <3>. SUFFICES ASSUME d = "platform" PROVE FALSE
      BY Zenon
    <3>1. sources[d] # 0
      BY DEF ArtifactsInv, ArtifactsTypeOK
    <3>. QED
      BY Zenon, <1>1, <1>3, <1>4, <3>1 DEF EmptyDir
  <2>3. Settled(Directories[i])'
    BY Zenon, <1>4, <2>1, <2>2 DEF Settled, EmptyDir
  <2>. QED
    BY Zenon, <1>0, <1>1, <2>1, <2>3, NextDirectoryStep
<1>5. CASE ~EmptyDir(generated[d])
  <2>0. /\ golden' = [golden EXCEPT ![d][f] = 0]
        /\ commitStep' = IF f + 1 \in Files(d) THEN <<"clear", i, f + 1>> ELSE <<"copy", i, 1>>
        /\ UNCHANGED <<sources, unparsable, generated, committed>>
    BY Zenon, <1>5 DEF ClearGolden
  <2>1. [golden[d] EXCEPT ![f] = 0] \in [Files(d) -> Versions]
    <3>1. 0 \in Versions
      BY ArtifactsAssumption DEF Versions
    <3>. QED
      BY Zenon, <1>1, <3>1
  <2>2. /\ DOMAIN golden' = Dirs /\ golden'[d] = [golden[d] EXCEPT ![f] = 0]
        /\ \A e \in Dirs : e # d => golden'[e] = golden[e]
        /\ \A e \in Dirs : golden'[e] \in [Files(e) -> Versions]
    BY Zenon, <1>1, <2>0, <2>1, TreeFact
  <2>3. \A g \in Files(d) : g = f \/ g < f => golden'[d][g] = 0
    <3>1. \A g \in Files(d) : g = f => golden'[d][g] = 0
      BY Zenon, <1>1, <2>2
    <3>2. \A g \in Files(d) : g # f => golden'[d][g] = golden[d][g]
      BY Zenon, <1>1, <2>2
    <3>. QED
      BY Zenon, <1>3, <3>1, <3>2
  <2>4. \A j \in 1..3 : j < i => Settled(Directories[j])'
    <3>. SUFFICES ASSUME NEW j \in 1..3, j < i PROVE Settled(Directories[j])'
      BY Zenon
    <3>1. j # i
      OBVIOUS
    <3>2. Directories[j] # d /\ Directories[j] \in Dirs /\ Settled(Directories[j])
      BY Zenon, <1>0, <3>1, DirectoriesFact DEF ArtifactsInv
    <3>. QED
      BY Zenon, <2>0, <2>2, <3>2 DEF Settled, EmptyDir
  <2>5. /\ commitStep' \in CommitSteps /\ commitStep'[1] # "idle" /\ commitStep'[2] = i
        /\ CopyInHand(commitStep[1], Directories[commitStep[2]], commitStep[3])'
    <3>1. CASE f + 1 \in Files(d)
      <4>1. commitStep' = <<"clear", i, f + 1>>
        BY Zenon, <2>0, <3>1
      <4>2. commitStep'[1] = "clear" /\ commitStep'[2] = i /\ commitStep'[3] = f + 1
        BY Zenon, <4>1
      <4>3. \A g \in Files(d) : g < f + 1 => g = f \/ g < f
        BY <1>2
      <4>. QED
        BY Zenon, <1>3, <2>0, <2>3, <3>1, <4>1, <4>2, <4>3, CommitStepFact DEF CopyInHand
    <3>2. CASE f + 1 \notin Files(d)
      <4>1. commitStep' = <<"copy", i, 1>>
        BY Zenon, <2>0, <3>2
      <4>2. commitStep'[1] = "copy" /\ commitStep'[2] = i /\ commitStep'[3] = 1
        BY Zenon, <4>1
      <4>3. 1 \in Files(d) /\ \A g \in Files(d) : ~(g < 1) /\ (g = f \/ g < f)
        BY <1>2, <3>2
      <4>. QED
        BY Zenon, <1>3, <2>0, <2>3, <4>1, <4>2, <4>3, CommitStepFact DEF CopyInHand
    <3>. QED
      BY Zenon, <3>1, <3>2
  <2>. QED
    BY Zenon, <1>0, <2>0, <2>2, <2>4, <2>5
       DEF ArtifactsInv, ArtifactsTypeOK, Versions, NoCommand, CommitSteps
<1>. QED
  BY Zenon, <1>4, <1>5

\* copy_dir_contents copies a file; after the last one the directory is settled.
LEMMA CopyStep ==
  ASSUME ArtifactsInv, CopyToGolden
  PROVE  ArtifactsInv'
<1>0. commitStep \in CommitSteps /\ commitStep[1] = "copy" /\ ~NoCommand
  BY Zenon DEF ArtifactsInv, ArtifactsTypeOK, CommitSteps, CopyToGolden, NoCommand
<1>. PICK i \in 1..3 : i = commitStep[2]
  BY Zenon, <1>0, CommitStepFact
<1>. PICK d \in Dirs : d = Directories[i]
  BY Zenon, DirectoriesFact
<1>. PICK f \in Files(d) : f = commitStep[3]
  BY Zenon, <1>0 DEF ArtifactsInv, CopyInHand
<1>1. /\ \A e \in Dirs : generated[e] \in [Files(e) -> Versions]
      /\ \A e \in Dirs : golden[e] \in [Files(e) -> Versions]
      /\ DOMAIN generated = Dirs /\ DOMAIN golden = Dirs
  BY Zenon DEF ArtifactsInv, ArtifactsTypeOK, Versions
<1>2. PICK n \in Nat : Files(d) = 1..n
  BY Zenon, DirectoriesFact, ArtifactsAssumption
<1>3. /\ d = "platform" => \A g \in Files(d) : generated[d][g] = sources[d]
      /\ \A g \in Files(d) : golden[d][g] = IF g < f THEN generated[d][g] ELSE 0
  BY Zenon, <1>0 DEF ArtifactsInv, CopyInHand
<1>4. /\ golden' = [golden EXCEPT ![d][f] = IF generated[d][f] = 0 THEN @ ELSE generated[d][f]]
      /\ sources' = sources /\ unparsable' = unparsable /\ generated' = generated
  BY Zenon DEF CopyToGolden
<1>5. golden[d][f] = 0
  <2>1. ~(f < f)
    BY <1>2
  <2>. QED
    BY Zenon, <1>3, <2>1
<1>. DEFINE file == IF generated[d][f] = 0 THEN golden[d][f] ELSE generated[d][f]
<1>6. file = generated[d][f] /\ file \in Versions
  BY Zenon, <1>1, <1>5
<1>7. /\ DOMAIN golden' = Dirs /\ golden'[d] = [golden[d] EXCEPT ![f] = file]
      /\ \A e \in Dirs : e # d => golden'[e] = golden[e]
      /\ \A e \in Dirs : golden'[e] \in [Files(e) -> Versions]
  <2>1. [golden[d] EXCEPT ![f] = file] \in [Files(d) -> Versions]
    BY Zenon, <1>1, <1>6
  <2>. QED
    BY Zenon, <1>1, <1>4, <2>1, TreeFact
<1>8. \A g \in Files(d) : golden'[d][g] = IF g < f + 1 THEN generated[d][g] ELSE 0
  <2>1. golden'[d][f] = generated[d][f]
    <3>1. \A x : [golden[d] EXCEPT ![f] = x][f] = x
      BY Zenon, <1>1
    <3>. QED
      BY Zenon, <1>6, <1>7, <3>1
  <2>2. \A g \in Files(d) : g # f => golden'[d][g] = golden[d][g]
    BY Zenon, <1>1, <1>7
  <2>3. \A g \in Files(d) : g < f + 1 <=> g < f \/ g = f
    BY <1>2
  <2>. QED
    BY <1>3, <2>1, <2>2, <2>3
<1>9. CASE f + 1 \in Files(d)
  <2>1. commitStep' = <<"copy", i, f + 1>> /\ committed' = committed
    BY Zenon, <1>9 DEF CopyToGolden
  <2>2. commitStep'[1] = "copy" /\ commitStep'[2] = i /\ commitStep'[3] = f + 1
    BY Zenon, <2>1
  <2>3. commitStep' \in CommitSteps
    BY Zenon, <1>9, <2>1, CommitStepFact
  <2>4. CopyInHand(commitStep[1], Directories[commitStep[2]], commitStep[3])'
    <3>1. "copy" # "clear"
      OBVIOUS
    <3>2. PICK after : after = f + 1 /\ after \in Files(d)
      BY Zenon, <1>9
    <3>3. sources' = sources /\ generated' = generated
      BY Zenon, <1>4
    <3>4. d = "platform" => \A g \in Files(d) : generated'[d][g] = sources'[d]
      BY Zenon, <1>3, <3>3
    <3>5. \A g \in Files(d) : golden'[d][g] = IF g < after THEN generated'[d][g] ELSE 0
      BY <1>8, <3>2, <3>3
    <3>6. CopyInHand("copy", d, after)'
      BY Zenon, <3>1, <3>2, <3>4, <3>5 DEF CopyInHand
    <3>. QED
      BY Zenon, <2>2, <3>2, <3>6
  <2>5. \A j \in 1..3 : j < i => Settled(Directories[j])'
    <3>. SUFFICES ASSUME NEW j \in 1..3, j < i PROVE Settled(Directories[j])'
      BY Zenon
    <3>1. j # i
      OBVIOUS
    <3>2. Directories[j] # d /\ Directories[j] \in Dirs /\ Settled(Directories[j])
      BY Zenon, <1>0, <3>1, DirectoriesFact DEF ArtifactsInv
    <3>. QED
      BY Zenon, <1>4, <1>7, <3>2 DEF Settled, EmptyDir
  <2>. QED
    BY Zenon, <1>0, <1>4, <1>7, <2>1, <2>2, <2>3, <2>4, <2>5
       DEF ArtifactsInv, ArtifactsTypeOK, Versions, NoCommand, CommitSteps
<1>10. CASE f + 1 \notin Files(d)
  <2>1. commitStep' = NextDirectory /\ committed' = IF i = 3 THEN Dirs ELSE committed
    BY Zenon, <1>10 DEF CopyToGolden
  <2>2. \A g \in Files(d) : g < f + 1
    BY <1>2, <1>10
  <2>3. Settled(Directories[i])'
    BY Zenon, <1>3, <1>4, <1>8, <2>2 DEF Settled
  <2>. QED
    BY Zenon, <1>0, <1>4, <1>7, <2>1, <2>3, NextDirectoryStep
<1>. QED
  BY Zenon, <1>9, <1>10

\* Every step of the generators, of commit-golden-baseline and of the authors
\* keeps the invariant.
LEMMA ArtifactsInvStep == ArtifactsInv /\ [ArtifactsNext]_artifactVars => ArtifactsInv'
<1>. SUFFICES ASSUME ArtifactsInv, [ArtifactsNext]_artifactVars PROVE ArtifactsInv'
  BY Zenon
<1>1. CASE BeginCommit
  <2>1. commitStep' = <<"generate", 1, 0>> /\ committed' = {}
    BY Zenon, <1>1 DEF BeginCommit
  <2>2. commitStep'[1] = "generate" /\ commitStep'[2] = 1 /\ 1 \in 1..3 /\ \A j \in 1..3 : ~(j < 1)
    BY <2>1
  <2>3. CopyInHand(commitStep[1], Directories[commitStep[2]], commitStep[3])'
    BY Zenon, <2>2 DEF CopyInHand
  <2>4. commitStep' \in CommitSteps
    BY Zenon, <2>1, <2>2, CommitStepFact
  <2>. QED
    BY Zenon, <1>1, <2>1, <2>2, <2>3, <2>4
       DEF BeginCommit, ArtifactsInv, ArtifactsTypeOK, NoCommand, CommitSteps
<1>2. CASE InterruptCommit
  <2>1. commitStep' = <<"idle", 0, 0>> /\ committed' = {}
    BY Zenon, <1>2 DEF InterruptCommit, ArtifactsInv, ArtifactsTypeOK
  <2>2. commitStep'[1] = "idle"
    BY Zenon, <2>1
  <2>. QED
    BY Zenon, <1>2, <2>1, <2>2, CommitStepFact
       DEF InterruptCommit, ArtifactsInv, ArtifactsTypeOK, NoCommand, CommitSteps
<1>3. CASE UNCHANGED artifactVars
  BY Zenon, <1>3 DEF artifactVars, ArtifactsInv, ArtifactsTypeOK, NoCommand, Settled, EmptyDir, CopyInHand
<1>4. CASE SkipSdk
  <2>1. commitStep' = <<"idle", 0, 0>> /\ committed' = Dirs \ {"sdk"}
    BY Zenon, <1>4 DEF SkipSdk
  <2>2. commitStep'[1] = "idle"
    BY Zenon, <2>1
  <2>3. commitStep[2] = 3 /\ ~NoCommand
    <3>1. commitStep[1] = "generate" /\ commitStep \in CommitSteps
      BY Zenon, <1>4 DEF SkipSdk, ArtifactsInv, ArtifactsTypeOK, CommitSteps
    <3>2. commitStep[2] \in 1..3 /\ 3 \in 1..3
      BY <3>1, CommitStepFact
    <3>3. commitStep[2] = 3
      <4>1. Directories[commitStep[2]] = Directories[3]
        BY Zenon, <1>4, DirectoriesFact DEF SkipSdk
      <4>2. \A j, k \in 1..3 : Directories[j] = Directories[k] => j = k
        BY Zenon, DirectoriesFact
      <4>. QED
        BY Zenon, <3>2, <4>1, <4>2
    <3>. QED
      BY Zenon, <3>1, <3>3 DEF NoCommand
  <2>4. Settled("platform") /\ Settled("contracts")
    <3>1. 1 \in 1..3 /\ 2 \in 1..3 /\ 1 < 3 /\ 2 < 3
      OBVIOUS
    <3>. QED
      <4>1. \A j \in 1..3 : j < 3 => Settled(Directories[j])
        BY Zenon, <2>3 DEF ArtifactsInv
      <4>2. Directories[1] = "platform" /\ Directories[2] = "contracts"
        BY Zenon, DirectoriesFact
      <4>3. Settled(Directories[1]) /\ Settled(Directories[2])
        BY Zenon, <3>1, <4>1
      <4>. QED
        BY Zenon, <4>2, <4>3
  <2>5. \A e \in Dirs \ {"sdk"} : Settled(e)'
    <3>1. \A e \in Dirs \ {"sdk"} : Settled(e)
      <4>1. Dirs \ {"sdk"} \subseteq {"platform", "contracts"}
        BY Zenon, DirectoriesFact
      <4>. QED
        BY Zenon, <2>4, <4>1
    <3>. QED
      BY Zenon, <1>4, <3>1 DEF SkipSdk, Settled, EmptyDir
  <2>. QED
    BY Zenon, <1>4, <2>1, <2>2, <2>5, CommitStepFact
       DEF SkipSdk, ArtifactsInv, ArtifactsTypeOK, NoCommand, CommitSteps
<1>. QED
  BY Zenon, <1>1, <1>2, <1>3, <1>4, EditStep, GenerateStep, TypegenStep, CommitGenerateStep, ClearStep, CopyStep
     DEF ArtifactsNext

\* What verify-generated-artifacts says of the committed baselines is true,
\* whatever was edited, regenerated, interrupted or failed before, for any number
\* of catalog files and edits.
THEOREM ArtifactsCorrect ==
  ArtifactsInit /\ [][ArtifactsNext]_artifactVars => [](ArtifactsTypeOK /\ DriftVerdictIsTrue)
<1>1. ArtifactsInit => ArtifactsInv
  <2>. SUFFICES ASSUME ArtifactsInit PROVE ArtifactsInv
    BY Zenon
  <2>1. commitStep = <<"idle", 0, 0>> /\ NoCommand /\ committed = {}
    BY Zenon DEF ArtifactsInit, NoCommand
  <2>2. unparsable \in 0..CatalogSize /\ sources \in [Dirs -> 1..MaxEdits + 1]
    BY ArtifactsAssumption DEF ArtifactsInit
  <2>3. PICK b \in 0..1 : generated = [d \in Dirs |-> [f \in Files(d) |->
                             IF d = "contracts" /\ f = 2 THEN b ELSE 1]]
    BY Zenon DEF ArtifactsInit
  <2>4. b \in 0..MaxEdits + 1 /\ 1 \in 0..MaxEdits + 1
    BY ArtifactsAssumption
  <2>5. \A d \in Dirs : generated[d] \in [Files(d) -> 0..MaxEdits + 1]
    BY Zenon, <2>3, <2>4
  <2>6. golden = generated /\ DOMAIN generated = Dirs
    BY Zenon, <2>3 DEF ArtifactsInit
  <2>. QED
    BY Zenon, <2>1, <2>2, <2>5, <2>6, CommitStepFact DEF ArtifactsInv, ArtifactsTypeOK, CommitSteps
<1>2. ArtifactsInv => ArtifactsTypeOK
  BY Zenon DEF ArtifactsInv
<1>. QED
  BY <1>1, <1>2, ArtifactsInvStep, VerdictFact, PTL

-----------------------------------------------------------------------------
(* The reports of the validators. *)

\* status_code fails a report that has an error, in strict mode also one that has
\* a warning.
LEMMA ErrorFails == ASSUME NEW m, NEW issues, NEW x, <<"error", x>> \in issues PROVE ~ StatusOk(m, issues)
<1>1. <<"error", x>>[1] = "error"
  BY Zenon
<1>2. QED
  BY <1>1, Zenon DEF StatusOk

\* The same for a warning.
LEMMA WarningFails == ASSUME NEW issues, NEW x, <<"warn", x>> \in issues PROVE ~ StatusOk("strict", issues)
<1>1. <<"warn", x>>[1] = "warn"
  BY Zenon
<1>2. QED
  BY <1>1, Zenon DEF StatusOk

\* A condition that holds is reported.
LEMMA WhenReports == ASSUME NEW c, NEW issue, c PROVE issue \in When(c, issue)
<1>1. QED
  BY Zenon DEF When

\* A gap is an error in strict mode.
LEMMA StrictErrors == IssueSeverity("strict") = "error"
<1>1. QED
  BY Zenon DEF IssueSeverity

\* Every scope of a strict report is an error of it.
LEMMA IssuesReport == ASSUME NEW scopes, NEW x \in scopes PROVE <<"error", x>> \in Issues("strict", scopes)
<1>1. QED
  BY Zenon, StrictErrors DEF Issues

-----------------------------------------------------------------------------
(* The gates. *)

\* What a check that passed says of the tree.
Vouched(check) ==
  CASE check = "tools"            -> tree.tools
    [] check = "publish strict"   -> tree.publish = "false"
    [] check = "imports strict"   -> tree.import \notin {"server", "third_party"}
    [] check = "state strict"     -> OneOwner
    [] check = "workflows strict" -> tree.workflow = {}
    [] check = "replay strict"    -> tree.replay = "found"
    [] check = "delivery strict"  -> tree.delivery = "found"
    [] check = "boundaries"       -> tree.crate # "other_service"
    [] check = "drift"            -> tree.generated = "clean"
    [] check = "audit strict"     -> ~ tree.frontend
    [] OTHER                      -> TRUE

StepsOf(g) == FindGate(g).steps

\* Every check before place k of step i of the gate has passed.
RanBefore(g, i, k) ==
  \A a \in DOMAIN StepsOf(g) : \A b \in DOMAIN StepsOf(g)[a] :
    a < i \/ (a = i /\ b < k) => Vouched(StepsOf(g)[a][b])

\* Every check of a step, and every step of the gate, has passed.
Ran(step) == \A b \in DOMAIN step : Vouched(step[b])
RanAll(g) == \A a \in DOMAIN StepsOf(g) : Ran(StepsOf(g)[a])

\* A step or a gate is a sequence that is not empty.
Row(s) == Len(s) \in Nat /\ DOMAIN s = 1..Len(s) /\ 1 \in DOMAIN s

\* What every edit leaves known of a tree.
TreeReadable ==
  /\ {"worker", "tags"} \subseteq DOMAIN tree /\ "declared" \in DOMAIN tree.worker
  /\ tree.worker.declared \in {"no", "planned", "active"} /\ tree.tags \subseteq Tags

GateInv ==
  /\ TreeReadable
  /\ gate \in Gates \cup {"none"} /\ failures \in Nat
  /\ gate = "none" => verdict = "none"
  /\ gate # "none" /\ verdict = "none" =>
       /\ position[1] \in DOMAIN StepsOf(gate) /\ position[2] \in DOMAIN StepsOf(gate)[position[1]]
       /\ failures = 0 /\ ~ editedDuring => RanBefore(gate, position[1], position[2])
  /\ verdict = "passed" /\ ~ editedDuring => RanAll(gate)

-----------------------------------------------------------------------------

\* The checks of platform-doctor and of the ci gate.
CheckNames == {"tools", "state strict", "workflows strict", "replay strict", "delivery strict", "boundaries", "publish strict"}

\* What two sequences are when joined.
LEMMA Joined ==
  ASSUME NEW S, NEW s \in Seq(S), NEW t \in Seq(S)
  PROVE  /\ s \o t \in Seq(S) /\ Len(s \o t) = Len(s) + Len(t)
         /\ \A i \in 1..(Len(s) + Len(t)) : (s \o t)[i] = IF i <= Len(s) THEN s[i] ELSE t[i - Len(s)]
<1>1. QED
  OBVIOUS

Joins(u, s, t) == u = s \o t

\* Rows of the catalog joined into one step.
LEMMA JoinOneFive ==
  ASSUME NEW S, NEW s \in Seq(S), NEW t \in Seq(S), NEW u, Joins(u, s, t), Len(s) = 1, Len(t) = 5
  PROVE  /\ u \in Seq(S) /\ Len(u) = 6
         /\ u[1] = s[1] /\ u[3] = t[2] /\ u[4] = t[3] /\ u[5] = t[4] /\ u[6] = t[5]
<1>1. /\ u \in Seq(S) /\ Len(u) = Len(s) + Len(t)
      /\ \A i \in 1..(Len(s) + Len(t)) : u[i] = IF i <= Len(s) THEN s[i] ELSE t[i - Len(s)]
  BY Joined, Zenon DEF Joins
<1>2. Len(s) + Len(t) = 6 /\ Len(u) = 6
  BY <1>1
<1>3. \A i \in 1..6 : u[i] = IF i <= 1 THEN s[i] ELSE t[i - 1]
  BY <1>1, <1>2, Zenon
<1>4. u[1] = s[1] /\ u[3] = t[2] /\ u[4] = t[3] /\ u[5] = t[4] /\ u[6] = t[5]
  BY <1>3
<1>5. QED
  BY <1>1, <1>2, <1>4, Zenon

\* The rest of the nested gate.
LEMMA JoinSixThree ==
  ASSUME NEW S, NEW s \in Seq(S), NEW t \in Seq(S), NEW u, Joins(u, s, t), Len(s) = 6, Len(t) = 3
  PROVE  /\ u \in Seq(S) /\ Len(u) = 9
         /\ u[1] = s[1] /\ u[3] = s[3] /\ u[4] = s[4] /\ u[5] = s[5] /\ u[6] = s[6] /\ u[8] = t[2] /\ u[9] = t[3]
<1>1. /\ u \in Seq(S) /\ Len(u) = Len(s) + Len(t)
      /\ \A i \in 1..(Len(s) + Len(t)) : u[i] = IF i <= Len(s) THEN s[i] ELSE t[i - Len(s)]
  BY Joined, Zenon DEF Joins
<1>2. Len(s) + Len(t) = 9 /\ Len(u) = 9
  BY <1>1
<1>3. \A i \in 1..9 : u[i] = IF i <= 6 THEN s[i] ELSE t[i - 6]
  BY <1>1, <1>2, Zenon
<1>4. u[1] = s[1] /\ u[3] = s[3] /\ u[4] = s[4] /\ u[5] = s[5] /\ u[6] = s[6] /\ u[8] = t[2] /\ u[9] = t[3]
  BY <1>3
<1>5. QED
  BY <1>1, <1>2, <1>4, Zenon

\* The nested ci gate as a step of the release gate.
NestedCi == <<"tools">> \o PlatformDoctor \o <<"state strict", "boundaries", "publish strict">>

\* A step of one check.
LEMMA RowsOfOne == ASSUME NEW x PROVE Row(<<x>>) /\ DOMAIN <<x>> = {1} /\ <<x>>[1] = x
<1>1. Len(<<x>>) = 1 /\ DOMAIN <<x>> = 1..1 /\ <<x>>[1] = x
  OBVIOUS
<1>2. QED
  BY <1>1 DEF Row

\* A sequence that is not empty is a row.
LEMMA RowsOfMany == ASSUME NEW S, NEW s \in Seq(S), s # << >> PROVE Row(s) /\ DOMAIN s = 1..Len(s)
<1>1. QED
  BY DEF Row

\* platform-doctor's checks.
LEMMA DoctorChecks ==
  /\ PlatformDoctor \in Seq(CheckNames) /\ Len(PlatformDoctor) = 5 /\ Row(PlatformDoctor) /\ DOMAIN PlatformDoctor = 1..5
  /\ PlatformDoctor[2] = "state strict" /\ PlatformDoctor[3] = "workflows strict"
  /\ PlatformDoctor[4] = "replay strict" /\ PlatformDoctor[5] = "delivery strict"
<1>1. PlatformDoctor \in Seq(CheckNames) /\ Len(PlatformDoctor) = 5
  BY DEF PlatformDoctor, CheckNames
<1>2. /\ PlatformDoctor[2] = "state strict" /\ PlatformDoctor[3] = "workflows strict"
      /\ PlatformDoctor[4] = "replay strict" /\ PlatformDoctor[5] = "delivery strict"
  BY Zenon DEF PlatformDoctor
<1>3. Row(PlatformDoctor) /\ DOMAIN PlatformDoctor = 1..5
  <2>1. PlatformDoctor # << >>
    BY Zenon DEF PlatformDoctor
  <2>2. Row(PlatformDoctor) /\ DOMAIN PlatformDoctor = 1..Len(PlatformDoctor)
    BY <1>1, <2>1, RowsOfMany, Zenon
  <2>3. QED
    BY <1>1, <2>2, Zenon
<1>4. QED
  BY Zenon, <1>1, <1>2, <1>3

\* A step of three checks.
LEMMA ThreeChecks ==
  ASSUME NEW S, NEW x \in S, NEW y \in S, NEW z \in S
  PROVE  <<x, y, z>> \in Seq(S) /\ Len(<<x, y, z>>) = 3 /\ <<x, y, z>>[2] = y /\ <<x, y, z>>[3] = z
<1>1. QED
  OBVIOUS

\* The nested ci gate runs them and the state, boundary and publish checks.
LEMMA NestedChecks ==
  /\ Row(NestedCi) /\ DOMAIN NestedCi = 1..9 /\ NestedCi[1] = "tools" /\ NestedCi[3] = "state strict"
  /\ NestedCi[4] = "workflows strict" /\ NestedCi[5] = "replay strict" /\ NestedCi[6] = "delivery strict"
  /\ NestedCi[8] = "boundaries" /\ NestedCi[9] = "publish strict"
<1>1. PICK r \in Seq(CheckNames) : r = <<"tools">> /\ Len(r) = 1 /\ r[1] = "tools"
  <2>1. <<"tools">> \in Seq(CheckNames) /\ Len(<<"tools">>) = 1 /\ <<"tools">>[1] = "tools"
    BY DEF CheckNames
  <2>2. QED
    BY Zenon, <2>1
<1>2. PICK d \in Seq(CheckNames) : /\ d = PlatformDoctor /\ Len(d) = 5 /\ d[2] = "state strict" /\ d[3] = "workflows strict"
                               /\ d[4] = "replay strict" /\ d[5] = "delivery strict"
  BY Zenon, DoctorChecks
<1>3. PICK t \in Seq(CheckNames) : /\ t = <<"state strict", "boundaries", "publish strict">>
                               /\ Len(t) = 3 /\ t[2] = "boundaries" /\ t[3] = "publish strict"
  <2>1. PICK t : t = <<"state strict", "boundaries", "publish strict">>
    BY Zenon
  <2>2. "state strict" \in CheckNames /\ "boundaries" \in CheckNames /\ "publish strict" \in CheckNames
    BY Zenon DEF CheckNames
  <2>3. t \in Seq(CheckNames) /\ Len(t) = 3 /\ t[2] = "boundaries" /\ t[3] = "publish strict"
    BY Zenon, <2>1, <2>2, ThreeChecks
  <2>4. QED
    BY Zenon, <2>1, <2>2, <2>3
<1>4. PICK s \in Seq(CheckNames) : /\ s = r \o d /\ Len(s) = 6 /\ s[1] = "tools" /\ s[3] = "state strict" /\ s[4] = "workflows strict"
                               /\ s[5] = "replay strict" /\ s[6] = "delivery strict"
  <2>1. PICK u : u = r \o d /\ Joins(u, r, d)
    BY Zenon DEF Joins
  <2>2. /\ u \in Seq(CheckNames) /\ Len(u) = 6
        /\ u[1] = r[1] /\ u[3] = d[2] /\ u[4] = d[3] /\ u[5] = d[4] /\ u[6] = d[5]
    <3>1. Joins(u, r, d) /\ Len(r) = 1 /\ Len(d) = 5
      BY <1>1, <1>2, <2>1, Zenon
    <3>2. QED
      BY <3>1, JoinOneFive
  <2>3. QED
    BY <1>1, <1>2, <2>1, <2>2, Zenon
<1>5. NestedCi = s \o t
  BY Zenon, <1>1, <1>2, <1>3, <1>4 DEF NestedCi
<1>6. PICK u : u = NestedCi /\ Joins(u, s, t)
  BY <1>5, Zenon DEF Joins
<1>7. /\ u \in Seq(CheckNames) /\ Len(u) = 9 /\ u[1] = s[1] /\ u[3] = s[3]
      /\ u[4] = s[4] /\ u[5] = s[5] /\ u[6] = s[6] /\ u[8] = t[2] /\ u[9] = t[3]
  <2>1. Joins(u, s, t) /\ Len(s) = 6 /\ Len(t) = 3
    BY <1>3, <1>4, <1>6, Zenon
  <2>2. QED
    BY <2>1, JoinSixThree
<1>8. Row(u) /\ DOMAIN u = 1..9
  <2>1. Len(<< >>) = 0 /\ 0 # 9
    OBVIOUS
  <2>2. u # << >>
    BY <1>7, <2>1, Zenon
  <2>3. QED
    BY <1>7, <2>2, RowsOfMany, Zenon
<1>9. QED
  BY <1>3, <1>4, <1>6, <1>7, <1>8, Zenon

\* A gate of four and of five steps.
Four(s, x1, x2, x3, x4) == Row(s) /\ DOMAIN s = {1, 2, 3, 4} /\ s[1] = x1 /\ s[2] = x2 /\ s[3] = x3 /\ s[4] = x4
Five(s, x1, x2, x3, x4, x5) ==
  Row(s) /\ DOMAIN s = {1, 2, 3, 4, 5} /\ s[1] = x1 /\ s[2] = x2 /\ s[3] = x3 /\ s[4] = x4 /\ s[5] = x5

\* Four steps.
LEMMA FourSteps == ASSUME NEW x1, NEW x2, NEW x3, NEW x4 PROVE Four(<<x1, x2, x3, x4>>, x1, x2, x3, x4)
<1>1. PICK s : s = <<x1, x2, x3, x4>>
  BY Zenon
<1>2. Len(s) = 4 /\ DOMAIN s = 1..4 /\ s[1] = x1 /\ s[2] = x2 /\ s[3] = x3 /\ s[4] = x4
  BY <1>1
<1>3. QED
  BY <1>1, <1>2 DEF Four, Row

\* Five steps.
LEMMA FiveSteps == ASSUME NEW x1, NEW x2, NEW x3, NEW x4, NEW x5 PROVE Five(<<x1, x2, x3, x4, x5>>, x1, x2, x3, x4, x5)
<1>1. PICK s : s = <<x1, x2, x3, x4, x5>>
  BY Zenon
<1>2. Len(s) = 5 /\ DOMAIN s = 1..5 /\ s[1] = x1 /\ s[2] = x2 /\ s[3] = x3 /\ s[4] = x4 /\ s[5] = x5
  BY <1>1
<1>3. QED
  BY <1>1, <1>2 DEF Five, Row

\* The steps of the gates with more than one.
LEMMA CatalogSteps ==
  /\ StepsOf("local") = <<<<"tools">>>>
  /\ Four(StepsOf("prepush"), <<"existence warn">>, <<"imports strict">>, <<"publish strict">>, <<"tools">>)
  /\ Five(StepsOf("ci"), <<"tools">>, PlatformDoctor, <<"state strict">>, <<"boundaries">>, <<"publish strict">>)
  /\ Five(StepsOf("release"), <<"semver">>, <<"drift">>, <<"audit strict">>, NestedCi, <<"tools">>)
<1>1. StepsOf("local") = <<<<"tools">>>>
  BY Zenon DEF StepsOf, FindGate, LocalSteps
<1>2. StepsOf("prepush") = <<<<"existence warn">>, <<"imports strict">>, <<"publish strict">>, <<"tools">>>>
  BY Zenon DEF StepsOf, FindGate, PrepushSteps
<1>3. StepsOf("ci") = <<<<"tools">>, PlatformDoctor, <<"state strict">>, <<"boundaries">>, <<"publish strict">>>>
  BY Zenon DEF StepsOf, FindGate, CiSteps
<1>4. StepsOf("release") = <<<<"semver">>, <<"drift">>, <<"audit strict">>, NestedCi, <<"tools">>>>
  BY Zenon DEF StepsOf, FindGate, ReleaseSteps, NestedCi
<1>5. QED
  BY Zenon, <1>1, <1>2, <1>3, <1>4, FourSteps, FiveSteps

\* The catalog: every gate has steps and every step has checks.
LEMMA CatalogFact ==
  ASSUME NEW g \in Gates
  PROVE  Row(StepsOf(g)) /\ \A a \in DOMAIN StepsOf(g) : Row(StepsOf(g)[a])
<1>1. CASE g = "local"
  <2>1. Row(StepsOf(g)) /\ DOMAIN StepsOf(g) = {1} /\ StepsOf(g)[1] = <<"tools">>
    BY Zenon, <1>1, CatalogSteps, RowsOfOne
  <2>2. QED
    BY <2>1, RowsOfOne
<1>2. CASE g = "prepush"
  <2>0. PICK s : s = StepsOf(g)
    BY Zenon
  <2>1. Row(s) /\ DOMAIN s = {1, 2, 3, 4} /\ Row(s[1]) /\ Row(s[2]) /\ Row(s[3]) /\ Row(s[4])
    <3>1. Four(s, <<"existence warn">>, <<"imports strict">>, <<"publish strict">>, <<"tools">>)
      BY <1>2, <2>0, CatalogSteps, Zenon
    <3>2. Row(<<"existence warn">>) /\ Row(<<"imports strict">>) /\ Row(<<"publish strict">>) /\ Row(<<"tools">>)
      BY Zenon, RowsOfOne
    <3>3. QED
      BY <3>1, <3>2, Zenon DEF Four
  <2>2. \A a \in DOMAIN s : Row(s[a])
    BY Zenon, <2>1
  <2>3. QED
    BY <2>0, <2>1, <2>2, Zenon
<1>3. CASE g = "ci"
  <2>0. PICK s : s = StepsOf(g)
    BY Zenon
  <2>1. Row(s) /\ DOMAIN s = {1, 2, 3, 4, 5} /\ Row(s[1]) /\ Row(s[2]) /\ Row(s[3]) /\ Row(s[4]) /\ Row(s[5])
    <3>1. Five(s, <<"tools">>, PlatformDoctor, <<"state strict">>, <<"boundaries">>, <<"publish strict">>)
      BY <1>3, <2>0, CatalogSteps, Zenon
    <3>2. Row(<<"tools">>) /\ Row(<<"state strict">>) /\ Row(<<"boundaries">>) /\ Row(<<"publish strict">>)
      BY Zenon, RowsOfOne
    <3>3. QED
      BY <3>1, <3>2, DoctorChecks, Zenon DEF Five
  <2>2. \A a \in DOMAIN s : Row(s[a])
    BY Zenon, <2>1
  <2>3. QED
    BY <2>0, <2>1, <2>2, Zenon
<1>4. CASE g = "release"
  <2>0. PICK s : s = StepsOf(g)
    BY Zenon
  <2>1. Row(s) /\ DOMAIN s = {1, 2, 3, 4, 5} /\ Row(s[1]) /\ Row(s[2]) /\ Row(s[3]) /\ Row(s[4]) /\ Row(s[5])
    <3>1. Five(s, <<"semver">>, <<"drift">>, <<"audit strict">>, NestedCi, <<"tools">>)
      BY <1>4, <2>0, CatalogSteps, Zenon
    <3>2. Row(<<"semver">>) /\ Row(<<"drift">>) /\ Row(<<"audit strict">>) /\ Row(<<"tools">>)
      BY Zenon, RowsOfOne
    <3>3. QED
      BY <3>1, <3>2, NestedChecks, Zenon DEF Five
  <2>2. \A a \in DOMAIN s : Row(s[a])
    BY Zenon, <2>1
  <2>3. QED
    BY <2>0, <2>1, <2>2, Zenon
<1>5. QED
  BY Zenon, <1>1, <1>2, <1>3, <1>4 DEF Gates

\* A step of one check.
LEMMA RanOne == ASSUME NEW x, Ran(<<x>>) PROVE Vouched(x)
<1>1. QED
  BY RowsOfOne, Zenon DEF Ran

\* A gate that ran all its checks ran the ones it is read for.
LEMMA CatalogVouches ==
  ASSUME NEW g \in Gates, RanAll(g)
  PROVE  /\ g # "local" => Vouched("publish strict") /\ Vouched("tools")
         /\ g = "prepush" => Vouched("imports strict")
         /\ g \in {"ci", "release"} =>
              /\ Vouched("state strict") /\ Vouched("boundaries") /\ Vouched("workflows strict")
              /\ Vouched("replay strict") /\ Vouched("delivery strict")
         /\ g = "release" => Vouched("drift") /\ Vouched("audit strict")
<1>1. CASE g = "local"
  BY Zenon, <1>1
<1>2. CASE g = "prepush"
  <2>1. Ran(<<"imports strict">>) /\ Ran(<<"publish strict">>) /\ Ran(<<"tools">>)
    BY <1>2, CatalogSteps, Zenon DEF RanAll, Four
  <2>2. QED
    BY Zenon, <1>2, <2>1, RanOne
<1>3. CASE g = "ci"
  <2>1. Ran(<<"tools">>) /\ Ran(PlatformDoctor) /\ Ran(<<"state strict">>) /\ Ran(<<"boundaries">>) /\ Ran(<<"publish strict">>)
    BY <1>3, CatalogSteps, Zenon DEF RanAll, Five
  <2>2. Vouched("tools") /\ Vouched("state strict") /\ Vouched("boundaries") /\ Vouched("publish strict")
    BY Zenon, <2>1, RanOne
  <2>3. Vouched("workflows strict") /\ Vouched("replay strict") /\ Vouched("delivery strict")
    <3>1. \A b \in 1..5 : Vouched(PlatformDoctor[b])
      BY <2>1, DoctorChecks, Zenon DEF Ran
    <3>2. Vouched(PlatformDoctor[3]) /\ Vouched(PlatformDoctor[4]) /\ Vouched(PlatformDoctor[5])
      BY <3>1
    <3>3. QED
      BY <3>2, DoctorChecks, Zenon
  <2>4. QED
    BY Zenon, <1>3, <2>2, <2>3
<1>4. CASE g = "release"
  <2>1. Ran(<<"drift">>) /\ Ran(<<"audit strict">>) /\ Ran(NestedCi) /\ Ran(<<"tools">>)
    BY <1>4, CatalogSteps, Zenon DEF RanAll, Five
  <2>2. Vouched("drift") /\ Vouched("audit strict") /\ Vouched("tools")
    BY Zenon, <2>1, RanOne
  <2>3. \A b \in 1..9 : Vouched(NestedCi[b])
    BY Zenon, <2>1, NestedChecks DEF Ran
  <2>4. /\ Vouched(NestedCi[3]) /\ Vouched(NestedCi[4]) /\ Vouched(NestedCi[5]) /\ Vouched(NestedCi[6])
        /\ Vouched(NestedCi[8]) /\ Vouched(NestedCi[9])
    BY <2>3
  <2>5. QED
    BY <1>4, <2>2, <2>4, NestedChecks, Zenon
<1>5. QED
  BY Zenon, <1>1, <1>2, <1>3, <1>4 DEF Gates

\* validate-state in strict mode finds an entity whose owner the map does not name.
LEMMA StateVouches == ASSUME StatusOk("strict", ValidateState("strict")) PROVE OneOwner
<1>1. SUFFICES ASSUME NEW e \in Entities, NEW s \in OwnerServices, e \in tree.owns[s], tree.ownership[e] # s
               PROVE  FALSE
  BY Zenon DEF OneOwner
<1>2. \A x : <<"error", x>> \notin ValidateState("strict")
  BY Zenon, ErrorFails
<1>3. CASE tree.ownership[e] = "nobody"
  <2>1. <<"error", e>> \in Issues("strict", {x \in Entities : {y \in OwnerServices : x \in tree.owns[y]} # {} /\ tree.ownership[x] = "nobody"})
    BY Zenon, <1>1, <1>3, IssuesReport
  <2>2. <<"error", e>> \in ValidateState("strict")
    BY <2>1, Zenon DEF ValidateState
  <2>3. QED
    BY Zenon, <1>2, <2>2
<1>4. CASE tree.ownership[e] # "nobody"
  <2>1. <<"error", e>> \in Issues("strict", {x \in Entities :
           tree.ownership[x] # "nobody" /\ {y \in OwnerServices : x \in tree.owns[y]} \ {tree.ownership[x]} # {}})
    BY Zenon, <1>1, <1>4, IssuesReport
  <2>2. <<"error", e>> \in ValidateState("strict")
    BY <2>1, Zenon DEF ValidateState
  <2>3. QED
    BY Zenon, <1>2, <2>2
<1>5. QED
  BY Zenon, <1>3, <1>4

\* What a check reports is what it is read for.
LEMMA PassesVouch == ASSUME NEW check, Passes(check) PROVE Vouched(check)
<1>1. CASE check = "tools"
  BY Zenon, <1>1 DEF Passes, Vouched
<1>2. CASE check = "publish strict"
  <2>1. StatusOk("strict", ValidatePublishIntent("strict"))
    BY Zenon, <1>2 DEF Passes
  <2>2. tree.publish # "false" => <<"error", "publish">> \in ValidatePublishIntent("strict")
    BY Zenon, WhenReports, StrictErrors DEF ValidatePublishIntent
  <2>3. QED
    BY Zenon, <1>2, <2>1, <2>2, ErrorFails DEF Vouched
<1>3. CASE check = "imports strict"
  <2>1. StatusOk("strict", ValidateImports("strict"))
    BY Zenon, <1>3 DEF Passes
  <2>2. tree.import = "server" => <<"error", "forbidden">> \in ValidateImports("strict")
    BY Zenon, IssuesReport DEF ValidateImports
  <2>3. tree.import = "third_party" => <<"error", "allowlist">> \in ValidateImports("strict")
    BY Zenon, WhenReports, StrictErrors DEF ValidateImports
  <2>4. QED
    BY Zenon, <1>3, <2>1, <2>2, <2>3, ErrorFails DEF Vouched
<1>4. CASE check = "state strict"
  BY Zenon, <1>4, StateVouches DEF Passes, Vouched
<1>5. CASE check = "workflows strict"
  <2>1. StatusOk("strict", Issues("strict", tree.workflow))
    BY Zenon, <1>5 DEF Passes, ValidateWorkflows
  <2>2. \A x : x \notin tree.workflow
    BY Zenon, <2>1, IssuesReport, ErrorFails
  <2>3. QED
    BY Zenon, <1>5, <2>2 DEF Vouched
<1>6. CASE check = "replay strict"
  <2>1. StatusOk("strict", VerifyReplay)
    BY Zenon, <1>6 DEF Passes
  <2>2. tree.replay # "found" => <<"warn", tree.replay>> \in VerifyReplay
    BY Zenon, WhenReports DEF VerifyReplay
  <2>3. QED
    BY Zenon, <1>6, <2>1, <2>2, WarningFails DEF Vouched
<1>7. CASE check = "delivery strict"
  <2>1. StatusOk("strict", VerifyCounterDelivery)
    BY Zenon, <1>7 DEF Passes
  <2>2. tree.delivery # "found" => <<"warn", tree.delivery>> \in VerifyCounterDelivery
    BY Zenon, WhenReports DEF VerifyCounterDelivery
  <2>3. QED
    BY Zenon, <1>7, <2>1, <2>2, WarningFails DEF Vouched
<1>8. CASE check = "boundaries"
  BY Zenon, <1>8 DEF Passes, Vouched, BoundaryCheck
<1>9. CASE check = "drift"
  BY Zenon, <1>9 DEF Passes, Vouched, DriftCheck
<1>10. CASE check = "audit strict"
  BY Zenon, <1>10 DEF Passes, Vouched, AuditBackendCore
<1>11. QED
  BY Zenon, <1>1, <1>2, <1>3, <1>4, <1>5, <1>6, <1>7, <1>8, <1>9, <1>10 DEF Vouched

-----------------------------------------------------------------------------

\* The tags are in order, the release candidate after its release as the numeric
\* components have it.
LEMMA TagOrder ==
  /\ Precedes(<<0, 9, 0>>, <<0, 10, 0>>) /\ Precedes(<<0, 9, 0>>, <<1, 0, 0>>) /\ Precedes(<<0, 9, 0>>, <<1, 0, 0, 1>>)
  /\ Precedes(<<0, 10, 0>>, <<1, 0, 0>>) /\ Precedes(<<0, 10, 0>>, <<1, 0, 0, 1>>)
  /\ Precedes(<<1, 0, 0>>, <<1, 0, 0, 1>>)
<1>1. Precedes(<<0, 9, 0>>, <<0, 10, 0>>)
  BY DEF Precedes
<1>2. Precedes(<<0, 9, 0>>, <<1, 0, 0>>) /\ Precedes(<<0, 9, 0>>, <<1, 0, 0, 1>>)
  BY DEF Precedes
<1>3. Precedes(<<0, 10, 0>>, <<1, 0, 0>>) /\ Precedes(<<0, 10, 0>>, <<1, 0, 0, 1>>)
  BY DEF Precedes
<1>4. Precedes(<<1, 0, 0>>, <<1, 0, 0, 1>>)
  BY DEF Precedes
<1>5. QED
  BY Zenon, <1>1, <1>2, <1>3, <1>4

\* A tag that precedes another has no larger major and minor number.
LEMMA TagValue == ASSUME NEW u \in Tags, NEW t \in Tags, Precedes(u, t) PROVE 1000 * u[1] + u[2] <= 1000 * t[1] + t[2]
<1>1. QED
  BY DEF Precedes, Tags

\* latest_tag takes a tag that all others precede, and there is one.
LEMMA BaselineFact == ASSUME tree.tags \subseteq Tags PROVE BaselineIsNewest
<1>1. SUFFICES ASSUME tree.tags # {}, NEW t \in tree.tags PROVE 1000 * t[1] + t[2] <= 1000 * LatestTag[1] + LatestTag[2]
  BY Zenon DEF BaselineIsNewest
<1>2. \E x \in tree.tags : \A u \in tree.tags \ {x} : Precedes(u, x)
  <2>1. PICK a, b, c, d : a = <<0, 9, 0>> /\ b = <<0, 10, 0>> /\ c = <<1, 0, 0>> /\ d = <<1, 0, 0, 1>>
    BY Zenon
  <2>2. /\ Precedes(a, b) /\ Precedes(a, c) /\ Precedes(a, d) /\ Precedes(b, c) /\ Precedes(b, d) /\ Precedes(c, d)
        /\ \A u \in tree.tags : u = a \/ u = b \/ u = c \/ u = d
    BY <2>1, TagOrder, Zenon DEF Tags
  <2>3. CASE d \in tree.tags
    BY <2>2, <2>3, Zenon
  <2>4. CASE d \notin tree.tags /\ c \in tree.tags
    BY <2>2, <2>4, Zenon
  <2>5. CASE d \notin tree.tags /\ c \notin tree.tags /\ b \in tree.tags
    BY <2>2, <2>5, Zenon
  <2>6. CASE d \notin tree.tags /\ c \notin tree.tags /\ b \notin tree.tags
    <3>1. \A u \in tree.tags : u = a
      BY <2>2, <2>6, Zenon
    <3>2. a \in tree.tags
      BY <1>1, <3>1, Zenon
    <3>3. QED
      BY <3>1, <3>2, Zenon
  <2>7. QED
    BY <2>3, <2>4, <2>5, <2>6, Zenon
<1>3. LatestTag \in tree.tags /\ \A u \in tree.tags \ {LatestTag} : Precedes(u, LatestTag)
  BY <1>2, Zenon DEF LatestTag
<1>4. CASE t = LatestTag
  <2>1. t[1] \in Nat /\ t[2] \in Nat
    BY <1>1 DEF Tags
  <2>2. QED
    BY <1>4, <2>1
<1>5. CASE t # LatestTag
  <2>1. PICK l : l = LatestTag
    BY Zenon
  <2>2. l \in Tags /\ t \in Tags /\ Precedes(t, l)
    BY <1>1, <1>3, <1>5, <2>1, Zenon
  <2>3. 1000 * t[1] + t[2] <= 1000 * l[1] + l[2]
    BY <2>2, TagValue
  <2>4. QED
    BY <2>1, <2>3
<1>6. QED
  BY <1>4, <1>5

\* A strict report of a validator without an error or a warning leaves nothing.
LEMMA StrictFact == ASSUME TreeReadable PROVE StrictPassIsClean
<1>1. ASSUME StatusOk("strict", ValidateExistence("strict"))
      PROVE  IF tree.worker.declared = "active" THEN tree.worker.dir /\ tree.worker.files
             ELSE tree.worker.declared = "planned" \/ ~tree.worker.dir
  <2>1. /\ <<"error", "directory">> \notin ValidateExistence("strict")
        /\ <<"error", "required">> \notin ValidateExistence("strict")
        /\ <<"warn", "undeclared">> \notin ValidateExistence("strict")
    BY Zenon, <1>1, ErrorFails, WarningFails
  <2>2. tree.worker.declared = "active" => tree.worker.dir
    BY Zenon, <2>1, WhenReports, StrictErrors DEF ValidateExistence
  <2>3. tree.worker.declared = "active" => tree.worker.files
    BY Zenon, <2>1, <2>2, WhenReports, StrictErrors DEF ValidateExistence
  <2>4. tree.worker.declared = "no" => ~ tree.worker.dir
    BY Zenon, <2>1, WhenReports DEF ValidateExistence
  <2>5. QED
    BY Zenon, <2>2, <2>3, <2>4 DEF TreeReadable
<1>2. ASSUME StatusOk("strict", ValidateResilience("strict")), tree.worker.declared = "active"
      PROVE  /\ tree.worker.dir /\ tree.worker.src
             /\ tree.worker.mustHave \cap {"dedupe", "checkpoint"} \subseteq tree.worker.evidence
             /\ "dedupe_or_resume" \in tree.worker.mustHave => tree.worker.evidence # {}
  <2>1. \A x : <<"error", x>> \notin ValidateResilience("strict")
    BY Zenon, <1>2, ErrorFails
  <2>2. tree.worker.dir /\ tree.worker.src
    <3>1. ~ (tree.worker.dir /\ tree.worker.src) => ValidateResilience("strict") = Issues("strict", {"directory"})
      BY Zenon, <1>2 DEF ValidateResilience
    <3>2. <<"error", "directory">> \in Issues("strict", {"directory"})
      BY Zenon, IssuesReport
    <3>3. QED
      BY Zenon, <2>1, <3>1, <3>2
  <2>3. ValidateResilience("strict") = Issues("strict", {s \in tree.worker.mustHave : ~DetectStrategy(s)})
    BY Zenon, <1>2, <2>2 DEF ValidateResilience
  <2>4. \A s \in tree.worker.mustHave : DetectStrategy(s)
    BY Zenon, <2>1, <2>3, IssuesReport
  <2>5. QED
    BY Zenon, <2>2, <2>4 DEF DetectStrategy
<1>3. ASSUME StatusOk("strict", ValidateState("strict")) PROVE StatusOk("warn", ValidateState("warn"))
  <2>1. SUFFICES ASSUME NEW issue \in ValidateState("warn"), issue[1] = "error" PROVE issue \in ValidateState("strict")
    BY <1>3, Zenon DEF StatusOk
  <2>2. IssueSeverity("warn") = "warn"
    BY Zenon DEF IssueSeverity
  <2>3. \A scopes : issue \notin Issues("warn", scopes)
    BY <2>1, <2>2 DEF Issues
  <2>4. QED
    BY <2>1, <2>3, Zenon DEF ValidateState
<1>4. QED
  BY Zenon, <1>1, <1>2, <1>3 DEF StrictPassIsClean

-----------------------------------------------------------------------------

\* What was vouched for stands while nobody edits the tree.
LEMMA VouchedStays == ASSUME tree' = tree, NEW check PROVE Vouched(check)' <=> Vouched(check)
<1>1. OneOwner' <=> OneOwner
  BY Zenon DEF OneOwner
<1>2. QED
  BY Zenon, <1>1 DEF Vouched

\* A gate starts at its first check.
LEMMA BeginKeeps == ASSUME GateInv, BeginGate PROVE GateInv'
<1>1. PICK name \in Gates : gate' = name
  BY Zenon DEF BeginGate
<1>2. position' = <<1, 1>> /\ failures' = 0 /\ verdict' = "none" /\ tree' = tree
  BY Zenon DEF BeginGate
<1>3. position'[1] = 1 /\ position'[2] = 1
  BY Zenon, <1>2
<1>4. TreeReadable'
  BY Zenon, <1>2 DEF GateInv, TreeReadable
<1>5. Row(StepsOf(name)) /\ Row(StepsOf(name)[1])
  BY Zenon, CatalogFact DEF Row
<1>6. 1 \in DOMAIN StepsOf(name) /\ 1 \in DOMAIN StepsOf(name)[1]
  BY Zenon, <1>5 DEF Row
<1>7. RanBefore(name, 1, 1)'
  <2>1. \A a \in DOMAIN StepsOf(name) : ~ (a < 1) /\ \A b \in DOMAIN StepsOf(name)[a] : ~ (b < 1)
    BY CatalogFact DEF Row
  <2>2. QED
    BY Zenon, <2>1 DEF RanBefore
<1>8. QED
  BY Zenon, <1>1, <1>2, <1>3, <1>4, <1>6, <1>7 DEF GateInv

\* A check that passes is added to those before it; one that fails is counted, so
\* the gate does not say "passed".
LEMMA RunKeeps == ASSUME GateInv, RunCheck PROVE GateInv'
<1>1. /\ gate # "none" /\ verdict = "none" /\ gate' = gate /\ tree' = tree /\ editedDuring' = editedDuring
      /\ gate \in Gates /\ failures \in Nat
  BY Zenon DEF RunCheck, GateInv
<1>2. PICK g, i, k : g \in Gates /\ g = gate /\ i = position[1] /\ k = position[2]
  BY Zenon, <1>1
<1>3. /\ i \in DOMAIN StepsOf(g) /\ k \in DOMAIN StepsOf(g)[i]
      /\ failures = 0 /\ ~ editedDuring => RanBefore(g, i, k)
  BY <1>1, <1>2, Zenon DEF GateInv
<1>4. PICK step : step = StepsOf(g)[i]
  BY Zenon
<1>5. /\ Len(StepsOf(g)) \in Nat /\ DOMAIN StepsOf(g) = 1..Len(StepsOf(g))
      /\ Len(step) \in Nat /\ DOMAIN step = 1..Len(step)
      /\ \A a \in DOMAIN StepsOf(g) : 1 \in DOMAIN StepsOf(g)[a]
  BY <1>2, <1>3, <1>4, CatalogFact, Zenon DEF Row
<1>6. i \in Nat /\ k \in Nat /\ i >= 1 /\ i <= Len(StepsOf(g)) /\ k >= 1 /\ k <= Len(step)
  BY <1>3, <1>4, <1>5
<1>7. PICK ends \in BOOLEAN : ends <=> (~ Passes(step[k]) \/ k = Len(step))
  BY Zenon
<1>8. /\ failures' = failures + (IF Passes(step[k]) THEN 0 ELSE 1)
      /\ position' = IF ends THEN <<i + 1, 1>> ELSE <<i, k + 1>>
      /\ verdict' = CASE ~ Passes(step[k]) /\ mode = "strict" -> "blocked"
                      [] ends /\ i = Len(StepsOf(g)) /\ (Passes(step[k]) \/ mode # "strict") ->
                           IF failures + (IF Passes(step[k]) THEN 0 ELSE 1) = 0 THEN "passed" ELSE "warned"
                      [] OTHER -> "none"
  BY Zenon, <1>2, <1>4, <1>7 DEF RunCheck, StepsOf
<1>9. TreeReadable'
  BY Zenon, <1>1 DEF GateInv, TreeReadable
<1>10. \A c : Vouched(c)' <=> Vouched(c)
  BY Zenon, <1>1, VouchedStays
<1>11. CASE ~ Passes(step[k])
  <2>1. failures' = failures + 1 /\ failures' \in Nat /\ failures' # 0
    BY <1>1, <1>8, <1>11
  <2>2. verdict' # "passed" /\ (verdict' = "none" => i # Len(StepsOf(g))) /\ position' = <<i + 1, 1>>
    BY <1>1, <1>7, <1>8, <1>11
  <2>3. verdict' = "none" => position'[1] \in DOMAIN StepsOf(g) /\ position'[2] \in DOMAIN StepsOf(g)[position'[1]]
    <3>1. position'[1] = i + 1 /\ position'[2] = 1
      BY Zenon, <2>2
    <3>2. i # Len(StepsOf(g)) => i + 1 \in DOMAIN StepsOf(g)
      <4>1. PICK n \in Nat : n = Len(StepsOf(g))
        BY Zenon, <1>5
      <4>2. i # n => i + 1 \in 1..n
        BY <1>6, <4>1
      <4>3. QED
        BY <1>5, <4>1, <4>2, Zenon
    <3>3. QED
      BY <1>5, <2>2, <3>1, <3>2, Zenon
  <2>4. QED
    BY Zenon, <1>1, <1>2, <1>9, <2>1, <2>2, <2>3 DEF GateInv
<1>12. CASE Passes(step[k])
  <2>1. Vouched(step[k]) /\ failures' = failures
    BY <1>1, <1>8, <1>12, PassesVouch
  <2>2. ASSUME failures = 0, ~ editedDuring, NEW a \in DOMAIN StepsOf(g), NEW b \in DOMAIN StepsOf(g)[a],
               a < i \/ (a = i /\ (b < k \/ b = k))
        PROVE  Vouched(StepsOf(g)[a][b])'
    <3>1. Vouched(StepsOf(g)[a][b])
      BY Zenon, <1>3, <1>4, <2>1, <2>2 DEF RanBefore
    <3>2. QED
      BY <1>10, <3>1, Zenon
  <2>3. \A a \in DOMAIN StepsOf(g) : a \in Nat /\ \A b \in DOMAIN StepsOf(g)[a] : b \in Nat
    BY <1>2, CatalogFact DEF Row
  <2>4. CASE k # Len(step)
    <3>1. position' = <<i, k + 1>> /\ verdict' = "none"
      BY Zenon, <1>7, <1>8, <1>12, <2>4
    <3>2. position'[1] = i /\ position'[2] = k + 1
      BY Zenon, <3>1
    <3>3. k + 1 \in DOMAIN StepsOf(g)[i]
      <4>1. PICK n \in Nat : n = Len(step)
        BY Zenon, <1>5
      <4>2. k + 1 \in 1..n
        BY <1>6, <2>4, <4>1
      <4>3. QED
        BY <1>4, <1>5, <4>1, <4>2, Zenon
    <3>4. failures = 0 /\ ~ editedDuring => RanBefore(g, i, k + 1)'
      <4>1. SUFFICES ASSUME failures = 0, ~ editedDuring, NEW a \in DOMAIN StepsOf(g), NEW b \in DOMAIN StepsOf(g)[a],
                            a < i \/ (a = i /\ b < k + 1)
                     PROVE  Vouched(StepsOf(g)[a][b])'
        BY Zenon DEF RanBefore
      <4>2. a < i \/ (a = i /\ (b < k \/ b = k))
        BY <1>6, <2>3, <4>1
      <4>3. QED
        BY Zenon, <2>2, <4>1, <4>2
    <3>5. QED
      BY Zenon, <1>1, <1>2, <1>3, <1>9, <2>1, <3>1, <3>2, <3>3, <3>4 DEF GateInv
  <2>5. CASE k = Len(step) /\ i # Len(StepsOf(g))
    <3>1. position' = <<i + 1, 1>> /\ verdict' = "none"
      BY Zenon, <1>7, <1>8, <1>12, <2>5
    <3>2. position'[1] = i + 1 /\ position'[2] = 1
      BY Zenon, <3>1
    <3>3. i + 1 \in DOMAIN StepsOf(g) /\ 1 \in DOMAIN StepsOf(g)[i + 1]
      <4>1. PICK n \in Nat : n = Len(StepsOf(g))
        BY Zenon, <1>5
      <4>2. i + 1 \in 1..n
        BY <1>6, <2>5, <4>1
      <4>3. QED
        BY <1>5, <4>1, <4>2, Zenon
    <3>4. failures = 0 /\ ~ editedDuring => RanBefore(g, i + 1, 1)'
      <4>1. SUFFICES ASSUME failures = 0, ~ editedDuring, NEW a \in DOMAIN StepsOf(g), NEW b \in DOMAIN StepsOf(g)[a],
                            a < i + 1 \/ (a = i + 1 /\ b < 1)
                     PROVE  Vouched(StepsOf(g)[a][b])'
        BY Zenon DEF RanBefore
      <4>2. b \in 1..Len(StepsOf(g)[a])
        BY Zenon, <1>2, CatalogFact DEF Row
      <4>3. a < i \/ (a = i /\ (b < k \/ b = k))
        BY <1>4, <1>6, <2>3, <2>5, <4>1, <4>2
      <4>4. QED
        BY Zenon, <2>2, <4>1, <4>3
    <3>5. QED
      BY Zenon, <1>1, <1>2, <1>9, <2>1, <3>1, <3>2, <3>3, <3>4 DEF GateInv
  <2>6. CASE k = Len(step) /\ i = Len(StepsOf(g))
    <3>1. verdict' = (IF failures = 0 THEN "passed" ELSE "warned")
      BY <1>1, <1>7, <1>8, <1>12, <2>6
    <3>2. failures = 0 /\ ~ editedDuring => RanAll(g)'
      <4>1. SUFFICES ASSUME failures = 0, ~ editedDuring, NEW a \in DOMAIN StepsOf(g), NEW b \in DOMAIN StepsOf(g)[a]
                     PROVE  Vouched(StepsOf(g)[a][b])'
        BY Zenon DEF RanAll, Ran
      <4>2. b \in 1..Len(StepsOf(g)[a]) /\ a \in 1..Len(StepsOf(g))
        BY Zenon, <1>2, <1>5, CatalogFact DEF Row
      <4>3. a < i \/ (a = i /\ (b < k \/ b = k))
        BY <1>4, <1>5, <1>6, <2>6, <4>2
      <4>4. QED
        BY Zenon, <2>2, <4>1, <4>3
    <3>3. QED
      BY Zenon, <1>1, <1>2, <1>9, <2>1, <3>1, <3>2 DEF GateInv
  <2>7. QED
    BY Zenon, <2>4, <2>5, <2>6
<1>13. QED
  BY Zenon, <1>11, <1>12

\* An edit leaves the tree readable, and the gate knows nothing of it any more.
LEMMA EditKeeps == ASSUME GateInv, EditTree PROVE GateInv'
<1>1. /\ editedDuring' = TRUE /\ gate' = gate /\ position' = position /\ failures' = failures /\ verdict' = verdict
  BY Zenon DEF EditTree
<1>2. TreeReadable
  BY Zenon DEF GateInv
<1>3. TreeReadable'
  <2>1. CASE \E w \in WorkerEdits(tree.worker) : tree' = [tree EXCEPT !.worker = w]
    <3>1. PICK w \in WorkerEdits(tree.worker) : tree' = [tree EXCEPT !.worker = w]
      BY Zenon, <2>1
    <3>2. "declared" \in DOMAIN w /\ w.declared \in {"no", "planned", "active"}
      BY Zenon, <1>2, <3>1 DEF TreeReadable, WorkerEdits
    <3>3. DOMAIN tree' = DOMAIN tree /\ tree'.worker = w /\ tree'.tags = tree.tags
      BY Zenon, <1>2, <3>1 DEF TreeReadable
    <3>4. QED
      BY Zenon, <1>2, <3>2, <3>3 DEF TreeReadable
  <2>2. CASE \E t \in Tags : tree' = [tree EXCEPT !.tags = @ \cup {t}]
    BY Zenon, <1>2, <2>2 DEF TreeReadable
  <2>3. CASE DOMAIN tree' = DOMAIN tree /\ tree'.worker = tree.worker /\ tree'.tags = tree.tags
    BY Zenon, <1>2, <2>3 DEF TreeReadable
  <2>4. QED
    BY Zenon, <1>2, <2>1, <2>2, <2>3 DEF EditTree, TreeReadable
<1>4. QED
  BY Zenon, <1>1, <1>3 DEF GateInv

\* A passed gate has run the checks it is read for.
LEMMA GateSafe == ASSUME GateInv PROVE GatesVouch
<1>1. PassedGateVouches
  <2>1. SUFFICES ASSUME verdict = "passed", ~ editedDuring
                 PROVE  /\ gate # "local" => tree.publish = "false" /\ tree.tools
                        /\ gate = "prepush" => tree.import \notin {"server", "third_party"}
                        /\ gate \in {"ci", "release"} =>
                             /\ OneOwner /\ tree.crate # "other_service"
                             /\ tree.workflow = {} /\ {tree.replay, tree.delivery} = {"found"}
                        /\ gate = "release" => tree.generated = "clean" /\ ~tree.frontend
    BY Zenon DEF PassedGateVouches
  <2>2. RanAll(gate) /\ gate \in Gates
    BY Zenon, <2>1 DEF GateInv
  <2>3. /\ gate # "local" => Vouched("publish strict") /\ Vouched("tools")
        /\ gate = "prepush" => Vouched("imports strict")
        /\ gate \in {"ci", "release"} =>
             /\ Vouched("state strict") /\ Vouched("boundaries") /\ Vouched("workflows strict")
             /\ Vouched("replay strict") /\ Vouched("delivery strict")
        /\ gate = "release" => Vouched("drift") /\ Vouched("audit strict")
    BY Zenon, <2>2, CatalogVouches
  <2>4. QED
    BY <2>3 DEF Vouched
<1>2. QED
  BY Zenon, <1>1, StrictFact, BaselineFact DEF GatesVouch, GateInv, TreeReadable

\* Whatever was edited and whichever gates ran, a gate that says "passed" vouches
\* for the tree it ran on unless that was edited meanwhile, a strict report that
\* passes leaves nothing to report, and the SemVer baseline is the newest tag.
THEOREM GatesCorrect == GateInit /\ [][GateNext]_gateVars => []GatesVouch
<1>1. GateInit => GateInv
  BY DEF GateInit, GateInv, TreeReadable
<1>2. GateInv /\ [GateNext]_gateVars => GateInv'
  <2>1. SUFFICES ASSUME GateInv, [GateNext]_gateVars PROVE GateInv'
    BY Zenon
  <2>2. CASE UNCHANGED gateVars
    <3>1. \A c : Vouched(c)' <=> Vouched(c)
      BY Zenon, <2>2, VouchedStays DEF gateVars
    <3>2. QED
      BY Zenon, <2>1, <2>2, <3>1 DEF gateVars, GateInv, TreeReadable, RanBefore, RanAll, Ran
  <2>3. QED
    BY Zenon, <2>1, <2>2, BeginKeeps, RunKeeps, EditKeeps DEF GateNext
<1>3. GateInv => GatesVouch
  BY Zenon, GateSafe
<1>4. QED
  BY <1>1, <1>2, <1>3, PTL

-----------------------------------------------------------------------------
(* The validators of the platform model. *)

\* What every edit leaves as it is: the files have names the directory can hold.
ModelReadable ==
  /\ {"services", "deployables", "resources", "topology", "capabilities"} \subseteq DOMAIN model
  /\ services \subseteq ServiceNames
  /\ \A d \in deployables : "current" \in DOMAIN model.deployables[d] /\ model.deployables[d].current \in Statuses

\* A service reaches what it depends on and what is reached from there, and no more.
LEMMA ReachesFact ==
  ASSUME NEW s \in services
  PROVE  /\ Reaches(s) \subseteq services
         /\ \A t \in services : <<s, t>> \in BuildGraph => t \in Reaches(s)
         /\ \A u \in Reaches(s) : \A t \in services : <<u, t>> \in BuildGraph => t \in Reaches(s)
         /\ \A set \in SUBSET services : Follows(set, s) /\ (\A u \in set : Follows(set, u)) => Reaches(s) \subseteq set
<1>1. Reaches(s) \subseteq services
  BY Zenon DEF Reaches
<1>2. \A t \in services : <<s, t>> \in BuildGraph => t \in Reaches(s)
  BY Zenon DEF Reaches, Follows
<1>3. ASSUME NEW u \in Reaches(s), NEW t \in services, <<u, t>> \in BuildGraph PROVE t \in Reaches(s)
  <2>1. SUFFICES ASSUME NEW set \in SUBSET services, Follows(set, s), \A v \in set : Follows(set, v) PROVE t \in set
    BY Zenon DEF Reaches
  <2>2. u \in set
    BY <2>1, Zenon DEF Reaches
  <2>3. QED
    BY <1>3, <2>1, <2>2, Zenon DEF Follows
<1>4. \A set \in SUBSET services : Follows(set, s) /\ (\A u \in set : Follows(set, u)) => Reaches(s) \subseteq set
  BY Zenon DEF Reaches
<1>5. QED
  BY <1>1, <1>2, <1>3, <1>4, Zenon

\* What is reached from a service it reaches, a service reaches itself.
LEMMA ReachesOn ==
  ASSUME NEW s \in services, NEW t \in Reaches(s)
  PROVE  Reaches(t) \subseteq Reaches(s)
<1>1. t \in services
  BY ReachesFact, Zenon
<1>2. Follows(Reaches(s), t) /\ \A u \in Reaches(s) : Follows(Reaches(s), u)
  BY ReachesFact, Zenon DEF Follows
<1>3. Reaches(s) \in SUBSET services
  BY ReachesFact, Zenon
<1>4. QED
  BY <1>1, <1>2, <1>3, ReachesFact, Zenon

\* A service that reaches itself is on a cycle detect_cycles reports.
LEMMA CycleFound ==
  ASSUME DetectCycles = {}, NEW s \in services
  PROVE  s \notin Reaches(s)
<1>1. SUFFICES ASSUME s \in Reaches(s) PROVE FALSE
  OBVIOUS
<1>2. <<s, s>> \notin BuildGraph /\ \A t \in services \ {s} : t \in Reaches(s) => s \notin Reaches(t)
  BY Zenon DEF DetectCycles
<1>3. PICK set : set = Reaches(s) \ {s}
  BY Zenon
<1>4. set \in SUBSET services
  BY <1>3, ReachesFact, Zenon
<1>5. Follows(set, s)
  BY <1>2, <1>3, ReachesFact, Zenon DEF Follows
<1>6. ASSUME NEW u \in set PROVE Follows(set, u)
  <2>1. u \in services /\ u # s /\ u \in Reaches(s)
    BY <1>3, <1>4, Zenon
  <2>2. <<u, s>> \notin BuildGraph
    BY <1>2, <2>1, ReachesFact, Zenon
  <2>3. QED
    BY <1>3, <2>1, <2>2, ReachesFact, Zenon DEF Follows
<1>7. Reaches(s) \subseteq set
  BY <1>4, <1>5, <1>6, ReachesFact, Zenon
<1>8. QED
  BY <1>1, <1>3, <1>7, Zenon

\* Without a cycle the number of services a service reaches ranks it.
LEMMA GraphLayers == ASSUME ModelReadable PROVE PassedGraphIsLayered
<1>1. SUFFICES ASSUME DetectCycles = {}
               PROVE  \E rank \in [services -> 1..Cardinality(ServiceNames)] :
                        \A s, t \in services : <<s, t>> \in BuildGraph => rank[t] < rank[s]
  BY Zenon DEF PassedGraphIsLayered, DependencyGraphPasses
<1>2. PICK rank : rank = [s \in services |-> Cardinality(Reaches(s)) + 1]
  BY Zenon
<1>3. IsFiniteSet(ServiceNames) /\ services \subseteq ServiceNames
  BY ModelAssumption, Zenon DEF ModelReadable
<1>4. ASSUME NEW s \in services
      PROVE  /\ IsFiniteSet(Reaches(s)) /\ Cardinality(Reaches(s)) \in Nat
             /\ Cardinality(Reaches(s)) < Cardinality(ServiceNames)
  <2>1. Reaches(s) \subseteq ServiceNames /\ s \in ServiceNames /\ s \notin Reaches(s)
    BY <1>1, <1>3, ReachesFact, CycleFound, Zenon
  <2>2. IsFiniteSet(Reaches(s))
    BY <1>3, <2>1, FS_Subset, Zenon
  <2>3. /\ Cardinality(Reaches(s)) <= Cardinality(ServiceNames)
        /\ Cardinality(Reaches(s)) = Cardinality(ServiceNames) => Reaches(s) = ServiceNames
    BY <1>3, <2>1, FS_Subset, Zenon
  <2>4. Cardinality(Reaches(s)) \in Nat /\ Cardinality(ServiceNames) \in Nat
    BY <1>3, <2>2, FS_CardinalityType, Zenon
  <2>5. Cardinality(Reaches(s)) # Cardinality(ServiceNames)
    BY <2>1, <2>3, Zenon
  <2>6. QED
    BY <2>2, <2>3, <2>4, <2>5
<1>5. rank \in [services -> 1..Cardinality(ServiceNames)]
  <2>1. Cardinality(ServiceNames) \in Nat
    BY <1>3, FS_CardinalityType, Zenon
  <2>2. \A s \in services : Cardinality(Reaches(s)) + 1 \in 1..Cardinality(ServiceNames)
    <3>1. SUFFICES ASSUME NEW s \in services PROVE Cardinality(Reaches(s)) + 1 \in 1..Cardinality(ServiceNames)
      BY Zenon
    <3>2. PICK n \in Nat, m \in Nat : n = Cardinality(Reaches(s)) /\ m = Cardinality(ServiceNames) /\ n < m
      BY <1>4, <2>1, Zenon
    <3>3. n + 1 \in 1..m
      BY <3>2
    <3>4. QED
      BY <3>2, <3>3, Zenon
  <2>3. QED
    BY <1>2, <2>2, Zenon
<1>6. ASSUME NEW s \in services, NEW t \in services, <<s, t>> \in BuildGraph PROVE rank[t] < rank[s]
  <2>1. t \in Reaches(s) /\ Reaches(t) \subseteq Reaches(s) /\ t \notin Reaches(t)
    BY <1>1, <1>6, ReachesFact, ReachesOn, CycleFound, Zenon
  <2>2. /\ Cardinality(Reaches(t)) <= Cardinality(Reaches(s))
        /\ Cardinality(Reaches(t)) = Cardinality(Reaches(s)) => Reaches(t) = Reaches(s)
    BY <1>4, <2>1, FS_Subset, Zenon
  <2>3. Cardinality(Reaches(t)) # Cardinality(Reaches(s))
    BY <2>1, <2>2, Zenon
  <2>4. PICK n \in Nat, m \in Nat : n = Cardinality(Reaches(t)) /\ m = Cardinality(Reaches(s)) /\ n <= m /\ n # m
    BY <1>4, <2>2, <2>3, Zenon
  <2>5. n + 1 < m + 1
    BY <2>4
  <2>6. rank[t] = n + 1 /\ rank[s] = m + 1
    BY <1>2, <2>4, Zenon
  <2>7. QED
    BY <2>5, <2>6, Zenon
<1>7. QED
  BY <1>5, <1>6, Zenon

\* A model the doctor passes resolves: what the statuses, the references and the
\* bindings have to agree on is spread over four validators.
LEMMA ModelResolves == ASSUME ModelReadable PROVE PassedModelResolves
<1>1. SUFFICES ASSUME PlatformDoctorPasses
               PROVE  /\ \A d \in model.topology.deployables :
                           LET file == model.deployables[d] IN
                           /\ d \in deployables /\ file.services \subseteq services
                           /\ file.independent <=> IsCriticalDeployable(d)
                           /\ IsCriticalDeployable(d) => {file.package, file.entry} = {"there"}
                      /\ model.capabilities.files # {} /\ model.topology.capability = "database" =>
                           /\ model.topology.state \in model.capabilities.supported \cup {"none"}
                           /\ {model.topology.provider, model.capabilities.default}
                                \subseteq model.capabilities.providers \cup {"none"}
  BY Zenon DEF PassedModelResolves
<1>2. ASSUME NEW d \in model.topology.deployables
      PROVE  LET file == model.deployables[d] IN
             /\ d \in deployables /\ file.services \subseteq services
             /\ file.independent <=> IsCriticalDeployable(d)
             /\ IsCriticalDeployable(d) => {file.package, file.entry} = {"there"}
  <2>1. d \in deployables
    BY <1>1, Zenon DEF PlatformDoctorPasses, TopologyPasses
  <2>2. PICK file : file = model.deployables[d]
    BY Zenon
  <2>3. file.services \subseteq services
    BY <1>1, <2>1, <2>2, Zenon DEF PlatformDoctorPasses, DependencyGraphPasses, CheckDeployableServiceRefs
  <2>4. StatusConsistent(d) /\ file.current \in Statuses
    BY <1>1, <2>1, <2>2, Zenon DEF PlatformDoctorPasses, ModelLintPasses, ModelReadable
  <2>5. /\ file.current # "none"
        /\ file.current \in {"embedded", "stub", "planned"} => ~ file.independent
        /\ file.independent => file.package = "there" /\ file.entry = "there"
    BY <2>2, <2>4, Zenon DEF StatusConsistent
  <2>6. file.independent => file.current = "implemented"
    BY <2>4, <2>5, Zenon DEF Statuses
  <2>7. file.independent <=> IsCriticalDeployable(d)
    BY <2>2, <2>6, Zenon DEF IsCriticalDeployable
  <2>8. IsCriticalDeployable(d) => {file.package, file.entry} = {"there"}
    BY <2>5, <2>7, Zenon
  <2>9. QED
    BY <2>1, <2>2, <2>3, <2>7, <2>8, Zenon
<1>3. ASSUME model.capabilities.files # {}, model.topology.capability = "database"
      PROVE  /\ model.topology.state \in model.capabilities.supported \cup {"none"}
             /\ {model.topology.provider, model.capabilities.default} \subseteq model.capabilities.providers \cup {"none"}
  <2>1. "database" \in model.capabilities.files
    BY <1>1, <1>3, Zenon DEF PlatformDoctorPasses, ModelLintPasses, CapabilityBindings
  <2>2. /\ model.topology.state \in model.capabilities.supported \cup {"none"}
        /\ model.topology.provider \in model.capabilities.providers \cup {"none"}
    BY <1>1, <1>3, Zenon DEF PlatformDoctorPasses, ModelLintPasses, CapabilityBindings
  <2>3. model.capabilities.default \in model.capabilities.providers \cup {"none"}
    BY <1>1, <2>1, Zenon DEF PlatformDoctorPasses, ModelLintPasses, CapabilityNaming
  <2>4. QED
    BY <2>2, <2>3, Zenon
<1>4. QED
  BY <1>2, <1>3, Zenon

\* Without a warning nothing is left dangling either.
LEMMA SilentCompletes == SilentDoctorIsComplete
<1>1. SUFFICES ASSUME PlatformDoctorPasses, NoWarnings
               PROVE  /\ \A s \in services : model.services[s].deployable \in deployables
                      /\ \A d \in deployables :
                           /\ model.deployables[d].resources \subseteq resources
                           /\ model.deployables[d].current = "implemented" => d \in model.topology.deployables
                      /\ model.topology.deployables # {} => model.topology.overrides \subseteq resources
  BY Zenon DEF SilentDoctorIsComplete
<1>2. \A s \in services : model.services[s].deployable \in deployables
  BY <1>1, Zenon DEF NoWarnings, ModelLintWarns, CheckServiceDeployableRefs
<1>3. \A d \in deployables : model.deployables[d].resources \subseteq resources
  BY <1>1, Zenon DEF NoWarnings, ModelLintWarns, CheckResourceRefs
<1>4. \A d \in deployables : model.deployables[d].current = "implemented" => model.deployables[d].independent
  BY <1>1, Zenon DEF PlatformDoctorPasses, ModelLintPasses, StatusConsistent
<1>5. \A d \in deployables \ model.topology.deployables : ~ IsCriticalDeployable(d)
  BY <1>1, Zenon DEF NoWarnings, TopologyWarns
<1>6. \A d \in deployables : model.deployables[d].current = "implemented" => d \in model.topology.deployables
  BY <1>4, <1>5, Zenon DEF IsCriticalDeployable
<1>7. ASSUME NEW d \in model.topology.deployables PROVE model.topology.overrides \subseteq resources
  <2>1. d \in deployables
    BY <1>1, Zenon DEF PlatformDoctorPasses, TopologyPasses
  <2>2. model.topology.overrides \subseteq model.deployables[d].resources \cup resources
    BY <1>1, <2>1, Zenon DEF NoWarnings, TopologyWarns, UnknownOverrides
  <2>3. QED
    BY <1>3, <2>1, <2>2, Zenon
<1>8. QED
  BY <1>2, <1>3, <1>6, <1>7, Zenon

\* An edit of the model keeps the names and the statuses readable.
LEMMA ModelStep == ASSUME ModelReadable, [ModelNext]_modelVars PROVE ModelReadable'
<1>1. CASE UNCHANGED modelVars
  BY <1>1 DEF modelVars, ModelReadable, services, deployables
<1>2. CASE EditService
  <2>1. PICK s \in services :
           \/ \E file \in ServiceEdits(model.services[s]) : model' = [model EXCEPT !.services[s] = file]
           \/ model' = [model EXCEPT !.services = Without(@, s)]
    BY <1>2, Zenon DEF EditService
  <2>2. DOMAIN model' = DOMAIN model /\ model'.deployables = model.deployables
    BY <2>1 DEF ModelReadable
  <2>3. DOMAIN model'.services \subseteq DOMAIN model.services
    BY <2>1 DEF ModelReadable, Without
  <2>4. QED
    BY <2>2, <2>3 DEF ModelReadable, services, deployables
<1>3. CASE EditDeployable
  <2>1. PICK d \in deployables :
           \/ \E file \in DeployableEdits(model.deployables[d]) : model' = [model EXCEPT !.deployables[d] = file]
           \/ model' = [model EXCEPT !.deployables = Without(@, d)]
    BY <1>3, Zenon DEF EditDeployable
  <2>2. DOMAIN model' = DOMAIN model /\ model'.services = model.services
    BY <2>1 DEF ModelReadable
  <2>3. \A e \in DOMAIN model'.deployables : "current" \in DOMAIN model'.deployables[e] /\ model'.deployables[e].current \in Statuses
    <3>1. CASE \E file \in DeployableEdits(model.deployables[d]) : model' = [model EXCEPT !.deployables[d] = file]
      <4>1. PICK file \in DeployableEdits(model.deployables[d]) : model' = [model EXCEPT !.deployables[d] = file]
        BY <3>1, Zenon
      <4>2. PICK old : old = model.deployables[d] /\ "current" \in DOMAIN old /\ old.current \in Statuses
        BY Zenon DEF ModelReadable
      <4>3. file \in DeployableEdits(old)
        BY <4>2, Zenon
      <4>4. "current" \in DOMAIN file /\ file.current \in Statuses
        BY <4>2, <4>3, Zenon DEF DeployableEdits
      <4>5. model'.deployables = [model.deployables EXCEPT ![d] = file]
        BY <4>1 DEF ModelReadable
      <4>6. QED
        BY <4>4, <4>5 DEF ModelReadable, deployables
    <3>2. CASE model' = [model EXCEPT !.deployables = Without(@, d)]
      BY <3>2 DEF ModelReadable, Without, deployables
    <3>3. QED
      BY <2>1, <3>1, <3>2, Zenon
  <2>4. QED
    BY <2>2, <2>3 DEF ModelReadable, services, deployables
<1>4. CASE EditResource \/ EditTopology \/ EditCapability
  <2>1. DOMAIN model' = DOMAIN model /\ model'.services = model.services /\ model'.deployables = model.deployables
    BY <1>4 DEF ModelReadable, EditResource, EditTopology, EditCapability
  <2>2. QED
    BY <2>1 DEF ModelReadable, services, deployables
<1>5. QED
  BY <1>1, <1>2, <1>3, <1>4 DEF ModelNext

\* However the model was edited, one that platform-doctor and validate-deps pass
\* can be layered and resolves, and without warnings nothing in it is left dangling.
THEOREM DoctorCorrect == ModelInit /\ [][ModelNext]_modelVars => []DoctorVouches
<1>1. ASSUME ModelInit PROVE ModelReadable
  <2>1. \A d : "current" \in DOMAIN DeployableInOrder(d) /\ DeployableInOrder(d).current \in Statuses
    BY DEF DeployableInOrder, Statuses
  <2>2. {"services", "deployables", "resources", "topology", "capabilities"} \subseteq DOMAIN model
    BY Zenon, <1>1 DEF ModelInit
  <2>3. services \subseteq ServiceNames
    BY <1>1 DEF ModelInit, services
  <2>4. \A d \in deployables : model.deployables[d] = DeployableInOrder(d)
    BY <1>1 DEF ModelInit, deployables
  <2>. QED BY Zenon, <2>1, <2>2, <2>3, <2>4 DEF ModelReadable
<1>2. ModelReadable => DoctorVouches
  BY GraphLayers, ModelResolves, SilentCompletes, Zenon DEF DoctorVouches
<1>3. QED
  BY <1>1, <1>2, ModelStep, PTL
=============================================================================
